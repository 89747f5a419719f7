-------------------------- MODULE UniswapV4Proofs --------------------------
(***************************************************************************)
(* Theorems about UniswapV4, for every set of pools, every list of pool    *)
(* entries, both values of every option, every capacity of the buffer and  *)
(* every number of runs, connections, answers and log events.              *)
(***************************************************************************)
EXTENDS UniswapV4, SequenceTheorems, TLAPS

Streaming == pc \in {"subscribe", "select", "ackSleep", "publish"}

(* A connection that was not dialled yet is fresh; a reader quits only     *)
(* when the context of its run is done; an acknowledgement on its way      *)
(* means a subscription: the venue made it before the answer was sent, and *)
(* only the end of the stream drops it.                                    *)
Sound(s) ==
    /\ s > session => ses[s] = NoSession
    /\ ses[s].run <= runs
    /\ ses[s].reader = "quit" => CtxDone(s)
    /\ ses[s].held = "ack" => ses[s].subs > 0
    /\ \A i \in 1..Len(ses[s].buf) : ses[s].buf[i] = "ack" => ses[s].subs > 0

(* A stream runs over a connection of its own run, and over one with a     *)
(* subscription when it waits for frames without a timer.                  *)
ConnectionInv ==
    /\ Streaming => session > 0 /\ ses[session].run = runs
    /\ pc \in {"select", "publish"} /\ ~waiting => ses[session].subs > 0
    /\ \A s \in Sessions : Sound(s)

(* The marks of the once mode: a marked pool had its swap, and the swap in *)
(* hand completes the mode only if it marked the last one.  A run is       *)
(* followed by another one only when it has returned.                      *)
OnceInv ==
    /\ sup # "waiting" => pc = "done"
    /\ emitted \subseteq seen
    /\ completed => pc = "publish" /\ Once /\ pools \subseteq emitted
    /\ pc # "done" => result = "none"
    /\ OnceComplete

TypeInv == TypeOK /\ ConnectionInv

-----------------------------------------------------------------------------
(* The constants.                                                          *)
LEMMA Constants ==
    /\ WantedOnly \in BOOLEAN /\ Once \in BOOLEAN /\ StopOnAckError \in BOOLEAN
    /\ AckRetryMax \in Nat \ {0} /\ BufCap \in Nat \ {0} /\ MaxDelay \in Nat \ {0}
    /\ MaxRuns \in Nat \ {0} /\ MaxSessions \in Nat \ {0}
    /\ MaxAnswers \in Nat /\ MaxSwaps \in Nat
  BY V4Assumption

LEMMA NextDelayProperties ==
    ASSUME NEW d \in Delays
    PROVE  NextDelay(d) \in Delays /\ NextDelay(d) >= d
  BY V4Assumption, Constants DEF Delays, NextDelay, FirstDelay

(* The preparation yields pools only.                                      *)
LEMMA PreparedPools ==
    ASSUME NEW f \in Files
    PROVE  Prepared(f) \subseteq Pools
  <1>1. f \subseteq Entries /\ Inline \subseteq Entries
    BY V4Assumption
  <1>2. \A e \in Entries : e.pool \in Pools
    BY DEF Entries
  <1>3. FromFile(f) \subseteq Pools
    BY <1>1, <1>2 DEF FromFile, Wanted
  <1>4. {e.pool : e \in Wanted(Inline)} \subseteq Pools
    BY <1>1, <1>2 DEF Wanted
  <1>5. QED
    BY <1>3, <1>4 DEF Prepared

LEMMA FramesProperties ==
    /\ "none" \in Frames /\ "ack" \in Frames /\ "reject" \in Frames
    /\ \A p \in Pools : p \in Frames /\ p # "ack" /\ p # "reject" /\ p # "none"
    /\ \A f \in Frames : f \notin {"none", "ack", "reject"} => f \in Pools
  BY V4Assumption DEF Frames

LEMMA FreshConnection ==
    NoSession \in Connection /\ Len(NoSession.buf) = 0
  BY Constants, FramesProperties DEF NoSession, Connection

(* The frames in the buffer of a connection, one more, and one less.       *)
LEMMA Buffers ==
    ASSUME TypeOK, NEW s \in Sessions
    PROVE  LET b == ses[s].buf IN
           /\ ses[s] \in Connection
           /\ b \in Seq(Frames) /\ Len(b) \in Nat /\ DOMAIN b = 1..Len(b)
           /\ Len(b) <= BufCap
  <1>1. ses[s] \in Connection /\ ses[s].buf \in Seq(Frames) /\ Len(ses[s].buf) <= BufCap
    BY DEF TypeOK, Connection
  <1>2. QED
    BY <1>1, LenProperties

LEMMA TakenBuffer ==
    ASSUME TypeOK, NEW s \in Sessions, ses[s].buf # <<>>
    PROVE  LET b == ses[s].buf IN
           /\ Head(b) = b[1] /\ b[1] \in Frames /\ 1 \in 1..Len(b)
           /\ Tail(b) \in Seq(Frames)
           /\ Len(Tail(b)) = Len(b) - 1 /\ Len(Tail(b)) \in Nat
           /\ \A i \in 1..Len(Tail(b)) : Tail(b)[i] = b[i + 1] /\ i + 1 \in 1..Len(b)
  <1> DEFINE b == ses[s].buf
  <1>1. b \in Seq(Frames) /\ b # <<>> /\ Len(b) \in Nat \ {0}
    BY Buffers, EmptySeq
  <1> HIDE DEF b
  <1>2. /\ Head(b) = b[1] /\ Tail(b) \in Seq(Frames)
        /\ Len(Tail(b)) = Len(b) - 1
        /\ \A i \in 1..Len(Tail(b)) : Tail(b)[i] = b[i + 1]
    BY <1>1, HeadTailProperties
  <1>3. 1 \in 1..Len(b) /\ b[1] \in Frames
    BY <1>1, ElementOfSeq
  <1>4. QED
    BY <1>1, <1>2, <1>3 DEF b

LEMMA PushedBuffer ==
    ASSUME TypeOK, NEW s \in Sessions
    PROVE  LET b == ses[s].buf
               c == Append(b, ses[s].held) IN
           /\ c \in Seq(Frames)
           /\ Len(c) = Len(b) + 1
           /\ \A i \in 1..Len(b) : c[i] = b[i]
           /\ c[Len(b) + 1] = ses[s].held
  <1>1. ses[s].buf \in Seq(Frames) /\ ses[s].held \in Frames
    BY Buffers DEF Connection
  <1>2. QED
    BY <1>1, AppendProperties

LEMMA EmptiedBuffer ==
    ASSUME NEW b \in Seq(Frames)
    PROVE  LET c == [i \in DOMAIN b |-> "none"] IN
           /\ c \in Seq(Frames) /\ Len(c) = Len(b)
           /\ \A i \in 1..Len(c) : c[i] = "none"
  <1>1. Len(b) \in Nat /\ DOMAIN b = 1..Len(b)
    BY LenProperties
  <1>2. [i \in 1..Len(b) |-> "none"] \in Seq(Frames)
    BY <1>1, FramesProperties
  <1>3. QED
    BY <1>1, <1>2, LenProperties

-----------------------------------------------------------------------------
(* What runStream leaves of its connection.                                *)
Over(now) == [NoSession EXCEPT !.run = runs, !.link = "closed",
                               !.reader = now[session].reader,
                               !.buf = [i \in DOMAIN now[session].buf |-> "none"]]

LEMMA OverProperties ==
    ASSUME TypeOK, NEW now \in [Sessions -> Connection], session \in Sessions,
           Len(now[session].buf) <= BufCap
    PROVE  /\ Over(now) \in Connection
           /\ Len(Over(now).buf) <= BufCap
           /\ \A i \in 1..Len(Over(now).buf) : Over(now).buf[i] = "none"
           /\ Over(now).run = runs /\ Over(now).subs = 0 /\ Over(now).held = "none"
           /\ Over(now).reader = now[session].reader
  <1> DEFINE b == now[session].buf
             c == [i \in DOMAIN b |-> "none"]
  <1>1. now[session] \in Connection
    OBVIOUS
  <1>2. b \in Seq(Frames) /\ now[session].reader \in {"off", "reading", "pushing", "failed", "quit"}
    BY <1>1 DEF Connection
  <1>3. c \in Seq(Frames) /\ Len(c) = Len(b) /\ \A i \in 1..Len(c) : c[i] = "none"
    BY <1>2, EmptiedBuffer
  <1>4. runs \in 0..MaxRuns
    BY Constants DEF TypeOK
  <1>5. Over(now) = [NoSession EXCEPT !.run = runs, !.link = "closed",
                        !.reader = now[session].reader, !.buf = c]
    BY DEF Over
  <1> HIDE DEF c
  <1>6. Over(now) = [run |-> runs, link |-> "closed", reader |-> now[session].reader,
                     held |-> "none", buf |-> c, asked |-> 0, answers |-> 0,
                     subs |-> 0, logs |-> 0]
    BY <1>5 DEF NoSession
  <1>7. QED
    BY <1>2, <1>3, <1>4, <1>6, FramesProperties DEF Connection

LEMMA EndStreamType ==
    ASSUME TypeOK, NEW now \in [Sessions -> Connection], session \in Sessions,
           \A s \in Sessions : Len(now[s].buf) <= BufCap,
           NEW r \in {"nil", "ctx", "error", "once"}, EndStream(r, now)
    PROVE  /\ ses' \in [Sessions -> Connection]
           /\ \A s \in Sessions : Len(ses'[s].buf) <= BufCap
           /\ waiting' = FALSE /\ failures' = 0
           /\ backoff' \in Delays
           /\ pc' \in {"dial", "sleep", "done"}
           /\ cancelled' \in BOOLEAN
           /\ result' \in {"none", "error", "once", "ctx"}
  <1>1. ses' = [now EXCEPT ![session] = Over(now)]
    BY DEF EndStream, Over
  <1>2. Over(now) \in Connection /\ Len(Over(now).buf) <= BufCap
    BY OverProperties
  <1>3. /\ ses' \in [Sessions -> Connection]
        /\ \A s \in Sessions : Len(ses'[s].buf) <= BufCap
    BY <1>1, <1>2
  <1>4. FirstDelay \in Delays
    BY V4Assumption, Constants DEF Delays, FirstDelay
  <1>5. CASE r = "nil"
    BY <1>3, <1>4, <1>5 DEF EndStream, TypeOK
  <1>6. CASE r # "nil" /\ cancelled
    BY <1>3, <1>6 DEF EndStream, TypeOK, Return
  <1>7. CASE r = "once" /\ ~cancelled
    BY <1>3, <1>7 DEF EndStream, TypeOK, Return
  <1>8. CASE r \notin {"nil", "once"} /\ ~cancelled
    BY <1>3, <1>8 DEF EndStream, TypeOK
  <1>9. QED
    BY <1>5, <1>6, <1>7, <1>8

-----------------------------------------------------------------------------
LEMMA ConnectionStep ==
    ASSUME TypeOK, NEW s \in Sessions, NEW c \in Connection, Len(c.buf) <= BufCap,
           ses' = [ses EXCEPT ![s] = c]
    PROVE  ses' \in [Sessions -> Connection] /\ \A t \in Sessions : Len(ses'[t].buf) <= BufCap
  BY DEF TypeOK

LEMMA TypeInit == Init => TypeInv
  <1> SUFFICES ASSUME Init PROVE TypeInv
    OBVIOUS
  <1>1. FirstDelay \in Delays /\ 1 \in 1..MaxRuns /\ 0 \in 0..MaxSessions /\ 0 \in 0..AckRetryMax
    BY V4Assumption, Constants DEF Delays, FirstDelay
  <1>2. ses \in [Sessions -> Connection] /\ \A s \in Sessions : Len(ses[s].buf) <= BufCap
    BY FreshConnection, Constants DEF Init
  <1>3. TypeOK
    BY <1>1, <1>2 DEF Init, TypeOK
  <1>4. ConnectionInv
    <2>1. \A s \in Sessions : ses[s] = NoSession /\ runs = 1
      BY DEF Init
    <2>2. ASSUME NEW s \in Sessions PROVE Sound(s)
      BY <2>1, FreshConnection DEF Sound, NoSession
    <2>3. QED
      BY <2>2 DEF Init, ConnectionInv, Streaming
  <1>5. QED
    BY <1>3, <1>4 DEF TypeInv

LEMMA BootstrapType ==
    ASSUME TypeOK, Bootstrap
    PROVE  TypeOK'
  <1>1. abi' \in {"unread", "good", "bad"}
    BY DEF TypeOK, Bootstrap
  <1>2. CASE Return("error") /\ UNCHANGED <<poolVars, backoff>>
    BY <1>1, <1>2 DEF TypeOK, Bootstrap, Return, poolVars, supVars, ackVars
  <1>3. CASE (\E f \in Files : pools' = Prepared(f)) /\ emitted' = {} /\ seen' = {}
             /\ backoff' = FirstDelay /\ pc' = "dial" /\ UNCHANGED <<result, cancelled>>
    <2>1. pools' \subseteq Pools /\ FirstDelay \in Delays
      BY <1>3, PreparedPools, V4Assumption, Constants DEF Delays, FirstDelay
    <2>2. QED
      BY <1>1, <1>3, <2>1 DEF TypeOK, Bootstrap, supVars, ackVars
  <1>4. QED
    BY <1>2, <1>3 DEF Bootstrap

LEMMA DialType ==
    ASSUME TypeOK, Dial
    PROVE  TypeOK'
  <1> USE DEF TypeOK, Dial, poolVars, supVars, ackVars
  <1>1. CASE Return("ctx") /\ UNCHANGED <<session, ses>>
    BY <1>1 DEF Return
  <1>2. CASE pc' = "sleep" /\ UNCHANGED <<result, cancelled, session, ses>>
    BY <1>2
  <1>3. CASE /\ session < MaxSessions
             /\ session' = session + 1
             /\ ses' = [ses EXCEPT ![session + 1].link = "up", ![session + 1].run = runs]
             /\ pc' = "subscribe" /\ UNCHANGED <<result, cancelled>>
    <2> DEFINE s == session + 1
               c == [ses[s] EXCEPT !.link = "up", !.run = runs]
    <2>1. s \in Sessions /\ s \in 0..MaxSessions
      BY <1>3, Constants DEF Sessions
    <2>2. c \in Connection /\ Len(c.buf) <= BufCap
      <3>1. ses[s] \in Connection /\ Len(ses[s].buf) <= BufCap /\ runs \in 0..MaxRuns
        BY <2>1, Constants
      <3>2. QED
        BY <3>1 DEF Connection
    <2>3. ses' = [ses EXCEPT ![s] = c]
      BY <1>3, <2>1
    <2>4. ses' \in [Sessions -> Connection] /\ \A t \in Sessions : Len(ses'[t].buf) <= BufCap
      BY <2>1, <2>2, <2>3, ConnectionStep
    <2>5. QED
      BY <1>3, <2>1, <2>4
  <1>4. QED
    BY <1>1, <1>2, <1>3

LEMMA SubscribeType ==
    ASSUME TypeOK, Subscribe, session \in Sessions
    PROVE  TypeOK'
  <1> USE DEF TypeOK, Subscribe, poolVars, supVars, ackVars
  <1>1. ses[session] \in Connection /\ Len(ses[session].buf) <= BufCap
    OBVIOUS
  <1>. Asked(session) \in Nat
    BY <1>1 DEF Connection, Asked
  <1>2. CASE /\ ses' = [ses EXCEPT ![session].asked = Asked(session),
                                   ![session].reader = "reading"]
             /\ waiting' = TRUE /\ failures' = 0
             /\ pc' = "select"
    <2> DEFINE c == [ses[session] EXCEPT !.asked = Asked(session), !.reader = "reading"]
    <2>1. c \in Connection /\ Len(c.buf) <= BufCap
      BY <1>1 DEF Connection
    <2>2. ses' = [ses EXCEPT ![session] = c]
      BY <1>2
    <2>3. ses' \in [Sessions -> Connection] /\ \A t \in Sessions : Len(ses'[t].buf) <= BufCap
      BY <2>1, <2>2, ConnectionStep
    <2>4. QED
      BY <1>2, <2>3, Constants
  <1>3. CASE /\ ses' = [ses EXCEPT ![session].link = "closed"]
             /\ pc' = "sleep"
             /\ UNCHANGED ackVars
    <2> DEFINE c == [ses[session] EXCEPT !.link = "closed"]
    <2>1. c \in Connection /\ Len(c.buf) <= BufCap
      BY <1>1 DEF Connection
    <2>2. ses' = [ses EXCEPT ![session] = c]
      BY <1>3
    <2>3. ses' \in [Sessions -> Connection] /\ \A t \in Sessions : Len(ses'[t].buf) <= BufCap
      BY <2>1, <2>2, ConnectionStep
    <2>4. QED
      BY <1>3, <2>3
  <1>4. QED
    BY <1>2, <1>3

LEMMA SleepType ==
    ASSUME TypeOK, Sleep
    PROVE  TypeOK'
  <1> USE DEF TypeOK, Sleep, poolVars, supVars, ackVars
  <1>1. CASE Return("ctx") /\ UNCHANGED backoff
    BY <1>1 DEF Return
  <1>2. CASE backoff' = NextDelay(backoff) /\ pc' = "dial" /\ UNCHANGED <<result, cancelled>>
    BY <1>2, NextDelayProperties
  <1>3. QED
    BY <1>1, <1>2

(* A step that ends the stream, and one after a failed subscription.       *)
LEMMA EndedType ==
    ASSUME TypeOK, session \in Sessions, NEW now \in [Sessions -> Connection],
           \A s \in Sessions : Len(now[s].buf) <= BufCap,
           NEW r \in {"nil", "ctx", "error", "once"}, EndStream(r, now),
           UNCHANGED <<supVars, abi, poolVars, session>>, completed' \in BOOLEAN
    PROVE  TypeOK'
  <1>1. /\ ses' \in [Sessions -> Connection]
        /\ \A s \in Sessions : Len(ses'[s].buf) <= BufCap
        /\ waiting' = FALSE /\ failures' = 0
        /\ backoff' \in Delays
        /\ pc' \in {"dial", "sleep", "done"}
        /\ cancelled' \in BOOLEAN
        /\ result' \in {"none", "error", "once", "ctx"}
    BY EndStreamType
  <1>2. failures' \in 0..AckRetryMax /\ waiting' \in BOOLEAN
    <2>1. 0 \in 0..AckRetryMax
      BY Constants
    <2>2. QED
      BY <1>1, <2>1
  <1>3. pc' \in {"bootstrap", "dial", "subscribe", "sleep", "select", "ackSleep",
                "publish", "done"}
    BY <1>1
  <1>4. UNCHANGED <<stop, sup, runs, abi, pools, emitted, seen, session>>
    BY DEF supVars, poolVars
  <1>5. QED
    BY <1>1, <1>2, <1>3, <1>4 DEF TypeOK

LEMMA FailedType ==
    ASSUME TypeOK, session \in Sessions, NEW now \in [Sessions -> Connection],
           \A s \in Sessions : Len(now[s].buf) <= BufCap,
           NEW armed \in BOOLEAN, Failed(armed, now),
           UNCHANGED <<supVars, abi, poolVars, session, completed>>
    PROVE  TypeOK'
  <1>1. CASE EndStream("error", now)
    BY <1>1, EndedType DEF TypeOK
  <1>2. CASE /\ failures + 1 < AckRetryMax /\ failures' = failures + 1
             /\ pc' = "ackSleep" /\ waiting' = armed /\ ses' = now
             /\ UNCHANGED <<result, cancelled, backoff>>
    BY <1>2, Constants DEF TypeOK, supVars, poolVars
  <1>3. CASE ~(StopOnAckError \/ failures + 1 >= AckRetryMax)
    <2>1. failures + 1 < AckRetryMax
      BY <1>3, Constants DEF TypeOK
    <2>2. QED
      BY <1>2, <1>3, <2>1 DEF Failed
  <1>4. QED
    BY <1>1, <1>3 DEF Failed

(* The connections as they are, and with one frame taken from the buffer   *)
(* of the current one.                                                     *)
Taken == [ses EXCEPT ![session].buf = Tail(@)]

LEMMA NowType ==
    ASSUME TypeOK
    PROVE  ses \in [Sessions -> Connection] /\ \A s \in Sessions : Len(ses[s].buf) <= BufCap
  BY DEF TypeOK

LEMMA TakenType ==
    ASSUME TypeOK, session \in Sessions, ses[session].buf # <<>>
    PROVE  /\ Taken \in [Sessions -> Connection]
           /\ \A s \in Sessions : Len(Taken[s].buf) <= BufCap
           /\ Taken[session] = [ses[session] EXCEPT !.buf = Tail(ses[session].buf)]
           /\ \A s \in Sessions : s # session => Taken[s] = ses[s]
  <1> DEFINE b == ses[session].buf
             t == Tail(b)
             c == [ses[session] EXCEPT !.buf = t]
  <1>1. /\ ses[session] \in Connection /\ Len(b) <= BufCap /\ Len(b) \in Nat
        /\ t \in Seq(Frames) /\ Len(t) = Len(b) - 1
    BY Buffers, TakenBuffer
  <1>2. BufCap \in Nat
    BY Constants
  <1> HIDE DEF t
  <1>3. c \in Connection /\ c.buf = t
    BY <1>1 DEF Connection
  <1>4. Len(c.buf) <= BufCap
    BY <1>1, <1>2, <1>3
  <1>5. ses \in [Sessions -> Connection]
    BY DEF TypeOK
  <1>6. Taken = [ses EXCEPT ![session] = c]
    BY <1>5 DEF Taken, t
  <1> HIDE DEF c, b
  <1>7. /\ Taken \in [Sessions -> Connection]
        /\ Taken[session] = c
        /\ \A s \in Sessions : s # session => Taken[s] = ses[s]
    BY <1>3, <1>5, <1>6
  <1>8. \A s \in Sessions : Len(Taken[s].buf) <= BufCap
    BY <1>4, <1>7 DEF TypeOK
  <1>9. QED
    BY <1>7, <1>8 DEF c, t, b

(* What a step over the current connection does when it does not end the   *)
(* stream.                                                                 *)
LEMMA TakeFrameCases ==
    ASSUME TypeOK, session \in Sessions, TakeFrame
    PROVE  /\ pc = "select" /\ ses[session].buf # <<>>
           /\ UNCHANGED <<supVars, abi, session>>
           /\ LET f == ses[session].buf[1] IN
              \/ /\ f = "ack" /\ failures' = 0 /\ waiting' = FALSE /\ ses' = Taken
                 /\ UNCHANGED <<poolVars, completed, pc, result, cancelled, backoff>>
              \/ Failed(FALSE, Taken) /\ UNCHANGED <<poolVars, completed>>
              \/ ses' = Taken /\ IgnoreLog
              \/ f \in Pools /\ ses' = Taken /\ HandleSwap(f)
  <1>1. pc = "select" /\ ses[session].buf # <<>> /\ UNCHANGED <<supVars, abi, session>>
    BY DEF TakeFrame
  <1>2. Head(ses[session].buf) = ses[session].buf[1] /\ ses[session].buf[1] \in Frames
    BY <1>1, TakenBuffer
  <1>3. ASSUME NEW p, HandleSwap(p) PROVE p \in Pools
    BY <1>3 DEF HandleSwap, TypeOK
  <1>4. CASE Head(ses[session].buf) = "ack"
    BY <1>1, <1>2, <1>4 DEF TakeFrame, Taken
  <1>5. CASE Head(ses[session].buf) = "reject"
    BY <1>1, <1>2, <1>5 DEF TakeFrame, Taken
  <1>6. CASE Head(ses[session].buf) \notin {"ack", "reject"}
    BY <1>1, <1>2, <1>3, <1>6 DEF TakeFrame, Taken
  <1>7. QED
    BY <1>4, <1>5, <1>6

LEMMA TakeFrameType ==
    ASSUME TypeOK, session \in Sessions, TakeFrame
    PROVE  TypeOK'
  <1> DEFINE f == ses[session].buf[1]
  <1>1. /\ pc = "select" /\ ses[session].buf # <<>>
        /\ UNCHANGED <<supVars, abi, session>>
    BY TakeFrameCases
  <1>2. Taken \in [Sessions -> Connection] /\ \A s \in Sessions : Len(Taken[s].buf) <= BufCap
    BY <1>1, TakenType
  <1>3. CASE /\ failures' = 0 /\ waiting' = FALSE /\ ses' = Taken
             /\ UNCHANGED <<poolVars, completed, pc, result, cancelled, backoff>>
    <2>1. 0 \in 0..AckRetryMax
      BY Constants
    <2>2. QED
      BY <1>1, <1>2, <1>3, <2>1 DEF TypeOK, supVars, poolVars
  <1>4. CASE Failed(FALSE, Taken) /\ UNCHANGED <<poolVars, completed>>
    BY <1>1, <1>2, <1>4, FailedType
  <1>5. CASE ses' = Taken /\ IgnoreLog
    BY <1>1, <1>2, <1>5 DEF TypeOK, supVars, poolVars, ackVars, IgnoreLog
  <1>6. CASE f \in Pools /\ ses' = Taken /\ HandleSwap(f)
    <2>1. emitted' \subseteq Pools /\ seen' \subseteq Pools /\ pools' \subseteq Pools
      BY <1>6 DEF TypeOK, HandleSwap
    <2>2. completed' \in BOOLEAN
      BY <1>6 DEF HandleSwap, Completes
    <2>3. QED
      BY <1>1, <1>2, <1>6, <2>1, <2>2 DEF TypeOK, supVars, ackVars, HandleSwap
  <1>7. QED
    BY <1>3, <1>4, <1>5, <1>6, TakeFrameCases

LEMMA SelectType ==
    ASSUME TypeOK, session \in Sessions, StreamCancelled \/ ReaderEnded \/ AckTimeout
    PROVE  TypeOK'
  <1>1. /\ ses \in [Sessions -> Connection] /\ \A s \in Sessions : Len(ses[s].buf) <= BufCap
        /\ UNCHANGED <<supVars, abi, poolVars, session>> /\ completed' \in BOOLEAN
        /\ UNCHANGED completed
    BY NowType DEF StreamCancelled, ReaderEnded, AckTimeout, TypeOK
  <1>2. ASSUME NEW r \in {"nil", "ctx", "error", "once"}, EndStream(r, ses)
        PROVE  TypeOK'
    BY <1>1, <1>2, EndedType
  <1>3. CASE StreamCancelled
    BY <1>2, <1>3 DEF StreamCancelled
  <1>4. CASE ReaderEnded
    BY <1>2, <1>4 DEF ReaderEnded
  <1>5. CASE AckTimeout
    BY <1>1, <1>5, FailedType DEF AckTimeout
  <1>6. QED
    BY <1>3, <1>4, <1>5

LEMMA ResubscribeType ==
    ASSUME TypeOK, session \in Sessions, Resubscribe
    PROVE  TypeOK'
  <1>1. /\ ses \in [Sessions -> Connection] /\ \A s \in Sessions : Len(ses[s].buf) <= BufCap
        /\ UNCHANGED <<supVars, abi, poolVars, session, completed>> /\ completed' \in BOOLEAN
    BY NowType DEF Resubscribe, TypeOK
  <1>2. CASE EndStream("ctx", ses) \/ EndStream("error", ses)
    BY <1>1, <1>2, EndedType
  <1>3. CASE /\ ses' = [ses EXCEPT ![session].asked = Asked(session)]
             /\ waiting' = TRUE /\ pc' = "select"
             /\ UNCHANGED <<failures, result, cancelled, backoff>>
    <2> DEFINE c == [ses[session] EXCEPT !.asked = Asked(session)]
    <2>1. ses[session] \in Connection /\ Len(ses[session].buf) <= BufCap
      BY <1>1
    <2>2. Asked(session) \in Nat
      BY <2>1 DEF Connection, Asked
    <2>3. c \in Connection /\ Len(c.buf) <= BufCap
      BY <2>1, <2>2 DEF Connection
    <2>4. ses' = [ses EXCEPT ![session] = c]
      BY <1>3
    <2>5. ses' \in [Sessions -> Connection] /\ \A t \in Sessions : Len(ses'[t].buf) <= BufCap
      BY <2>3, <2>4, ConnectionStep
    <2>6. QED
      BY <1>1, <1>3, <2>5 DEF TypeOK, supVars, poolVars
  <1>4. QED
    BY <1>2, <1>3 DEF Resubscribe

LEMMA SwapDoneType ==
    ASSUME TypeOK, session \in Sessions, SwapDone
    PROVE  TypeOK'
  <1>1. /\ ses \in [Sessions -> Connection] /\ \A s \in Sessions : Len(ses[s].buf) <= BufCap
        /\ UNCHANGED <<supVars, abi, poolVars, session>> /\ completed' \in BOOLEAN
    BY NowType DEF SwapDone
  <1>2. CASE EndStream("once", ses)
    BY <1>1, <1>2, EndedType
  <1>3. CASE pc' = "select" /\ UNCHANGED <<result, cancelled, backoff, ses, ackVars>>
    BY <1>1, <1>3 DEF TypeOK, supVars, poolVars, ackVars
  <1>4. QED
    BY <1>2, <1>3 DEF SwapDone

-----------------------------------------------------------------------------
(* What the goroutines of a connection make of it.                         *)
Answered(s, f) ==
    [ses[s] EXCEPT !.asked = @ - 1, !.answers = @ + 1,
                   !.subs = IF f = "ack" THEN @ + 1 ELSE @,
                   !.reader = "pushing", !.held = f]

Logged(s, f) == [ses[s] EXCEPT !.logs = @ + 1, !.reader = "pushing", !.held = f]

Pushed(s) == [ses[s] EXCEPT !.buf = Append(@, ses[s].held), !.reader = "reading",
                            !.held = "none"]

LEMMA ReadFrameCases ==
    ASSUME TypeOK, NEW s \in Sessions, ReadFrame(s)
    PROVE  /\ ses[s].reader = "reading" /\ ses[s].link = "up" /\ OnlySession
           /\ \/ /\ ses[s].asked > 0
                 /\ \E f \in {"ack", "reject"} : ses' = [ses EXCEPT ![s] = Answered(s, f)]
              \/ /\ ses[s].subs > 0
                 /\ \E f \in Pools : ses' = [ses EXCEPT ![s] = Logged(s, f)]
  <1>1. ses[s].reader = "reading" /\ ses[s].link = "up" /\ OnlySession
    BY DEF ReadFrame
  <1>2. ASSUME NEW f \in {"ack", "reject"},
               ses' = [ses EXCEPT ![s].asked = @ - 1, ![s].answers = @ + 1,
                                  ![s].subs = IF f = "ack" THEN @ + 1 ELSE @,
                                  ![s].reader = "pushing", ![s].held = f]
        PROVE  ses' = [ses EXCEPT ![s] = Answered(s, f)]
    BY <1>2 DEF Answered, TypeOK
  <1>3. ASSUME NEW f \in Pools,
               ses' = [ses EXCEPT ![s].logs = @ + 1, ![s].reader = "pushing", ![s].held = f]
        PROVE  ses' = [ses EXCEPT ![s] = Logged(s, f)]
    BY <1>3 DEF Logged, TypeOK
  <1>4. QED
    BY <1>1, <1>2, <1>3 DEF ReadFrame

LEMMA AnsweredProperties ==
    ASSUME TypeOK, NEW s \in Sessions, ses[s].asked > 0, NEW f \in {"ack", "reject"}
    PROVE  /\ Answered(s, f) \in Connection
           /\ Answered(s, f).buf = ses[s].buf /\ Answered(s, f).run = ses[s].run
           /\ Answered(s, f).reader = "pushing" /\ Answered(s, f).held = f
           /\ Answered(s, f).subs >= ses[s].subs
           /\ f = "ack" => Answered(s, f).subs > 0
  <1> DEFINE n == IF f = "ack" THEN ses[s].subs + 1 ELSE ses[s].subs
             a == ses[s].asked - 1
             m == ses[s].answers + 1
  <1>1. ses[s] \in Connection
    BY DEF TypeOK
  <1>2. f \in Frames
    BY FramesProperties
  <1>3. /\ n \in Nat /\ a \in Nat /\ m \in Nat /\ n >= ses[s].subs
        /\ f = "ack" => n > 0
    BY <1>1 DEF Connection
  <1>4. Answered(s, f) = [ses[s] EXCEPT !.asked = a, !.answers = m, !.subs = n,
                                        !.reader = "pushing", !.held = f]
    BY DEF Answered
  <1> HIDE DEF n, a, m
  <1>5. Answered(s, f) = [run |-> ses[s].run, link |-> ses[s].link, reader |-> "pushing",
                          held |-> f, buf |-> ses[s].buf, asked |-> a, answers |-> m,
                          subs |-> n, logs |-> ses[s].logs]
    BY <1>1, <1>4 DEF Connection
  <1>6. QED
    BY <1>1, <1>2, <1>3, <1>5 DEF Connection

LEMMA LoggedProperties ==
    ASSUME TypeOK, NEW s \in Sessions, NEW f \in Pools
    PROVE  /\ Logged(s, f) \in Connection
           /\ Logged(s, f).buf = ses[s].buf /\ Logged(s, f).run = ses[s].run
           /\ Logged(s, f).reader = "pushing" /\ Logged(s, f).held # "ack"
           /\ Logged(s, f).subs = ses[s].subs
  <1> DEFINE n == ses[s].logs + 1
  <1>1. ses[s] \in Connection
    BY DEF TypeOK
  <1>2. f \in Frames /\ f # "ack"
    BY FramesProperties
  <1>3. n \in Nat
    BY <1>1 DEF Connection
  <1>4. Logged(s, f) = [ses[s] EXCEPT !.logs = n, !.reader = "pushing", !.held = f]
    BY DEF Logged
  <1> HIDE DEF n
  <1>5. Logged(s, f) = [run |-> ses[s].run, link |-> ses[s].link, reader |-> "pushing",
                        held |-> f, buf |-> ses[s].buf, asked |-> ses[s].asked,
                        answers |-> ses[s].answers, subs |-> ses[s].subs, logs |-> n]
    BY <1>1, <1>4 DEF Connection
  <1>6. QED
    BY <1>1, <1>2, <1>3, <1>5 DEF Connection

LEMMA PushedProperties ==
    ASSUME TypeOK, NEW s \in Sessions, Len(ses[s].buf) < BufCap
    PROVE  /\ Pushed(s) \in Connection
           /\ Pushed(s).buf = Append(ses[s].buf, ses[s].held)
           /\ Len(Pushed(s).buf) <= BufCap
           /\ Pushed(s).run = ses[s].run /\ Pushed(s).subs = ses[s].subs
           /\ Pushed(s).reader = "reading" /\ Pushed(s).held = "none"
  <1> DEFINE a == Append(ses[s].buf, ses[s].held)
  <1>1. ses[s] \in Connection /\ Len(ses[s].buf) \in Nat
    BY Buffers
  <1>2. a \in Seq(Frames) /\ Len(a) = Len(ses[s].buf) + 1
    BY PushedBuffer
  <1>3. Len(a) <= BufCap
    <2>1. BufCap \in Nat
      BY Constants
    <2>2. QED
      BY <1>1, <1>2, <2>1
  <1>4. Pushed(s) = [ses[s] EXCEPT !.buf = a, !.reader = "reading", !.held = "none"]
    BY DEF Pushed
  <1> HIDE DEF a
  <1>5. Pushed(s) \in Connection /\ Pushed(s).buf = a
        /\ Pushed(s).run = ses[s].run /\ Pushed(s).subs = ses[s].subs
        /\ Pushed(s).reader = "reading" /\ Pushed(s).held = "none"
    BY <1>1, <1>2, <1>4, FramesProperties DEF Connection
  <1>6. QED
    BY <1>3, <1>5 DEF a

LEMMA QuitProperties ==
    ASSUME TypeOK, NEW s \in Sessions, NEW d \in {"failed", "quit"},
           NEW h \in {ses[s].held, "none"}
    PROVE  LET c == [ses[s] EXCEPT !.reader = d, !.held = h] IN
           /\ c \in Connection
           /\ c.buf = ses[s].buf /\ c.run = ses[s].run /\ c.subs = ses[s].subs
           /\ c.reader = d /\ c.held = h
  <1>1. ses[s] \in Connection /\ ses[s].held \in Frames
    BY DEF TypeOK, Connection
  <1>2. h \in Frames
    BY <1>1, FramesProperties
  <1>3. QED
    BY <1>1, <1>2 DEF Connection

(* A goroutine of connection s makes c of it.                              *)
Moves(s, c) ==
    /\ Len(c.buf) <= BufCap
    /\ c.run = ses[s].run /\ c.subs >= ses[s].subs
    /\ c.held = "ack" => c.subs > 0 \/ ses[s].held = "ack"
    /\ c.reader = "quit" => CtxDone(s)
    /\ c.buf = ses[s].buf \/ c.buf = Append(ses[s].buf, ses[s].held)

LEMMA ReaderCases ==
    ASSUME TypeOK, NEW s \in Sessions, ReadFrame(s) \/ ReadError(s) \/ Push(s)
    PROVE  /\ OnlySession /\ ses[s].reader \in {"reading", "pushing"}
           /\ \E c \in Connection : ses' = [ses EXCEPT ![s] = c] /\ Moves(s, c)
  <1>1. ses[s] \in Connection /\ Len(ses[s].buf) <= BufCap /\ ses[s].subs \in Nat
    BY DEF TypeOK, Connection
  <1>2. CASE ReadFrame(s)
    <2>1. ASSUME ses[s].asked > 0, NEW f \in {"ack", "reject"},
                 ses' = [ses EXCEPT ![s] = Answered(s, f)]
          PROVE  Answered(s, f) \in Connection /\ Moves(s, Answered(s, f))
      BY <1>1, <2>1, AnsweredProperties DEF Moves
    <2>2. ASSUME NEW f \in Pools, ses' = [ses EXCEPT ![s] = Logged(s, f)]
          PROVE  Logged(s, f) \in Connection /\ Moves(s, Logged(s, f))
      BY <1>1, <2>2, LoggedProperties DEF Moves
    <2>3. QED
      BY <1>2, <2>1, <2>2, ReadFrameCases
  <1>3. CASE ReadError(s)
    <2> DEFINE c == [ses[s] EXCEPT !.reader = "failed", !.held = ses[s].held]
    <2>1. ses' = [ses EXCEPT ![s] = c]
      BY <1>1, <1>3 DEF ReadError, TypeOK, Connection
    <2>2. /\ c \in Connection
          /\ c.buf = ses[s].buf /\ c.run = ses[s].run /\ c.subs = ses[s].subs
          /\ c.reader = "failed" /\ c.held = ses[s].held
      BY QuitProperties
    <2> HIDE DEF c
    <2>3. Moves(s, c)
      BY <1>1, <2>2 DEF Moves
    <2>4. QED
      BY <1>3, <2>1, <2>2, <2>3 DEF ReadError
  <1>4. CASE Push(s)
    <2>1. CASE /\ Len(ses[s].buf) < BufCap
               /\ ses' = [ses EXCEPT ![s].buf = Append(@, ses[s].held),
                                     ![s].reader = "reading", ![s].held = "none"]
      <3>1. ses' = [ses EXCEPT ![s] = Pushed(s)]
        BY <2>1 DEF Pushed, TypeOK
      <3>2. Pushed(s) \in Connection /\ Moves(s, Pushed(s))
        BY <1>1, <2>1, PushedProperties DEF Moves
      <3>3. QED
        BY <1>4, <3>1, <3>2 DEF Push
    <2>2. CASE CtxDone(s) /\ ses' = [ses EXCEPT ![s].reader = "quit", ![s].held = "none"]
      <3> DEFINE c == [ses[s] EXCEPT !.reader = "quit", !.held = "none"]
      <3>1. ses' = [ses EXCEPT ![s] = c]
        BY <2>2 DEF TypeOK
      <3>2. /\ c \in Connection
            /\ c.buf = ses[s].buf /\ c.run = ses[s].run /\ c.subs = ses[s].subs
            /\ c.reader = "quit" /\ c.held = "none"
        BY QuitProperties
      <3> HIDE DEF c
      <3>3. Moves(s, c)
        BY <1>1, <2>2, <3>2 DEF Moves
      <3>4. QED
        BY <1>4, <3>1, <3>2, <3>3 DEF Push
    <2>3. QED
      BY <1>4, <2>1, <2>2 DEF Push
  <1>5. QED
    BY <1>2, <1>3, <1>4

LEMMA ReaderType ==
    ASSUME TypeOK, NEW s \in Sessions, ReadFrame(s) \/ ReadError(s) \/ Push(s)
    PROVE  TypeOK'
  <1>1. OnlySession
    BY ReaderCases
  <1>2. PICK c \in Connection : ses' = [ses EXCEPT ![s] = c] /\ Moves(s, c)
    BY ReaderCases
  <1>3. ses' \in [Sessions -> Connection] /\ \A t \in Sessions : Len(ses'[t].buf) <= BufCap
    BY <1>2, ConnectionStep DEF Moves
  <1>4. QED
    BY <1>1, <1>3 DEF TypeOK, OnlySession, supVars, poolVars, ackVars

LEMMA SurroundingsType ==
    ASSUME TypeOK, PropagateStop \/ Supervise \/ Restart \/ Break \/ Stop \/ UNCHANGED vars
    PROVE  TypeOK'
  <1> USE DEF TypeOK, OnlySup, OnlySession, supVars, poolVars, ackVars
  <1>1. CASE PropagateStop
    BY <1>1 DEF PropagateStop
  <1>2. CASE Supervise
    BY <1>2 DEF Supervise
  <1>3. CASE Restart
    <2>1. runs + 1 \in 1..MaxRuns
      <3>1. MaxRuns \in Nat
        BY Constants
      <3>2. QED
        BY <1>3, <3>1 DEF Restart
    <2>2. QED
      BY <1>3, <2>1 DEF Restart
  <1>4. CASE Break
    <2> DEFINE c == [ses[session] EXCEPT !.link = "broken"]
    <2>1. session \in Sessions
      BY <1>4, Constants DEF Break, Sessions
    <2>2. c \in Connection /\ Len(c.buf) <= BufCap
      BY <2>1 DEF Connection
    <2>3. ses' = [ses EXCEPT ![session] = c]
      BY <1>4 DEF Break
    <2>4. ses' \in [Sessions -> Connection] /\ \A t \in Sessions : Len(ses'[t].buf) <= BufCap
      BY <2>1, <2>2, <2>3, ConnectionStep
    <2>5. QED
      BY <1>4, <2>4 DEF Break
  <1>5. CASE Stop
    BY <1>5 DEF Stop
  <1>6. CASE UNCHANGED vars
    BY <1>6 DEF vars
  <1>7. QED
    BY <1>1, <1>2, <1>3, <1>4, <1>5, <1>6

-----------------------------------------------------------------------------
(* Steps that change one connection, and steps that change none.           *)
LEMMA OneConnection ==
    ASSUME TypeInv, UNCHANGED <<runs, session>>, cancelled => cancelled',
           NEW t \in Sessions, t <= session, NEW c \in Connection,
           ses' = [ses EXCEPT ![t] = c],
           c.run = ses[t].run,
           c.reader = "quit" => CtxDone(t),
           c.held = "ack" => c.subs > 0,
           \A i \in 1..Len(c.buf) : c.buf[i] = "ack" => c.subs > 0,
           Streaming' => Streaming,
           pc' \in {"select", "publish"} /\ ~waiting' => ses'[session].subs > 0
    PROVE  ConnectionInv'
  <1>1. ses \in [Sessions -> Connection] /\ runs \in Nat /\ session \in Nat
    BY DEF TypeInv, TypeOK
  <1>2. ses'[t] = c /\ \A s \in Sessions : s # t => ses'[s] = ses[s]
    BY <1>1
  <1>3. \A s \in Sessions : Sound(s)
    BY DEF TypeInv, ConnectionInv
  <1>4. Sound(t)'
    BY <1>1, <1>2, <1>3 DEF Sound, CtxDone, Sessions
  <1>5. ASSUME NEW s \in Sessions, s # t PROVE Sound(s)'
    BY <1>2, <1>3, <1>5 DEF Sound, CtxDone
  <1>6. Streaming' => session' > 0 /\ ses'[session'].run = runs'
    <2>1. CASE session = t
      BY <1>2, <2>1 DEF TypeInv, ConnectionInv
    <2>2. CASE session # t
      <3>1. session > 0 => session \in Sessions
        BY DEF TypeInv, TypeOK, Sessions
      <3>2. QED
        BY <1>2, <2>2, <3>1 DEF TypeInv, ConnectionInv
    <2>3. QED
      BY <2>1, <2>2
  <1>7. QED
    BY <1>4, <1>5, <1>6 DEF ConnectionInv

LEMMA SameConnections ==
    ASSUME TypeInv, UNCHANGED <<runs, session, ses>>, cancelled => cancelled',
           Streaming' => Streaming,
           pc' \in {"select", "publish"} /\ ~waiting' => ses[session].subs > 0
    PROVE  ConnectionInv'
  <1>1. \A s \in Sessions : Sound(s)
    BY DEF TypeInv, ConnectionInv
  <1>2. ASSUME NEW s \in Sessions PROVE Sound(s)'
    BY <1>1 DEF Sound, CtxDone
  <1>3. QED
    BY <1>2 DEF TypeInv, ConnectionInv

(* In a stream the current connection is one.                              *)
LEMMA StreamSession ==
    ASSUME TypeInv, Streaming
    PROVE  /\ session \in Sessions /\ session \in Nat /\ session <= session
           /\ ses[session].run = runs /\ Sound(session)
  <1>1. session \in Sessions /\ session \in Nat
    BY DEF TypeInv, TypeOK, ConnectionInv, Sessions
  <1>2. QED
    BY <1>1 DEF TypeInv, ConnectionInv

LEMMA EndStreamConnections ==
    ASSUME TypeInv, Streaming, NEW now \in [Sessions -> Connection],
           now = ses \/ (ses[session].buf # <<>> /\ now = Taken),
           NEW r \in {"nil", "ctx", "error", "once"}, EndStream(r, now),
           UNCHANGED <<runs, session>>
    PROVE  ConnectionInv'
  <1>1. session \in Sessions /\ session <= session /\ ses[session].run = runs /\ Sound(session)
    BY StreamSession
  <1>2. /\ TypeOK
        /\ ses \in [Sessions -> Connection] /\ \A s \in Sessions : Len(ses[s].buf) <= BufCap
    BY DEF TypeInv, TypeOK
  <1>3. /\ now[session].reader = ses[session].reader
        /\ \A s \in Sessions : s # session => now[s] = ses[s]
        /\ \A s \in Sessions : Len(now[s].buf) <= BufCap
    <2>1. CASE now = ses
      BY <1>2, <2>1
    <2>2. CASE ses[session].buf # <<>> /\ now = Taken
      <3>1. /\ \A s \in Sessions : Len(now[s].buf) <= BufCap
            /\ now[session] = [ses[session] EXCEPT !.buf = Tail(ses[session].buf)]
            /\ \A s \in Sessions : s # session => now[s] = ses[s]
        BY <1>1, <1>2, <2>2, TakenType
      <3>2. ses[session] \in Connection
        BY <1>1, <1>2
      <3>3. QED
        BY <3>1, <3>2 DEF Connection
    <2>3. QED
      BY <2>1, <2>2
  <1>4. /\ Over(now) \in Connection
        /\ \A i \in 1..Len(Over(now).buf) : Over(now).buf[i] = "none"
        /\ Over(now).run = runs /\ Over(now).held = "none"
        /\ Over(now).reader = ses[session].reader
    BY <1>1, <1>2, <1>3, OverProperties
  <1>5. ses' = [ses EXCEPT ![session] = Over(now)]
    <2>1. ses' = [now EXCEPT ![session] = Over(now)]
      BY DEF EndStream, Over
    <2> HIDE DEF Over
    <2>2. QED
      BY <1>1, <1>2, <1>3, <2>1
  <1>6. pc' \in {"dial", "sleep", "done"}
    BY <1>1, <1>2, <1>3, EndStreamType
  <1>7. cancelled => cancelled'
    BY DEF EndStream, Return
  <1>8. QED
    BY <1>1, <1>4, <1>5, <1>6, <1>7, OneConnection DEF Sound, Streaming

(* The current connection after a step of its stream.                      *)
LEMMA StreamConnection ==
    ASSUME TypeInv, Streaming, UNCHANGED <<runs, session>>, cancelled => cancelled',
           NEW c \in Connection, ses' = [ses EXCEPT ![session] = c],
           c.run = ses[session].run, c.subs = ses[session].subs,
           c.reader = "quit" => ses[session].reader = "quit",
           c.held = ses[session].held,
           \A i \in 1..Len(c.buf) :
              \E j \in 1..Len(ses[session].buf) : c.buf[i] = ses[session].buf[j],
           pc' \in {"select", "publish"} /\ ~waiting' => ses[session].subs > 0
    PROVE  ConnectionInv'
  <1>1. session \in Sessions /\ session <= session /\ Sound(session)
    BY StreamSession
  <1>2. /\ c.reader = "quit" => CtxDone(session)
        /\ c.held = "ack" => c.subs > 0
        /\ \A i \in 1..Len(c.buf) : c.buf[i] = "ack" => c.subs > 0
    BY <1>1 DEF Sound
  <1>3. ses'[session] = c
    BY <1>1 DEF TypeInv, TypeOK
  <1> HIDE DEF TypeInv
  <1>4. QED
    BY <1>1, <1>2, <1>3, OneConnection

LEMMA DialConnections ==
    ASSUME TypeInv, Dial
    PROVE  ConnectionInv'
  <1>1. CASE Return("ctx") /\ UNCHANGED <<session, ses>>
    BY <1>1, SameConnections DEF Dial, Return, Streaming, supVars
  <1>2. CASE pc' = "sleep" /\ UNCHANGED <<result, cancelled, session, ses>>
    BY <1>2, SameConnections DEF Dial, Streaming, supVars
  <1>3. CASE /\ ~cancelled /\ session < MaxSessions
             /\ session' = session + 1
             /\ ses' = [ses EXCEPT ![session + 1].link = "up", ![session + 1].run = runs]
             /\ pc' = "subscribe" /\ UNCHANGED <<result, cancelled>>
    <2>. PICK n \in Nat : n = session + 1
      BY DEF TypeInv, TypeOK
    <2> DEFINE c == [ses[n] EXCEPT !.link = "up", !.run = runs]
    <2>1. n \in Sessions /\ session \in Nat /\ runs \in Nat /\ runs' = runs
      BY <1>3, Constants DEF Sessions, TypeInv, TypeOK, Dial, supVars
    <2>2. \A s \in Sessions : Sound(s)
      BY DEF TypeInv, ConnectionInv
    <2>3. ses[n] = NoSession
      BY <2>1, <2>2 DEF Sound
    <2>4. /\ c.run = runs /\ c.reader = "off" /\ c.held = "none" /\ Len(c.buf) = 0
      BY <2>3 DEF NoSession
    <2>5. ses'[n] = c /\ \A s \in Sessions : s # n => ses'[s] = ses[s]
      BY <1>3, <2>1 DEF TypeInv, TypeOK
    <2>. session' = n /\ n \in Nat /\ n > 0 /\ ~(n > n)
      BY <1>3, <2>1
    <2> HIDE DEF c
    <2>6. Sound(n)'
      BY <2>1, <2>4, <2>5 DEF Sound
    <2>7. ASSUME NEW s \in Sessions, s # n PROVE Sound(s)'
      <3>1. s > n => s > session
        BY <2>1, <2>7 DEF Sessions
      <3>2. ses'[s] = ses[s] /\ Sound(s)
        BY <2>2, <2>5, <2>7
      <3>3. QED
        BY <1>3, <2>1, <3>1, <3>2 DEF Sound, CtxDone
    <2>8. \A s \in Sessions : Sound(s)'
      BY <2>6, <2>7
    <2>9. pc' = "subscribe" /\ ses'[session'].run = runs'
      BY <1>3, <2>1, <2>4, <2>5
    <2>10. QED
      BY <2>8, <2>9 DEF ConnectionInv
  <1>4. QED
    BY <1>1, <1>2, <1>3 DEF Dial

LEMMA SubscribeConnections ==
    ASSUME TypeInv, Subscribe
    PROVE  ConnectionInv'
  <1>1. /\ pc = "subscribe" /\ Streaming /\ UNCHANGED <<runs, session, cancelled>>
    BY DEF Subscribe, Streaming, supVars
  <1>2. /\ session \in Sessions /\ TypeOK
        /\ ses[session] \in Connection /\ ses \in [Sessions -> Connection]
    BY <1>1, StreamSession DEF TypeInv, TypeOK
  <1>3. Asked(session) \in Nat
    BY <1>2 DEF Connection, Asked
  <1>4. CASE /\ ses' = [ses EXCEPT ![session].asked = Asked(session),
                                   ![session].reader = "reading"]
             /\ waiting' = TRUE /\ pc' = "select"
    <2> DEFINE c == [ses[session] EXCEPT !.asked = Asked(session), !.reader = "reading"]
    <2>1. /\ c \in Connection /\ c.run = ses[session].run /\ c.subs = ses[session].subs
          /\ c.reader # "quit" /\ c.held = ses[session].held /\ c.buf = ses[session].buf
      BY <1>2, <1>3 DEF Connection
    <2>2. ses' = [ses EXCEPT ![session] = c]
      BY <1>4, <1>2
    <2> HIDE DEF c
    <2>3. QED
      BY <1>1, <1>4, <2>1, <2>2, StreamConnection
  <1>5. CASE ses' = [ses EXCEPT ![session].link = "closed"] /\ pc' = "sleep"
    <2> DEFINE c == [ses[session] EXCEPT !.link = "closed"]
    <2>1. /\ c \in Connection /\ c.run = ses[session].run /\ c.subs = ses[session].subs
          /\ c.reader = ses[session].reader
          /\ c.held = ses[session].held /\ c.buf = ses[session].buf
      BY <1>2 DEF Connection
    <2>2. ses' = [ses EXCEPT ![session] = c]
      BY <1>5, <1>2
    <2> HIDE DEF c
    <2>3. QED
      BY <1>1, <1>5, <2>1, <2>2, StreamConnection
  <1>6. QED
    BY <1>4, <1>5 DEF Subscribe

LEMMA FailedConnections ==
    ASSUME TypeInv, pc = "select", NEW now \in [Sessions -> Connection],
           now = ses \/ (ses[session].buf # <<>> /\ now = Taken),
           NEW armed \in BOOLEAN, Failed(armed, now), UNCHANGED <<runs, session>>
    PROVE  ConnectionInv'
  <1>1. Streaming
    BY DEF Streaming
  <1>2. session \in Sessions /\ TypeOK
    BY <1>1, StreamSession DEF TypeInv
  <1>3. CASE EndStream("error", now)
    BY <1>1, <1>3, EndStreamConnections
  <1>4. CASE pc' = "ackSleep" /\ ses' = now /\ UNCHANGED cancelled
    <2>1. CASE now = ses
      BY <1>4, <2>1, SameConnections, <1>1
    <2>2. CASE ses[session].buf # <<>> /\ now = Taken
      <3> DEFINE t == Tail(ses[session].buf)
                 c == [ses[session] EXCEPT !.buf = t]
      <3>1. /\ now[session] = c
            /\ \A s \in Sessions : s # session => now[s] = ses[s]
        BY <1>2, <2>2, TakenType
      <3>2. \A i \in 1..Len(t) : \E j \in 1..Len(ses[session].buf) : t[i] = ses[session].buf[j]
        BY <1>2, <2>2, TakenBuffer
      <3>3. ses[session] \in Connection /\ ses \in [Sessions -> Connection]
        BY <1>2 DEF TypeOK
      <3> HIDE DEF t
      <3>4. /\ c \in Connection /\ c.run = ses[session].run /\ c.subs = ses[session].subs
            /\ c.reader = ses[session].reader
            /\ c.held = ses[session].held /\ c.buf = t
        BY <1>2, <3>1, <3>3 DEF Connection
      <3> HIDE DEF c
      <3>5. ses' = [ses EXCEPT ![session] = c]
        BY <1>2, <1>4, <3>1, <3>3
      <3>6. QED
        BY <1>1, <1>4, <3>2, <3>4, <3>5, StreamConnection
    <2>3. QED
      BY <2>1, <2>2
  <1>5. QED
    BY <1>3, <1>4 DEF Failed

LEMMA TakeFrameConnections ==
    ASSUME TypeInv, TakeFrame
    PROVE  ConnectionInv'
  <1> DEFINE f == ses[session].buf[1]
             t == Tail(ses[session].buf)
             c == [ses[session] EXCEPT !.buf = t]
  <1>1. pc = "select" /\ Streaming /\ TypeOK
    BY DEF TakeFrame, Streaming, TypeInv
  <1>2. session \in Sessions /\ Sound(session) /\ ses[session] \in Connection
    BY <1>1, StreamSession DEF TypeOK
  <1>3. ses[session].buf # <<>> /\ UNCHANGED <<runs, session>>
    BY <1>1, <1>2, TakeFrameCases DEF supVars
  <1>4. /\ Taken \in [Sessions -> Connection] /\ Taken[session] = c
        /\ \A s \in Sessions : s # session => Taken[s] = ses[s]
    BY <1>1, <1>2, <1>3, TakenType
  <1>5. /\ \A i \in 1..Len(t) : \E j \in 1..Len(ses[session].buf) : t[i] = ses[session].buf[j]
        /\ 1 \in 1..Len(ses[session].buf)
    BY <1>1, <1>2, <1>3, TakenBuffer
  <1>6. f = "ack" => ses[session].subs > 0
    BY <1>2, <1>5 DEF Sound
  <1> HIDE DEF t
  <1>7. /\ c \in Connection /\ c.run = ses[session].run /\ c.subs = ses[session].subs
        /\ c.reader = ses[session].reader
        /\ c.held = ses[session].held /\ c.buf = t
    BY <1>2, <1>4 DEF Connection
  <1> HIDE DEF c, f
  <1>8. ses' = Taken => ses' = [ses EXCEPT ![session] = c]
    BY <1>1, <1>2, <1>4 DEF TypeOK
  <1>9. ~waiting => ses[session].subs > 0
    BY <1>1 DEF TypeInv, ConnectionInv
  <1>10. CASE f = "ack" /\ ses' = Taken /\ UNCHANGED <<pc, cancelled>>
    BY <1>1, <1>3, <1>5, <1>6, <1>7, <1>8, <1>10, StreamConnection
  <1>11. CASE Failed(FALSE, Taken)
    BY <1>1, <1>3, <1>4, <1>11, FailedConnections
  <1>12. CASE ses' = Taken /\ UNCHANGED <<cancelled, waiting>>
    BY <1>1, <1>3, <1>5, <1>7, <1>8, <1>9, <1>12, StreamConnection
  <1>13. QED
    BY <1>1, <1>2, <1>10, <1>11, <1>12, TakeFrameCases
       DEF IgnoreLog, HandleSwap, ackVars, f

LEMMA StreamStepConnections ==
    ASSUME TypeInv, StreamCancelled \/ ReaderEnded \/ AckTimeout \/ Resubscribe \/ SwapDone
    PROVE  ConnectionInv'
  <1>1. Streaming /\ UNCHANGED <<runs, session>> /\ ses \in [Sessions -> Connection]
    BY DEF StreamCancelled, ReaderEnded, AckTimeout, Resubscribe, SwapDone, Streaming,
           supVars, TypeInv, TypeOK
  <1>2. ASSUME NEW r \in {"nil", "ctx", "error", "once"}, EndStream(r, ses)
        PROVE  ConnectionInv'
    BY <1>1, <1>2, EndStreamConnections
  <1>3. CASE StreamCancelled
    BY <1>2, <1>3 DEF StreamCancelled
  <1>4. CASE ReaderEnded
    BY <1>2, <1>4 DEF ReaderEnded
  <1>5. CASE AckTimeout
    BY <1>1, <1>5, FailedConnections DEF AckTimeout
  <1>6. CASE Resubscribe
    <2>1. CASE EndStream("ctx", ses) \/ EndStream("error", ses)
      BY <1>2, <2>1
    <2>2. CASE /\ ses' = [ses EXCEPT ![session].asked = Asked(session)]
               /\ waiting' = TRUE /\ UNCHANGED cancelled
      <3> DEFINE c == [ses[session] EXCEPT !.asked = Asked(session)]
      <3>1. session \in Sessions /\ ses[session] \in Connection
        BY <1>1, StreamSession
      <3>2. Asked(session) \in Nat
        BY <3>1 DEF Connection, Asked
      <3>3. /\ c \in Connection /\ c.run = ses[session].run /\ c.subs = ses[session].subs
            /\ c.reader = ses[session].reader
            /\ c.held = ses[session].held /\ c.buf = ses[session].buf
        BY <3>1, <3>2 DEF Connection
      <3>4. ses' = [ses EXCEPT ![session] = c]
        BY <1>1, <2>2, <3>1
      <3> HIDE DEF c
      <3>5. QED
        BY <1>1, <2>2, <3>3, <3>4, StreamConnection
    <2>3. QED
      BY <1>6, <2>1, <2>2 DEF Resubscribe
  <1>7. CASE SwapDone
    <2>1. CASE EndStream("once", ses)
      BY <1>2, <2>1
    <2>2. CASE pc' = "select" /\ UNCHANGED <<cancelled, ses, ackVars>>
      <3>1. pc = "publish"
        BY <1>7 DEF SwapDone
      <3>2. ~waiting => ses[session].subs > 0
        BY <3>1 DEF TypeInv, ConnectionInv
      <3>3. QED
        BY <1>1, <2>2, <3>2, SameConnections DEF ackVars
    <2>3. QED
      BY <1>7, <2>1, <2>2 DEF SwapDone
  <1>8. QED
    BY <1>3, <1>4, <1>5, <1>6, <1>7

LEMMA ReaderConnections ==
    ASSUME TypeInv, NEW s \in Sessions, ReadFrame(s) \/ ReadError(s) \/ Push(s)
    PROVE  ConnectionInv'
  <1>1. TypeOK /\ ses \in [Sessions -> Connection] /\ session \in Nat /\ Sound(s)
    BY DEF TypeInv, TypeOK, ConnectionInv
  <1>2. OnlySession /\ ses[s].reader \in {"reading", "pushing"}
    BY <1>1, ReaderCases
  <1>3. PICK c \in Connection : ses' = [ses EXCEPT ![s] = c] /\ Moves(s, c)
    BY <1>1, ReaderCases
  <1>4. s <= session
    <2>1. s \in Nat
      BY DEF Sessions
    <2>2. ~(s > session)
      BY <1>1, <1>2 DEF Sound, NoSession
    <2>3. QED
      BY <1>1, <2>1, <2>2
  <1>5. /\ Len(ses[s].buf) \in Nat /\ Len(Append(ses[s].buf, ses[s].held)) = Len(ses[s].buf) + 1
        /\ \A i \in 1..Len(ses[s].buf) :
              Append(ses[s].buf, ses[s].held)[i] = ses[s].buf[i]
        /\ Append(ses[s].buf, ses[s].held)[Len(ses[s].buf) + 1] = ses[s].held
    BY <1>1, PushedBuffer, Buffers
  <1>6. ses[s].subs \in Nat /\ c.subs \in Nat /\ c.subs >= ses[s].subs
    BY <1>1, <1>3 DEF Connection, Moves
  <1>7. c.held = "ack" => c.subs > 0
    BY <1>1, <1>3, <1>6 DEF Moves, Sound
  <1>8. ASSUME NEW i \in 1..Len(c.buf), c.buf[i] = "ack" PROVE c.subs > 0
    <2>1. CASE c.buf = ses[s].buf
      BY <1>1, <1>6, <1>8, <2>1 DEF Sound
    <2>2. CASE c.buf = Append(ses[s].buf, ses[s].held)
      <3>1. i \in 1..Len(ses[s].buf) \/ i = Len(ses[s].buf) + 1
        BY <1>5, <1>8, <2>2
      <3>2. (\E j \in 1..Len(ses[s].buf) : ses[s].buf[j] = "ack") \/ ses[s].held = "ack"
        BY <1>5, <1>8, <2>2, <3>1
      <3>3. ses[s].subs > 0
        BY <1>1, <3>2 DEF Sound
      <3>4. QED
        BY <1>6, <3>3
    <2>3. QED
      BY <1>3, <2>1, <2>2 DEF Moves
  <1>9. UNCHANGED <<runs, session, cancelled, pc, waiting>>
    BY <1>2 DEF OnlySession, supVars, ackVars
  <1>10. pc' \in {"select", "publish"} /\ ~waiting' => ses'[session].subs > 0
    <2>1. ASSUME pc \in {"select", "publish"}, ~waiting PROVE ses'[session].subs > 0
      <3>1. session \in Sessions /\ ses[session].subs > 0 /\ ses[session].subs \in Nat
        BY <1>1, <2>1, StreamSession DEF Streaming, TypeInv, ConnectionInv, Connection
      <3>2. ses'[session] = IF session = s THEN c ELSE ses[session]
        BY <1>1, <1>3, <3>1
      <3>3. QED
        BY <1>6, <3>1, <3>2
    <2>2. QED
      BY <1>9, <2>1
  <1>11. c.run = ses[s].run /\ (c.reader = "quit" => CtxDone(s))
    BY <1>3 DEF Moves
  <1>12. Streaming' => Streaming
    BY <1>9 DEF Streaming
  <1>13. QED
    BY <1>3, <1>4, <1>7, <1>8, <1>9, <1>10, <1>11, <1>12, OneConnection

LEMMA SurroundingsConnections ==
    ASSUME TypeInv,
           \/ Bootstrap \/ Sleep
           \/ PropagateStop \/ Supervise \/ Restart \/ Break \/ Stop \/ UNCHANGED vars
    PROVE  ConnectionInv'
  <1>1. CASE Bootstrap
    <2>1. /\ UNCHANGED <<runs, session, ses>> /\ (cancelled => cancelled')
          /\ pc' \in {"dial", "done"}
      BY <1>1 DEF Bootstrap, Return, supVars
    <2>2. QED
      BY <2>1, SameConnections DEF Streaming
  <1>2. CASE Sleep
    <2>1. /\ UNCHANGED <<runs, session, ses>> /\ (cancelled => cancelled')
          /\ pc' \in {"dial", "done"}
      BY <1>2 DEF Sleep, Return, supVars
    <2>2. QED
      BY <2>1, SameConnections DEF Streaming
  <1>3. CASE PropagateStop \/ Supervise \/ Stop \/ UNCHANGED vars
    <2>1. UNCHANGED <<runs, session, ses, pc, waiting>> /\ (cancelled => cancelled')
      BY <1>3 DEF PropagateStop, Supervise, Stop, vars, OnlySup, supVars, ackVars
    <2>2. Streaming' => Streaming
      BY <2>1 DEF Streaming
    <2>3. pc \in {"select", "publish"} /\ ~waiting => ses[session].subs > 0
      BY DEF TypeInv, ConnectionInv
    <2>4. QED
      BY <2>1, <2>2, <2>3, SameConnections
  <1>4. CASE Restart
    <2>1. /\ runs' = runs + 1 /\ pc' = "bootstrap" /\ UNCHANGED <<session, ses>>
          /\ runs \in Nat
      BY <1>4 DEF Restart, OnlySup, TypeInv, TypeOK
    <2>2. ASSUME NEW s \in Sessions PROVE Sound(s)'
      <3>1. Sound(s) /\ ses[s].run \in Nat
        BY DEF TypeInv, TypeOK, ConnectionInv, Connection
      <3>2. ses[s].run < runs + 1
        BY <2>1, <3>1 DEF Sound
      <3>3. QED
        BY <2>1, <3>1, <3>2 DEF Sound, CtxDone
    <2>3. QED
      BY <2>1, <2>2 DEF ConnectionInv, Streaming
  <1>5. CASE Break
    <2> DEFINE c == [ses[session] EXCEPT !.link = "broken"]
    <2>1. session \in Sessions /\ ses \in [Sessions -> Connection] /\ session <= session
      BY <1>5, Constants DEF Break, Sessions, TypeInv, TypeOK
    <2>2. /\ c \in Connection /\ c.run = ses[session].run /\ c.subs = ses[session].subs
          /\ c.reader = ses[session].reader
          /\ c.held = ses[session].held /\ c.buf = ses[session].buf
      BY <2>1 DEF Connection
    <2>3. ses' = [ses EXCEPT ![session] = c]
      BY <1>5, <2>1 DEF Break
    <2> HIDE DEF c
    <2>4. UNCHANGED <<runs, session, pc, waiting, cancelled>>
      BY <1>5 DEF Break, OnlySession, supVars, ackVars
    <2>5. Sound(session) /\ (pc \in {"select", "publish"} /\ ~waiting => ses[session].subs > 0)
      BY <2>1 DEF TypeInv, ConnectionInv
    <2>6. Streaming' => Streaming
      BY <2>4 DEF Streaming
    <2>7. ses'[session] = c
      BY <2>1, <2>3
    <2>8. QED
      BY <2>1, <2>2, <2>3, <2>4, <2>5, <2>6, <2>7, OneConnection DEF Sound
  <1>6. QED
    BY <1>1, <1>2, <1>3, <1>4, <1>5

-----------------------------------------------------------------------------
LEMMA TypeStep ==
    ASSUME TypeInv, [Next]_vars
    PROVE  TypeInv'
  <1> USE DEF TypeInv
  <1>1. TypeOK
    OBVIOUS
  <1>2. Streaming => session \in Sessions
    BY StreamSession
  <1>3. CASE Bootstrap
    BY <1>1, <1>3, BootstrapType, SurroundingsConnections
  <1>4. CASE Dial
    BY <1>1, <1>4, DialType, DialConnections
  <1>5. CASE Subscribe
    BY <1>1, <1>2, <1>5, SubscribeType, SubscribeConnections DEF Subscribe, Streaming
  <1>6. CASE Sleep
    BY <1>1, <1>6, SleepType, SurroundingsConnections
  <1>7. CASE StreamCancelled \/ ReaderEnded \/ AckTimeout
    <2>1. session \in Sessions
      BY <1>2, <1>7 DEF StreamCancelled, ReaderEnded, AckTimeout, Streaming
    <2>2. QED
      BY <1>1, <1>7, <2>1, SelectType, StreamStepConnections
  <1>8. CASE Resubscribe
    BY <1>1, <1>2, <1>8, ResubscribeType, StreamStepConnections DEF Resubscribe, Streaming
  <1>9. CASE TakeFrame
    <2>1. session \in Sessions
      BY <1>2, <1>9 DEF TakeFrame, Streaming
    <2>2. QED
      BY <1>1, <1>9, <2>1, TakeFrameType, TakeFrameConnections
  <1>10. CASE SwapDone
    BY <1>1, <1>2, <1>10, SwapDoneType, StreamStepConnections DEF SwapDone, Streaming
  <1>11. CASE \E s \in Sessions : ReadFrame(s) \/ ReadError(s) \/ Push(s)
    BY <1>1, <1>11, ReaderType, ReaderConnections
  <1>12. CASE PropagateStop \/ Supervise \/ Restart \/ Break \/ Stop \/ UNCHANGED vars
    BY <1>1, <1>12, SurroundingsType, SurroundingsConnections
  <1>13. QED
    BY <1>3, <1>4, <1>5, <1>6, <1>7, <1>8, <1>9, <1>10, <1>11, <1>12 DEF Next, RunStep

(* What runStream and Run report when a stream ends.                       *)
LEMMA EndStreamResult ==
    ASSUME NEW r, NEW now, EndStream(r, now)
    PROVE  \/ pc' = "done" /\ (result' = "ctx" \/ (r = "once" /\ result' = "once"))
           \/ pc' \in {"dial", "sleep"} /\ result' = result
  BY DEF EndStream, Return

LEMMA OnceStep ==
    ASSUME TypeInv, OnceInv, [Next]_vars
    PROVE  OnceInv'
  <1> USE DEF OnceInv, OnceComplete, supVars, poolVars, ackVars
  <1>1. CASE Bootstrap
    BY <1>1 DEF Bootstrap, Return
  <1>2. CASE Dial \/ Subscribe \/ Sleep
    BY <1>2 DEF Dial, Subscribe, Sleep, Return
  <1>3. ASSUME NEW r \in {"nil", "ctx", "error"}, NEW now, EndStream(r, now), pc # "publish",
               pc # "done", UNCHANGED <<supVars, poolVars, completed>>
        PROVE  OnceInv'
    <2>1. sup = "waiting" /\ result = "none" /\ ~completed
      BY <1>3
    <2>2. sup' = "waiting"
      BY <1>3, <2>1
    <2>3. QED
      BY <1>3, <2>1, <2>2, EndStreamResult
  <1>4. ASSUME pc = "select", pc' = "ackSleep" \/ pc' = "select",
               UNCHANGED <<supVars, poolVars, completed, result>>
        PROVE  OnceInv'
    BY <1>4
  <1>5. ASSUME NEW armed, NEW now, Failed(armed, now), pc = "select",
               UNCHANGED <<supVars, poolVars, completed>>
        PROVE  OnceInv'
    BY <1>3, <1>4, <1>5 DEF Failed
  <1>6. CASE StreamCancelled
    BY <1>3, <1>6 DEF StreamCancelled
  <1>7. CASE ReaderEnded
    BY <1>3, <1>7 DEF ReaderEnded
  <1>8. CASE AckTimeout
    BY <1>5, <1>8 DEF AckTimeout
  <1>9. CASE Resubscribe
    BY <1>3, <1>9 DEF Resubscribe
  <1>10. CASE TakeFrame
    <2>1. session \in Sessions /\ pc = "select" /\ UNCHANGED supVars
      BY <1>10, StreamSession DEF TakeFrame, Streaming
    <2>2. CASE Failed(FALSE, Taken) /\ UNCHANGED <<poolVars, completed>>
      BY <1>5, <2>1, <2>2
    <2>3. CASE UNCHANGED <<poolVars, completed, pc, result>>
      BY <2>1, <2>3
    <2>4. ASSUME NEW f \in Pools, HandleSwap(f) PROVE OnceInv'
      BY <2>1, <2>4 DEF HandleSwap, Completes
    <2>5. QED
      BY <1>10, <2>1, <2>2, <2>3, <2>4, TakeFrameCases DEF TypeInv, IgnoreLog
  <1>11. CASE SwapDone
    <2>1. CASE completed /\ EndStream("once", ses)
      BY <1>11, <2>1, EndStreamResult DEF SwapDone
    <2>2. CASE pc' = "select" /\ UNCHANGED <<result, cancelled, backoff, ses, ackVars>>
      BY <1>11, <2>2 DEF SwapDone
    <2>3. QED
      BY <1>11, <2>1, <2>2 DEF SwapDone
  <1>12. CASE \E s \in Sessions : ReadFrame(s) \/ ReadError(s) \/ Push(s)
    BY <1>12 DEF ReadFrame, ReadError, Push, OnlySession
  <1>13. CASE PropagateStop \/ Supervise \/ Break \/ Stop \/ UNCHANGED vars
    BY <1>13 DEF PropagateStop, Supervise, Break, Stop, OnlySup, OnlySession, vars
  <1>14. CASE Restart
    <2>1. completed => pc = "publish"
      OBVIOUS
    <2>2. QED
      BY <1>14 DEF Restart, OnlySup
  <1>15. QED
    BY <1>1, <1>2, <1>6, <1>7, <1>8, <1>9, <1>10, <1>11, <1>12, <1>13, <1>14
       DEF Next, RunStep

(* What a step does to the delay: a stream that ends without an error has  *)
(* seen the end of its context.                                            *)
LEMMA EndStreamDelay ==
    ASSUME NEW r \in {"ctx", "error", "once"}, NEW now, EndStream(r, now)
    PROVE  backoff' = backoff
  BY DEF EndStream, Return

LEMMA DelayStep ==
    ASSUME TypeInv, Next, pc # "bootstrap", ~cancelled
    PROVE  backoff' >= backoff
  <1>1. backoff \in Delays /\ backoff >= backoff
    BY DEF TypeInv, TypeOK, Delays, FirstDelay
  <1>2. CASE Sleep
    BY <1>1, <1>2, NextDelayProperties DEF Sleep
  <1>3. ASSUME NEW armed, NEW now, Failed(armed, now) PROVE backoff' = backoff
    BY <1>3, EndStreamDelay DEF Failed
  <1>4. CASE ReaderEnded
    <2>1. ses[session].reader # "quit"
      <3>1. ses[session].run = runs /\ Sound(session) /\ runs \in Nat
        BY <1>4, StreamSession DEF ReaderEnded, Streaming, TypeInv, TypeOK
      <3>2. QED
        BY <3>1 DEF Sound, CtxDone
    <2>2. EndStream("error", ses)
      BY <1>4, <2>1 DEF ReaderEnded
    <2>3. QED
      BY <1>1, <2>2, EndStreamDelay
  <1>5. CASE TakeFrame
    <2>1. session \in Sessions
      BY <1>5, StreamSession DEF TakeFrame, Streaming
    <2>2. backoff' = backoff
      BY <1>3, <1>5, <2>1, TakeFrameCases DEF TypeInv, IgnoreLog, HandleSwap
    <2>3. QED
      BY <1>1, <2>2
  <1>6. CASE AckTimeout \/ Resubscribe \/ SwapDone \/ StreamCancelled
    <2>1. backoff' = backoff
      BY <1>3, <1>6, EndStreamDelay DEF AckTimeout, Resubscribe, SwapDone, StreamCancelled
    <2>2. QED
      BY <1>1, <2>1
  <1>7. CASE Dial \/ Subscribe \/ PropagateStop \/ Supervise \/ Restart \/ Break \/ Stop
             \/ \E s \in Sessions : ReadFrame(s) \/ ReadError(s) \/ Push(s)
    <2>1. backoff' = backoff
      BY <1>7 DEF Dial, Subscribe, PropagateStop, Supervise, Restart, Break, Stop, OnlySup,
                  OnlySession, ReadFrame, ReadError, Push
    <2>2. QED
      BY <1>1, <2>1
  <1>8. CASE Bootstrap
    BY <1>8 DEF Bootstrap
  <1>9. QED
    BY <1>2, <1>4, <1>5, <1>6, <1>7, <1>8 DEF Next, RunStep

-----------------------------------------------------------------------------
(* Type correctness, with what Run knows of its connections                *)
(* (v4_connector.go:902-1074): the buffers of the readers never hold more  *)
(* than their capacity, the delay stays between 2 seconds and backoffMax,  *)
(* and the failures stay within ackRetryMax.                               *)
THEOREM TypeCorrect == Spec => [](TypeOK /\ ConnectionInv)
  <1>1. Init => TypeInv
    BY TypeInit
  <1>2. TypeInv /\ [Next]_vars => TypeInv'
    BY TypeStep
  <1>3. QED
    BY <1>1, <1>2, PTL DEF Spec, TypeInv

(* A stream that waits for frames without a timer has a subscription at    *)
(* the venue, whatever acknowledgements come late, are rejected or time    *)
(* out (startAckWait and stopAckWait, v4_connector.go:927-951).            *)
THEOREM AlwaysSubscribed == Spec => []NotDeaf
  <1>1. ConnectionInv => NotDeaf
    BY DEF ConnectionInv, NotDeaf
  <1>2. QED
    BY <1>1, TypeCorrect, PTL

(* The once mode ends only after every pool of its run had a swap with a   *)
(* price (storeSwapMetrics, v4_connector.go:1147-1157).                    *)
THEOREM OnceIsComplete == Spec => []OnceComplete
  <1>1. Init => OnceInv
    BY DEF Init, OnceInv, OnceComplete
  <1>2. TypeInv /\ OnceInv /\ [Next]_vars => OnceInv'
    BY OnceStep
  <1>3. OnceInv => OnceComplete
    BY DEF OnceInv
  <1>4. QED
    BY <1>1, <1>2, <1>3, TypeCorrect, PTL DEF Spec, TypeInv

(* While the context of a run lives its delay never shrinks, so that a     *)
(* failing venue is never dialled at full speed (v4_connector.go:421-437). *)
THEOREM DelayNeverShrinks == Spec => DelayHeld
  <1>1. TypeInv /\ [Next]_vars =>
           [pc # "bootstrap" /\ ~cancelled => backoff' >= backoff]_vars
    BY DelayStep
  <1>2. QED
    BY <1>1, TypeCorrect, PTL DEF Spec, DelayHeld, TypeInv
=============================================================================

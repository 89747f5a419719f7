--------------------------- MODULE CexFeedProofs ---------------------------
(***************************************************************************)
(* Theorems about CexFeed, for every set of venues, capacity of the        *)
(* channel and number of sessions and frames.                              *)
(***************************************************************************)
EXTENDS CexFeed, SequenceTheorems, TLAPS

(* What keeps the sessions of a venue apart: a session that has not begun  *)
(* has nothing; one that is over has no connection and no ReadLoop; the    *)
(* supervisor is past its wait only when the function has ended, and a     *)
(* function that ended because of stop, the one case in which ReadLoop may *)
(* still run, is not run again.                                            *)
SessionInv(v) ==
    LET cur == session[v]
    IN  /\ \A s \in Sessions :
              /\ s > cur => conn[v][s] = "none" /\ reader[v][s] = "off"
              /\ s < cur => conn[v][s] # "up" /\ reader[v][s] # "on"
        /\ sup[v] \in {"backoff", "expired"} => fn[v] = "done"
        /\ fn[v] = "connect" => conn[v][cur] = "none"
        /\ fn[v] \in {"connect", "subscribe"} => reader[v][cur] = "off"
        /\ fn[v] \in {"close", "done"} /\ reader[v][cur] = "on" =>
              stop /\ sup[v] # "expired"
        /\ fn[v] = "done" => conn[v][cur] # "up"

SessionsApart == \A v \in Venues : SessionInv(v)

(* The frames of a venue are numbered as they come: none that is on its    *)
(* way, or was taken by a worker, has a later number.                      *)
FrameInv(v) ==
    /\ consumed[v] <= frames[v]
    /\ fn[v] = "send" => held[v] <= frames[v]
    /\ \A i \in 1..Len(dataChannel) :
          dataChannel[i].venue = v => dataChannel[i].frame <= frames[v]

-----------------------------------------------------------------------------
(* The delay stays between the first one and twice the limit.              *)
LEMMA DoubledProperties ==
    ASSUME NEW b \in FirstBackoff..(2 * MaxBackoff)
    PROVE  Doubled(b) \in FirstBackoff..(2 * MaxBackoff)
  BY DEF Doubled, FirstBackoff, MaxBackoff

(* What forward appends to the channel.                                    *)
LEMMA SentQuote ==
    ASSUME TypeOK, NEW v \in Venues, ForwardSend(v)
    PROVE  /\ dataChannel' \in Seq([venue : Venues, frame : Nat])
           /\ Len(dataChannel) \in Nat
           /\ Len(dataChannel') = Len(dataChannel) + 1
           /\ \A i \in 1..Len(dataChannel) : dataChannel'[i] = dataChannel[i]
           /\ dataChannel'[Len(dataChannel) + 1] = [venue |-> v, frame |-> held[v]]
  <1>1. dataChannel \in Seq([venue : Venues, frame : Nat]) /\ held[v] \in Nat
    BY DEF TypeOK
  <1>2. [venue |-> v, frame |-> held[v]] \in [venue : Venues, frame : Nat]
    BY <1>1
  <1>3. QED
    BY <1>1, <1>2, AppendProperties, LenProperties DEF ForwardSend

(* What a worker takes from the channel, and what is left.                 *)
LEMMA TakenQuote ==
    ASSUME TypeOK, Consume
    PROVE  /\ Len(dataChannel) \in Nat \ {0}
           /\ Head(dataChannel) = dataChannel[1]
           /\ dataChannel[1] \in [venue : Venues, frame : Nat]
           /\ dataChannel' \in Seq([venue : Venues, frame : Nat])
           /\ Len(dataChannel') = Len(dataChannel) - 1
           /\ \A i \in 1..Len(dataChannel') : dataChannel'[i] = dataChannel[i + 1]
  <1>1. dataChannel \in Seq([venue : Venues, frame : Nat]) /\ dataChannel # <<>>
    BY DEF TypeOK, Consume
  <1>2. Len(dataChannel) \in Nat \ {0}
    BY <1>1, EmptySeq, LenProperties
  <1>3. dataChannel[1] \in [venue : Venues, frame : Nat]
    <2>1. 1 \in 1..Len(dataChannel)
      BY <1>2
    <2>2. QED
      BY <1>1, <2>1, ElementOfSeq, Zenon
  <1>4. QED
    BY <1>1, <1>2, <1>3, HeadTailProperties DEF Consume

-----------------------------------------------------------------------------
LEMMA TypeInit == Init => TypeOK
  <1> SUFFICES ASSUME Init PROVE TypeOK
    OBVIOUS
  <1>1. 1 \in Sessions /\ FirstBackoff \in FirstBackoff..(2 * MaxBackoff)
    BY FeedAssumption DEF Sessions, FirstBackoff, MaxBackoff
  <1>2. dataChannel \in Seq([venue : Venues, frame : Nat])
    BY DEF Init
  <1>3. QED
    BY <1>1, <1>2 DEF Init, TypeOK

LEMMA FnStepType ==
    ASSUME TypeOK, NEW v \in Venues, FnStep(v)
    PROVE  TypeOK'
  <1> USE DEF TypeOK, FnTo, supVars, connVars
  <1>1. CASE Connect(v)
    <2>1. conn' \in [Venues -> [Sessions -> {"none", "up", "down"}]]
      <3>1. CASE conn' = conn
        BY <3>1
      <3>2. CASE conn' = [conn EXCEPT ![v][session[v]] = "up"]
        BY <3>2
      <3>3. QED
        BY <1>1, <3>1, <3>2 DEF Connect
    <2>2. fn' \in [Venues -> {"connect", "subscribe", "recv", "send", "close", "done"}]
      BY <1>1 DEF Connect
    <2>3. QED
      BY <1>1, <2>1, <2>2 DEF Connect
  <1>2. CASE Subscribe(v)
    BY <1>2 DEF Subscribe
  <1>3. CASE ForwardEnds(v)
    BY <1>3 DEF ForwardEnds
  <1>4. CASE ForwardSend(v)
    <2>1. dataChannel' \in Seq([venue : Venues, frame : Nat])
      BY <1>4, SentQuote
    <2>2. QED
      BY <1>4, <2>1 DEF ForwardSend
  <1>5. CASE CloseClient(v)
    BY <1>5 DEF CloseClient
  <1>6. QED
    BY <1>1, <1>2, <1>3, <1>4, <1>5 DEF FnStep

LEMMA SessionStepType ==
    ASSUME TypeOK, NEW v \in Venues, NEW s \in Sessions,
           SessionStep(v, s) \/ Disconnect(v, s)
    PROVE  TypeOK'
  <1> USE DEF TypeOK, FnTo, supVars, fnVars
  <1>1. CASE ReadFrame(v, s)
    <2>1. /\ fn' \in [Venues -> {"connect", "subscribe", "recv", "send", "close", "done"}]
          /\ held' \in [Venues -> Nat]
      <3>1. CASE UNCHANGED <<fn, held>>
        BY <3>1
      <3>2. CASE FnTo(v, "send") /\ held' = [held EXCEPT ![v] = frames[v] + 1]
        BY <3>2
      <3>3. QED
        BY <1>1, <3>1, <3>2 DEF ReadFrame
    <2>2. frames' \in [Venues -> Nat]
      BY <1>1 DEF ReadFrame
    <2>3. QED
      BY <1>1, <2>1, <2>2 DEF ReadFrame
  <1>2. CASE ReadError(v, s)
    BY <1>2 DEF ReadError
  <1>3. CASE PingError(v, s)
    BY <1>3 DEF PingError
  <1>4. CASE Disconnect(v, s)
    BY <1>4 DEF Disconnect
  <1>5. QED
    BY <1>1, <1>2, <1>3, <1>4 DEF SessionStep

LEMMA SupervisorStepType ==
    ASSUME TypeOK, NEW v \in Venues, SupervisorStep(v)
    PROVE  TypeOK'
  <1> USE DEF TypeOK, FnTo, fnVars, connVars
  <1>1. CASE FnDone(v)
    BY <1>1 DEF FnDone
  <1>2. CASE SupervisorStops(v)
    BY <1>2 DEF SupervisorStops
  <1>3. CASE DelayOver(v)
    BY <1>3 DEF DelayOver
  <1>4. CASE Restart(v)
    <2>1. session[v] + 1 \in Sessions
      BY <1>4, FeedAssumption DEF Restart, Sessions
    <2>2. Doubled(backoff[v]) \in FirstBackoff..(2 * MaxBackoff)
      BY DoubledProperties
    <2>3. QED
      BY <1>4, <2>1, <2>2 DEF Restart
  <1>5. QED
    BY <1>1, <1>2, <1>3, <1>4 DEF SupervisorStep

LEMMA ConsumeType ==
    ASSUME TypeOK, Consume
    PROVE  TypeOK'
  <1>1. /\ dataChannel' \in Seq([venue : Venues, frame : Nat])
        /\ Head(dataChannel) \in [venue : Venues, frame : Nat]
    BY TakenQuote
  <1>2. QED
    BY <1>1 DEF TypeOK, Consume, supVars, fnVars, connVars

LEMMA TypeStep ==
    ASSUME TypeOK, [Next]_vars
    PROVE  TypeOK'
  <1>1. CASE Stop
    BY <1>1 DEF TypeOK, Stop, supVars, fnVars, connVars
  <1>2. CASE UNCHANGED vars
    BY <1>2 DEF TypeOK, vars, supVars, fnVars, connVars
  <1>3. QED
    BY <1>1, <1>2, FnStepType, SessionStepType, SupervisorStepType, ConsumeType DEF Next

(* Type correctness: the variables of the venues and of their sessions     *)
(* keep their types, the delay of a supervisor (main.go:43-60) stays       *)
(* between 1 and 60 seconds however often a session fails, and the channel *)
(* holds quotes only.                                                      *)
THEOREM TypeCorrect == Spec => []TypeOK
  <1>1. Init => TypeOK
    BY TypeInit
  <1>2. TypeOK /\ [Next]_vars => TypeOK'
    BY TypeStep
  <1>3. QED
    BY <1>1, <1>2, PTL DEF Spec

-----------------------------------------------------------------------------
(* A step of a venue leaves the sessions of the others alone.              *)
SameSessions(u) ==
    /\ sup'[u] = sup[u] /\ fn'[u] = fn[u] /\ session'[u] = session[u]
    /\ conn'[u] = conn[u] /\ reader'[u] = reader[u]

LEMMA OtherSessions ==
    ASSUME TypeOK, NEW v \in Venues, NEW u \in Venues, u # v,
           \/ FnStep(v)
           \/ SupervisorStep(v)
           \/ \E s \in Sessions : SessionStep(v, s) \/ Disconnect(v, s)
    PROVE  SameSessions(u) /\ stop' = stop
  <1> USE DEF TypeOK, SameSessions, FnTo, supVars, fnVars, connVars
  <1>1. CASE FnStep(v)
    BY <1>1 DEF FnStep, Connect, Subscribe, ForwardEnds, ForwardSend, CloseClient
  <1>2. CASE SupervisorStep(v)
    BY <1>2 DEF SupervisorStep, FnDone, SupervisorStops, DelayOver, Restart
  <1>3. CASE \E s \in Sessions : SessionStep(v, s) \/ Disconnect(v, s)
    BY <1>3 DEF SessionStep, ReadFrame, ReadError, PingError, Disconnect
  <1>4. QED
    BY <1>1, <1>2, <1>3

LEMMA SameSessionsKeep ==
    ASSUME NEW u \in Venues, SessionInv(u), SameSessions(u), stop => stop'
    PROVE  SessionInv(u)'
  BY DEF SessionInv, SameSessions

LEMMA FnStepSessions ==
    ASSUME TypeOK, NEW v \in Venues, SessionInv(v), FnStep(v)
    PROVE  SessionInv(v)'
  <1> USE DEF TypeOK, SessionInv, FnTo, supVars, fnVars, connVars, Sessions
  <1>1. CASE Connect(v)
    <2>1. CASE FnTo(v, "done") /\ UNCHANGED conn
      BY <1>1, <2>1 DEF Connect
    <2>2. CASE FnTo(v, "subscribe") /\ conn' = [conn EXCEPT ![v][session[v]] = "up"]
      BY <1>1, <2>2 DEF Connect
    <2>3. QED
      BY <1>1, <2>1, <2>2 DEF Connect
  <1>2. CASE Subscribe(v)
    BY <1>2 DEF Subscribe
  <1>3. CASE ForwardEnds(v)
    BY <1>3 DEF ForwardEnds
  <1>4. CASE ForwardSend(v)
    BY <1>4 DEF ForwardSend
  <1>5. CASE CloseClient(v)
    <2> HIDE DEF SessionInv, Sessions
    <2>1. /\ fn[v] = "close" /\ fn'[v] = "done" /\ session[v] \in Sessions
          /\ UNCHANGED <<stop, sup, session, reader>>
      BY <1>5 DEF CloseClient
    <2>2. conn'[v] = [conn[v] EXCEPT ![session[v]] = "down"]
      BY <1>5 DEF CloseClient
    <2>3. /\ conn'[v][session[v]] = "down"
          /\ \A s \in Sessions : s # session[v] => conn'[v][s] = conn[v][s]
      BY <2>1, <2>2
    <2>4. /\ sup[v] \notin {"backoff", "expired"}
          /\ \A s \in Sessions :
                /\ s > session[v] => s # session[v]
                /\ s < session[v] => s # session[v]
      BY <2>1 DEF SessionInv, Sessions
    <2> HIDE DEF TypeOK
    <2>5. QED
      BY <2>1, <2>3, <2>4 DEF SessionInv
  <1>6. QED
    BY <1>1, <1>2, <1>3, <1>4, <1>5 DEF FnStep

LEMMA SessionStepSessions ==
    ASSUME TypeOK, NEW v \in Venues, NEW s \in Sessions, SessionInv(v),
           SessionStep(v, s) \/ Disconnect(v, s)
    PROVE  SessionInv(v)'
  <1> USE DEF TypeOK, SessionInv, FnTo, supVars, fnVars, Sessions
  <1>1. CASE ReadFrame(v, s)
    <2>1. CASE UNCHANGED fn
      BY <1>1, <2>1 DEF ReadFrame
    <2>2. CASE fn[v] = "recv" /\ FnTo(v, "send")
      BY <1>1, <2>2 DEF ReadFrame
    <2>3. QED
      BY <1>1, <2>1, <2>2 DEF ReadFrame
  <1>2. CASE ReadError(v, s)
    BY <1>2 DEF ReadError
  <1>3. CASE PingError(v, s)
    BY <1>3 DEF PingError
  <1>4. CASE Disconnect(v, s)
    BY <1>4 DEF Disconnect
  <1>5. QED
    BY <1>1, <1>2, <1>3, <1>4 DEF SessionStep

LEMMA SupervisorStepSessions ==
    ASSUME TypeOK, NEW v \in Venues, SessionInv(v), SupervisorStep(v)
    PROVE  SessionInv(v)'
  <1> USE DEF TypeOK, SessionInv, FnTo, fnVars, connVars, Sessions
  <1>1. CASE FnDone(v)
    BY <1>1 DEF FnDone
  <1>2. CASE SupervisorStops(v)
    BY <1>2 DEF SupervisorStops
  <1>3. CASE DelayOver(v)
    BY <1>3 DEF DelayOver
  <1>4. CASE Restart(v)
    <2>1. /\ sup[v] = "expired" /\ sup'[v] = "waiting" /\ fn'[v] = "connect"
          /\ session'[v] = session[v] + 1 /\ session[v] + 1 \in Sessions
          /\ session[v] \in Nat
          /\ UNCHANGED <<stop, conn, reader>>
      BY <1>4, FeedAssumption DEF Restart
    <2>2. fn[v] = "done" /\ reader[v][session[v]] # "on" /\ conn[v][session[v]] # "up"
      BY <2>1
    <2>3. \A s \in Sessions : s < session[v] + 1 => s < session[v] \/ s = session[v]
      BY <2>1
    <2>4. \A s \in Sessions : s > session[v] + 1 => s > session[v]
      BY <2>1
    <2>5. conn[v][session[v] + 1] = "none" /\ reader[v][session[v] + 1] = "off"
      BY <2>1
    <2> HIDE DEF TypeOK
    <2>6. QED
      BY <2>1, <2>2, <2>3, <2>4, <2>5
  <1>5. QED
    BY <1>1, <1>2, <1>3, <1>4 DEF SupervisorStep

LEMMA SessionsStep ==
    ASSUME TypeOK, SessionsApart, [Next]_vars
    PROVE  SessionsApart'
  <1> SUFFICES ASSUME NEW u \in Venues PROVE SessionInv(u)'
    BY DEF SessionsApart
  <1>1. SessionInv(u)
    BY DEF SessionsApart
  <1>2. ASSUME NEW v \in Venues, FnStep(v) \/ SupervisorStep(v)
        PROVE  SessionInv(u)'
    BY <1>1, <1>2, FnStepSessions, SupervisorStepSessions, OtherSessions, SameSessionsKeep
  <1>3. ASSUME NEW v \in Venues, NEW s \in Sessions, SessionStep(v, s) \/ Disconnect(v, s)
        PROVE  SessionInv(u)'
    BY <1>1, <1>3, SessionStepSessions, OtherSessions, SameSessionsKeep
  <1>4. CASE Consume \/ Stop \/ UNCHANGED vars
    <2>1. SameSessions(u) /\ (stop => stop')
      BY <1>4 DEF Consume, Stop, vars, supVars, fnVars, connVars, SameSessions
    <2>2. QED
      BY <1>1, <2>1, SameSessionsKeep
  <1>5. QED
    BY <1>2, <1>3, <1>4 DEF Next

(* The sessions of a venue do not overlap (register_cex.go:46-50,          *)
(* main.go:43-60): whatever the connections, the dials and the signal do,  *)
(* only the current session may have an open connection or a running       *)
(* ReadLoop, and none is left open when its function has ended.            *)
THEOREM NoOverlap == Spec => []OneLiveSession
  <1>1. ASSUME Init PROVE SessionsApart
    <2>1. ASSUME NEW v \in Venues PROVE SessionInv(v)
      <3>1. /\ sup[v] = "waiting" /\ fn[v] = "connect" /\ session[v] = 1
            /\ \A s \in Sessions : conn[v][s] = "none" /\ reader[v][s] = "off"
            /\ 1 \in Sessions
        BY <1>1, <2>1, FeedAssumption DEF Init, Sessions
      <3>2. QED
        BY <3>1 DEF SessionInv
    <2>2. QED
      BY <2>1 DEF SessionsApart
  <1>2. TypeOK /\ SessionsApart /\ [Next]_vars => SessionsApart'
    BY SessionsStep
  <1>3. ASSUME TypeOK, SessionsApart PROVE OneLiveSession
    <2>1. ASSUME NEW v \in Venues, NEW s \in Sessions
          PROVE  /\ s # session[v] => conn[v][s] # "up" /\ reader[v][s] # "on"
                 /\ fn[v] = "done" => conn[v][s] # "up"
      <3>1. SessionInv(v) /\ session[v] \in Nat /\ s \in Nat
        BY <1>3, <2>1 DEF TypeOK, SessionsApart, Sessions
      <3>2. s < session[v] \/ s = session[v] \/ s > session[v]
        BY <3>1
      <3>3. QED
        BY <2>1, <3>1, <3>2 DEF SessionInv
    <2>2. QED
      BY <2>1 DEF OneLiveSession
  <1>4. QED
    BY <1>1, <1>2, <1>3, TypeCorrect, PTL DEF Spec

-----------------------------------------------------------------------------
(* What the order of the quotes of venue u depends on.                     *)
OrderInv(u) == FrameInv(u) /\ QuotesInOrder(u)

QuotesOrdered == \A v \in Venues : OrderInv(v)

LEMMA QuoteNumbers ==
    ASSUME TypeOK, NEW u \in Venues
    PROVE  /\ frames[u] \in Nat /\ consumed[u] \in Nat /\ held[u] \in Nat
           /\ Len(dataChannel) \in Nat
           /\ \A i \in 1..Len(dataChannel) : dataChannel[i].frame \in Nat
  <1>1. dataChannel \in Seq([venue : Venues, frame : Nat])
    BY DEF TypeOK
  <1>2. \A i \in 1..Len(dataChannel) : dataChannel[i] \in [venue : Venues, frame : Nat]
    BY <1>1, ElementOfSeq, Zenon
  <1>3. \A i \in 1..Len(dataChannel) : dataChannel[i].frame \in Nat
    BY <1>2
  <1>4. QED
    BY <1>1, <1>3, LenProperties DEF TypeOK

LEMMA SameQuotesKeep ==
    ASSUME NEW u \in Venues, OrderInv(u), frames[u] \in Nat, frames'[u] \in Nat,
           TypeOK,
           dataChannel' = dataChannel, consumed'[u] = consumed[u],
           frames'[u] >= frames[u],
           fn'[u] = "send" => fn[u] = "send" /\ held'[u] = held[u]
    PROVE  OrderInv(u)'
  <1> USE DEF OrderInv
  <1>1. /\ consumed[u] \in Nat /\ held[u] \in Nat
        /\ \A i \in 1..Len(dataChannel) : dataChannel[i].frame \in Nat
    BY QuoteNumbers
  <1>3. FrameInv(u)'
    BY <1>1 DEF FrameInv
  <1>4. QuotesInOrder(u)'
    BY DEF QuotesInOrder
  <1>5. QED
    BY <1>3, <1>4

LEMMA ReadFrameOrder ==
    ASSUME TypeOK, NEW v \in Venues, NEW s \in Sessions, ReadFrame(v, s),
           NEW u \in Venues, OrderInv(u)
    PROVE  OrderInv(u)'
  <1>1. /\ frames[u] \in Nat /\ frames[v] \in Nat /\ consumed[u] \in Nat
        /\ held[u] \in Nat
        /\ \A i \in 1..Len(dataChannel) : dataChannel[i].frame \in Nat
    BY QuoteNumbers
  <1>2. /\ UNCHANGED <<dataChannel, consumed>>
        /\ frames'[u] = IF u = v THEN frames[u] + 1 ELSE frames[u]
    BY DEF ReadFrame, TypeOK
  <1>3. CASE UNCHANGED <<fn, held>>
    BY <1>1, <1>2, <1>3, SameQuotesKeep
  <1>4. CASE u # v /\ FnTo(v, "send") /\ held' = [held EXCEPT ![v] = frames[v] + 1]
    <2>1. fn'[u] = fn[u] /\ held'[u] = held[u]
      BY <1>4 DEF FnTo, TypeOK
    <2>2. frames'[u] \in Nat /\ frames'[u] >= frames[u]
      BY <1>1, <1>2
    <2>3. QED
      BY <1>1, <1>2, <2>1, <2>2, SameQuotesKeep
  <1>5. CASE u = v /\ FnTo(v, "send") /\ held' = [held EXCEPT ![v] = frames[v] + 1]
    <2>1. fn'[u] = "send" /\ held'[u] = frames[u] + 1 /\ frames'[u] = frames[u] + 1
      BY <1>2, <1>5 DEF FnTo, TypeOK
    <2>2. FrameInv(u)'
      BY <1>1, <1>2, <2>1 DEF OrderInv, FrameInv
    <2>3. QuotesInOrder(u)'
      BY <1>1, <1>2, <2>1 DEF OrderInv, FrameInv, QuotesInOrder
    <2>4. QED
      BY <2>2, <2>3 DEF OrderInv
  <1>6. QED
    BY <1>3, <1>4, <1>5 DEF ReadFrame

LEMMA ForwardSendOrder ==
    ASSUME TypeOK, NEW v \in Venues, ForwardSend(v), NEW u \in Venues, OrderInv(u)
    PROVE  OrderInv(u)'
  <1> DEFINE n == Len(dataChannel)
  <1>1. /\ n \in Nat
        /\ Len(dataChannel') = n + 1
        /\ \A i \in 1..n : dataChannel'[i] = dataChannel[i]
        /\ dataChannel'[n + 1].venue = v /\ dataChannel'[n + 1].frame = held[v]
    <2>1. dataChannel'[n + 1] = [venue |-> v, frame |-> held[v]]
      BY SentQuote
    <2>2. QED
      BY <2>1, SentQuote
  <1>2. /\ frames[u] \in Nat /\ consumed[u] \in Nat /\ held[u] \in Nat
        /\ \A i \in 1..n : dataChannel[i].frame \in Nat
    BY QuoteNumbers
  <1>3. /\ fn[v] = "send" /\ fn' = [fn EXCEPT ![v] = "recv"]
        /\ held' = [held EXCEPT ![v] = 0]
        /\ UNCHANGED <<frames, consumed>>
    BY DEF ForwardSend, FnTo, connVars
  <1> HIDE DEF n
  <1>4. \A i \in 1..(n + 1) : i \in 1..n \/ i = n + 1
    BY <1>1
  <1>5. CASE u = v
    <2>1. fn'[u] # "send" /\ fn[u] = "send"
      BY <1>3, <1>5 DEF TypeOK
    <2>2. FrameInv(u)'
      BY <1>1, <1>2, <1>3, <1>4, <1>5, <2>1 DEF OrderInv, FrameInv, n
    <2>3. ASSUME NEW i \in 1..(n + 1), NEW j \in 1..(n + 1), i < j,
                 dataChannel'[i].venue = u, dataChannel'[j].venue = u
          PROVE  dataChannel'[i].frame < dataChannel'[j].frame
      <3>1. i \in 1..n
        BY <1>1, <2>3
      <3>2. CASE j \in 1..n
        BY <1>1, <2>3, <3>1, <3>2 DEF OrderInv, QuotesInOrder, n
      <3>3. CASE j = n + 1
        BY <1>1, <1>5, <2>1, <2>3, <3>1, <3>3 DEF OrderInv, QuotesInOrder, n
      <3>4. QED
        BY <1>4, <3>2, <3>3
    <2>4. ASSUME NEW i \in 1..(n + 1), dataChannel'[i].venue = u
          PROVE  consumed[u] < dataChannel'[i].frame
      BY <1>1, <1>4, <1>5, <2>1, <2>4 DEF OrderInv, QuotesInOrder, n
    <2>5. QuotesInOrder(u)'
      BY <1>1, <1>3, <2>1, <2>3, <2>4 DEF QuotesInOrder
    <2>6. QED
      BY <2>2, <2>5 DEF OrderInv
  <1>6. CASE u # v
    <2>1. fn'[u] = fn[u] /\ held'[u] = held[u]
      BY <1>3, <1>6 DEF TypeOK
    <2>2. \A i \in 1..(n + 1) : dataChannel'[i].venue = u =>
             i \in 1..n /\ dataChannel'[i] = dataChannel[i]
      BY <1>1, <1>4, <1>6
    <2>3. FrameInv(u)'
      BY <1>1, <1>2, <1>3, <2>1, <2>2 DEF OrderInv, FrameInv, n
    <2>4. QuotesInOrder(u)'
      BY <1>1, <1>2, <1>3, <2>1, <2>2 DEF OrderInv, QuotesInOrder, n
    <2>5. QED
      BY <2>3, <2>4 DEF OrderInv
  <1>7. QED
    BY <1>5, <1>6

LEMMA ConsumeOrder ==
    ASSUME TypeOK, Consume, NEW u \in Venues, OrderInv(u)
    PROVE  OrderInv(u)'
  <1> DEFINE n == Len(dataChannel)
             first == dataChannel[1]
  <1>1. /\ n \in Nat \ {0} /\ Len(dataChannel') = n - 1
        /\ first \in [venue : Venues, frame : Nat]
        /\ \A i \in 1..(n - 1) : dataChannel'[i] = dataChannel[i + 1]
        /\ consumed' = [consumed EXCEPT ![first.venue] = first.frame]
    BY TakenQuote DEF Consume
  <1>2. /\ frames[u] \in Nat /\ consumed[u] \in Nat /\ held[u] \in Nat
        /\ \A i \in 1..n : dataChannel[i].frame \in Nat
        /\ consumed'[u] = IF first.venue = u THEN first.frame ELSE consumed[u]
    BY <1>1, QuoteNumbers DEF TypeOK
  <1>3. UNCHANGED <<frames, fn, held>>
    BY DEF Consume, fnVars, connVars
  <1>4. 1 \in 1..n /\ \A i \in 1..(n - 1) : i + 1 \in 1..n /\ 1 < i + 1
    BY <1>1
  <1> HIDE DEF n
  <1>5. FrameInv(u)'
    BY <1>1, <1>2, <1>3, <1>4 DEF OrderInv, FrameInv, n
  <1>6. QuotesInOrder(u)'
    <2>1. ASSUME NEW i \in 1..(n - 1), dataChannel'[i].venue = u
          PROVE  /\ consumed'[u] < dataChannel'[i].frame
                 /\ fn[u] = "send" => dataChannel'[i].frame < held[u]
      BY <1>1, <1>2, <1>4, <2>1 DEF OrderInv, QuotesInOrder, n
    <2>2. ASSUME NEW i \in 1..(n - 1), NEW j \in 1..(n - 1), i < j,
                 dataChannel'[i].venue = u, dataChannel'[j].venue = u
          PROVE  dataChannel'[i].frame < dataChannel'[j].frame
      <3>1. i + 1 \in 1..n /\ j + 1 \in 1..n /\ i + 1 < j + 1
        BY <1>4, <2>2
      <3>2. QED
        BY <1>1, <2>2, <3>1 DEF OrderInv, QuotesInOrder, n
    <2>3. fn[u] = "send" => consumed'[u] < held[u]
      BY <1>1, <1>2, <1>4 DEF OrderInv, QuotesInOrder, n
    <2>4. QED
      BY <1>1, <1>3, <2>1, <2>2, <2>3 DEF QuotesInOrder
  <1>7. QED
    BY <1>5, <1>6 DEF OrderInv

LEMMA OrderStep ==
    ASSUME TypeOK, TypeOK', QuotesOrdered, [Next]_vars
    PROVE  QuotesOrdered'
  <1> SUFFICES ASSUME NEW u \in Venues PROVE OrderInv(u)'
    BY DEF QuotesOrdered
  <1>1. OrderInv(u)
    BY DEF QuotesOrdered
  <1>2. frames[u] \in Nat /\ frames'[u] \in Nat
    BY DEF TypeOK
  <1> USE DEF FnTo, supVars, fnVars, connVars
  <1>3. ASSUME NEW v \in Venues, FnStep(v)
        PROVE  OrderInv(u)'
    <2>1. CASE ForwardSend(v)
      BY <1>1, <2>1, ForwardSendOrder
    <2>2. CASE Connect(v) \/ Subscribe(v) \/ ForwardEnds(v) \/ CloseClient(v)
      <3>1. /\ UNCHANGED <<dataChannel, consumed, frames, held>>
            /\ fn'[u] = "send" => fn[u] = "send"
        BY <2>2 DEF TypeOK, Connect, Subscribe, ForwardEnds, CloseClient
      <3>2. QED
        BY <1>1, <1>2, <3>1, SameQuotesKeep
    <2>3. QED
      BY <1>3, <2>1, <2>2 DEF FnStep
  <1>4. ASSUME NEW v \in Venues, NEW s \in Sessions, SessionStep(v, s) \/ Disconnect(v, s)
        PROVE  OrderInv(u)'
    <2>1. CASE ReadFrame(v, s)
      BY <1>1, <2>1, ReadFrameOrder
    <2>2. CASE ReadError(v, s) \/ PingError(v, s) \/ Disconnect(v, s)
      <3>1. UNCHANGED <<dataChannel, consumed, frames, held, fn>>
        BY <2>2 DEF ReadError, PingError, Disconnect
      <3>2. QED
        BY <1>1, <1>2, <3>1, SameQuotesKeep
    <2>3. QED
      BY <1>4, <2>1, <2>2 DEF SessionStep
  <1>5. ASSUME NEW v \in Venues, SupervisorStep(v)
        PROVE  OrderInv(u)'
    <2>1. /\ UNCHANGED <<dataChannel, consumed, frames, held>>
          /\ fn'[u] = "send" => fn[u] = "send"
      BY <1>5 DEF TypeOK, SupervisorStep, FnDone, SupervisorStops, DelayOver, Restart
    <2>2. QED
      BY <1>1, <1>2, <2>1, SameQuotesKeep
  <1>6. CASE Stop \/ UNCHANGED vars
    <2>1. UNCHANGED <<dataChannel, consumed, frames, held, fn>>
      BY <1>6 DEF Stop, vars
    <2>2. QED
      BY <1>1, <1>2, <2>1, SameQuotesKeep
  <1>7. CASE Consume
    BY <1>1, <1>7, ConsumeOrder
  <1>8. QED
    BY <1>3, <1>4, <1>5, <1>6, <1>7 DEF Next

(* The workers see the quotes of a venue in the order in which the venue   *)
(* sent them and none twice, for every number of venues that share the     *)
(* channel, dropped quotes, blocked sends and reconnections                *)
(* (register_cex.go:190-202, bybit.go:112-117).                            *)
THEOREM InVenueOrder == Spec => []VenueOrder
  <1>1. ASSUME Init PROVE QuotesOrdered
    <2>1. ASSUME NEW v \in Venues PROVE OrderInv(v)
      <3>1. /\ Len(dataChannel) = 0 /\ fn[v] = "connect"
            /\ frames[v] = 0 /\ consumed[v] = 0
        BY <1>1, <2>1 DEF Init
      <3>2. QED
        BY <3>1 DEF OrderInv, FrameInv, QuotesInOrder
    <2>2. QED
      BY <2>1 DEF QuotesOrdered
  <1>2. TypeOK /\ TypeOK' /\ QuotesOrdered /\ [Next]_vars => QuotesOrdered'
    BY OrderStep
  <1>3. QuotesOrdered => VenueOrder
    BY DEF QuotesOrdered, OrderInv, VenueOrder
  <1>4. QED
    BY <1>1, <1>2, <1>3, TypeCorrect, PTL DEF Spec
=============================================================================

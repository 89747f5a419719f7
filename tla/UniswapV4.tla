----------------------------- MODULE UniswapV4 -----------------------------
(***************************************************************************)
(* The Uniswap V4 connector (internal/dex/Etherium/Uniswap/                *)
(* v4_connector.go) under the supervisor: Run with its bootstrap,          *)
(* connections and delays, the acknowledgement machine of runStream, the   *)
(* reader of every connection, the handling of a swap and the once mode.   *)
(*                                                                         *)
(* A connection is a number; everything that belongs to one is a record of *)
(* ses.  A frame is an answer or a log event, named by its pool.  A send   *)
(* into the shared channel takes as long as its consumers like.  The       *)
(* supervisor is the subject of CexFeed; here it has returned as soon as   *)
(* it can see stop.                                                        *)
(***************************************************************************)
EXTENDS Naturals, Sequences

CONSTANTS
    Pools,          (* the pools of the venue                               *)
    Inline,         (* cfg.Pools: a set of Entries                          *)
    Files,          (* what the file of the pools may hold: sets of Entries *)
    WantedOnly,     (* cfg.WantedPairsOnly                                  *)
    Once,           (* cfg.Once                                             *)
    StopOnAckError, (* cfg.StopOnAckError                                   *)
    AckRetryMax,    (* ackRetryMax, 5                                       *)
    BufCap,         (* capacity of messages, 512                            *)
    MaxDelay,       (* backoffMax in seconds, 30                            *)
    MaxRuns,        (* bound on the runs the supervisor starts              *)
    MaxSessions,    (* bound on the connections of all the runs             *)
    MaxAnswers,     (* bound on the answers of the venue, per connection    *)
    MaxSwaps        (* bound on its log events, per connection              *)

(* An entry: is its pair a wanted one, is it complete, is it of this dex   *)
(* and network, are both tokens stable?                                    *)
Entries == [pool : Pools, wanted : BOOLEAN, valid : BOOLEAN, listed : BOOLEAN,
            stables : BOOLEAN]

FirstDelay == 2

ASSUME V4Assumption ==
    /\ Pools \cap {"none", "ack", "reject"} = {}
    /\ Inline \subseteq Entries /\ Files \subseteq SUBSET Entries
    /\ {WantedOnly, Once, StopOnAckError} \subseteq BOOLEAN
    /\ {AckRetryMax, BufCap, MaxDelay, MaxRuns, MaxSessions} \subseteq Nat \ {0}
    /\ MaxDelay >= FirstDelay
    /\ {MaxAnswers, MaxSwaps} \subseteq Nat

Sessions == 1..MaxSessions

VARIABLES
    stop,       (* the stop channel is closed                               *)
    sup,        (* supervisor: "waiting", in "backoff", its delay "expired" *)
    runs,       (* number of the current run                                *)
    cancelled,  (* the context of the current run is done                   *)
    abi,        (* abiOnce: "unread", "good" or "bad"                       *)
    pc,         (* where Run is                                             *)
    result,     (* how the last run ended: "none", "error", "once", "ctx"   *)
    pools,      (* c.pools, by id                                           *)
    emitted,    (* the pools with onceEmitted                               *)
    seen,       (* history: pools with a priced swap since the bootstrap    *)
    backoff,    (* seconds                                                  *)
    session,    (* the current connection, 0 before the first               *)
    ses,        (* the connections, see NoSession                           *)
    waiting,    (* waitingAck                                               *)
    failures,   (* ackFailures                                              *)
    completed   (* status.completed of the swap in hand                     *)

supVars    == <<stop, sup, runs>>
poolVars   == <<pools, emitted, seen>>
ackVars    == <<waiting, failures>>
vars == <<supVars, cancelled, abi, pc, result, poolVars, backoff, session, ses,
          ackVars, completed>>

(* Mutant: the limit of the delay is not applied.                          *)
NextDelayUnbounded(d) == 2 * d

NextDelay(d) == IF 2 * d > MaxDelay THEN MaxDelay ELSE 2 * d

Frames == {"none", "ack", "reject"} \cup Pools

(* A connection: the run that dialled it; its link; its reader and the     *)
(* frame that one holds; messages; the requests the venue has not answered *)
(* yet, its answers, its subscriptions and its log events.                 *)
Connection ==
    [run : 0..MaxRuns, link : {"none", "up", "broken", "closed"},
     reader : {"off", "reading", "pushing", "failed", "quit"}, held : Frames,
     buf : Seq(Frames), asked : Nat, answers : Nat, subs : Nat, logs : Nat]

NoSession == [run |-> 0, link |-> "none", reader |-> "off", held |-> "none",
              buf |-> <<>>, asked |-> 0, answers |-> 0, subs |-> 0, logs |-> 0]

CtxDone(s) == ses[s].run < runs \/ cancelled

-----------------------------------------------------------------------------
Init ==
    /\ stop = FALSE /\ sup = "waiting" /\ runs = 1
    /\ cancelled = FALSE /\ abi = "unread"
    /\ pc = "bootstrap" /\ result = "none"
    /\ pools = {} /\ emitted = {} /\ seen = {}
    /\ backoff = FirstDelay
    /\ session = 0 /\ ses = [s \in Sessions |-> NoSession]
    /\ waiting = FALSE /\ failures = 0
    /\ completed = FALSE

(* Run returns; the deferred cancel of the launcher ends its context.      *)
Return(r) ==
    /\ pc' = "done"
    /\ result' = r
    /\ cancelled' = TRUE

-----------------------------------------------------------------------------
(* Run: preparation and connection.                                        *)

(* bootstrapPools: the pools a configuration and a file yield.  An inline  *)
(* entry that is not valid is an error, and no pool at all is one; the     *)
(* file counts only if no inline entry is left, and is read with more care.*)
Wanted(entries) == { e \in entries : WantedOnly => e.wanted }

FromFile(f) == { e.pool : e \in {x \in Wanted(f) : x.listed /\ x.valid /\ ~x.stables} }

(* enrichTokenMeta has nothing to object to.                               *)
Complete(entries) == \A e \in entries : e.valid

Prepared(f) ==
    LET inline == Wanted(Inline) IN
    CASE inline = {} -> FromFile(f)
      [] inline # {} /\ Complete(inline)  -> {e.pool : e \in inline}
      [] inline # {} /\ ~Complete(inline) -> {}

(* ensureABI reads the file once for the lifetime of the connector: an     *)
(* error is returned again by every later run.                             *)
Bootstrap ==
    /\ pc = "bootstrap"
    /\ abi' \in IF abi = "unread" THEN {"good", "bad"} ELSE {abi}
    /\ \/ Return("error") /\ UNCHANGED <<poolVars, backoff>>
       \/ /\ abi' = "good"
          /\ \E f \in Files : pools' = Prepared(f)
          /\ pools' # {}
          /\ emitted' = {} /\ seen' = {}
          /\ backoff' = FirstDelay
          /\ pc' = "dial"
          /\ UNCHANGED <<result, cancelled>>
    /\ UNCHANGED <<supVars, session, ses, ackVars, completed>>

Dial ==
    /\ pc = "dial"
    /\ \/ cancelled /\ Return("ctx") /\ UNCHANGED <<session, ses>>
       \/ pc' = "sleep" /\ ~cancelled /\ UNCHANGED <<result, cancelled, session, ses>>
       \/ /\ ~cancelled /\ session < MaxSessions
          /\ session' = session + 1
          /\ ses' = [ses EXCEPT ![session + 1].link = "up", ![session + 1].run = runs]
          /\ pc' = "subscribe"
          /\ UNCHANGED <<result, cancelled>>
    /\ UNCHANGED <<supVars, abi, poolVars, backoff, ackVars, completed>>

(* A write into a connection that is up reaches the venue; into a broken   *)
(* one it may fail or be lost.  Requests the venue will not answer within  *)
(* the bound MaxAnswers are not counted.                                   *)
Written(s) == IF ses[s].link = "up" THEN {TRUE} ELSE {TRUE, FALSE}
Asked(s)   == IF ses[s].link = "up" /\ ses[s].asked < MaxAnswers
              THEN ses[s].asked + 1 ELSE ses[s].asked

(* subscribe, then the start of runStream: reader and timer.               *)
Subscribe ==
    /\ pc = "subscribe"
    /\ \E ok \in Written(session) :
         IF ok
         THEN /\ ses' = [ses EXCEPT ![session].asked = Asked(session),
                                    ![session].reader = "reading"]
              /\ waiting' = TRUE /\ failures' = 0
              /\ pc' = "select"
         ELSE /\ ses' = [ses EXCEPT ![session].link = "closed"]
              /\ pc' = "sleep"
              /\ UNCHANGED ackVars
    /\ UNCHANGED <<supVars, cancelled, abi, result, poolVars, backoff, session, completed>>

Sleep ==
    /\ pc = "sleep"
    /\ \/ cancelled /\ Return("ctx") /\ UNCHANGED backoff
       \/ /\ backoff' = NextDelay(backoff)
          /\ pc' = "dial"
          /\ UNCHANGED <<result, cancelled>>
    /\ UNCHANGED <<supVars, abi, poolVars, session, ses, ackVars, completed>>

(* runStream returns r, Run closes the connection and goes by r: only a    *)
(* stream that ends without an error sets the delay back.  now is ses with *)
(* what the last step of the stream did to it.  The subscriptions of the   *)
(* connection and the local variables of the stream go with it; of the     *)
(* frames only their number still matters, to the reader.                  *)
EndStream(r, now) ==
    /\ ses' = [now EXCEPT ![session] =
                 [NoSession EXCEPT !.run = runs, !.link = "closed",
                                   !.reader = now[session].reader,
                                   !.buf = [i \in DOMAIN now[session].buf |-> "none"]]]
    /\ waiting' = FALSE /\ failures' = 0
    /\ CASE r = "nil"  -> /\ backoff' = FirstDelay /\ pc' = "dial"
                          /\ UNCHANGED <<result, cancelled>>
         [] r # "nil" /\ cancelled -> Return("ctx") /\ UNCHANGED backoff
         [] r = "once" /\ ~cancelled -> Return("once") /\ UNCHANGED backoff
         [] OTHER -> pc' = "sleep" /\ UNCHANGED <<result, cancelled, backoff>>

-----------------------------------------------------------------------------
(* The select of runStream.                                                *)

StreamCancelled ==
    /\ pc = "select" /\ cancelled
    /\ EndStream("ctx", ses)
    /\ UNCHANGED <<supVars, abi, poolVars, session, completed>>

(* errs holds the error of a reader that failed; it is closed without one  *)
(* by a reader that saw the end of the context.  messages is closed too,   *)
(* and once it is drained that is an error of its own; the frames that are *)
(* still buffered are lost when errs is chosen first.                      *)
ReaderEnded ==
    /\ pc = "select"
    /\ \/ ses[session].reader = "failed" /\ EndStream("error", ses)
       \/ ses[session].reader = "quit" /\ EndStream("nil", ses)
       \/ ses[session].reader = "quit" /\ ses[session].buf = <<>> /\ EndStream("error", ses)
    /\ UNCHANGED <<supVars, abi, poolVars, session, completed>>

(* A failed subscription: give up, or wait and subscribe again.            *)
Failed(armed, now) ==
    IF StopOnAckError \/ failures + 1 >= AckRetryMax
    THEN EndStream("error", now)
    ELSE /\ failures' = failures + 1
         /\ pc' = "ackSleep"
         /\ waiting' = armed
         /\ ses' = now
         /\ UNCHANGED <<result, cancelled, backoff>>

AckTimeout ==
    /\ pc = "select" /\ waiting
    /\ Failed(TRUE, ses)
    /\ UNCHANGED <<supVars, abi, poolVars, session, completed>>

(* Mutant: the timer is not started again after a rejection.               *)
ResubscribeNoTimer ==
    /\ pc = "ackSleep"
    /\ \/ cancelled /\ EndStream("ctx", ses)
       \/ /\ ses' = [ses EXCEPT ![session].asked = Asked(session)]
          /\ pc' = "select"
          /\ UNCHANGED <<ackVars, result, cancelled, backoff>>
       \/ FALSE \in Written(session) /\ EndStream("error", ses)
    /\ UNCHANGED <<supVars, abi, poolVars, session, completed>>

(* Mutant: the new request starts with a clean count of failures.          *)
ResubscribeForgets ==
    /\ pc = "ackSleep"
    /\ \/ cancelled /\ EndStream("ctx", ses)
       \/ /\ ses' = [ses EXCEPT ![session].asked = Asked(session)]
          /\ waiting' = TRUE
          /\ failures' = 0
          /\ pc' = "select"
          /\ UNCHANGED <<result, cancelled, backoff>>
       \/ FALSE \in Written(session) /\ EndStream("error", ses)
    /\ UNCHANGED <<supVars, abi, poolVars, session, completed>>

(* The end of the sleep after a failed subscription, and the next attempt  *)
(* on the same connection.  Meanwhile no frame is taken.                   *)
Resubscribe ==
    /\ pc = "ackSleep"
    /\ \/ cancelled /\ EndStream("ctx", ses)
       \/ /\ ses' = [ses EXCEPT ![session].asked = Asked(session)]
          /\ waiting' = TRUE
          /\ pc' = "select"
          /\ UNCHANGED <<failures, result, cancelled, backoff>>
       \/ FALSE \in Written(session) /\ EndStream("error", ses)
    /\ UNCHANGED <<supVars, abi, poolVars, session, completed>>

(* Mutant: the mark that leaves one pool unmarked completes the once mode. *)
CompletesEarly(p) ==
    Once /\ p \notin emitted /\ \E q \in Pools : pools \subseteq emitted \cup {p, q}

(* storeSwapMetrics: the first swap of a pool marks it; the mark that      *)
(* leaves none unmarked completes the once mode.                           *)
Completes(p) == Once /\ p \notin emitted /\ pools \subseteq emitted \cup {p}

(* handleLog: a log that was removed, or is no swap, is dropped.  So is a  *)
(* swap of no pool of ours or without a usable price.                      *)
IgnoreLog == UNCHANGED <<poolVars, completed, pc, result, cancelled, backoff, ackVars>>

(* handleSwapEvent: the pool is marked, then the pricer is updated and     *)
(* quotes are sent: one for each direction whose price fits a float, one   *)
(* for each token the pricer can price.  When neither fits, the mark stays *)
(* and nothing is sent.                                                    *)
HandleSwap(p) ==
    /\ p \in pools
    /\ seen' = seen \cup {p}
    /\ emitted' = IF Once THEN emitted \cup {p} ELSE emitted
    /\ completed' = Completes(p)
    /\ pc' = "publish"
    /\ UNCHANGED <<pools, result, cancelled, backoff, ackVars>>

TakeFrame ==
    LET f == Head(ses[session].buf)
        taken == [ses EXCEPT ![session].buf = Tail(@)]
    IN
    /\ pc = "select" /\ ses[session].buf # <<>>
    /\ CASE f = "ack" ->
              /\ failures' = 0 /\ waiting' = FALSE /\ ses' = taken
              /\ UNCHANGED <<poolVars, completed, pc, result, cancelled, backoff>>
         [] f = "reject" ->
              /\ Failed(FALSE, taken)
              /\ UNCHANGED <<poolVars, completed>>
         [] OTHER -> ses' = taken /\ (IgnoreLog \/ HandleSwap(f))
    /\ UNCHANGED <<supVars, abi, session>>

(* The end of emitSpot and emitUSD, whose sends only room in the channel   *)
(* ends, and of handleSwapEvent.                                           *)
SwapDone ==
    /\ pc = "publish"
    /\ completed' = FALSE
    /\ IF completed
       THEN EndStream("once", ses)
       ELSE pc' = "select" /\ UNCHANGED <<result, cancelled, backoff, ses, ackVars>>
    /\ UNCHANGED <<supVars, abi, poolVars, session>>

-----------------------------------------------------------------------------
(* The goroutines of a connection.  They watch the context of the run, not *)
(* the end of the stream.                                                  *)

OnlySession == UNCHANGED <<supVars, cancelled, abi, pc, result, poolVars, backoff, session,
                           ackVars, completed>>

(* The reader gets a frame: an answer to a request, or, under a            *)
(* subscription, a log event.                                              *)
ReadFrame(s) ==
    /\ ses[s].reader = "reading" /\ ses[s].link = "up"
    /\ \/ /\ ses[s].asked > 0 /\ ses[s].answers < MaxAnswers
          /\ \E f \in {"ack", "reject"} :
               ses' = [ses EXCEPT ![s].asked = @ - 1, ![s].answers = @ + 1,
                                  ![s].subs = IF f = "ack" THEN @ + 1 ELSE @,
                                  ![s].reader = "pushing", ![s].held = f]
       \/ /\ ses[s].subs > 0 /\ ses[s].logs < MaxSwaps
          /\ \E f \in Pools :
               ses' = [ses EXCEPT ![s].logs = @ + 1, ![s].reader = "pushing", ![s].held = f]
    /\ OnlySession

(* Mutant: the reader ends without a word to runStream.                    *)
ReadErrorSilent(s) ==
    /\ ses[s].reader = "reading" /\ ses[s].link # "up"
    /\ ses' = [ses EXCEPT ![s].reader = "off"]
    /\ OnlySession

ReadError(s) ==
    /\ ses[s].reader = "reading" /\ ses[s].link # "up"
    /\ ses' = [ses EXCEPT ![s].reader = "failed"]
    /\ OnlySession

(* Mutant: the reader waits for room in the buffer and nothing else.       *)
PushBlind(s) ==
    /\ ses[s].reader = "pushing"
    /\ Len(ses[s].buf) < BufCap
    /\ ses' = [ses EXCEPT ![s].buf = Append(@, ses[s].held), ![s].reader = "reading",
                          ![s].held = "none"]
    /\ OnlySession

(* Mutant: the reader gives up on a full buffer and reports no error.      *)
PushGivesUp(s) ==
    /\ ses[s].reader = "pushing"
    /\ \/ /\ Len(ses[s].buf) < BufCap
          /\ ses' = [ses EXCEPT ![s].buf = Append(@, ses[s].held), ![s].reader = "reading",
                                ![s].held = "none"]
       \/ /\ Len(ses[s].buf) = BufCap \/ CtxDone(s)
          /\ ses' = [ses EXCEPT ![s].reader = "quit", ![s].held = "none"]
    /\ OnlySession

(* With a full buffer that nobody drains any more the reader stays here    *)
(* until the run ends.                                                     *)
Push(s) ==
    /\ ses[s].reader = "pushing"
    /\ \/ /\ Len(ses[s].buf) < BufCap
          /\ ses' = [ses EXCEPT ![s].buf = Append(@, ses[s].held), ![s].reader = "reading",
                                ![s].held = "none"]
       \/ CtxDone(s) /\ ses' = [ses EXCEPT ![s].reader = "quit", ![s].held = "none"]
    /\ OnlySession

-----------------------------------------------------------------------------
(* The launcher, the supervisor and the surroundings.                      *)

OnlySup == UNCHANGED <<abi, poolVars, backoff, session, ses, ackVars, completed>>

(* Mutant: the launcher does not watch stop.                               *)
PropagateNothing ==
    /\ FALSE
    /\ cancelled' = TRUE
    /\ OnlySup /\ UNCHANGED <<supVars, pc, result>>

(* The goroutine of the launcher that turns stop into a cancelled context. *)
PropagateStop ==
    /\ stop /\ ~cancelled
    /\ cancelled' = TRUE
    /\ OnlySup /\ UNCHANGED <<supVars, pc, result>>

Supervise ==
    /\ ~stop
    /\ \/ sup = "waiting" /\ pc = "done" /\ sup' = "backoff"
       \/ sup = "backoff" /\ sup' = "expired"
    /\ OnlySup /\ UNCHANGED <<stop, runs, cancelled, pc, result>>

(* The supervisor runs fn again, whatever the last run returned.           *)
Restart ==
    /\ sup = "expired" /\ runs < MaxRuns
    /\ sup' = "waiting"
    /\ runs' = runs + 1
    /\ cancelled' = FALSE
    /\ pc' = "bootstrap" /\ result' = "none"
    /\ OnlySup /\ UNCHANGED stop

Break ==
    /\ session > 0 /\ ses[session].link = "up"
    /\ ses' = [ses EXCEPT ![session].link = "broken"]
    /\ OnlySession

Stop ==
    /\ ~stop /\ stop' = TRUE
    /\ OnlySup /\ UNCHANGED <<sup, runs, cancelled, pc, result>>

RunStep ==
    \/ Bootstrap \/ Dial \/ Subscribe \/ Sleep
    \/ StreamCancelled \/ ReaderEnded \/ AckTimeout \/ Resubscribe
    \/ TakeFrame \/ SwapDone

Next ==
    \/ RunStep
    \/ \E s \in Sessions : ReadFrame(s) \/ ReadError(s) \/ Push(s)
    \/ PropagateStop \/ Supervise \/ Restart
    \/ Break \/ Stop

(* Go schedules every goroutine that can run, its timers fire, and the     *)
(* workers make room in the channel while they live.  Nothing makes the    *)
(* venue answer.                                                           *)
Fairness ==
    /\ WF_vars(RunStep)
    /\ \A s \in Sessions : WF_vars(ReadError(s)) /\ WF_vars(Push(s))
    /\ WF_vars(PropagateStop) /\ WF_vars(Supervise) /\ WF_vars(Restart)

Spec == Init /\ [][Next]_vars /\ Fairness

-----------------------------------------------------------------------------
Delays == FirstDelay..MaxDelay

TypeOK ==
    /\ stop \in BOOLEAN /\ cancelled \in BOOLEAN
    /\ waiting \in BOOLEAN /\ completed \in BOOLEAN
    /\ sup \in {"waiting", "backoff", "expired"}
    /\ abi \in {"unread", "good", "bad"}
    /\ pc \in {"bootstrap", "dial", "subscribe", "sleep", "select", "ackSleep",
               "publish", "done"}
    /\ result \in {"none", "error", "once", "ctx"}
    /\ emitted \subseteq Pools /\ seen \subseteq Pools /\ pools \subseteq Pools
    /\ backoff \in Delays
    /\ session \in 0..MaxSessions /\ runs \in 1..MaxRuns
    /\ failures \in 0..AckRetryMax
    /\ ses \in [Sessions -> Connection]
    /\ \A s \in Sessions : Len(ses[s].buf) <= BufCap

(* A stream that waits for frames with no timer running has a subscription *)
(* at the venue: neither a rejection, nor a timeout, nor an answer that    *)
(* comes after the request was repeated leaves it listening to nothing     *)
(* (startAckWait and stopAckWait, v4_connector.go:927-951).                *)
NotDeaf ==
    pc = "select" /\ ~waiting => ses[session].subs > 0

(* The once mode ends only after every pool of the run had a swap with a   *)
(* price, however the swaps of the pools interleave with reconnections     *)
(* (storeSwapMetrics, v4_connector.go:1147-1157).                          *)
OnceComplete ==
    result = "once" => Once /\ pools \subseteq seen

(* While the context of a run lives, its delay never shrinks: no break of  *)
(* a connection is taken for the end of a healthy stream, which would dial *)
(* a failing venue at full speed (v4_connector.go:421-437).                *)
DelayHeld ==
    [][pc # "bootstrap" /\ ~cancelled => backoff' >= backoff]_vars

(* Every wait for an acknowledgement ends, with one, with a rejection or   *)
(* with the connection, although the venue may never answer and late       *)
(* answers set the count of failures back (v4_connector.go:978-996).       *)
WaitEnds ==
    waiting ~> ~waiting

(* A connection that breaks is closed by Run, whatever the handler, the    *)
(* buffer and the acknowledgement timer are doing (readLoop and runStream, *)
(* v4_connector.go:969-977, 1044-1049).                                    *)
BreakNoticed ==
    \A s \in Sessions : ses[s].link = "broken" ~> ses[s].link = "closed"

(* The reader of a connection ends after the context of its run, also the  *)
(* one that a stream that ended left with a full buffer                    *)
(* (v4_connector.go:1066-1070).                                            *)
ReadersEnd ==
    \A s \in Sessions :
        ses[s].run > 0 /\ CtxDone(s) ~> ses[s].reader \notin {"reading", "pushing"}

(* After stop the connector returns for good, also from a handler that     *)
(* waits for room in the shared channel and from a run started by the      *)
(* delay that had just expired (register_dex.go:186-195).                  *)
ShutsDown ==
    stop ~> [](pc = "done")
=============================================================================

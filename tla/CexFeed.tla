------------------------------ MODULE CexFeed ------------------------------
(***************************************************************************)
(* The producer side of the screener for centralised venues: the           *)
(* supervisor of cmd/screener-core/main.go, the session it runs over and   *)
(* over (internal/launcher/register_cex.go) and the WebSocket client of a  *)
(* session (internal/exchange/bybit.go; bitget.go, gateio.go and okx.go    *)
(* have the same goroutines).                                              *)
(*                                                                         *)
(* A session is one client: its connection, its ReadLoop, its KeepAlive    *)
(* and its unbuffered out channel.  ReadLoop never waits for the           *)
(* forwarder: it drops a quote nobody is ready to receive.  The forwarder  *)
(* waits for the shared DataChannel, whose consumers are RedisPipeline.    *)
(* A quote is the number of the frame, per venue, that it came with.       *)
(***************************************************************************)
EXTENDS Naturals, Sequences

CONSTANTS
    Venues,         (* the supervised exchanges                             *)
    ChanCap,        (* cfg.DataChannelBuffer                                *)
    MaxFrames,      (* bound on the frames of a venue                       *)
    MaxSessions     (* bound on the sessions of a venue                     *)

ASSUME FeedAssumption ==
    /\ ChanCap \in Nat \ {0}
    /\ MaxFrames \in Nat
    /\ MaxSessions \in Nat \ {0}

Sessions == 1..MaxSessions

VARIABLES
    stop,           (* the stop channel is closed                           *)
    sup,            (* supervisor: "waiting" for fn, in "backoff", its delay *)
                    (* "expired", or "returned"                             *)
    backoff,        (* its next delay in seconds                            *)
    fn,             (* the supervised function: "connect", "subscribe",     *)
                    (* "recv", "send" (forward), "close" or "done"          *)
    session,        (* number of the session fn works on                    *)
    held,           (* the quote forward is sending, 0 for none             *)
    conn,           (* per session: "none", "up" or "down"                  *)
    reader,         (* ReadLoop per session: "off", "on" or "closed"        *)
    keeper,         (* KeepAlive per session: "off", "on" or "gone"         *)
    frames,         (* per venue, frames received so far                    *)
    dataChannel,    (* the shared channel of [venue, frame] quotes          *)
    consumed        (* history: per venue, the last quote the workers took  *)

supVars  == <<sup, backoff>>
fnVars   == <<fn, session, held>>
connVars == <<conn, reader, keeper, frames>>
vars     == <<stop, supVars, fnVars, connVars, dataChannel, consumed>>

FirstBackoff == 1
MaxBackoff   == 30

-----------------------------------------------------------------------------
Init ==
    /\ stop = FALSE
    /\ sup = [v \in Venues |-> "waiting"]
    /\ backoff = [v \in Venues |-> FirstBackoff]
    /\ fn = [v \in Venues |-> "connect"]
    /\ session = [v \in Venues |-> 1]
    /\ held = [v \in Venues |-> 0]
    /\ conn = [v \in Venues |-> [s \in Sessions |-> "none"]]
    /\ reader = [v \in Venues |-> [s \in Sessions |-> "off"]]
    /\ keeper = [v \in Venues |-> [s \in Sessions |-> "off"]]
    /\ frames = [v \in Venues |-> 0]
    /\ dataChannel = <<>>
    /\ consumed = [v \in Venues |-> 0]

FnTo(v, s) == fn' = [fn EXCEPT ![v] = s]

-----------------------------------------------------------------------------
(* The supervised function.                                                *)

(* A failed dial ends the function with an error.                          *)
Connect(v) ==
    /\ fn[v] = "connect"
    /\ \/ FnTo(v, "done") /\ UNCHANGED conn
       \/ FnTo(v, "subscribe") /\ conn' = [conn EXCEPT ![v][session[v]] = "up"]
    /\ UNCHANGED <<stop, supVars, session, held, reader, keeper, frames, dataChannel, consumed>>

(* Subscription errors are ignored; then the two goroutines are started.   *)
Subscribe(v) ==
    /\ fn[v] = "subscribe"
    /\ FnTo(v, "recv")
    /\ reader' = [reader EXCEPT ![v][session[v]] = "on"]
    /\ keeper' = [keeper EXCEPT ![v][session[v]] = "on"]
    /\ UNCHANGED <<stop, supVars, session, held, conn, frames, dataChannel, consumed>>

(* forward, waiting in its select: stop, or out was closed.                *)
ForwardEnds(v) ==
    /\ fn[v] = "recv"
    /\ stop \/ reader[v][session[v]] = "closed"
    /\ FnTo(v, "close")
    /\ UNCHANGED <<stop, supVars, session, held, connVars, dataChannel, consumed>>

(* forward, inside the receive case: a send that nothing but room in the   *)
(* channel ends, stop does not.                                            *)
ForwardSend(v) ==
    /\ fn[v] = "send"
    /\ Len(dataChannel) < ChanCap
    /\ dataChannel' = Append(dataChannel, [venue |-> v, frame |-> held[v]])
    /\ held' = [held EXCEPT ![v] = 0]
    /\ FnTo(v, "recv")
    /\ UNCHANGED <<stop, supVars, session, connVars, consumed>>

(* Mutant: the client is not closed when forward returns.                  *)
NoClose(v) ==
    /\ fn[v] = "close"
    /\ FnTo(v, "done")
    /\ UNCHANGED <<stop, supVars, session, held, connVars, dataChannel, consumed>>

CloseClient(v) ==
    /\ fn[v] = "close"
    /\ conn' = [conn EXCEPT ![v][session[v]] = "down"]
    /\ FnTo(v, "done")
    /\ UNCHANGED <<stop, supVars, session, held, reader, keeper, frames, dataChannel, consumed>>

-----------------------------------------------------------------------------
(* The goroutines of a session.                                            *)

(* Mutant: a forwarder that still sends is not waited for, its quote is    *)
(* kept for later by the reader, behind newer ones.                        *)
ReadFrameRequeue(v, s) ==
    /\ reader[v][s] = "on"
    /\ conn[v][s] = "up"
    /\ frames[v] < MaxFrames
    /\ frames' = [frames EXCEPT ![v] = @ + 1]
    /\ \/ UNCHANGED <<fn, held, dataChannel>>
       \/ /\ fn[v] = "recv" /\ session[v] = s
          /\ FnTo(v, "send")
          /\ held' = [held EXCEPT ![v] = frames[v] + 1]
          /\ UNCHANGED dataChannel
       \/ /\ fn[v] = "send" /\ session[v] = s /\ Len(dataChannel) < ChanCap
          /\ dataChannel' = Append(dataChannel, [venue |-> v, frame |-> frames[v] + 1])
          /\ UNCHANGED <<fn, held>>
    /\ UNCHANGED <<stop, supVars, session, conn, reader, keeper, consumed>>

(* ReadLoop gets a frame.  It skips one without a usable price, hands a    *)
(* quote to a forwarder that is waiting for it, or drops it.               *)
ReadFrame(v, s) ==
    /\ reader[v][s] = "on"
    /\ conn[v][s] = "up"
    /\ frames[v] < MaxFrames
    /\ frames' = [frames EXCEPT ![v] = @ + 1]
    /\ \/ UNCHANGED <<fn, held>>
       \/ /\ fn[v] = "recv" /\ session[v] = s
          /\ FnTo(v, "send")
          /\ held' = [held EXCEPT ![v] = frames[v] + 1]
    /\ UNCHANGED <<stop, supVars, session, conn, reader, keeper, dataChannel, consumed>>

(* Mutant: a read error ends ReadLoop without closing out.                 *)
ReadErrorNoClose(v, s) ==
    /\ reader[v][s] = "on"
    /\ conn[v][s] = "down"
    /\ reader' = [reader EXCEPT ![v][s] = "off"]
    /\ UNCHANGED <<stop, supVars, fnVars, conn, keeper, frames, dataChannel, consumed>>

(* A read error closes out; the deferred Close finds the connection down.  *)
ReadError(v, s) ==
    /\ reader[v][s] = "on"
    /\ conn[v][s] = "down"
    /\ reader' = [reader EXCEPT ![v][s] = "closed"]
    /\ UNCHANGED <<stop, supVars, fnVars, conn, keeper, frames, dataChannel, consumed>>

(* KeepAlive ends with the first ping it cannot write.                     *)
PingError(v, s) ==
    /\ keeper[v][s] = "on"
    /\ conn[v][s] = "down"
    /\ keeper' = [keeper EXCEPT ![v][s] = "gone"]
    /\ UNCHANGED <<stop, supVars, fnVars, conn, reader, frames, dataChannel, consumed>>

-----------------------------------------------------------------------------
(* The supervisor.                                                         *)

FnDone(v) ==
    /\ sup[v] = "waiting"
    /\ fn[v] = "done"
    /\ sup' = [sup EXCEPT ![v] = "backoff"]
    /\ UNCHANGED <<stop, backoff, fnVars, connVars, dataChannel, consumed>>

(* Stop ends the supervisor in either select; it does not wait for fn.     *)
SupervisorStops(v) ==
    /\ stop
    /\ sup[v] # "returned"
    /\ sup' = [sup EXCEPT ![v] = "returned"]
    /\ UNCHANGED <<stop, backoff, fnVars, connVars, dataChannel, consumed>>

Doubled(b) == IF b < MaxBackoff THEN 2 * b ELSE b

(* Mutant: the supervisor restarts fn without waiting for the end of the   *)
(* previous run.                                                           *)
RestartEarly(v) ==
    /\ sup[v] # "returned"
    /\ fn[v] \in {"recv", "done"}
    /\ session[v] < MaxSessions
    /\ sup' = [sup EXCEPT ![v] = "waiting"]
    /\ backoff' = [backoff EXCEPT ![v] = Doubled(@)]
    /\ session' = [session EXCEPT ![v] = @ + 1]
    /\ FnTo(v, "connect")
    /\ UNCHANGED <<stop, held, connVars, dataChannel, consumed>>

(* The timer of the delay fires.  The delay is at least a second: a        *)
(* supervisor that waits when stop is closed has returned by then, so that *)
(* stop and the timer are ready together only if the timer came first.     *)
DelayOver(v) ==
    /\ sup[v] = "backoff"
    /\ ~stop
    /\ sup' = [sup EXCEPT ![v] = "expired"]
    /\ UNCHANGED <<stop, backoff, fnVars, connVars, dataChannel, consumed>>

(* Mutant: the delay is set back, to the zero value instead of the first   *)
(* delay, so that a venue that is down is dialled in a tight loop.         *)
RestartResets(v) ==
    /\ sup[v] = "expired"
    /\ session[v] < MaxSessions
    /\ sup' = [sup EXCEPT ![v] = "waiting"]
    /\ backoff' = [backoff EXCEPT ![v] = 0]
    /\ session' = [session EXCEPT ![v] = @ + 1]
    /\ FnTo(v, "connect")
    /\ UNCHANGED <<stop, held, connVars, dataChannel, consumed>>

(* Double the delay, up to a point, and run fn again.  The delay is never  *)
(* set back, however long the session lasted.                              *)
Restart(v) ==
    /\ sup[v] = "expired"
    /\ session[v] < MaxSessions
    /\ sup' = [sup EXCEPT ![v] = "waiting"]
    /\ backoff' = [backoff EXCEPT ![v] = Doubled(@)]
    /\ session' = [session EXCEPT ![v] = @ + 1]
    /\ FnTo(v, "connect")
    /\ UNCHANGED <<stop, held, connVars, dataChannel, consumed>>

-----------------------------------------------------------------------------
(* The surroundings: the network, the consumers of the channel, a signal.  *)

Disconnect(v, s) ==
    /\ conn[v][s] = "up"
    /\ conn' = [conn EXCEPT ![v][s] = "down"]
    /\ UNCHANGED <<stop, supVars, fnVars, reader, keeper, frames, dataChannel, consumed>>

Consume ==
    /\ dataChannel # <<>>
    /\ consumed' = [consumed EXCEPT ![Head(dataChannel).venue] = Head(dataChannel).frame]
    /\ dataChannel' = Tail(dataChannel)
    /\ UNCHANGED <<stop, supVars, fnVars, connVars>>

Stop ==
    /\ ~stop
    /\ stop' = TRUE
    /\ UNCHANGED <<supVars, fnVars, connVars, dataChannel, consumed>>

FnStep(v) ==
    \/ Connect(v)
    \/ Subscribe(v)
    \/ ForwardEnds(v)
    \/ ForwardSend(v)
    \/ CloseClient(v)

SessionStep(v, s) ==
    \/ ReadFrame(v, s)
    \/ ReadError(v, s)
    \/ PingError(v, s)

SupervisorStep(v) ==
    \/ FnDone(v)
    \/ SupervisorStops(v)
    \/ DelayOver(v)
    \/ Restart(v)

Next ==
    \/ \E v \in Venues : FnStep(v) \/ SupervisorStep(v)
    \/ \E v \in Venues, s \in Sessions : SessionStep(v, s) \/ Disconnect(v, s)
    \/ Consume
    \/ Stop

Spec == Init /\ [][Next]_vars

(* Goroutines that can run do, timers expire, the workers keep consuming;  *)
(* the venue need not send, the connection need not break, and no signal   *)
(* need come.                                                              *)
Fairness ==
    /\ \A v \in Venues : WF_vars(FnStep(v)) /\ WF_vars(SupervisorStep(v))
                         /\ WF_vars(SupervisorStops(v)) /\ WF_vars(ForwardEnds(v))
    /\ \A v \in Venues, s \in Sessions : WF_vars(ReadError(v, s)) /\ WF_vars(PingError(v, s))
    /\ WF_vars(Consume)

FairSpec == Spec /\ Fairness

-----------------------------------------------------------------------------
TypeOK ==
    /\ stop \in BOOLEAN
    /\ sup \in [Venues -> {"waiting", "backoff", "expired", "returned"}]
    /\ backoff \in [Venues -> FirstBackoff..(2 * MaxBackoff)]
    /\ fn \in [Venues -> {"connect", "subscribe", "recv", "send", "close", "done"}]
    /\ session \in [Venues -> Sessions]
    /\ held \in [Venues -> Nat]
    /\ conn \in [Venues -> [Sessions -> {"none", "up", "down"}]]
    /\ reader \in [Venues -> [Sessions -> {"off", "on", "closed"}]]
    /\ keeper \in [Venues -> [Sessions -> {"off", "on", "gone"}]]
    /\ frames \in [Venues -> Nat]
    /\ dataChannel \in Seq([venue : Venues, frame : Nat])
    /\ consumed \in [Venues -> Nat]

(* The sessions of a venue do not overlap: only the current one may have   *)
(* an open connection or a running ReadLoop, and once its function has     *)
(* ended its connection is closed too, so that no earlier client keeps     *)
(* feeding or keeps a subscription at the venue (register_cex.go:46-50,    *)
(* main.go:43-60).                                                         *)
OneLiveSession ==
    \A v \in Venues, s \in Sessions :
        /\ s # session[v] => conn[v][s] # "up" /\ reader[v][s] # "on"
        /\ fn[v] = "done" => conn[v][s] # "up"

(* Where the quotes of a venue are, from the oldest to the newest.         *)
QuotesInOrder(v) ==
    LET queued == {i \in 1..Len(dataChannel) : dataChannel[i].venue = v}
    IN  /\ \A i, j \in queued : i < j => dataChannel[i].frame < dataChannel[j].frame
        /\ \A i \in queued :
              /\ consumed[v] < dataChannel[i].frame
              /\ fn[v] = "send" => dataChannel[i].frame < held[v]
        /\ fn[v] = "send" => consumed[v] < held[v]

(* The workers see the quotes of a venue in the order the venue sent them, *)
(* none twice, across dropped quotes, blocked sends and reconnections.     *)
VenueOrder == \A v \in Venues : QuotesInOrder(v)

(* A session that ended is followed by another one, unless the process is  *)
(* stopping (main.go:43-60).                                               *)
Restarts ==
    \A v \in Venues, s \in 1..(MaxSessions - 1) :
        (session[v] = s /\ reader[v][s] = "on" /\ conn[v][s] = "down")
            ~> (session[v] > s \/ stop)

(* After stop everything that belongs to a venue ends: the supervisor, the *)
(* function, even if it was blocked on a full channel, and the goroutines  *)
(* of every session.                                                       *)
Gone(v) ==
    /\ sup[v] = "returned"
    /\ fn[v] = "done"
    /\ \A s \in Sessions : reader[v][s] # "on" /\ keeper[v][s] # "on"

ShutsDown == \A v \in Venues : stop ~> Gone(v)
=============================================================================

------------------------ MODULE RedisPipelineProofs ------------------------
(***************************************************************************)
(* Theorems about RedisPipeline, for every pool of workers, set of keys,   *)
(* channel capacity and pipeline size, with pipelines that are refused in  *)
(* parts, sent again, given up or answered late.                           *)
(***************************************************************************)
EXTENDS RedisPipeline, SequenceTheorems, FiniteSetTheorems, TLAPS

(* The channel keeps the order of publication: the quotes received so far  *)
(* are the first Len(taker) ones, the others are in the channel.           *)
ChannelInOrder ==
    /\ Len(published) = Len(taker) + Len(dataChannel)
    /\ \A i \in 1..Len(dataChannel) : dataChannel[i] = Len(taker) + i

(* Control facts: the shutdown sleep is not over before the exit, answers  *)
(* and attempts are counted only inside HSetBatch, which is not entered    *)
(* with an empty batch, and no attempt given up is kept without a command. *)
ControlInv ==
    /\ phase = "stopping" => grace \in 1..GraceTicks
    /\ phase = "running" => grace = GraceTicks
    /\ Len(dataChannel) <= ChanCap
    /\ \A w \in Workers :
          /\ acked[w] <= Len(batch[w])
          /\ wpc[w] = "select" => acked[w] = 0 /\ attempt[w] = 0 /\ ~ execErr[w]
          /\ wpc[w] = "exec" => batch[w] # <<>>
    /\ \A p \in late : p.cmds # <<>>

TypeInv == TypeOK /\ ChannelInOrder /\ ControlInv

-----------------------------------------------------------------------------
(* The two entries of a quote are entries of the hashes of its key.        *)
LEMMA HashesInHashKeys ==
    ASSUME NEW k \in Keys
    PROVE  RawHash(k) \in HashKeys /\ CanonHash(k) \in HashKeys
  BY DEF HashKeys, HashesOf

LEMMA EntriesOfProperties ==
    ASSUME published \in Seq(Keys), NEW n \in 1..Len(published)
    PROVE  /\ EntriesOf(n) \in Seq(Entry)
           /\ Len(EntriesOf(n)) = 2
           /\ EntriesOf(n)[1] = [hash |-> RawHash(published[n]), quote |-> n]
           /\ EntriesOf(n)[2] = [hash |-> CanonHash(published[n]), quote |-> n]
  <1> DEFINE raw   == [hash |-> RawHash(published[n]), quote |-> n]
             canon == [hash |-> CanonHash(published[n]), quote |-> n]
  <1>1. published[n] \in Keys
    BY ElementOfSeq
  <1>2. raw \in Entry /\ canon \in Entry
    BY <1>1, HashesInHashKeys DEF Entry
  <1>3. EntriesOf(n) = <<raw, canon>>
    BY DEF EntriesOf
  <1> HIDE DEF raw, canon
  <1>4. QED
    BY <1>2, <1>3 DEF raw, canon

(* What the batch of a worker becomes when it receives a quote: the two    *)
(* entries of the quote are appended.                                      *)
Full(w) == batch[w] \o EntriesOf(Head(dataChannel))

LEMMA HeadOfChannel ==
    ASSUME TypeInv, dataChannel # <<>>
    PROVE  /\ Head(dataChannel) = Len(taker) + 1
           /\ Head(dataChannel) \in 1..Len(published)
  <1>1. dataChannel \in Seq(Nat \ {0}) /\ taker \in Seq(Workers) /\ published \in Seq(Keys)
    BY DEF TypeInv, TypeOK
  <1>2. Len(dataChannel) \in Nat \ {0} /\ Len(taker) \in Nat /\ Len(published) \in Nat
    BY <1>1, EmptySeq, LenProperties
  <1>3. Head(dataChannel) = dataChannel[1]
    BY <1>1
  <1>4. QED
    BY <1>2, <1>3 DEF TypeInv, ChannelInOrder

LEMMA FullProperties ==
    ASSUME TypeInv, NEW w \in Workers, dataChannel # <<>>
    PROVE  /\ Full(w) \in Seq(Entry)
           /\ Len(Full(w)) = Len(batch[w]) + 2
           /\ \A i \in 1..Len(batch[w]) : Full(w)[i] = batch[w][i]
           /\ Full(w)[Len(batch[w]) + 1] =
                 [hash |-> RawHash(published[Len(taker) + 1]), quote |-> Len(taker) + 1]
           /\ Full(w)[Len(batch[w]) + 2] =
                 [hash |-> CanonHash(published[Len(taker) + 1]), quote |-> Len(taker) + 1]
  <1> DEFINE n == Len(taker) + 1
             es == EntriesOf(n)
  <1>1. published \in Seq(Keys) /\ batch[w] \in Seq(Entry)
    BY DEF TypeInv, TypeOK
  <1>2. Len(batch[w]) \in Nat
    BY <1>1, LenProperties
  <1>3. n \in 1..Len(published) /\ Full(w) = batch[w] \o es
    BY HeadOfChannel DEF Full
  <1> HIDE DEF n
  <1>4. /\ es \in Seq(Entry) /\ Len(es) = 2
        /\ es[1] = [hash |-> RawHash(published[n]), quote |-> n]
        /\ es[2] = [hash |-> CanonHash(published[n]), quote |-> n]
    BY <1>1, <1>3, EntriesOfProperties
  <1> HIDE DEF es
  <1>5. /\ batch[w] \o es \in Seq(Entry)
        /\ Len(batch[w] \o es) = Len(batch[w]) + Len(es)
        /\ \A i \in 1..Len(batch[w]) + Len(es) :
              (batch[w] \o es)[i] = IF i <= Len(batch[w]) THEN batch[w][i]
                                    ELSE es[i - Len(batch[w])]
    BY <1>1, <1>4, ConcatProperties, Zenon
  <1>6. Full(w) \in Seq(Entry) /\ Len(Full(w)) = Len(batch[w]) + 2
    BY <1>3, <1>4, <1>5
  <1>7. \A i \in 1..Len(batch[w]) : Full(w)[i] = batch[w][i]
    BY <1>2, <1>3, <1>4, <1>5
  <1>8. Full(w)[Len(batch[w]) + 1] = es[1] /\ Full(w)[Len(batch[w]) + 2] = es[2]
    BY <1>2, <1>3, <1>4, <1>5
  <1>9. QED
    BY <1>4, <1>6, <1>7, <1>8 DEF n

-----------------------------------------------------------------------------
LEMMA TypeInvInit == Init => TypeInv
  BY PipelineAssumption DEF Init, TypeInv, TypeOK, ChannelInOrder, ControlInv

LEMMA SendType ==
    ASSUME TypeInv, NEW k \in Keys, Send(k)
    PROVE  TypeInv'
  <1> USE DEF TypeInv, Send, workerVars, execVars, storeVars, counters
  <1>0. /\ published' = Append(published, k) /\ published \in Seq(Keys)
        /\ dataChannel' = Append(dataChannel, Len(published) + 1)
        /\ dataChannel \in Seq(Nat \ {0})
        /\ taker' = taker /\ taker \in Seq(Workers)
        /\ Len(dataChannel) < ChanCap /\ ChanCap \in Nat
    BY PipelineAssumption DEF TypeOK
  <1>1. TypeOK'
    BY DEF TypeOK
  <1>2. ChannelInOrder'
    <2>1. Len(published') = Len(published) + 1 /\ Len(dataChannel') = Len(dataChannel) + 1
      BY <1>0
    <2>2. \A i \in 1..Len(dataChannel) : dataChannel'[i] = dataChannel[i]
      BY <1>0
    <2>3. dataChannel'[Len(dataChannel) + 1] = Len(published) + 1
      BY <1>0
    <2>4. Len(dataChannel) \in Nat /\ Len(taker) \in Nat
      BY <1>0
    <2>5. Len(published) = Len(taker) + Len(dataChannel)
      BY DEF ChannelInOrder
    <2>6. ASSUME NEW i \in 1..Len(dataChannel')
          PROVE  dataChannel'[i] = Len(taker') + i
      <3>1. CASE i \in 1..Len(dataChannel)
        BY <1>0, <2>2, <3>1 DEF ChannelInOrder
      <3>2. CASE i = Len(dataChannel) + 1
        BY <1>0, <2>3, <2>4, <2>5, <3>2
      <3>3. QED
        BY <2>1, <2>4, <2>6, <3>1, <3>2
    <2>7. QED
      BY <1>0, <2>1, <2>4, <2>5, <2>6 DEF ChannelInOrder
  <1>3. ControlInv'
    <2>1. Len(dataChannel') <= ChanCap
      BY <1>0
    <2>2. QED
      BY <2>1 DEF ControlInv
  <1>4. QED
    BY <1>1, <1>2, <1>3

(* Entering HSetBatch, or not: what that leaves of the control state.      *)
LEMMA BeginExecType ==
    ASSUME TypeInv, NEW w \in Workers, wpc[w] = "select",
           BeginExec(w) \/ UNCHANGED execVars
    PROVE  /\ wpc' \in [Workers -> {"select", "exec"}]
           /\ UNCHANGED <<acked, execErr, attempt>>
           /\ \A v \in Workers : v # w => wpc'[v] = wpc[v]
  <1> USE DEF TypeInv, TypeOK, ControlInv
  <1>1. CASE BeginExec(w)
    BY <1>1 DEF BeginExec
  <1>2. CASE UNCHANGED execVars
    BY <1>2 DEF execVars
  <1>3. QED
    BY <1>1, <1>2

LEMMA TakeType ==
    ASSUME TypeInv, NEW w \in Workers, Take(w)
    PROVE  TypeInv'
  <1>1. /\ dataChannel # <<>>
        /\ wpc[w] = "select"
        /\ UNCHANGED <<published, owed, timer, redis, late, lateHashes, resends, totalRedisOps,
                       totalRedisErrors, phase, grace>>
        /\ batch' = [batch EXCEPT ![w] = Full(w)]
        /\ BeginExec(w) \/ UNCHANGED execVars
        /\ dataChannel' = Tail(dataChannel)
        /\ taker' = Append(taker, w)
    BY DEF Take, Full, counters, storeVars
  <1>2. Full(w) \in Seq(Entry) /\ Len(Full(w)) = Len(batch[w]) + 2
    BY <1>1, FullProperties
  <1>3. /\ Tail(dataChannel) \in Seq(Nat \ {0})
        /\ Len(Tail(dataChannel)) = Len(dataChannel) - 1
        /\ \A i \in 1..Len(Tail(dataChannel)) : Tail(dataChannel)[i] = dataChannel[i + 1]
        /\ Append(taker, w) \in Seq(Workers)
        /\ Len(Append(taker, w)) = Len(taker) + 1
        /\ Len(dataChannel) \in Nat /\ Len(taker) \in Nat
    BY <1>1, HeadTailProperties, LenProperties DEF TypeInv, TypeOK
  <1>4. /\ wpc' \in [Workers -> {"select", "exec"}]
        /\ UNCHANGED <<acked, execErr, attempt>>
        /\ \A v \in Workers : v # w => wpc'[v] = wpc[v]
    BY <1>1, BeginExecType
  <1>5. batch' \in [Workers -> Seq(Entry)]
    BY <1>1, <1>2 DEF TypeInv, TypeOK
  <1>6. TypeOK'
    BY <1>1, <1>3, <1>4, <1>5 DEF TypeInv, TypeOK
  <1>7. ChannelInOrder'
    <2>1. ASSUME NEW i \in 1..Len(dataChannel')
          PROVE  dataChannel'[i] = Len(taker') + i
      <3>1. i + 1 \in 1..Len(dataChannel) /\ dataChannel'[i] = dataChannel[i + 1]
        BY <1>1, <1>3, <2>1
      <3>2. dataChannel[i + 1] = Len(taker) + (i + 1)
        BY <3>1 DEF TypeInv, ChannelInOrder
      <3>3. QED
        BY <1>1, <1>3, <3>1, <3>2
    <2>2. Len(published') = Len(taker') + Len(dataChannel')
      <3>1. Len(published) = Len(taker) + Len(dataChannel)
        BY DEF TypeInv, ChannelInOrder
      <3>2. /\ published' = published
            /\ Len(taker') = Len(taker) + 1
            /\ Len(dataChannel') = Len(dataChannel) - 1
        BY <1>1, <1>3
      <3>3. QED
        BY <1>3, <3>1, <3>2
    <2>3. QED
      BY <2>1, <2>2 DEF ChannelInOrder
  <1>8. ControlInv'
    <2>1. Len(dataChannel') <= ChanCap
      BY <1>1, <1>3, PipelineAssumption DEF TypeInv, ControlInv
    <2>2. ASSUME NEW v \in Workers
          PROVE  /\ acked'[v] <= Len(batch'[v])
                 /\ wpc'[v] = "select" => acked'[v] = 0 /\ attempt'[v] = 0 /\ ~ execErr'[v]
                 /\ wpc'[v] = "exec" => batch'[v] # <<>>
      <3>1. CASE v = w
        <4>1. batch'[w] = Full(w) /\ Len(batch[w]) \in Nat
          BY <1>1, LenProperties DEF TypeInv, TypeOK
        <4>2. Full(w) # <<>>
          BY <1>2, <4>1
        <4>3. acked[w] = 0 /\ attempt[w] = 0 /\ ~ execErr[w]
          BY <1>1 DEF TypeInv, ControlInv
        <4>4. QED
          BY <1>2, <1>4, <3>1, <4>1, <4>2, <4>3
      <3>2. CASE v # w
        BY <1>1, <1>4, <3>2 DEF TypeInv, TypeOK, ControlInv
      <3>3. QED
        BY <3>1, <3>2
    <2>3. QED
      BY <1>1, <2>1, <2>2 DEF TypeInv, ControlInv
  <1>9. QED
    BY <1>6, <1>7, <1>8 DEF TypeInv

LEMMA TimerFlushType ==
    ASSUME TypeInv, NEW w \in Workers, TimerFlush(w)
    PROVE  TypeInv'
  <1>1. /\ wpc[w] = "select"
        /\ \/ batch[w] # <<>> /\ BeginExec(w) /\ UNCHANGED timer
           \/ batch[w] = <<>> /\ timer' = [timer EXCEPT ![w] = "armed"] /\ UNCHANGED execVars
        /\ UNCHANGED <<published, dataChannel, taker, batch, owed, redis, late, lateHashes, resends,
                       totalRedisOps, totalRedisErrors, phase, grace>>
    BY DEF TimerFlush, storeVars, counters
  <1>2. /\ wpc' \in [Workers -> {"select", "exec"}]
        /\ UNCHANGED <<acked, execErr, attempt>>
        /\ \A v \in Workers : v # w => wpc'[v] = wpc[v]
    BY <1>1, BeginExecType
  <1>3. wpc'[w] = "exec" => batch[w] # <<>>
    BY <1>1 DEF execVars
  <1>4. QED
    BY <1>1, <1>2, <1>3 DEF TypeInv, TypeOK, ChannelInOrder, ControlInv

(* The next command of a pipeline is an entry of the batch.                *)
LEMMA NextCommand ==
    ASSUME TypeInv, NEW w \in Workers, acked[w] < Len(batch[w])
    PROVE  /\ acked[w] + 1 \in 1..Len(batch[w])
           /\ batch[w][acked[w] + 1] \in Entry
           /\ batch[w][acked[w] + 1].hash \in HashKeys
           /\ batch[w][acked[w] + 1].quote \in Nat \ {0}
  <1>1. batch[w] \in Seq(Entry) /\ acked[w] \in Nat
    BY DEF TypeInv, TypeOK
  <1>2. acked[w] + 1 \in 1..Len(batch[w])
    BY <1>1, LenProperties
  <1>3. batch[w][acked[w] + 1] \in Entry
    BY <1>1, <1>2, ElementOfSeq
  <1>4. QED
    BY <1>2, <1>3 DEF Entry

(* An answer leaves the control state as it is, but for its own count.     *)
LEMMA AnsweredType ==
    ASSUME TypeInv, NEW w \in Workers, Answered(w), execErr' \in [Workers -> BOOLEAN],
           \A v \in Workers : v # w => execErr'[v] = execErr[v],
           redis' \in [HashKeys -> Nat], lateHashes' \in SUBSET HashKeys
    PROVE  TypeInv'
  <1> USE DEF TypeInv, Answered, counters
  <1>1. TypeOK'
    <2>1. acked' \in [Workers -> Nat]
      BY DEF TypeOK
    <2>2. owed' \in [Workers -> 0..CommandsPerTick]
      BY PipelineAssumption DEF TypeOK
    <2>3. QED
      BY <2>1, <2>2 DEF TypeOK
  <1>2. ChannelInOrder'
    BY DEF ChannelInOrder
  <1>3. ASSUME NEW v \in Workers
        PROVE  /\ acked'[v] <= Len(batch'[v])
               /\ wpc'[v] = "select" => acked'[v] = 0 /\ attempt'[v] = 0 /\ ~ execErr'[v]
               /\ wpc'[v] = "exec" => batch'[v] # <<>>
    <2>1. CASE v = w
      BY <2>1, LenProperties DEF TypeOK, ControlInv
    <2>2. CASE v # w
      BY <2>2 DEF TypeOK, ControlInv
    <2>3. QED
      BY <2>1, <2>2
  <1>4. ControlInv'
    BY <1>3 DEF ControlInv
  <1>5. QED
    BY <1>1, <1>2, <1>4

LEMMA ExecType ==
    ASSUME TypeInv, NEW w \in Workers, Exec(w)
    PROVE  TypeInv'
  <1>1. acked[w] < Len(batch[w])
    BY DEF Exec, Answered
  <1>2. redis' \in [HashKeys -> Nat] /\ lateHashes' \in SUBSET HashKeys
    BY <1>1, NextCommand DEF Exec, TypeInv, TypeOK
  <1>3. QED
    BY <1>2, AnsweredType DEF Exec, TypeInv, TypeOK

LEMMA RejectType ==
    ASSUME TypeInv, NEW w \in Workers, Reject(w)
    PROVE  TypeInv'
  BY AnsweredType DEF Reject, TypeInv, TypeOK

(* Returning from HSetBatch resets what only its callee uses.              *)
LEMMA BackToSelectType ==
    ASSUME TypeInv, NEW w \in Workers, BackToSelect(w), batch' = [batch EXCEPT ![w] = <<>>]
    PROVE  /\ batch' \in [Workers -> Seq(Entry)]
           /\ wpc' \in [Workers -> {"select", "exec"}]
           /\ acked' \in [Workers -> Nat]
           /\ execErr' \in [Workers -> BOOLEAN]
           /\ attempt' \in [Workers -> 0..MaxRetries]
           /\ timer' \in [Workers -> {"armed", "fired"}]
           /\ \A v \in Workers :
                 /\ acked'[v] <= Len(batch'[v])
                 /\ wpc'[v] = "select" => acked'[v] = 0 /\ attempt'[v] = 0 /\ ~ execErr'[v]
                 /\ wpc'[v] = "exec" => batch'[v] # <<>>
  <1> USE DEF TypeInv, TypeOK, BackToSelect
  <1>1. /\ batch' \in [Workers -> Seq(Entry)]
        /\ wpc' \in [Workers -> {"select", "exec"}]
        /\ acked' \in [Workers -> Nat]
        /\ execErr' \in [Workers -> BOOLEAN]
        /\ attempt' \in [Workers -> 0..MaxRetries]
        /\ timer' \in [Workers -> {"armed", "fired"}]
    BY PipelineAssumption
  <1>2. ASSUME NEW v \in Workers
        PROVE  /\ acked'[v] <= Len(batch'[v])
               /\ wpc'[v] = "select" => acked'[v] = 0 /\ attempt'[v] = 0 /\ ~ execErr'[v]
               /\ wpc'[v] = "exec" => batch'[v] # <<>>
    BY DEF ControlInv
  <1>3. QED
    BY <1>1, <1>2

LEMMA ReturnType ==
    ASSUME TypeInv, NEW w \in Workers, Return(w)
    PROVE  TypeInv'
  <1>1. /\ BackToSelect(w) /\ batch' = [batch EXCEPT ![w] = <<>>]
        /\ UNCHANGED <<published, dataChannel, taker, owed, redis, late, lateHashes, resends, phase,
                       grace>>
    BY DEF Return, storeVars
  <1>2. totalRedisErrors' \in Nat /\ totalRedisOps' \in Nat
    BY LenProperties DEF Return, TypeInv, TypeOK
  <1>3. QED
    BY <1>1, <1>2, BackToSelectType DEF TypeInv, TypeOK, ChannelInOrder, ControlInv

(* What a failed pipeline has left to execute is a part of the batch.      *)
LEMMA UnackedProperties ==
    ASSUME TypeInv, NEW w \in Workers
    PROVE  /\ Unacked(w) \in Seq(Entry)
           /\ Len(Unacked(w)) = Len(batch[w]) - acked[w]
           /\ \A i \in 1..Len(Unacked(w)) : Unacked(w)[i] = batch[w][acked[w] + i]
  <1>1. /\ batch[w] \in Seq(Entry) /\ acked[w] \in Nat /\ acked[w] <= Len(batch[w])
        /\ Len(batch[w]) \in Nat
    BY LenProperties DEF TypeInv, TypeOK, ControlInv
  <1>2. \A i \in acked[w] + 1..Len(batch[w]) : batch[w][i] \in Entry
    BY <1>1, ElementOfSeq
  <1> DEFINE m == acked[w] + 1
             n == Len(batch[w])
  <1>3. m \in Int /\ n \in Int
    BY <1>1
  <1>4. /\ SubSeq(batch[w], m, n) \in Seq(Entry)
        /\ Len(SubSeq(batch[w], m, n)) = IF m <= n THEN n - m + 1 ELSE 0
        /\ \A i \in 1..n - m + 1 : SubSeq(batch[w], m, n)[i] = batch[w][m + i - 1]
    <2> HIDE DEF m, n
    <2>1. \A i \in m..n : batch[w][i] \in Entry
      BY <1>2 DEF m, n
    <2>2. QED
      BY <1>3, <2>1, SubSeqProperties
  <1>5. Len(Unacked(w)) = n - m + 1
    BY <1>1, <1>4 DEF Unacked
  <1>6. ASSUME NEW i \in 1..Len(Unacked(w))
        PROVE  Unacked(w)[i] = batch[w][acked[w] + i]
    BY <1>1, <1>4, <1>5 DEF Unacked
  <1>7. QED
    BY <1>1, <1>4, <1>5, <1>6 DEF Unacked

(* What the client gives up is kept as a non-empty sequence of entries.    *)
LEMMA GiveUpType ==
    ASSUME TypeInv, NEW w \in Workers, NEW sent \in Seq(Entry), GiveUp(w, sent)
    PROVE  /\ late' \in SUBSET [attempt : 0..MaxRetries, cmds : Seq(Entry)]
           /\ \A p \in late' : p.cmds # <<>>
  <1>1. [attempt |-> attempt[w], cmds |-> sent] \in [attempt : 0..MaxRetries, cmds : Seq(Entry)]
    BY DEF TypeInv, TypeOK
  <1>2. QED
    BY <1>1 DEF GiveUp, TypeInv, TypeOK, ControlInv

LEMMA RetryType ==
    ASSUME TypeInv, NEW w \in Workers, Retry(w)
    PROVE  TypeInv'
  <1>1. /\ attempt[w] < MaxRetries /\ GiveUp(w, Unacked(w)) /\ wpc[w] = "exec"
        /\ attempt' = [attempt EXCEPT ![w] = attempt[w] + 1]
        /\ acked' = [acked EXCEPT ![w] = 0]
        /\ execErr' = [execErr EXCEPT ![w] = FALSE]
        /\ resends' = resends + 1
        /\ UNCHANGED <<batch, wpc, timer, totalRedisErrors, published, dataChannel, taker, owed, redis,
                       lateHashes, totalRedisOps, phase, grace>>
    BY DEF Retry, GiveUp
  <1>2. /\ late' \in SUBSET [attempt : 0..MaxRetries, cmds : Seq(Entry)]
        /\ \A p \in late' : p.cmds # <<>>
    BY <1>1, UnackedProperties, GiveUpType
  <1>3. attempt' \in [Workers -> 0..MaxRetries]
    BY <1>1, PipelineAssumption DEF TypeInv, TypeOK
  <1>4. TypeOK'
    BY <1>1, <1>2, <1>3 DEF TypeInv, TypeOK
  <1>5. ASSUME NEW v \in Workers
        PROVE  /\ acked'[v] <= Len(batch'[v])
               /\ wpc'[v] = "select" => acked'[v] = 0 /\ attempt'[v] = 0 /\ ~ execErr'[v]
               /\ wpc'[v] = "exec" => batch'[v] # <<>>
    BY <1>1, LenProperties DEF TypeInv, TypeOK, ControlInv
  <1>6. QED
    BY <1>1, <1>2, <1>4, <1>5 DEF TypeInv, ChannelInOrder, ControlInv

LEMMA FailType ==
    ASSUME TypeInv, NEW w \in Workers, Fail(w)
    PROVE  TypeInv'
  <1>1. /\ BackToSelect(w) /\ batch' = [batch EXCEPT ![w] = <<>>]
        /\ totalRedisErrors' = totalRedisErrors + 1
        /\ \E sent \in Seq(Entry) : GiveUp(w, sent)
        /\ UNCHANGED <<published, dataChannel, taker, owed, redis, lateHashes, resends, totalRedisOps,
                       phase, grace>>
    <2>1. Unacked(w) \in Seq(Entry) /\ <<>> \in Seq(Entry)
      BY UnackedProperties
    <2>2. QED
      BY <2>1 DEF Fail, GiveUp
  <1>2. /\ late' \in SUBSET [attempt : 0..MaxRetries, cmds : Seq(Entry)]
        /\ \A p \in late' : p.cmds # <<>>
    BY <1>1, GiveUpType
  <1>3. TypeOK'
    <2>1. /\ batch' \in [Workers -> Seq(Entry)]
          /\ wpc' \in [Workers -> {"select", "exec"}]
          /\ acked' \in [Workers -> Nat]
          /\ execErr' \in [Workers -> BOOLEAN]
          /\ attempt' \in [Workers -> 0..MaxRetries]
          /\ timer' \in [Workers -> {"armed", "fired"}]
      BY <1>1, BackToSelectType
    <2>2. QED
      BY <1>1, <1>2, <2>1 DEF TypeInv, TypeOK
  <1>4. ControlInv'
    BY <1>1, <1>2, BackToSelectType DEF TypeInv, ControlInv
  <1>5. QED
    BY <1>1, <1>3, <1>4 DEF TypeInv, ChannelInOrder

LEMMA LateExecType ==
    ASSUME TypeInv, NEW p \in late, LateExec(p)
    PROVE  TypeInv'
  <1>1. p \in [attempt : 0..MaxRetries, cmds : Seq(Entry)] /\ p.cmds # <<>>
    BY DEF TypeInv, TypeOK, ControlInv
  <1>2. /\ Head(p.cmds).hash \in HashKeys /\ Head(p.cmds).quote \in Nat \ {0}
        /\ Tail(p.cmds) \in Seq(Entry)
    <2>1. Head(p.cmds) \in Entry /\ Tail(p.cmds) \in Seq(Entry)
      BY <1>1, HeadTailProperties
    <2>2. QED
      BY <2>1 DEF Entry
  <1> DEFINE q == [p EXCEPT !.cmds = Tail(p.cmds)]
  <1>3. q \in [attempt : 0..MaxRetries, cmds : Seq(Entry)]
    BY <1>1, <1>2
  <1>4. /\ late' = (late \ {p}) \cup {r \in {q} : r.cmds # <<>>}
        /\ redis' = [redis EXCEPT ![Head(p.cmds).hash] = Head(p.cmds).quote]
        /\ lateHashes' = lateHashes \cup {Head(p.cmds).hash}
        /\ UNCHANGED <<published, dataChannel, taker, batch, wpc, acked, execErr, attempt, owed, timer,
                       resends, totalRedisOps, totalRedisErrors, phase, grace>>
    BY DEF LateExec, workerVars, execVars, counters
  <1> HIDE DEF q
  <1>5. TypeOK'
    BY <1>2, <1>3, <1>4 DEF TypeInv, TypeOK
  <1>6. QED
    BY <1>4, <1>5 DEF TypeInv, ChannelInOrder, ControlInv

LEMMA OtherType ==
    ASSUME TypeInv, (\E p \in late : LateLost(p)) \/ Stop \/ Tick \/ UNCHANGED vars
    PROVE  TypeInv'
  <1> USE DEF TypeInv, TypeOK, ChannelInOrder, ControlInv, workerVars, execVars, storeVars, counters
  <1>1. ASSUME NEW p \in late, LateLost(p) PROVE TypeInv'
    BY <1>1 DEF LateLost
  <1>2. CASE Stop
    BY <1>2, PipelineAssumption DEF Stop
  <1>3. CASE Tick
    BY <1>3, PipelineAssumption DEF Tick
  <1>4. CASE UNCHANGED vars
    BY <1>4 DEF vars
  <1>5. QED
    BY <1>1, <1>2, <1>3, <1>4

LEMMA TypeInvStep == TypeInv /\ [Next]_vars => TypeInv'
  BY SendType, TakeType, TimerFlushType, ExecType, RejectType, ReturnType, RetryType,
     FailType, LateExecType, OtherType
     DEF Next, WorkerStep, Terminated

LEMMA TypeInvInvariant == Spec => []TypeInv
  BY TypeInvInit, TypeInvStep, PTL DEF Spec

(* Every variable keeps its type, whatever the workers, Redis, the clock   *)
(* and the signal do (main.go:263-329, client.go:68-117).                  *)
THEOREM TypeCorrect == Spec => []TypeOK
  BY TypeInvInvariant, PTL DEF TypeInv

-----------------------------------------------------------------------------
(* The order of the quotes of one worker.                                  *)

(* A quote some worker received, in an entry for a hash of its key.        *)
Received(e) ==
    /\ e.quote \in 1..Len(taker)
    /\ e.hash \in HashesOf(published[e.quote])

BatchOwned ==
    \A w \in Workers : \A i \in 1..Len(batch[w]) :
        Received(batch[w][i]) /\ taker[batch[w][i].quote] = w

BatchInOrder ==
    \A w \in Workers : \A i, j \in 1..Len(batch[w]) :
        i <= j => batch[w][i].quote <= batch[w][j].quote

(* A batch misses nothing its worker received after the first of it: both  *)
(* entries of every later quote of the worker come later in the batch.     *)
After(w, i, m, h) ==
    \E j \in 1..Len(batch[w]) : i < j /\ batch[w][j].quote = m /\ batch[w][j].hash = h

BatchComplete ==
    \A w \in Workers : \A i \in 1..Len(batch[w]) : \A m \in 1..Len(taker) :
        taker[m] = w /\ batch[w][i].quote < m =>
            \A h \in HashesOf(published[m]) : After(w, i, m, h)

(* If worker w received quote q, nothing it has yet to execute is older,   *)
(* unless it is sending the pipeline of q again.                           *)
NotAhead(q, w) ==
    q # 0 /\ taker[q] = w =>
        \/ attempt[w] > 0 /\ \E i \in 1..Len(batch[w]) : batch[w][i].quote = q
        \/ \A i \in 1..Len(batch[w]) : acked[w] < i => q <= batch[w][i].quote

StoreNotAhead ==
    \A h \in HashKeys :
        /\ redis[h] \in 0..Len(taker)
        /\ \A w \in Workers : NotAhead(redis[h], w)

LateNotAhead ==
    \A p \in late : \A i \in 1..Len(p.cmds) :
        Received(p.cmds[i]) /\ \A w \in Workers : NotAhead(p.cmds[i].quote, w)

OrderInv == BatchOwned /\ BatchInOrder /\ BatchComplete /\ StoreNotAhead /\ LateNotAhead

IInv == TypeInv /\ OrderInv

-----------------------------------------------------------------------------
LEMMA Lengths ==
    ASSUME TypeInv
    PROVE  /\ Len(taker) \in Nat /\ Len(published) \in Nat /\ Len(taker) <= Len(published)
           /\ \A w \in Workers : Len(batch[w]) \in Nat /\ acked[w] \in Nat
  <1>1. Len(dataChannel) \in Nat
    BY LenProperties DEF TypeInv, TypeOK
  <1>2. Len(taker) \in Nat /\ Len(published) \in Nat
    BY LenProperties DEF TypeInv, TypeOK
  <1>3. Len(published) = Len(taker) + Len(dataChannel)
    BY DEF TypeInv, ChannelInOrder
  <1>4. \A w \in Workers : Len(batch[w]) \in Nat /\ acked[w] \in Nat
    BY LenProperties DEF TypeInv, TypeOK
  <1>5. QED
    BY <1>1, <1>2, <1>3, <1>4

(* Only Take adds to a batch; every other step leaves a batch as it is and *)
(* its commands executed from the front, empties it or sends it again.     *)
Shrinks ==
    /\ taker' = taker
    /\ \A w \in Workers :
          \/ batch'[w] = <<>>
          \/ batch'[w] = batch[w] /\ attempt'[w] = attempt[w] /\ acked[w] <= acked'[w]
          \/ batch'[w] = batch[w] /\ attempt'[w] > 0

LEMMA OnlyTakeGrows ==
    ASSUME TypeInv, [Next]_vars, ~ \E w \in Workers : Take(w)
    PROVE  Shrinks
  <1> USE Lengths DEF Shrinks, counters, workerVars, execVars
  <1>1. ASSUME NEW k \in Keys, Send(k) PROVE Shrinks
    BY <1>1 DEF Send
  <1>2. ASSUME NEW w \in Workers, TimerFlush(w) PROVE Shrinks
    BY <1>2, BeginExecType DEF TimerFlush
  <1>3. ASSUME NEW w \in Workers, Exec(w) \/ Reject(w) PROVE Shrinks
    <2>1. /\ taker' = taker /\ batch' = batch /\ attempt' = attempt
          /\ acked' = [acked EXCEPT ![w] = acked[w] + 1]
      BY <1>3 DEF Exec, Reject, Answered
    <2>2. acked \in [Workers -> Nat]
      BY DEF TypeInv, TypeOK
    <2>3. \A v \in Workers : acked[v] <= acked'[v]
      BY <2>1, <2>2
    <2>4. QED
      BY <2>1, <2>3
  <1>4. ASSUME NEW w \in Workers, Return(w) \/ Fail(w) PROVE Shrinks
    <2>1. /\ taker' = taker
          /\ batch' = [batch EXCEPT ![w] = <<>>]
          /\ acked' = [acked EXCEPT ![w] = 0]
          /\ attempt' = [attempt EXCEPT ![w] = 0]
      BY <1>4 DEF Return, Fail, GiveUp, BackToSelect
    <2>2. acked \in [Workers -> Nat] /\ DOMAIN batch = Workers /\ DOMAIN attempt = Workers
      BY DEF TypeInv, TypeOK
    <2>3. /\ batch'[w] = <<>>
          /\ \A v \in Workers \ {w} :
                batch'[v] = batch[v] /\ acked'[v] = acked[v] /\ attempt'[v] = attempt[v]
      BY <2>1, <2>2
    <2>4. QED
      BY <2>1, <2>2, <2>3
  <1>5. ASSUME NEW w \in Workers, Retry(w) PROVE Shrinks
    <2>1. /\ taker' = taker /\ batch' = batch
          /\ acked' = [acked EXCEPT ![w] = 0]
          /\ attempt' = [attempt EXCEPT ![w] = attempt[w] + 1]
      BY <1>5 DEF Retry, GiveUp
    <2>2. acked \in [Workers -> Nat] /\ attempt \in [Workers -> 0..MaxRetries]
      BY DEF TypeInv, TypeOK
    <2>3. attempt'[w] > 0
      BY <2>1, <2>2, PipelineAssumption
    <2>4. \A v \in Workers \ {w} : acked'[v] = acked[v] /\ attempt'[v] = attempt[v]
      BY <2>1, <2>2
    <2>5. QED
      BY <2>1, <2>2, <2>3, <2>4
  <1>6. ASSUME NEW p \in late, LateExec(p) \/ LateLost(p) PROVE Shrinks
    BY <1>6 DEF LateExec, LateLost
  <1>7. CASE Stop \/ Tick \/ UNCHANGED vars
    BY <1>7 DEF Stop, Tick, vars
  <1>8. QED
    BY <1>1, <1>2, <1>3, <1>4, <1>5, <1>6, <1>7 DEF Next, WorkerStep, Terminated

(* What a receive does to the histories and the batches.                   *)
LEMMA TakeEffect ==
    ASSUME TypeInv, NEW w \in Workers, Take(w)
    PROVE  /\ Len(taker') = Len(taker) + 1
           /\ \A q \in 1..Len(taker) : taker'[q] = taker[q]
           /\ taker'[Len(taker) + 1] = w
           /\ Len(batch'[w]) = Len(batch[w]) + 2
           /\ \A i \in 1..Len(batch[w]) : batch'[w][i] = batch[w][i]
           /\ \A i \in Len(batch[w]) + 1..Len(batch[w]) + 2 :
                 /\ batch'[w][i].quote = Len(taker) + 1
                 /\ batch'[w][i].hash \in HashesOf(published[Len(taker) + 1])
           /\ \A v \in Workers \ {w} : batch'[v] = batch[v]
           /\ UNCHANGED <<published, acked, execErr, attempt, redis, late, lateHashes>>
  <1>1. /\ dataChannel # <<>>
        /\ batch' = [batch EXCEPT ![w] = Full(w)]
        /\ taker' = Append(taker, w)
        /\ wpc[w] = "select"
        /\ BeginExec(w) \/ UNCHANGED execVars
        /\ UNCHANGED <<published, redis, late, lateHashes>>
    BY DEF Take, Full, storeVars
  <1>2. batch'[w] = Full(w) /\ \A v \in Workers \ {w} : batch'[v] = batch[v]
    BY <1>1 DEF TypeInv, TypeOK
  <1>3. UNCHANGED <<acked, execErr, attempt>>
    BY <1>1, BeginExecType
  <1>4. /\ Len(taker') = Len(taker) + 1
        /\ \A q \in 1..Len(taker) : taker'[q] = taker[q]
        /\ taker'[Len(taker) + 1] = w
    BY <1>1, AppendProperties DEF TypeInv, TypeOK
  <1>5. ASSUME NEW i \in Len(batch[w]) + 1..Len(batch[w]) + 2
        PROVE  /\ Full(w)[i].quote = Len(taker) + 1
               /\ Full(w)[i].hash \in HashesOf(published[Len(taker) + 1])
    <2>1. i = Len(batch[w]) + 1 \/ i = Len(batch[w]) + 2
      BY <1>5, Lengths
    <2>2. QED
      BY <1>1, <2>1, FullProperties DEF HashesOf
  <1>6. QED
    BY <1>1, <1>2, <1>3, <1>4, <1>5, FullProperties

(* What was published and received stays so.                               *)
LEMMA HistoryKept ==
    ASSUME TypeInv, [Next]_vars
    PROVE  /\ Len(taker) <= Len(taker')
           /\ \A q \in 1..Len(taker) : taker'[q] = taker[q] /\ published'[q] = published[q]
  <1>1. /\ Len(taker) <= Len(taker')
        /\ \A q \in 1..Len(taker) : taker'[q] = taker[q]
    BY OnlyTakeGrows, TakeEffect, Lengths DEF Shrinks
  <1>2. ASSUME NEW q \in 1..Len(taker) PROVE published'[q] = published[q]
    <2>1. q \in 1..Len(published)
      BY Lengths
    <2>2. ASSUME NEW k \in Keys, Send(k) PROVE published'[q] = published[q]
      BY <2>1, <2>2, AppendProperties DEF Send, TypeInv, TypeOK
    <2>3. CASE ~ \E k \in Keys : Send(k)
      BY <2>3 DEF Next, WorkerStep, Terminated, Take, TimerFlush, Exec, Reject, Answered, Return,
                  Retry, Fail, GiveUp, LateExec, LateLost, Stop, Tick, vars
    <2>4. QED
      BY <2>2, <2>3
  <1>3. QED
    BY <1>1, <1>2

LEMMA ReceivedKept ==
    ASSUME TypeInv, [Next]_vars, NEW e, Received(e)
    PROVE  e.quote \in 1..Len(taker') /\ e.hash \in HashesOf(published'[e.quote])
  <1>1. Len(taker) \in Nat /\ Len(taker') \in Nat
    BY TypeInvStep, Lengths, LenProperties DEF TypeInv, TypeOK
  <1>2. e.quote \in 1..Len(taker) /\ published'[e.quote] = published[e.quote]
    BY HistoryKept DEF Received
  <1>3. e.quote \in 1..Len(taker')
    BY <1>1, <1>2, HistoryKept
  <1>4. QED
    BY <1>2, <1>3 DEF Received

-----------------------------------------------------------------------------
(* IInv is inductive.                                                      *)
LEMMA NotAheadKept ==
    ASSUME IInv, [Next]_vars, NEW q \in 0..Len(taker), NEW v \in Workers, NotAhead(q, v)
    PROVE  q # 0 /\ taker'[q] = v =>
              \/ attempt'[v] > 0 /\ \E i \in 1..Len(batch'[v]) : batch'[v][i].quote = q
              \/ \A i \in 1..Len(batch'[v]) : acked'[v] < i => q <= batch'[v][i].quote
  <1> SUFFICES ASSUME q # 0, taker'[q] = v
               PROVE  \/ attempt'[v] > 0 /\ \E i \in 1..Len(batch'[v]) : batch'[v][i].quote = q
                      \/ \A i \in 1..Len(batch'[v]) : acked'[v] < i => q <= batch'[v][i].quote
    OBVIOUS
  <1> DEFINE Resent == \E i \in 1..Len(batch'[v]) : batch'[v][i].quote = q
             Behind == \A i \in 1..Len(batch'[v]) : acked'[v] < i => q <= batch'[v][i].quote
  <1> USE DEF IInv
  <1>0. /\ q \in 1..Len(taker) /\ Len(taker) \in Nat /\ taker[q] = v
        /\ attempt[v] \in Nat /\ acked[v] \in Nat /\ acked'[v] \in Nat /\ Len(batch[v]) \in Nat
    <2>1. q \in 1..Len(taker) /\ Len(taker) \in Nat
      BY Lengths
    <2>2. taker[q] = v
      BY <2>1, HistoryKept
    <2>3. TypeOK /\ TypeOK'
      BY TypeInvStep DEF TypeInv
    <2>4. attempt[v] \in Nat /\ acked[v] \in Nat /\ acked'[v] \in Nat
      BY <2>3, PipelineAssumption DEF TypeOK
    <2>5. QED
      BY <2>1, <2>2, <2>4, Lengths
  <1>1. \/ attempt[v] > 0 /\ \E i \in 1..Len(batch[v]) : batch[v][i].quote = q
        \/ \A i \in 1..Len(batch[v]) : acked[v] < i => q <= batch[v][i].quote
    BY <1>0 DEF NotAhead
  <1>2. CASE Shrinks
    <2>1. CASE batch'[v] = <<>>
      BY <2>1, EmptySeq
    <2>2. CASE batch'[v] = batch[v] /\ attempt'[v] = attempt[v] /\ acked[v] <= acked'[v]
      BY <1>0, <1>1, <2>2
    <2>3. CASE batch'[v] = batch[v] /\ attempt'[v] > 0
      <3>1. CASE \E i \in 1..Len(batch[v]) : batch[v][i].quote < q
        <4>1. RawHash(published[q]) \in HashesOf(published[q])
          BY DEF HashesOf
        <4>2. PICK i \in 1..Len(batch[v]) : After(v, i, q, RawHash(published[q]))
          BY <1>0, <3>1, <4>1 DEF OrderInv, BatchComplete
        <4>3. QED
          BY <2>3, <4>2 DEF After
      <3>2. CASE \A i \in 1..Len(batch[v]) : ~ batch[v][i].quote < q
        <4>1. \A i \in 1..Len(batch[v]) : batch[v][i].quote \in Nat
          BY DEF OrderInv, BatchOwned, Received
        <4>2. QED
          BY <1>0, <2>3, <3>2, <4>1
      <3>3. QED
        BY <3>1, <3>2
    <2>4. QED
      BY <1>2, <2>1, <2>2, <2>3 DEF Shrinks
  <1>3. ASSUME NEW w \in Workers, Take(w) PROVE (attempt'[v] > 0 /\ Resent) \/ Behind
    <2>1. acked' = acked /\ attempt' = attempt
      BY <1>3, TakeEffect
    <2>2. CASE v # w
      BY <1>1, <1>3, <2>1, <2>2, TakeEffect
    <2>3. CASE v = w
      <3>1. ~ attempt[v] > 0
        BY <1>3, <2>3 DEF Take, TypeInv, ControlInv
      <3> SUFFICES ASSUME NEW i \in 1..Len(batch'[v]), acked'[v] < i
                   PROVE  q <= batch'[v][i].quote
        OBVIOUS
      <3>2. CASE i \in 1..Len(batch[v])
        BY <1>1, <1>3, <2>1, <2>3, <3>1, <3>2, TakeEffect
      <3>3. CASE i \in Len(batch[v]) + 1..Len(batch[v]) + 2
        BY <1>0, <1>3, <2>3, <3>3, TakeEffect
      <3>4. QED
        BY <1>0, <1>3, <2>3, <3>2, <3>3, TakeEffect
    <2>4. QED
      BY <2>2, <2>3
  <1>4. QED
    BY <1>2, <1>3, OnlyTakeGrows

LEMMA BatchOwnedKept == IInv /\ [Next]_vars => BatchOwned'
  <1> SUFFICES ASSUME IInv, [Next]_vars, NEW v \in Workers, NEW i \in 1..Len(batch'[v])
               PROVE  /\ batch'[v][i].quote \in 1..Len(taker')
                      /\ batch'[v][i].hash \in HashesOf(published'[batch'[v][i].quote])
                      /\ taker'[batch'[v][i].quote] = v
    BY DEF BatchOwned, Received
  <1> DEFINE Goal == /\ batch'[v][i].quote \in 1..Len(taker')
                     /\ batch'[v][i].hash \in HashesOf(published'[batch'[v][i].quote])
                     /\ taker'[batch'[v][i].quote] = v
  <1> USE DEF IInv
  <1>1. ASSUME i \in 1..Len(batch[v]), batch'[v][i] = batch[v][i]
        PROVE  Goal
    <2>1. Received(batch[v][i]) /\ taker[batch[v][i].quote] = v
      BY <1>1 DEF OrderInv, BatchOwned
    <2>2. QED
      BY <1>1, <2>1, ReceivedKept, HistoryKept DEF Received
  <1>2. CASE Shrinks
    <2>1. CASE batch'[v] = <<>>
      BY <2>1, EmptySeq
    <2>2. CASE batch'[v] = batch[v]
      BY <1>1, <2>2
    <2>3. QED
      BY <1>2, <2>1, <2>2 DEF Shrinks
  <1>3. ASSUME NEW w \in Workers, Take(w)
        PROVE  Goal
    <2>1. CASE i \in 1..Len(batch[v])
      <3>1. batch'[v][i] = batch[v][i]
        BY <1>3, <2>1, TakeEffect
      <3>2. QED
        BY <1>1, <2>1, <3>1
    <2>2. CASE i \notin 1..Len(batch[v])
      <3>1. v = w /\ i \in Len(batch[w]) + 1..Len(batch[w]) + 2
        BY <1>3, <2>2, TakeEffect, Lengths
      <3>2. /\ batch'[v][i].quote = Len(taker) + 1
            /\ batch'[v][i].hash \in HashesOf(published[Len(taker) + 1])
            /\ published' = published /\ taker'[Len(taker) + 1] = w
            /\ Len(taker') = Len(taker) + 1
        BY <1>3, <3>1, TakeEffect
      <3>3. batch'[v][i].quote \in 1..Len(taker')
        BY <3>2, Lengths
      <3>4. QED
        BY <3>1, <3>2, <3>3
    <2>3. QED
      BY <2>1, <2>2
  <1>4. QED
    BY <1>2, <1>3, OnlyTakeGrows

LEMMA BatchInOrderKept == IInv /\ [Next]_vars => BatchInOrder'
  <1> SUFFICES ASSUME IInv, [Next]_vars, NEW v \in Workers,
                      NEW i \in 1..Len(batch'[v]), NEW j \in 1..Len(batch'[v]), i <= j
               PROVE  batch'[v][i].quote <= batch'[v][j].quote
    BY DEF BatchInOrder
  <1> USE DEF IInv
  <1>1. CASE Shrinks
    <2>1. CASE batch'[v] = <<>>
      BY <2>1, EmptySeq
    <2>2. CASE batch'[v] = batch[v]
      BY <2>2 DEF OrderInv, BatchInOrder
    <2>3. QED
      BY <1>1, <2>1, <2>2 DEF Shrinks
  <1>2. ASSUME NEW w \in Workers, Take(w)
        PROVE  batch'[v][i].quote <= batch'[v][j].quote
    <2>1. CASE v # w
      BY <1>2, <2>1, TakeEffect DEF OrderInv, BatchInOrder
    <2>2. CASE v = w /\ j \in 1..Len(batch[v])
      <3>1. i \in 1..Len(batch[v])
        BY <2>2, Lengths
      <3>2. batch'[v][i] = batch[v][i] /\ batch'[v][j] = batch[v][j]
        BY <1>2, <2>2, <3>1, TakeEffect
      <3>3. QED
        BY <2>2, <3>1, <3>2 DEF OrderInv, BatchInOrder
    <2>3. CASE v = w /\ j \notin 1..Len(batch[v])
      <3>1. j \in Len(batch[w]) + 1..Len(batch[w]) + 2
        BY <1>2, <2>3, TakeEffect, Lengths
      <3>2. batch'[v][j].quote = Len(taker) + 1
        BY <1>2, <2>3, <3>1, TakeEffect
      <3>3. batch'[v][i].quote \in 1..Len(taker')
        BY BatchOwnedKept DEF BatchOwned, Received
      <3>4. QED
        BY <1>2, <3>2, <3>3, TakeEffect, Lengths
    <2>4. QED
      BY <2>1, <2>2, <2>3
  <1>3. QED
    BY <1>1, <1>2, OnlyTakeGrows

LEMMA BatchCompleteKept == IInv /\ [Next]_vars => BatchComplete'
  <1> SUFFICES ASSUME IInv, [Next]_vars, NEW v \in Workers,
                      NEW i \in 1..Len(batch'[v]), NEW m \in 1..Len(taker'),
                      taker'[m] = v, batch'[v][i].quote < m,
                      NEW h \in HashesOf(published'[m])
               PROVE  \E j \in 1..Len(batch'[v]) :
                         i < j /\ batch'[v][j].quote = m /\ batch'[v][j].hash = h
    BY DEF BatchComplete, After, HashesOf, RawHash, CanonHash
  <1> DEFINE Goal == \E j \in 1..Len(batch'[v]) :
                        i < j /\ batch'[v][j].quote = m /\ batch'[v][j].hash = h
  <1> USE DEF IInv
  <1>1. ASSUME m \in 1..Len(taker), i \in 1..Len(batch[v]), batch'[v][i] = batch[v][i]
        PROVE  After(v, i, m, h)
    <2>1. taker'[m] = taker[m] /\ published'[m] = published[m]
      BY <1>1, HistoryKept
    <2>2. QED
      BY <1>1, <2>1 DEF OrderInv, BatchComplete
  <1>2. CASE Shrinks
    <2>1. CASE batch'[v] = <<>>
      BY <2>1, EmptySeq
    <2>2. CASE batch'[v] = batch[v]
      <3>1. m \in 1..Len(taker)
        BY <1>2 DEF Shrinks
      <3>2. QED
        BY <1>1, <2>2, <3>1 DEF After
    <2>3. QED
      BY <1>2, <2>1, <2>2 DEF Shrinks
  <1>3. ASSUME NEW w \in Workers, Take(w) PROVE Goal
    <2>1. /\ Len(taker) \in Nat /\ Len(batch[v]) \in Nat /\ Len(batch[w]) \in Nat
          /\ Len(taker') = Len(taker) + 1
      BY <1>3, TakeEffect, Lengths
    <2>2. CASE i \in 1..Len(batch[v]) /\ m \in 1..Len(taker)
      <3>1. batch'[v][i] = batch[v][i]
        BY <1>3, <2>2, TakeEffect
      <3>2. PICK j \in 1..Len(batch[v]) : i < j /\ batch[v][j].quote = m /\ batch[v][j].hash = h
        BY <1>1, <2>2, <3>1 DEF After
      <3>3. j \in 1..Len(batch'[v]) /\ batch'[v][j] = batch[v][j]
        BY <1>3, <2>1, TakeEffect
      <3>4. QED
        BY <3>2, <3>3
    <2>3. CASE m = Len(taker) + 1 /\ i \in 1..Len(batch[v])
      <3>1. v = w
        BY <1>3, <2>3, TakeEffect
      <3>2. Head(dataChannel) = m /\ published' = published /\ batch' = [batch EXCEPT ![w] = Full(w)]
            /\ dataChannel # <<>>
        BY <1>3, <2>3, HeadOfChannel DEF Take, Full
      <3>3. batch'[v] = Full(v)
        BY <3>1, <3>2 DEF TypeInv, TypeOK
      <3>4. /\ Full(v)[Len(batch[v]) + 1] = [hash |-> RawHash(published[m]), quote |-> m]
            /\ Full(v)[Len(batch[v]) + 2] = [hash |-> CanonHash(published[m]), quote |-> m]
            /\ Len(Full(v)) = Len(batch[v]) + 2
        BY <2>3, <3>2, FullProperties
      <3>5. /\ Len(batch[v]) + 1 \in 1..Len(batch'[v]) /\ Len(batch[v]) + 2 \in 1..Len(batch'[v])
            /\ i < Len(batch[v]) + 1 /\ i < Len(batch[v]) + 2
        BY <2>1, <2>3, <3>3, <3>4
      <3>6. h = RawHash(published[m]) \/ h = CanonHash(published[m])
        BY <3>2 DEF HashesOf
      <3>7. QED
        BY <3>3, <3>4, <3>5, <3>6
    <2>4. CASE i \notin 1..Len(batch[v])
      <3>1. v = w /\ i \in Len(batch[w]) + 1..Len(batch[w]) + 2
        BY <1>3, <2>1, <2>4, TakeEffect
      <3>2. batch'[v][i].quote = Len(taker) + 1
        BY <1>3, <3>1, TakeEffect
      <3>3. QED
        BY <2>1, <3>2
    <2>5. QED
      BY <2>1, <2>2, <2>3, <2>4
  <1>4. QED
    BY <1>2, <1>3, OnlyTakeGrows

(* What a worker executes next is its own oldest quote: no command of any  *)
(* worker is ahead of what remains.                                        *)
LEMMA ExecutedNotAhead ==
    ASSUME IInv, NEW w \in Workers, acked[w] < Len(batch[w]), NEW v \in Workers
    PROVE  LET e == batch[w][acked[w] + 1]
           IN  e.quote \in 1..Len(taker) /\ NotAhead(e.quote, v)
  <1> DEFINE e == batch[w][acked[w] + 1]
  <1> USE DEF IInv
  <1>1. acked[w] + 1 \in 1..Len(batch[w])
    BY NextCommand
  <1>2. e.quote \in 1..Len(taker) /\ taker[e.quote] = w
    BY <1>1 DEF OrderInv, BatchOwned, Received
  <1>3. \A i \in 1..Len(batch[w]) : acked[w] < i => e.quote <= batch[w][i].quote
    BY <1>1, Lengths DEF OrderInv, BatchInOrder
  <1>4. NotAhead(e.quote, v)
    BY <1>2, <1>3 DEF NotAhead
  <1>5. QED
    BY <1>2, <1>4

LEMMA HeadOfLate ==
    ASSUME IInv, NEW p \in late
    PROVE  LET c == p.cmds
           IN  /\ p \in [attempt : 0..MaxRetries, cmds : Seq(Entry)]
               /\ Len(c) \in Nat \ {0} /\ 1 \in 1..Len(c) /\ Head(c) = c[1]
               /\ Tail(c) \in Seq(Entry) /\ Len(Tail(c)) = Len(c) - 1
               /\ \A i \in 1..Len(Tail(c)) : Tail(c)[i] = c[i + 1]
  <1> DEFINE c == p.cmds
  <1>1. p \in [attempt : 0..MaxRetries, cmds : Seq(Entry)] /\ c # <<>>
    BY DEF IInv, TypeInv, TypeOK, ControlInv
  <1>2. c \in Seq(Entry)
    BY <1>1
  <1> HIDE DEF c
  <1>3. Len(c) \in Nat \ {0}
    BY <1>1, <1>2, EmptySeq
  <1>4. QED
    BY <1>1, <1>2, <1>3, HeadTailProperties DEF c

(* The only steps that write to Redis.                                     *)
LEMMA Writers ==
    ASSUME IInv, [Next]_vars
    PROVE  \/ redis' = redis
           \/ \E w \in Workers :
                 /\ acked[w] < Len(batch[w])
                 /\ LET e == batch[w][acked[w] + 1]
                    IN  redis' = [redis EXCEPT ![e.hash] = e.quote]
           \/ \E p \in late : /\ redis' = [redis EXCEPT ![Head(p.cmds).hash] = Head(p.cmds).quote]
                               /\ p \notin late'
  <1>1. ASSUME NEW p \in late, LateExec(p)
        PROVE  /\ redis' = [redis EXCEPT ![Head(p.cmds).hash] = Head(p.cmds).quote]
               /\ p \notin late'
    <2>1. late' = (late \ {p}) \cup {q \in {[p EXCEPT !.cmds = Tail(p.cmds)]} : q.cmds # <<>>}
          /\ redis' = [redis EXCEPT ![Head(p.cmds).hash] = Head(p.cmds).quote]
      BY <1>1 DEF LateExec
    <2>2. [p EXCEPT !.cmds = Tail(p.cmds)] # p
      BY HeadOfLate, LenProperties
    <2>3. QED
      BY <2>1, <2>2
  <1>2. CASE ~ \E p \in late : LateExec(p)
    BY <1>2 DEF Next, WorkerStep, Terminated, Send, Take, TimerFlush, Exec, Reject, Answered,
                Return, Retry, Fail, GiveUp, LateLost, Stop, Tick, vars, storeVars
  <1>3. QED
    BY <1>1, <1>2

LEMMA StoreNotAheadKept == IInv /\ [Next]_vars => StoreNotAhead'
  <1> SUFFICES ASSUME IInv, [Next]_vars, NEW h \in HashKeys
               PROVE  /\ redis'[h] \in 0..Len(taker')
                      /\ \A v \in Workers : NotAhead(redis[h], v)'
    BY DEF StoreNotAhead
  <1> USE DEF IInv
  <1>1. redis'[h] \in 0..Len(taker) /\ \A v \in Workers : NotAhead(redis'[h], v)
    <2>0. redis \in [HashKeys -> Nat]
          /\ redis[h] \in 0..Len(taker) /\ \A v \in Workers : NotAhead(redis[h], v)
      BY DEF OrderInv, StoreNotAhead, TypeInv, TypeOK
    <2>1. CASE redis' = redis
      BY <2>0, <2>1
    <2>2. ASSUME NEW w \in Workers, acked[w] < Len(batch[w]),
                 redis' = [redis EXCEPT ![batch[w][acked[w] + 1].hash] =
                                           batch[w][acked[w] + 1].quote]
          PROVE  redis'[h] \in 0..Len(taker) /\ \A v \in Workers : NotAhead(redis'[h], v)
      <3>1. redis'[h] = redis[h] \/ redis'[h] = batch[w][acked[w] + 1].quote
        BY <2>0, <2>2
      <3>2. CASE redis'[h] = redis[h]
        BY <2>0, <3>2
      <3>3. CASE redis'[h] = batch[w][acked[w] + 1].quote
        BY <2>2, <3>3, ExecutedNotAhead, Lengths
      <3>4. QED
        BY <3>1, <3>2, <3>3
    <2>3. ASSUME NEW p \in late, redis' = [redis EXCEPT ![Head(p.cmds).hash] = Head(p.cmds).quote]
          PROVE  redis'[h] \in 0..Len(taker) /\ \A v \in Workers : NotAhead(redis'[h], v)
      <3>1. redis'[h] = redis[h] \/ redis'[h] = Head(p.cmds).quote
        BY <2>0, <2>3
      <3>2. CASE redis'[h] = redis[h]
        BY <2>0, <3>2
      <3>3. CASE redis'[h] = Head(p.cmds).quote
        <4>1. Head(p.cmds).quote \in 1..Len(taker) /\ \A v \in Workers : NotAhead(Head(p.cmds).quote, v)
          BY HeadOfLate DEF OrderInv, LateNotAhead, Received
        <4>2. QED
          BY <3>3, <4>1, Lengths
      <3>4. QED
        BY <3>1, <3>2, <3>3
    <2>4. QED
      BY <2>1, <2>2, <2>3, Writers
  <1>2. Len(taker) \in Nat /\ Len(taker') \in Nat /\ Len(taker) <= Len(taker')
    BY Lengths, HistoryKept, TypeInvStep, LenProperties DEF TypeInv, TypeOK
  <1>3. ASSUME NEW v \in Workers PROVE NotAhead(redis[h], v)'
    BY <1>1, NotAheadKept DEF NotAhead
  <1>4. QED
    BY <1>1, <1>2, <1>3

(* What may still be executed late was already in late, or in a batch.     *)
LEMMA LateSources ==
    ASSUME IInv, [Next]_vars, NEW p \in late', NEW i \in 1..Len(p.cmds)
    PROVE  \/ \E s \in late : \E j \in 1..Len(s.cmds) : p.cmds[i] = s.cmds[j]
           \/ \E w \in Workers : \E j \in 1..Len(batch[w]) :
                 /\ p.cmds[i] = batch[w][j]
                 /\ batch'[w] = <<>> \/ (batch'[w] = batch[w] /\ attempt'[w] > 0)
  <1> USE DEF IInv
  <1>1. CASE p \in late
    BY <1>1
  <1>2. CASE p \notin late
    <2>1. ASSUME NEW w \in Workers, GiveUp(w, Unacked(w))
          PROVE  \E j \in 1..Len(batch[w]) : p.cmds[i] = batch[w][j]
      <3>1. p = [attempt |-> attempt[w], cmds |-> Unacked(w)]
        BY <1>2, <2>1 DEF GiveUp
      <3>2. p.cmds = Unacked(w)
        BY <3>1
      <3>3. Len(p.cmds) = Len(batch[w]) - acked[w] /\ p.cmds[i] = batch[w][acked[w] + i]
        BY <3>2, UnackedProperties
      <3>4. acked[w] + i \in 1..Len(batch[w])
        BY <3>3, Lengths
      <3>5. QED
        BY <3>3, <3>4
    <2>2. ASSUME NEW w \in Workers, Fail(w)
          PROVE  \E j \in 1..Len(batch[w]) : p.cmds[i] = batch[w][j] /\ batch'[w] = <<>>
      <3>1. ~ GiveUp(w, <<>>)
        BY <1>2 DEF GiveUp
      <3>2. GiveUp(w, Unacked(w)) /\ batch'[w] = <<>>
        BY <2>2, <3>1 DEF Fail, TypeInv, TypeOK
      <3>3. QED
        BY <2>1, <3>2
    <2>3. ASSUME NEW w \in Workers, Retry(w)
          PROVE  \E j \in 1..Len(batch[w]) :
                    p.cmds[i] = batch[w][j] /\ batch'[w] = batch[w] /\ attempt'[w] > 0
      <3>1. /\ GiveUp(w, Unacked(w)) /\ batch' = batch
            /\ attempt' = [attempt EXCEPT ![w] = attempt[w] + 1]
        BY <2>3 DEF Retry
      <3>2. attempt'[w] > 0
        BY <3>1, PipelineAssumption DEF TypeInv, TypeOK
      <3>3. QED
        BY <2>1, <3>1, <3>2
    <2>4. ASSUME NEW s \in late, LateExec(s)
          PROVE  \E j \in 1..Len(s.cmds) : p.cmds[i] = s.cmds[j]
      <3>1. p = [s EXCEPT !.cmds = Tail(s.cmds)]
        BY <1>2, <2>4 DEF LateExec
      <3>2. p.cmds = Tail(s.cmds)
        BY <3>1, HeadOfLate
      <3>3. i + 1 \in 1..Len(s.cmds) /\ p.cmds[i] = s.cmds[i + 1]
        BY <3>2, HeadOfLate
      <3>4. QED
        BY <3>3
    <2>5. CASE /\ ~ \E w \in Workers : Fail(w) \/ Retry(w)
               /\ ~ \E s \in late : LateExec(s)
      BY <1>2, <2>5 DEF Next, WorkerStep, Terminated, Send, Take, TimerFlush, Exec, Reject,
                        Answered, Return, LateLost, Stop, Tick, vars, storeVars
    <2>6. QED
      BY <2>2, <2>3, <2>4, <2>5
  <1>3. QED
    BY <1>1, <1>2

LEMMA LateNotAheadKept == IInv /\ [Next]_vars => LateNotAhead'
  <1> SUFFICES ASSUME IInv, [Next]_vars, NEW p \in late', NEW i \in 1..Len(p.cmds)
               PROVE  LET e == p.cmds[i]
                      IN  /\ e.quote \in 1..Len(taker')
                          /\ e.hash \in HashesOf(published'[e.quote])
                          /\ \A v \in Workers : NotAhead(e.quote, v)'
    BY DEF LateNotAhead, Received
  <1> USE DEF IInv
  <1> DEFINE e == p.cmds[i]
  <1>1. Received(e) /\ \A v \in Workers : NotAhead(e.quote, v)'
    <2>1. ASSUME NEW s \in late, NEW j \in 1..Len(s.cmds), e = s.cmds[j]
          PROVE  Received(e) /\ \A v \in Workers : NotAhead(e.quote, v)'
      <3>1. Received(e) /\ \A v \in Workers : NotAhead(e.quote, v)
        BY <2>1 DEF OrderInv, LateNotAhead
      <3>2. e.quote \in 0..Len(taker)
        BY <3>1, Lengths DEF Received
      <3>3. QED
        BY <3>1, <3>2, NotAheadKept DEF NotAhead
    <2>2. ASSUME NEW w \in Workers, NEW j \in 1..Len(batch[w]), e = batch[w][j],
                 batch'[w] = <<>> \/ (batch'[w] = batch[w] /\ attempt'[w] > 0)
          PROVE  Received(e) /\ \A v \in Workers : NotAhead(e.quote, v)'
      <3>1. Received(e) /\ taker[e.quote] = w
        BY <2>2 DEF OrderInv, BatchOwned
      <3>2. taker'[e.quote] = w
        BY <3>1, HistoryKept DEF Received
      <3>3. \/ attempt'[w] > 0 /\ \E k \in 1..Len(batch'[w]) : batch'[w][k].quote = e.quote
            \/ \A k \in 1..Len(batch'[w]) : acked'[w] < k => e.quote <= batch'[w][k].quote
        BY <2>2, EmptySeq
      <3>4. QED
        BY <3>1, <3>2, <3>3 DEF NotAhead
    <2>3. QED
      BY <2>1, <2>2, LateSources
  <1>2. QED
    BY <1>1, ReceivedKept

LEMMA IInvInit == Init => IInv
  <1> SUFFICES ASSUME Init PROVE IInv
    OBVIOUS
  <1>1. TypeInv
    BY TypeInvInit
  <1>2. /\ \A w \in Workers : batch[w] = <<>> /\ Len(batch[w]) = 0
        /\ \A h \in HashKeys : redis[h] = 0
        /\ taker = <<>> /\ Len(taker) = 0 /\ late = {}
    BY EmptySeq DEF Init
  <1>3. QED
    BY <1>1, <1>2 DEF IInv, OrderInv, BatchOwned, BatchInOrder, BatchComplete, StoreNotAhead,
                      LateNotAhead, NotAhead

LEMMA IInvStep == IInv /\ [Next]_vars => IInv'
  <1>1. IInv /\ [Next]_vars => TypeInv'
    BY TypeInvStep DEF IInv
  <1>2. QED
    BY <1>1, BatchOwnedKept, BatchInOrderKept, BatchCompleteKept, StoreNotAheadKept,
       LateNotAheadKept
       DEF IInv, OrderInv

LEMMA IInvInvariant == Spec => []IInv
  BY IInvInit, IInvStep, PTL DEF Spec

(* However many workers there are and however pipelines are refused, sent  *)
(* again or given up: a worker takes a hash back to an older of its own    *)
(* quotes only while it sends again the pipeline the newer one is in; what *)
(* else reorders the quotes of a worker is an attempt given up that Redis  *)
(* executes late (main.go:263-329, client.go:107).                         *)
THEOREM OrderPerWorker == Spec => SameWorkerOrder
  <1>1. ASSUME IInv, [Next]_vars
        PROVE  [\A h \in HashKeys :
                  redis'[h] < redis[h] => \/ taker[redis'[h]] # taker[redis[h]]
                                          \/ InResend(redis[h])
                                          \/ late' # late]_vars
    <2> SUFFICES ASSUME late' = late, NEW h \in HashKeys, redis'[h] < redis[h],
                        taker[redis'[h]] = taker[redis[h]]
                 PROVE  InResend(redis[h])
      OBVIOUS
    <2> USE <1>1 DEF IInv
    <2>1. /\ redis \in [HashKeys -> Nat]
          /\ redis[h] \in 0..Len(taker)
          /\ \A v \in Workers : NotAhead(redis[h], v)
      BY DEF OrderInv, StoreNotAhead, TypeInv, TypeOK
    <2>2. PICK w \in Workers :
             /\ acked[w] < Len(batch[w])
             /\ redis' = [redis EXCEPT ![batch[w][acked[w] + 1].hash] =
                                          batch[w][acked[w] + 1].quote]
      <3>1. redis' # redis
        BY <2>1, Lengths
      <3>2. QED
        BY <3>1, Writers
    <2>3. redis'[h] = batch[w][acked[w] + 1].quote
      BY <2>1, <2>2
    <2>4. acked[w] + 1 \in 1..Len(batch[w]) /\ acked[w] < acked[w] + 1
      BY <2>2, NextCommand, Lengths
    <2>5. redis'[h] \in 1..Len(taker) /\ taker[redis'[h]] = w
      BY <2>3, <2>4 DEF OrderInv, BatchOwned, Received
    <2>6. redis[h] # 0 /\ taker[redis[h]] = w
      BY <2>1, <2>5, Lengths
    <2>7. ~ redis[h] <= redis'[h]
      BY <2>1, <2>5, Lengths
    <2>8. attempt[w] > 0 /\ \E i \in 1..Len(batch[w]) : batch[w][i].quote = redis[h]
      BY <2>1, <2>3, <2>4, <2>6, <2>7 DEF NotAhead
    <2>9. DOMAIN batch[w] = 1..Len(batch[w])
      BY LenProperties DEF TypeInv, TypeOK
    <2>10. QED
      BY <2>6, <2>8, <2>9 DEF InResend
  <1>2. QED
    BY <1>1, IInvInvariant, PTL DEF Spec, SameWorkerOrder

-----------------------------------------------------------------------------
(* What is stored once everything is flushed.                              *)

(* What a hash holds was published for it.                                 *)
StoreOwned == \A h \in HashKeys : redis[h] # 0 => h \in HashesOf(published[redis[h]])

(* What an attempt given up wrote is not lost either.                      *)
LateWritten == \A h \in lateHashes : redis[h] # 0

(* Quote m of worker w is newer than what a hash holds, and the hash holds *)
(* nothing or a quote of the same worker.                                  *)
Missing(h, m) ==
    /\ h \in HashesOf(published[m])
    /\ redis[h] < m
    /\ redis[h] = 0 \/ taker[redis[h]] = taker[m]

(* How much of its batch a worker is known to have stored, now and after   *)
(* the step: nothing, once a command was refused and the pipeline has to   *)
(* end in an error.                                                        *)
Stored(w) == IF execErr[w] THEN 0 ELSE acked[w]
StoredNext(w) == IF execErr'[w] THEN 0 ELSE acked'[w]

(* Unless an attempt given up wrote to its hash, such a quote still waits  *)
(* in the batch of its worker.                                             *)
NothingLost ==
    totalRedisErrors = 0 =>
        \A h \in HashKeys \ lateHashes : \A m \in 1..Len(taker) :
            Missing(h, m) => After(taker[m], Stored(taker[m]), m, h)

StoreInv == StoreOwned /\ LateWritten /\ NothingLost

SettledInv == IInv /\ StoreInv

LEMMA StoreOwnedKept == IInv /\ StoreOwned /\ [Next]_vars => StoreOwned'
  <1> SUFFICES ASSUME IInv, StoreOwned, [Next]_vars, NEW h \in HashKeys, redis'[h] # 0
               PROVE  h \in HashesOf(published'[redis'[h]])
    BY DEF StoreOwned
  <1> USE DEF IInv
  <1>0. redis \in [HashKeys -> Nat] /\ redis[h] \in 0..Len(taker)
    BY DEF OrderInv, StoreNotAhead, TypeInv, TypeOK
  <1>1. redis'[h] \in 1..Len(taker) /\ h \in HashesOf(published[redis'[h]])
    <2>1. CASE redis'[h] = redis[h]
      BY <1>0, <2>1, Lengths DEF StoreOwned
    <2>2. ASSUME NEW e, Received(e), redis' = [redis EXCEPT ![e.hash] = e.quote],
                 redis'[h] # redis[h]
          PROVE  redis'[h] \in 1..Len(taker) /\ h \in HashesOf(published[redis'[h]])
      <3>1. h = e.hash /\ redis'[h] = e.quote
        BY <1>0, <2>2
      <3>2. QED
        BY <2>2, <3>1 DEF Received
    <2>3. \A w \in Workers : acked[w] < Len(batch[w]) => Received(batch[w][acked[w] + 1])
      BY NextCommand DEF OrderInv, BatchOwned
    <2>4. \A p \in late : Received(Head(p.cmds))
      BY HeadOfLate DEF OrderInv, LateNotAhead
    <2>5. CASE redis'[h] # redis[h]
      BY <2>2, <2>3, <2>4, <2>5, Writers
    <2>6. QED
      BY <2>1, <2>5
  <1>2. QED
    BY <1>1, HistoryKept

LEMMA LateWrittenKept == IInv /\ LateWritten /\ [Next]_vars => LateWritten'
  <1> SUFFICES ASSUME IInv, LateWritten, [Next]_vars, NEW h \in lateHashes'
               PROVE  redis'[h] # 0
    BY DEF LateWritten
  <1>1. redis \in [HashKeys -> Nat] /\ h \in HashKeys
    BY IInvStep DEF IInv, TypeInv, TypeOK
  <1>2. ASSUME NEW w \in Workers, Exec(w) PROVE redis'[h] # 0
    <2> DEFINE e == batch[w][acked[w] + 1]
    <2>1. /\ redis' = [redis EXCEPT ![e.hash] = e.quote]
          /\ h \in lateHashes
          /\ acked[w] < Len(batch[w])
      BY <1>2 DEF Exec, Answered
    <2>2. e.quote # 0
      BY <2>1, NextCommand DEF IInv
    <2> HIDE DEF e
    <2>3. QED
      BY <1>1, <2>1, <2>2 DEF LateWritten
  <1>3. ASSUME NEW p \in late, LateExec(p) PROVE redis'[h] # 0
    <2> DEFINE e == Head(p.cmds)
    <2>1. /\ redis' = [redis EXCEPT ![e.hash] = e.quote]
          /\ h \in lateHashes \/ h = e.hash
      BY <1>3 DEF LateExec
    <2>2. e = p.cmds[1] /\ 1 \in 1..Len(p.cmds)
      BY HeadOfLate
    <2>3. Received(e)
      BY <2>2 DEF IInv, OrderInv, LateNotAhead
    <2>4. e.quote # 0
      BY <2>3 DEF Received
    <2> HIDE DEF e
    <2>5. QED
      BY <1>1, <2>1, <2>4 DEF LateWritten
  <1>4. CASE (~ \E w \in Workers : Exec(w)) /\ (~ \E p \in late : LateExec(p))
    <2>1. UNCHANGED <<redis, lateHashes>>
      BY <1>4 DEF Next, WorkerStep, Terminated, Send, Take, TimerFlush, Reject, Answered, Return,
                  Retry, Fail, GiveUp, LateLost, Stop, Tick, vars, storeVars
    <2>2. QED
      BY <2>1 DEF LateWritten
  <1>5. QED
    BY <1>2, <1>3, <1>4

(* A step after which no error is counted is a receive, a command that was *)
(* executed, or one that forgets nothing it knew to be stored and changes  *)
(* no batch but one that is stored to the end.                             *)
Quiet ==
    /\ taker' = taker
    /\ \A h \in HashKeys \ lateHashes' : h \notin lateHashes /\ redis'[h] = redis[h]
    /\ \A v \in Workers : \/ batch'[v] = batch[v] /\ StoredNext(v) <= Stored(v)
                          \/ Stored(v) = Len(batch[v])

LEMMA StepsWithoutError ==
    ASSUME IInv, [Next]_vars, totalRedisErrors' = 0
    PROVE  /\ totalRedisErrors = 0
           /\ (\E w \in Workers : Take(w)) \/ (\E w \in Workers : Exec(w)) \/ Quiet
  <1> DEFINE Goal == /\ totalRedisErrors = 0
                     /\ (\E w \in Workers : Take(w)) \/ (\E w \in Workers : Exec(w)) \/ Quiet
  <1>0. /\ acked \in [Workers -> Nat] /\ execErr \in [Workers -> BOOLEAN]
        /\ DOMAIN batch = Workers /\ totalRedisErrors \in Nat
        /\ redis \in [HashKeys -> Nat]
        /\ TypeInv
    BY DEF IInv, TypeInv, TypeOK
  <1>1. ASSUME UNCHANGED <<taker, batch, acked, execErr, redis, lateHashes, totalRedisErrors>>
        PROVE  Goal
    BY <1>0, <1>1 DEF Quiet, Stored, StoredNext
  <1>2. ASSUME \/ \E k \in Keys : Send(k)
               \/ \E p \in late : LateLost(p)
               \/ Stop \/ Tick \/ UNCHANGED vars
        PROVE  Goal
    BY <1>1, <1>2 DEF Send, LateLost, Stop, Tick, vars, workerVars, execVars, storeVars, counters
  <1>3. ASSUME NEW w \in Workers, Take(w) \/ Exec(w) PROVE Goal
    BY <1>0, <1>3 DEF Take, Exec, Answered, counters
  <1>4. ASSUME NEW w \in Workers, TimerFlush(w) PROVE Goal
    <2>1. UNCHANGED <<acked, execErr>>
      BY <1>0, <1>4, BeginExecType DEF TimerFlush
    <2>2. QED
      BY <1>1, <1>4, <2>1 DEF TimerFlush, storeVars, counters
  <1>5. ASSUME NEW w \in Workers, Reject(w) PROVE Goal
    <2>1. /\ UNCHANGED <<taker, batch, redis, lateHashes, totalRedisErrors>>
          /\ execErr' = [execErr EXCEPT ![w] = TRUE]
          /\ acked' = [acked EXCEPT ![w] = acked[w] + 1]
      BY <1>5 DEF Reject, Answered, counters
    <2>2. \A v \in Workers : StoredNext(v) <= Stored(v)
      BY <1>0, <2>1 DEF Stored, StoredNext
    <2>3. QED
      BY <2>1, <2>2 DEF Quiet
  <1>6. ASSUME NEW w \in Workers, Return(w) PROVE Goal
    <2>1. /\ ~ execErr[w] /\ acked[w] = Len(batch[w]) /\ totalRedisErrors = 0
          /\ UNCHANGED <<taker, redis, lateHashes>>
          /\ batch' = [batch EXCEPT ![w] = <<>>]
          /\ acked' = [acked EXCEPT ![w] = 0]
          /\ execErr' = [execErr EXCEPT ![w] = FALSE]
      BY <1>0, <1>6 DEF Return, BackToSelect, storeVars
    <2>2. Stored(w) = Len(batch[w])
      BY <2>1 DEF Stored, StoredNext
    <2>3. \A v \in Workers \ {w} : batch'[v] = batch[v] /\ StoredNext(v) <= Stored(v)
      BY <1>0, <2>1 DEF Stored, StoredNext
    <2>4. QED
      BY <2>1, <2>2, <2>3 DEF Quiet
  <1>7. ASSUME NEW w \in Workers, Retry(w) PROVE Goal
    <2>1. /\ UNCHANGED <<taker, batch, redis, lateHashes, totalRedisErrors>>
          /\ acked' = [acked EXCEPT ![w] = 0]
          /\ execErr' = [execErr EXCEPT ![w] = FALSE]
      BY <1>7 DEF Retry, GiveUp
    <2>2. \A v \in Workers : StoredNext(v) <= Stored(v)
      BY <1>0, <2>1 DEF Stored, StoredNext
    <2>3. QED
      BY <2>1, <2>2 DEF Quiet
  <1>8. ASSUME NEW w \in Workers, Fail(w) PROVE Goal
    BY <1>0, <1>8 DEF Fail
  <1>9. ASSUME NEW p \in late, LateExec(p) PROVE Goal
    <2>1. /\ UNCHANGED <<taker, batch, acked, execErr, totalRedisErrors>>
          /\ redis' = [redis EXCEPT ![Head(p.cmds).hash] = Head(p.cmds).quote]
          /\ lateHashes' = lateHashes \cup {Head(p.cmds).hash}
      BY <1>9 DEF LateExec, workerVars, execVars, counters
    <2>2. \A h \in HashKeys \ lateHashes' : h \notin lateHashes /\ redis'[h] = redis[h]
      BY <1>0, <2>1
    <2>3. \A v \in Workers : StoredNext(v) <= Stored(v)
      BY <1>0, <2>1 DEF Stored, StoredNext
    <2>4. QED
      BY <2>1, <2>2, <2>3 DEF Quiet
  <1> HIDE DEF Goal
  <1>10. Goal
    BY <1>2, <1>3, <1>4, <1>5, <1>6, <1>7, <1>8, <1>9 DEF Next, WorkerStep, Terminated
  <1>11. QED
    BY <1>10 DEF Goal

LEMMA NothingLostKept == SettledInv /\ [Next]_vars => NothingLost'
  <1> SUFFICES ASSUME SettledInv, [Next]_vars, totalRedisErrors' = 0,
                      NEW h \in HashKeys \ lateHashes',
                      NEW m \in 1..Len(taker'), Missing(h, m)'
               PROVE  \E j \in 1..Len(batch'[taker'[m]]) :
                         /\ StoredNext(taker'[m]) < j
                         /\ batch'[taker'[m]][j].quote = m
                         /\ batch'[taker'[m]][j].hash = h
    BY DEF NothingLost, After, Stored, StoredNext
  <1> DEFINE v == taker'[m]
             Goal == \E j \in 1..Len(batch'[v]) :
                        StoredNext(v) < j /\ batch'[v][j].quote = m /\ batch'[v][j].hash = h
  <1>0. /\ IInv /\ TypeInv /\ BatchComplete
        /\ redis \in [HashKeys -> Nat] /\ redis[h] \in 0..Len(taker)
        /\ acked \in [Workers -> Nat] /\ execErr \in [Workers -> BOOLEAN]
        /\ Len(taker) \in Nat
        /\ h \notin lateHashes =>
              \A n \in 1..Len(taker) : Missing(h, n) => After(taker[n], Stored(taker[n]), n, h)
        /\ (\E w \in Workers : Take(w)) \/ (\E w \in Workers : Exec(w)) \/ Quiet
    BY StepsWithoutError, Lengths DEF SettledInv, StoreInv, NothingLost, IInv, OrderInv,
                                      StoreNotAhead, TypeInv, TypeOK
  <1>1. /\ h \in HashesOf(published'[m])
        /\ redis'[h] < m
        /\ redis'[h] = 0 \/ taker'[redis'[h]] = v
    BY DEF Missing
  <1>2. v \in Workers
    <2>1. taker' \in Seq(Workers)
      BY <1>0, TypeInvStep DEF TypeInv, TypeOK
    <2>2. QED
      BY <2>1, ElementOfSeq
  <1> HIDE DEF v
  <1>3. ASSUME m \in 1..Len(taker), redis'[h] = redis[h], h \notin lateHashes
        PROVE  v = taker[m] /\ After(v, Stored(v), m, h)
    <2>1. v = taker[m] /\ published'[m] = published[m]
      BY <1>0, <1>3, HistoryKept DEF v
    <2>2. redis[h] = 0 \/ taker[redis[h]] = v
      <3>1. CASE redis[h] = 0
        BY <3>1
      <3>2. CASE redis[h] # 0
        <4>1. redis[h] \in 1..Len(taker)
          BY <1>0, <3>2
        <4>2. taker'[redis[h]] = taker[redis[h]]
          BY <1>0, <4>1, HistoryKept
        <4>3. QED
          BY <1>1, <1>3, <3>2, <4>2
      <3>3. QED
        BY <3>1, <3>2
    <2>3. Missing(h, m)
      BY <1>1, <1>3, <2>1, <2>2 DEF Missing
    <2>4. QED
      BY <1>0, <1>3, <2>1, <2>3
  <1>4. ASSUME NEW w \in Workers, Take(w) PROVE Goal
    <2>1. /\ Len(taker') = Len(taker) + 1 /\ redis' = redis /\ h \notin lateHashes
          /\ Len(batch[v]) \in Nat /\ acked[v] <= Len(batch[v]) /\ acked[v] \in Nat
      BY <1>0, <1>2, <1>4, TakeEffect, Lengths DEF TypeInv, ControlInv
    <2>2. StoredNext(v) = Stored(v) /\ Stored(v) \in 0..Len(batch[v])
      BY <1>0, <1>4, <2>1, TakeEffect DEF Stored, StoredNext
    <2>3. CASE m \in 1..Len(taker)
      <3>1. PICK j \in 1..Len(batch[v]) :
               Stored(v) < j /\ batch[v][j].quote = m /\ batch[v][j].hash = h
        BY <1>3, <2>1, <2>3 DEF After
      <3>2. j \in 1..Len(batch'[v]) /\ batch'[v][j] = batch[v][j]
        <4>1. CASE v = w
          <5>1. /\ Len(batch'[w]) = Len(batch[w]) + 2
                /\ \A k \in 1..Len(batch[w]) : batch'[w][k] = batch[w][k]
            BY <1>0, <1>4, TakeEffect
          <5>2. QED
            BY <2>1, <4>1, <5>1
        <4>2. CASE v # w
          <5>1. batch'[v] = batch[v]
            BY <1>0, <1>2, <1>4, <4>2, TakeEffect
          <5>2. QED
            BY <5>1
        <4>3. QED
          BY <4>1, <4>2
      <3>3. QED
        BY <2>2, <3>1, <3>2
    <2>4. CASE m = Len(taker) + 1
      <3>1. v = w
        BY <1>0, <1>4, <2>4, TakeEffect DEF v
      <3>2. Head(dataChannel) = m /\ published' = published /\ batch' = [batch EXCEPT ![w] = Full(w)]
            /\ dataChannel # <<>>
        BY <1>0, <1>4, <2>4, HeadOfChannel DEF Take, Full
      <3>3. batch'[v] = Full(v)
        BY <1>0, <3>1, <3>2 DEF TypeInv, TypeOK
      <3>4. /\ Full(v)[Len(batch[v]) + 1] = [hash |-> RawHash(published[m]), quote |-> m]
            /\ Full(v)[Len(batch[v]) + 2] = [hash |-> CanonHash(published[m]), quote |-> m]
            /\ Len(Full(v)) = Len(batch[v]) + 2
        BY <1>0, <1>2, <2>4, <3>2, FullProperties
      <3>5. /\ Len(batch[v]) + 1 \in 1..Len(batch'[v]) /\ Len(batch[v]) + 2 \in 1..Len(batch'[v])
            /\ StoredNext(v) < Len(batch[v]) + 1 /\ StoredNext(v) < Len(batch[v]) + 2
        BY <2>1, <2>2, <3>3, <3>4
      <3>6. h = RawHash(published[m]) \/ h = CanonHash(published[m])
        BY <1>1, <3>2 DEF HashesOf
      <3>7. QED
        BY <3>3, <3>4, <3>5, <3>6
    <2>5. QED
      BY <1>0, <2>1, <2>3, <2>4
  <1>5. ASSUME NEW w \in Workers, Exec(w) PROVE Goal
    <2> DEFINE e == batch[w][acked[w] + 1]
    <2>1. /\ acked[w] < Len(batch[w]) /\ taker' = taker /\ batch' = batch
          /\ published' = published /\ execErr' = execErr
          /\ redis' = [redis EXCEPT ![e.hash] = e.quote]
          /\ lateHashes' = lateHashes \ {e.hash}
          /\ acked' = [acked EXCEPT ![w] = acked[w] + 1]
      BY <1>5 DEF Exec, Answered
    <2>2. acked[w] + 1 \in 1..Len(batch[w]) /\ Received(e) /\ taker[e.quote] = w
      BY <1>0, <2>1, NextCommand DEF IInv, OrderInv, BatchOwned
    <2>3. m \in 1..Len(taker) /\ v = taker[m]
      BY <2>1 DEF v
    <2>4. CASE h = e.hash
      <3>1. redis'[h] = e.quote /\ e.quote # 0
        BY <1>0, <2>1, <2>2, <2>4 DEF Received
      <3>2. e.quote < m /\ v = w
        BY <1>1, <2>1, <2>2, <3>1
      <3>3. After(w, acked[w] + 1, m, h)
        BY <1>0, <1>1, <2>1, <2>2, <2>3, <3>2 DEF BatchComplete
      <3>4. StoredNext(w) <= acked[w] + 1 /\ StoredNext(w) \in Nat
        BY <1>0, <2>1 DEF Stored, StoredNext
      <3>5. acked[w] + 1 \in Nat
        BY <1>0
      <3>6. QED
        BY <2>1, <3>2, <3>3, <3>4, <3>5 DEF After
    <2>5. CASE h # e.hash
      <3>1. redis'[h] = redis[h] /\ h \notin lateHashes
        BY <1>0, <2>1, <2>5
      <3>2. PICK j \in 1..Len(batch[v]) :
               Stored(v) < j /\ batch[v][j].quote = m /\ batch[v][j].hash = h
        BY <1>3, <2>3, <3>1 DEF After
      <3>3. StoredNext(v) < j
        <4>1. CASE v = w
          <5>1. j # acked[w] + 1
            BY <2>5, <3>2, <4>1
          <5>2. acked[w] \in Nat /\ acked'[w] = acked[w] + 1 /\ execErr'[w] = execErr[w]
            BY <1>0, <2>1
          <5>3. QED
            BY <3>2, <4>1, <5>1, <5>2 DEF Stored, StoredNext
        <4>2. CASE v # w
          <5>1. acked'[v] = acked[v] /\ execErr'[v] = execErr[v]
            BY <1>0, <1>2, <2>1, <4>2
          <5>2. QED
            BY <3>2, <5>1 DEF Stored, StoredNext
        <4>3. QED
          BY <4>1, <4>2
      <3>4. QED
        BY <2>1, <3>2, <3>3
    <2>6. QED
      BY <2>4, <2>5
  <1>6. ASSUME Quiet PROVE Goal
    <2>1. m \in 1..Len(taker) /\ redis'[h] = redis[h] /\ h \notin lateHashes
      BY <1>6 DEF Quiet
    <2>2. PICK j \in 1..Len(batch[v]) :
             Stored(v) < j /\ batch[v][j].quote = m /\ batch[v][j].hash = h
      BY <1>3, <2>1 DEF After
    <2>3. Stored(v) # Len(batch[v])
      BY <1>0, <1>2, <2>2, Lengths
    <2>4. batch'[v] = batch[v] /\ StoredNext(v) <= Stored(v)
      BY <1>2, <1>6, <2>3 DEF Quiet
    <2>5. Stored(v) \in Nat /\ StoredNext(v) \in Nat
      BY <1>0, <1>2, TypeInvStep DEF TypeInv, TypeOK, Stored, StoredNext
    <2>6. QED
      BY <2>2, <2>4, <2>5
  <1> HIDE DEF Goal
  <1>7. Goal
    BY <1>0, <1>4, <1>5, <1>6
  <1>8. QED
    BY <1>7, Zenon DEF v, Goal

LEMMA SettledInvInvariant == Spec => []SettledInv
  <1>1. Init => SettledInv
    <2> SUFFICES ASSUME Init PROVE SettledInv
      OBVIOUS
    <2>1. IInv
      BY IInvInit
    <2>2. /\ \A h \in HashKeys : redis[h] = 0
          /\ Len(taker) = 0 /\ lateHashes = {}
      BY EmptySeq DEF Init
    <2>3. StoreOwned /\ LateWritten /\ NothingLost
      BY <2>2 DEF StoreOwned, LateWritten, NothingLost
    <2>4. QED
      BY <2>1, <2>3 DEF SettledInv, StoreInv
  <1>2. SettledInv /\ [Next]_vars => SettledInv'
    <2>1. SettledInv /\ [Next]_vars => IInv' /\ StoreOwned' /\ LateWritten'
      BY IInvStep, StoreOwnedKept, LateWrittenKept DEF SettledInv, StoreInv
    <2>2. QED
      BY <2>1, NothingLostKept DEF SettledInv, StoreInv
  <1>3. QED
    BY <1>1, <1>2, PTL DEF Spec

(* For any number of workers and any interleaving of their pipelines, with *)
(* attempts that were repeated and executed late: once everything received *)
(* is flushed and no error was counted, every hash that a quote was about  *)
(* is there, with the newest quote of one of the workers unless an attempt *)
(* given up wrote to it last (main.go:282-313).                            *)
THEOREM StoreSettles == Spec => []SettledStore
  <1>1. SettledInv => SettledStore
    <2> SUFFICES ASSUME SettledInv, Settled, totalRedisErrors = 0, NEW h \in HashKeys
                 PROVE  IF QuotesFor(h) = {} THEN redis[h] = 0
                        ELSE /\ redis[h] \in QuotesFor(h)
                             /\ h \notin lateHashes =>
                                   \A m \in QuotesFor(h) :
                                      taker[m] = taker[redis[h]] => m <= redis[h]
      BY DEF SettledStore
    <2>1. /\ IInv /\ TypeInv /\ StoreOwned /\ LateWritten /\ NothingLost
          /\ redis[h] \in 0..Len(taker)
      BY DEF SettledInv, StoreInv, IInv, OrderInv, StoreNotAhead
    <2>2. \A w \in Workers : Len(batch[w]) = 0
      BY EmptySeq DEF Settled
    <2>3. Len(published) = Len(taker) /\ Len(taker) \in Nat
      BY <2>1, EmptySeq, Lengths DEF TypeInv, ChannelInOrder, Settled
    <2>4. ASSUME NEW m \in QuotesFor(h), h \notin lateHashes PROVE ~ Missing(h, m)
      <3>1. m \in 1..Len(taker)
        BY <2>3, <2>4 DEF QuotesFor
      <3>2. taker[m] \in Workers
        BY <2>1, <3>1, ElementOfSeq DEF TypeInv, TypeOK
      <3>3. ~ After(taker[m], Stored(taker[m]), m, h)
        BY <2>2, <3>2 DEF After
      <3>4. QED
        BY <2>1, <2>4, <3>1, <3>3 DEF NothingLost
    <2>5. redis[h] # 0 => redis[h] \in QuotesFor(h)
      BY <2>1, <2>3 DEF StoreOwned, QuotesFor
    <2>6. \A m \in QuotesFor(h) : m \in Nat \ {0} /\ h \in HashesOf(published[m])
      BY <2>3 DEF QuotesFor
    <2>7. \A m \in QuotesFor(h) : redis[h] # 0
      BY <2>1, <2>4, <2>6 DEF Missing, LateWritten
    <2>8. h \notin lateHashes =>
             \A m \in QuotesFor(h) : taker[m] = taker[redis[h]] => ~ redis[h] < m
      BY <2>4, <2>6 DEF Missing
    <2>9. h \notin lateHashes =>
             \A m \in QuotesFor(h) : taker[m] = taker[redis[h]] => m <= redis[h]
      BY <2>1, <2>3, <2>6, <2>8
    <2>10. QED
      BY <2>5, <2>7, <2>9
  <1>2. QED
    BY <1>1, SettledInvInvariant, PTL

-----------------------------------------------------------------------------
(* Batches.                                                                *)

WholeInv == TypeInv /\ WholeQuotes

(* Between two quotes a worker's batch is empty or as small as before.     *)
LEMMA SelectShrinks ==
    ASSUME TypeInv, [Next]_vars, NEW w \in Workers, ~ \E v \in Workers : Take(v),
           wpc'[w] = "select"
    PROVE  batch'[w] = <<>> \/ (batch'[w] = batch[w] /\ wpc[w] = "select")
  <1> USE DEF TypeInv, TypeOK
  <1>1. ASSUME NEW v \in Workers, Return(v) \/ Fail(v)
        PROVE  batch'[w] = <<>> \/ (batch'[w] = batch[w] /\ wpc[w] = "select")
    BY <1>1 DEF Return, Fail, GiveUp, BackToSelect
  <1>2. ASSUME NEW v \in Workers, TimerFlush(v)
        PROVE  batch'[w] = <<>> \/ (batch'[w] = batch[w] /\ wpc[w] = "select")
    BY <1>2 DEF TimerFlush, BeginExec, execVars
  <1>3. CASE (~ \E v \in Workers : Return(v) \/ Fail(v)) /\ (~ \E v \in Workers : TimerFlush(v))
    BY <1>3 DEF Next, WorkerStep, Terminated, Send, Exec, Reject, Answered, Retry, GiveUp,
                LateExec, LateLost, Stop, Tick, vars, workerVars, execVars
  <1>4. QED
    BY <1>1, <1>2, <1>3

LEMMA EvenLength ==
    ASSUME NEW n \in Nat, n % 2 = 0
    PROVE  /\ (n + 2) % 2 = 0
           /\ \A i \in 1..n : i % 2 = 1 => i + 1 \in 1..n
           /\ \A i \in 1..n + 2 : i % 2 = 1 /\ i \notin 1..n => i = n + 1
  OBVIOUS

LEMMA WholeQuotesStep == WholeInv /\ [Next]_vars => WholeQuotes'
  <1> SUFFICES ASSUME WholeInv, [Next]_vars, NEW w \in Workers
               PROVE  /\ Len(batch'[w]) % 2 = 0
                      /\ \A i \in DOMAIN batch'[w] :
                            i % 2 = 1 => batch'[w][i].quote = batch'[w][i + 1].quote
                      /\ Len(batch'[w]) <= PipelineSize + 1
                      /\ wpc'[w] = "select" => Len(batch'[w]) < PipelineSize
    BY DEF WholeQuotes
  <1> USE DEF WholeInv
  <1> DEFINE Whole(b) == /\ Len(b) % 2 = 0
                         /\ \A i \in DOMAIN b : i % 2 = 1 => b[i].quote = b[i + 1].quote
                         /\ Len(b) <= PipelineSize + 1
  <1>1. /\ Whole(batch[w])
        /\ wpc[w] = "select" => Len(batch[w]) < PipelineSize
    BY DEF WholeQuotes
  <1>2. Whole(<<>>) /\ Len(<<>>) < PipelineSize
    BY PipelineAssumption
  <1>3. CASE \A v \in Workers : ~ Take(v)
    <2>1. batch'[w] = <<>> \/ batch'[w] = batch[w]
      BY <1>3, OnlyTakeGrows DEF Shrinks
    <2>2. Whole(batch'[w])
      BY <1>1, <1>2, <2>1
    <2>3. ASSUME wpc'[w] = "select" PROVE Len(batch'[w]) < PipelineSize
      BY <1>1, <1>2, <1>3, <2>3, SelectShrinks
    <2>4. QED
      BY <2>2, <2>3
  <1>4. ASSUME NEW v \in Workers, v # w, Take(v)
        PROVE  batch'[w] = batch[w] /\ wpc'[w] = wpc[w]
    <2>1. batch'[w] = batch[w]
      BY <1>4, TakeEffect
    <2>2. wpc[v] = "select" /\ (BeginExec(v) \/ UNCHANGED execVars)
      BY <1>4 DEF Take
    <2>3. wpc'[w] = wpc[w]
      BY <1>4, <2>2, BeginExecType
    <2>4. QED
      BY <2>1, <2>3
  <1>5. ASSUME Take(w)
        PROVE  Whole(batch'[w]) /\ (wpc'[w] = "select" => Len(batch'[w]) < PipelineSize)
    <2> DEFINE n == Len(batch[w])
    <2>1. /\ n \in Nat /\ n % 2 = 0 /\ n < PipelineSize /\ PipelineSize \in Nat
      BY <1>1, <1>5, Lengths, PipelineAssumption DEF Take
    <2>2. Len(batch'[w]) = n + 2 /\ DOMAIN batch'[w] = 1..n + 2
      <3>1. batch'[w] \in Seq(Entry)
        BY TypeInvStep DEF TypeInv, TypeOK
      <3>2. QED
        BY <3>1, <1>5, TakeEffect, LenProperties
    <2>3. DOMAIN batch[w] = 1..n
      BY LenProperties DEF TypeInv, TypeOK
    <2>4. Len(batch'[w]) % 2 = 0 /\ Len(batch'[w]) <= PipelineSize + 1
      <3> HIDE DEF n
      <3>1. QED
        BY <2>1, <2>2, EvenLength
    <2>5. ASSUME NEW i \in 1..n + 2, i % 2 = 1
          PROVE  batch'[w][i].quote = batch'[w][i + 1].quote
      <3>1. CASE i \in 1..n
        <4>1. i + 1 \in 1..n
          <5> HIDE DEF n
          <5>1. QED
            BY <2>1, <2>5, <3>1, EvenLength
        <4>2. QED
          BY <1>1, <1>5, <2>3, <2>5, <3>1, <4>1, TakeEffect
      <3>2. CASE i \notin 1..n
        <4>1. i \in n + 1..n + 2 /\ i + 1 \in n + 1..n + 2
          <5> HIDE DEF n
          <5>1. i = n + 1
            BY <2>1, <2>5, <3>2, EvenLength
          <5>2. QED
            BY <2>1, <5>1
        <4>2. QED
          BY <1>5, <4>1, TakeEffect
      <3>3. QED
        BY <3>1, <3>2
    <2>6. ASSUME wpc'[w] = "select" PROVE Len(batch'[w]) < PipelineSize
      <3>1. wpc[w] = "select" /\ batch' = [batch EXCEPT ![w] = Full(w)]
            /\ (Len(Full(w)) >= PipelineSize => wpc' = [wpc EXCEPT ![w] = "exec"])
        BY <1>5 DEF Take, Full, BeginExec
      <3>2. ~ Len(Full(w)) >= PipelineSize
        BY <2>6, <3>1 DEF TypeInv, TypeOK
      <3>3. batch'[w] = Full(w)
        BY <3>1 DEF TypeInv, TypeOK
      <3>4. QED
        BY <2>1, <2>2, <3>2, <3>3
    <2>7. QED
      BY <2>2, <2>4, <2>5, <2>6
  <1>6. QED
    BY <1>1, <1>3, <1>4, <1>5

LEMMA WholeInvInit == Init => WholeInv
  <1>1. Init => WholeQuotes
    BY PipelineAssumption DEF Init, WholeQuotes
  <1>2. QED
    BY <1>1, TypeInvInit DEF WholeInv

LEMMA WholeInvStep == WholeInv /\ [Next]_vars => WholeInv'
  BY TypeInvStep, WholeQuotesStep DEF WholeInv

(* Pipelines carry whole quotes and are bounded, for every pipeline size,  *)
(* even or odd (main.go:301-313).                                          *)
THEOREM BatchesWhole == Spec => []WholeQuotes
  <1>1. WholeInv => WholeQuotes
    BY DEF WholeInv
  <1>2. QED
    BY <1>1, WholeInvInit, WholeInvStep, PTL DEF Spec

-----------------------------------------------------------------------------
(* Sums over the workers.                                                  *)

(* Slots(f) has f[w] elements for each worker w: the sum of f over the     *)
(* workers is its cardinality.                                             *)
Slots(f) == UNION {{w} \X (1..f[w]) : w \in Workers}

LEMMA SlotsElements ==
    ASSUME NEW f
    PROVE  \A x : x \in Slots(f) <=> \E w \in Workers : \E i \in 1..f[w] : x = <<w, i>>
  BY DEF Slots

LEMMA RowCardinality ==
    ASSUME NEW w, NEW n \in Nat
    PROVE  IsFiniteSet({w} \X (1..n)) /\ Cardinality({w} \X (1..n)) = n
  <1>1. IsFiniteSet({w}) /\ Cardinality({w}) = 1
    BY FS_Singleton
  <1>2. IsFiniteSet(1..n) /\ Cardinality(1..n) = n
    BY FS_Interval
  <1>3. /\ IsFiniteSet({w} \X (1..n))
        /\ Cardinality({w} \X (1..n)) = Cardinality({w}) * Cardinality(1..n)
    BY <1>1, <1>2, FS_Product
  <1>4. QED
    BY <1>1, <1>2, <1>3

(* All workers with the same number: the product.                          *)
LEMMA SlotsFull ==
    ASSUME NEW c \in Nat, NEW f, \A w \in Workers : f[w] = c
    PROVE  /\ IsFiniteSet(Slots(f))
           /\ Cardinality(Slots(f)) = Cardinality(Workers) * c
           /\ Cardinality(Slots(f)) \in Nat
  <1>1. Slots(f) = Workers \X (1..c)
    BY SlotsElements
  <1>2. IsFiniteSet(Workers) /\ IsFiniteSet(1..c) /\ Cardinality(1..c) = c
    BY FS_Interval, PipelineAssumption
  <1>3. /\ IsFiniteSet(Workers \X (1..c))
        /\ Cardinality(Workers \X (1..c)) = Cardinality(Workers) * Cardinality(1..c)
    BY <1>2, FS_Product
  <1>4. QED
    BY <1>1, <1>2, <1>3, FS_CardinalityType

LEMMA SlotsBound ==
    ASSUME NEW c \in Nat, NEW f \in [Workers -> 0..c]
    PROVE  /\ IsFiniteSet(Slots(f)) /\ Cardinality(Slots(f)) \in Nat
           /\ Cardinality(Slots(f)) <= Cardinality(Workers) * c
  <1> DEFINE g == [w \in Workers |-> c]
  <1>1. \A w \in Workers : g[w] = c
    OBVIOUS
  <1> HIDE DEF g
  <1>2. IsFiniteSet(Slots(g)) /\ Cardinality(Slots(g)) = Cardinality(Workers) * c
    BY <1>1, SlotsFull
  <1>3. ASSUME NEW x \in Slots(f) PROVE x \in Slots(g)
    <2>1. PICK w \in Workers : \E i \in 1..f[w] : x = <<w, i>>
      BY <1>3, SlotsElements
    <2>2. PICK i \in 1..f[w] : x = <<w, i>>
      BY <2>1
    <2>3. i \in 1..g[w]
      BY <1>1
    <2>4. QED
      BY <2>2, <2>3, SlotsElements
  <1>4. Slots(f) \in SUBSET Slots(g)
    BY <1>3
  <1>5. QED
    BY <1>2, <1>4, FS_Subset, FS_CardinalityType

(* One worker's number changes.                                            *)
LEMMA SlotsChange ==
    ASSUME NEW c \in Nat, NEW f \in [Workers -> 0..c], NEW g \in [Workers -> 0..c],
           NEW w \in Workers, \A v \in Workers \ {w} : g[v] = f[v]
    PROVE  Cardinality(Slots(g)) + f[w] = Cardinality(Slots(f)) + g[w]
  <1> DEFINE Row(n) == {w} \X (1..n)
  <1>1. ASSUME NEW h \in [Workers -> 0..c]
        PROVE  Cardinality(Slots(h) \ Row(h[w])) + h[w] = Cardinality(Slots(h))
    <2> DEFINE row == Row(h[w])
    <2>1. IsFiniteSet(Slots(h)) /\ Cardinality(Slots(h)) \in Nat
      BY SlotsBound
    <2>2. h[w] \in Nat /\ Cardinality(row) = h[w]
      <3>1. h[w] \in Nat
        BY <1>1
      <3>2. QED
        BY <3>1, RowCardinality
    <2>3. row \subseteq Slots(h)
      BY SlotsElements
    <2> HIDE DEF row
    <2>4. Slots(h) \cap row = row
      BY <2>3
    <2>5. /\ IsFiniteSet(Slots(h) \ row)
          /\ Cardinality(Slots(h) \ row) = Cardinality(Slots(h)) - Cardinality(Slots(h) \cap row)
      BY <2>1, FS_Difference
    <2>6. Cardinality(Slots(h) \ row) + h[w] = Cardinality(Slots(h))
      BY <2>1, <2>2, <2>4, <2>5
    <2>7. QED
      BY <2>6 DEF row
  <1>2. Slots(f) \ Row(f[w]) = Slots(g) \ Row(g[w])
    <2>1. ASSUME NEW x, NEW h, NEW k, \A v \in Workers \ {w} : k[v] = h[v],
                 x \in Slots(h) \ Row(h[w])
          PROVE  x \in Slots(k) \ Row(k[w])
      <3>1. PICK v \in Workers : \E i \in 1..h[v] : x = <<v, i>>
        BY <2>1, SlotsElements
      <3>2. PICK i \in 1..h[v] : x = <<v, i>>
        BY <3>1
      <3>3. v # w
        BY <2>1, <3>2
      <3>4. QED
        BY <2>1, <3>2, <3>3, SlotsElements
    <2> HIDE DEF Row
    <2>2. QED
      BY <2>1
  <1>3. /\ Cardinality(Slots(f)) \in Nat /\ Cardinality(Slots(g)) \in Nat
        /\ f[w] \in Nat /\ g[w] \in Nat
    BY SlotsBound
  <1>4. Cardinality(Slots(g) \ Row(g[w])) \in Int
    <2>1. IsFiniteSet(Slots(g)) /\ Slots(g) \ Row(g[w]) \in SUBSET Slots(g)
      BY SlotsBound
    <2>2. IsFiniteSet(Slots(g) \ Row(g[w]))
      BY <2>1, FS_Subset
    <2>3. QED
      BY <2>2, FS_CardinalityType
  <1> HIDE DEF Row
  <1>5. /\ Cardinality(Slots(g) \ Row(g[w])) + f[w] = Cardinality(Slots(f))
        /\ Cardinality(Slots(g) \ Row(g[w])) + g[w] = Cardinality(Slots(g))
    BY <1>1, <1>2
  <1>6. QED
    BY <1>3, <1>4, <1>5

-----------------------------------------------------------------------------
(* Accounting.                                                             *)

AccountInv == WholeInv /\ QuotesAccounted

BatchLengths == [w \in Workers |-> Len(batch[w])]

LEMMA BatchBound ==
    ASSUME WholeInv
    PROVE  \A w \in Workers : Len(batch[w]) \in Nat /\ Len(batch[w]) <= PipelineSize + 1
  <1>1. \A w \in Workers : Len(batch[w]) <= PipelineSize + 1
    BY DEF WholeInv, WholeQuotes
  <1>2. \A w \in Workers : Len(batch[w]) \in Nat
    BY Lengths DEF WholeInv
  <1>3. QED
    BY <1>1, <1>2

LEMMA BatchBoundNext ==
    ASSUME WholeInv'
    PROVE  \A w \in Workers : Len(batch'[w]) \in Nat /\ Len(batch'[w]) <= PipelineSize + 1
  <1>1. \A w \in Workers : Len(batch'[w]) <= PipelineSize + 1
    BY DEF WholeInv, WholeQuotes
  <1>2. \A w \in Workers : Len(batch'[w]) \in Nat
    BY LenProperties DEF WholeInv, TypeInv, TypeOK
  <1>3. QED
    BY <1>1, <1>2

LEMMA CollectedSlots ==
    ASSUME WholeInv
    PROVE  /\ BatchLengths \in [Workers -> 0..PipelineSize + 1]
           /\ PipelineSize + 1 \in Nat
           /\ Collected = Slots(BatchLengths)
           /\ Cardinality(Collected) \in Nat
  <1>1. PipelineSize + 1 \in Nat
    BY PipelineAssumption
  <1>2. \A w \in Workers : Len(batch[w]) \in 0..PipelineSize + 1
    BY <1>1, BatchBound
  <1>3. BatchLengths \in [Workers -> 0..PipelineSize + 1]
    BY <1>2 DEF BatchLengths
  <1>4. Collected = Slots(BatchLengths)
    BY DEF Collected, Slots, BatchLengths
  <1>5. QED
    BY <1>1, <1>3, <1>4, SlotsBound

LEMMA NextMultiple ==
    ASSUME NEW a \in Nat, NEW b \in Nat
    PROVE  (a + 1) * b = a * b + b /\ a * b \in Nat
  OBVIOUS

LEMMA AccountStep == AccountInv /\ WholeInv' /\ [Next]_vars => QuotesAccounted'
  <1> SUFFICES ASSUME AccountInv, WholeInv', [Next]_vars PROVE QuotesAccounted'
    OBVIOUS
  <1> DEFINE n == Cardinality(Collected)
             m == Cardinality(Collected')
             e == totalRedisErrors
             P == PipelineSize + 1
  <1>1. TypeInv /\ WholeInv /\ TypeInv'
    BY DEF AccountInv, WholeInv
  <1>2. /\ totalRedisOps \in Nat /\ e \in Nat /\ Len(taker) \in Nat /\ n \in Nat /\ P \in Nat
        /\ e * P \in Nat /\ (e + 1) * P = e * P + P
        /\ totalRedisOps + n + 2 * e <= 2 * Len(taker)
        /\ 2 * Len(taker) <= totalRedisOps + n + e * P
    <2>1. /\ totalRedisOps \in Nat /\ e \in Nat /\ Len(taker) \in Nat /\ n \in Nat /\ P \in Nat
          /\ totalRedisOps + n + 2 * e <= 2 * Len(taker)
          /\ 2 * Len(taker) <= totalRedisOps + n + e * P
      BY <1>1, Lengths, CollectedSlots
         DEF AccountInv, TypeInv, TypeOK, QuotesAccounted, totalProcessed
    <2> HIDE DEF e, n, P
    <2>2. QED
      BY <2>1, NextMultiple
  <1>3. m \in Nat
    <2>1. BatchLengths' \in [Workers -> 0..PipelineSize + 1] /\ Collected' = Slots(BatchLengths')
          /\ PipelineSize + 1 \in Nat
      <3>1. PipelineSize + 1 \in Nat
        BY PipelineAssumption
      <3>2. \A w \in Workers : Len(batch'[w]) \in 0..PipelineSize + 1
        BY <3>1, BatchBoundNext
      <3>3. QED
        BY <3>1, <3>2 DEF BatchLengths, Collected, Slots
    <2>2. QED
      BY <2>1, SlotsBound
  <1>4. ASSUME NEW w \in Workers, \A v \in Workers \ {w} : batch'[v] = batch[v]
        PROVE  m + Len(batch[w]) = n + Len(batch'[w])
    <2>1. /\ BatchLengths \in [Workers -> 0..P] /\ BatchLengths' \in [Workers -> 0..P]
          /\ P \in Nat /\ Collected = Slots(BatchLengths) /\ Collected' = Slots(BatchLengths')
      <3>1. \A v \in Workers : Len(batch'[v]) \in 0..P
        BY <1>2, BatchBoundNext
      <3>2. QED
        BY <1>1, <3>1, CollectedSlots DEF BatchLengths, Collected, Slots
    <2>2. /\ \A v \in Workers \ {w} : BatchLengths'[v] = BatchLengths[v]
          /\ BatchLengths[w] = Len(batch[w]) /\ BatchLengths'[w] = Len(batch'[w])
      BY <1>4 DEF BatchLengths
    <2> HIDE DEF P
    <2>3. Cardinality(Slots(BatchLengths')) + BatchLengths[w]
             = Cardinality(Slots(BatchLengths)) + BatchLengths'[w]
      BY <2>1, <2>2, SlotsChange
    <2>4. QED
      BY <2>1, <2>2, <2>3
  <1> DEFINE ops == totalRedisOps'
             Goal == /\ ops + m + 2 * totalRedisErrors' <= 2 * Len(taker')
                     /\ 2 * Len(taker') <= ops + m + totalRedisErrors' * P
  <1>5. ASSUME NEW w \in Workers, Take(w) PROVE Goal
    <2>1. ops = totalRedisOps /\ totalRedisErrors' = e /\ Len(taker') = Len(taker) + 1
      BY <1>1, <1>5, TakeEffect DEF Take, counters
    <2>2. /\ Len(batch'[w]) = Len(batch[w]) + 2 /\ Len(batch[w]) \in Nat
          /\ \A v \in Workers \ {w} : batch'[v] = batch[v]
      BY <1>1, <1>5, TakeEffect, Lengths
    <2>3. m = n + 2
      <3>1. m + Len(batch[w]) = n + Len(batch'[w])
        BY <1>4, <2>2
      <3> HIDE DEF m, n, e, P
      <3>2. QED
        BY <1>2, <1>3, <2>2, <3>1
    <2> HIDE DEF m, n, e, P, ops
    <2>4. QED
      BY <1>2, <1>3, <2>1, <2>3
  <1>6. ASSUME NEW w \in Workers, Return(w) \/ Fail(w) PROVE Goal
    <2> DEFINE l == Len(batch[w])
    <2>1. /\ batch' = [batch EXCEPT ![w] = <<>>] /\ taker' = taker /\ wpc[w] = "exec"
          /\ \/ totalRedisErrors' = e + 1 /\ ops = totalRedisOps
             \/ totalRedisErrors' = e /\ ops = totalRedisOps + l
      BY <1>6 DEF Return, Fail, GiveUp
    <2>2. /\ Len(batch'[w]) = 0
          /\ \A v \in Workers \ {w} : batch'[v] = batch[v]
      BY <1>1, <2>1, EmptySeq DEF TypeInv, TypeOK
    <2>3. l \in 2..P
      <3>1. batch[w] \in Seq(Entry) /\ batch[w] # <<>>
        BY <1>1, <2>1 DEF TypeInv, TypeOK, ControlInv
      <3>2. l % 2 = 0 /\ l <= P
        BY <1>1 DEF WholeInv, WholeQuotes
      <3>3. l \in Nat \ {0}
        BY <3>1, EmptySeq
      <3> HIDE DEF l, e, P
      <3>4. QED
        BY <1>2, <3>2, <3>3
    <2>4. m + l = n
      <3>1. m + l = n + Len(batch'[w])
        BY <1>4, <2>2
      <3> HIDE DEF m, n, l, e, P
      <3>2. QED
        BY <1>2, <2>2, <3>1
    <2> HIDE DEF m, n, e, P, ops, l
    <2>5. CASE totalRedisErrors' = e + 1 /\ ops = totalRedisOps
      BY <1>2, <1>3, <2>1, <2>3, <2>4, <2>5
    <2>6. CASE totalRedisErrors' = e /\ ops = totalRedisOps + l
      BY <1>2, <1>3, <2>1, <2>3, <2>4, <2>6
    <2>7. QED
      BY <2>1, <2>5, <2>6
  <1>7. ASSUME \/ \E k \in Keys : Send(k)
               \/ \E w \in Workers : TimerFlush(w) \/ Exec(w) \/ Reject(w) \/ Retry(w)
               \/ \E p \in late : LateExec(p) \/ LateLost(p)
               \/ Stop \/ Tick \/ UNCHANGED vars
        PROVE  Goal
    <2>1. UNCHANGED <<batch, taker, totalRedisOps, totalRedisErrors>>
      BY <1>7 DEF Send, TimerFlush, Exec, Reject, Answered, Retry, GiveUp, LateExec, LateLost, Stop,
                  Tick, vars, workerVars, counters
    <2>2. m = n
      BY <2>1 DEF Collected
    <2> HIDE DEF m, n
    <2>3. QED
      BY <1>2, <2>1, <2>2
  <1> HIDE DEF Goal
  <1>8. Goal
    BY <1>5, <1>6, <1>7 DEF Next, WorkerStep, Terminated
  <1>9. QED
    BY <1>8 DEF Goal, QuotesAccounted, totalProcessed

(* Counters and batches add up for any number of workers, with refused and *)
(* repeated pipelines: no quote is counted twice, and what is neither in a *)
(* batch nor counted as written was dropped with an error that is counted  *)
(* (main.go:282-289, 301-309).                                             *)
THEOREM QuotesAddUp == Spec => []QuotesAccounted
  <1>1. Init => WholeInv /\ QuotesAccounted
    <2> SUFFICES ASSUME Init PROVE WholeInv /\ QuotesAccounted
      OBVIOUS
    <2>1. \A w \in Workers : Len(batch[w]) = 0
      BY DEF Init
    <2>2. Collected = {}
      BY <2>1 DEF Collected
    <2>3. totalRedisOps = 0 /\ totalRedisErrors = 0 /\ Len(taker) = 0
      BY DEF Init
    <2>4. Cardinality(Collected) = 0
      BY <2>2, FS_EmptySet
    <2>5. QuotesAccounted
      BY <2>3, <2>4, PipelineAssumption DEF QuotesAccounted, totalProcessed
    <2>6. QED
      BY <2>5, WholeInvInit
  <1>2. AccountInv /\ [Next]_vars => AccountInv'
    BY AccountStep, WholeInvStep DEF AccountInv
  <1>3. QED
    BY <1>1, <1>2, PTL DEF Spec, AccountInv

-----------------------------------------------------------------------------
(* Shutdown.                                                               *)

(* The commands each worker has yet to get through.                        *)
Rest == [w \in Workers |-> Len(batch[w]) - acked[w]]

Demand == 2 * ChanCap + Cardinality(Workers) * (PipelineSize + 1)
PerTick == Cardinality(Workers) * CommandsPerTick

(* While the channel is not empty all workers are busy: what is left to    *)
(* write has shrunk by what Redis answers all of them in the intervals     *)
(* since the stop, but for what it still owes them in the current one.     *)
Backlog ==
    phase = "stopping" /\ grace < GraceTicks /\ resends = 0 /\ dataChannel # <<>> =>
        2 * Len(dataChannel) + Cardinality(Slots(Rest)) + PerTick * (GraceTicks - grace)
            <= Demand + Cardinality(Slots(owed))

(* In the last interval the channel is empty, and every worker has nothing *)
(* left or gets through the rest of its batch.                             *)
LastInterval ==
    phase = "stopping" /\ grace = 1 /\ resends = 0 =>
        /\ dataChannel = <<>>
        /\ \A w \in Workers :
              /\ wpc[w] = "select" =>
                    batch[w] = <<>> \/ (timer[w] = "fired" /\ owed[w] = CommandsPerTick)
              /\ wpc[w] = "exec" => acked[w] + owed[w] >= CommandsPerTick

DrainInv == WholeInv /\ Backlog /\ LastInterval /\ DrainedAtExit

(* Redis answers a waiting worker more than a batch per interval, and all  *)
(* of them the contents of the channel and of the batches in the intervals *)
(* of the shutdown sleep but the first and the last.                       *)
Responsive ==
    /\ CommandsPerTick > PipelineSize + 1
    /\ PerTick * (GraceTicks - 2) >= Demand

(* The same with sums by name: what is left, what is owed.                 *)
LEMMA Sums ==
    ASSUME WholeInv
    PROVE  /\ PipelineSize + 1 \in Nat /\ CommandsPerTick \in Nat
           /\ Rest \in [Workers -> 0..PipelineSize + 1]
           /\ owed \in [Workers -> 0..CommandsPerTick]
           /\ Cardinality(Slots(Rest)) \in Nat
           /\ Cardinality(Slots(Rest)) <= Cardinality(Workers) * (PipelineSize + 1)
           /\ Cardinality(Slots(owed)) \in Nat
  <1>1. PipelineSize + 1 \in Nat /\ CommandsPerTick \in Nat
    BY PipelineAssumption
  <1>2. \A w \in Workers : /\ acked[w] \in Nat /\ acked[w] <= Len(batch[w])
                           /\ Len(batch[w]) \in Nat /\ Len(batch[w]) <= PipelineSize + 1
    BY BatchBound DEF WholeInv, TypeInv, TypeOK, ControlInv
  <1>3. \A w \in Workers : Len(batch[w]) - acked[w] \in 0..PipelineSize + 1
    BY <1>1, <1>2
  <1>4. Rest \in [Workers -> 0..PipelineSize + 1]
    BY <1>3 DEF Rest
  <1>5. owed \in [Workers -> 0..CommandsPerTick]
    BY DEF WholeInv, TypeInv, TypeOK
  <1>6. QED
    BY <1>1, <1>4, <1>5, SlotsBound

LEMMA SumsNext ==
    ASSUME WholeInv'
    PROVE  /\ Rest' \in [Workers -> 0..PipelineSize + 1]
           /\ owed' \in [Workers -> 0..CommandsPerTick]
           /\ Cardinality(Slots(Rest')) \in Nat
           /\ Cardinality(Slots(owed')) \in Nat
           /\ Cardinality(Slots(Rest')) <= Cardinality(Workers) * (PipelineSize + 1)
  <1>1. PipelineSize + 1 \in Nat /\ CommandsPerTick \in Nat
    BY PipelineAssumption
  <1>2. \A w \in Workers : /\ acked'[w] \in Nat /\ acked'[w] <= Len(batch'[w])
                           /\ Len(batch'[w]) \in Nat /\ Len(batch'[w]) <= PipelineSize + 1
    BY BatchBoundNext DEF WholeInv, TypeInv, TypeOK, ControlInv
  <1>3. \A w \in Workers : Len(batch'[w]) - acked'[w] \in 0..PipelineSize + 1
    BY <1>1, <1>2
  <1>4. Rest' \in [Workers -> 0..PipelineSize + 1]
    BY <1>3 DEF Rest
  <1>5. owed' \in [Workers -> 0..CommandsPerTick]
    BY DEF WholeInv, TypeInv, TypeOK
  <1>6. QED
    BY <1>1, <1>4, <1>5, SlotsBound

LEMMA Quantities ==
    /\ Cardinality(Workers) \in Nat /\ ChanCap \in Nat /\ GraceTicks \in Nat
    /\ Demand \in Nat /\ PerTick \in Nat
    /\ Cardinality(Workers) * (PipelineSize + 1) \in Nat
    /\ Demand = 2 * ChanCap + Cardinality(Workers) * (PipelineSize + 1)
  <1>1. Cardinality(Workers) \in Nat /\ ChanCap \in Nat /\ GraceTicks \in Nat
        /\ PipelineSize + 1 \in Nat /\ CommandsPerTick \in Nat
    BY PipelineAssumption, FS_CardinalityType
  <1>2. Cardinality(Workers) * (PipelineSize + 1) \in Nat
        /\ Cardinality(Workers) * CommandsPerTick \in Nat
    BY <1>1, NextMultiple
  <1>3. QED
    BY <1>1, <1>2 DEF Demand, PerTick

LEMMA LongShutdown ==
    ASSUME Responsive
    PROVE  GraceTicks > 2
  <1>1. GraceTicks \in Nat /\ PerTick \in Nat /\ Demand \in Nat /\ Demand > 0
    BY Quantities, PipelineAssumption
  <1>2. CASE GraceTicks <= 2
    <2> DEFINE k == 2 - GraceTicks
    <2>1. k \in Nat /\ PerTick * k \in Nat
      BY <1>1, <1>2, NextMultiple
    <2>2. PerTick * (GraceTicks - 2) = -(PerTick * k)
      BY <1>1
    <2> HIDE DEF k
    <2>3. -(PerTick * k) >= Demand
      BY <2>2 DEF Responsive
    <2>4. QED
      BY <1>1, <2>1, <2>3
  <1>3. QED
    BY <1>1, <1>2

LEMMA BacklogSum ==
    ASSUME NEW n \in Nat, NEW n1 \in Nat, NEW d \in Nat, NEW r \in Nat, NEW r1 \in Nat,
           NEW o \in Nat, NEW o1 \in Nat, NEW x \in Nat, NEW x1 \in Nat, NEW y \in Nat,
           NEW y1 \in Nat, NEW left \in Int, NEW dem \in Nat,
           r1 + x = r + x1, o1 + y = o + y1, x1 + y <= x + y1 + 2 * d,
           2 * n + r + left <= dem + o, n1 + d = n
    PROVE  2 * n1 + r1 + left <= dem + o1
  OBVIOUS

(* A step of one worker that uses up an answer for every command it gets   *)
(* through, or drops commands, keeps what is left and owed in proportion;  *)
(* receiving a quote moves two commands from the channel to the batch.     *)
LEMMA WorkerBacklog ==
    ASSUME WholeInv, WholeInv', Backlog, NEW w \in Workers, NEW d \in Nat,
           UNCHANGED <<phase, grace, resends>>,
           dataChannel' # <<>> => dataChannel # <<>>,
           Len(dataChannel') + d = Len(dataChannel),
           \A v \in Workers \ {w} :
              batch'[v] = batch[v] /\ acked'[v] = acked[v] /\ owed'[v] = owed[v],
           (Len(batch'[w]) - acked'[w]) + owed[w] <= (Len(batch[w]) - acked[w]) + owed'[w] + 2 * d
    PROVE  Backlog'
  <1> SUFFICES ASSUME phase = "stopping", grace < GraceTicks, resends = 0, dataChannel' # <<>>
               PROVE  2 * Len(dataChannel') + Cardinality(Slots(Rest')) + PerTick * (GraceTicks - grace)
                         <= Demand + Cardinality(Slots(owed'))
    BY DEF Backlog, Rest
  <1> DEFINE r == Cardinality(Slots(Rest))
             r1 == Cardinality(Slots(Rest'))
             o == Cardinality(Slots(owed))
             o1 == Cardinality(Slots(owed'))
             left == PerTick * (GraceTicks - grace)
             n == Len(dataChannel)
             n1 == Len(dataChannel')
             x == Rest[w]
             x1 == Rest'[w]
             y == owed[w]
             y1 == owed'[w]
  <1>1. /\ r \in Nat /\ r1 \in Nat /\ o \in Nat /\ o1 \in Nat
        /\ x \in Nat /\ x1 \in Nat /\ y \in Nat /\ y1 \in Nat
    BY Sums, SumsNext
  <1>2. n \in Nat /\ n1 \in Nat /\ Demand \in Nat /\ left \in Int
    <2>1. grace \in Nat
      BY Quantities DEF WholeInv, TypeInv, TypeOK
    <2>2. n \in Nat /\ n1 \in Nat
      BY LenProperties DEF WholeInv, TypeInv, TypeOK
    <2>3. QED
      BY <2>1, <2>2, Quantities
  <1>3. r1 + x = r + x1
    <2>1. \A v \in Workers \ {w} : Rest'[v] = Rest[v]
      BY DEF Rest
    <2>2. PipelineSize + 1 \in Nat
      BY Sums
    <2>3. QED
      BY <2>1, <2>2, Sums, SumsNext, SlotsChange
  <1>4. o1 + y = o + y1
    <2>1. \A v \in Workers \ {w} : owed'[v] = owed[v]
      OBVIOUS
    <2>2. /\ CommandsPerTick \in Nat
          /\ owed \in [Workers -> 0..CommandsPerTick] /\ owed' \in [Workers -> 0..CommandsPerTick]
      BY Sums, SumsNext
    <2>3. QED
      BY <2>1, <2>2, SlotsChange
  <1>5. x1 + y <= x + y1 + 2 * d
    BY DEF Rest
  <1>6. 2 * n + r + left <= Demand + o
    BY DEF Backlog
  <1>7. n1 + d = n
    OBVIOUS
  <1> HIDE DEF r, r1, o, o1, left, n, n1, x, x1, y, y1
  <1>8. 2 * n1 + r1 + left <= Demand + o1
    BY <1>1, <1>2, <1>3, <1>4, <1>5, <1>6, <1>7, BacklogSum
  <1>9. QED
    BY <1>8 DEF r1, o1, left, n1

(* The end of an interval: every worker had its answers, so all of them    *)
(* are still waiting for Redis only if they got through PerTick commands.  *)
LEMMA TickBacklog ==
    ASSUME WholeInv, WholeInv', Backlog, Tick
    PROVE  Backlog'
  <1> SUFFICES ASSUME phase' = "stopping", grace' < GraceTicks, resends' = 0, dataChannel' # <<>>
               PROVE  2 * Len(dataChannel') + Cardinality(Slots(Rest')) + PerTick * (GraceTicks - grace')
                         <= Demand + Cardinality(Slots(owed'))
    BY DEF Backlog, Rest
  <1> DEFINE r == Cardinality(Slots(Rest))
             o == Cardinality(Slots(owed))
             o1 == Cardinality(Slots(owed'))
             n == Len(dataChannel)
             b == Cardinality(Workers) * (PipelineSize + 1)
  <1>1. /\ UNCHANGED <<dataChannel, batch, acked, resends>>
        /\ phase = "stopping" /\ grace' = grace - 1
        /\ \A w \in Workers : owed[w] = 0 /\ owed'[w] = CommandsPerTick
    <2>1. phase = "stopping" /\ grace' = grace - 1
      BY PipelineAssumption DEF Tick, WholeInv, TypeInv, TypeOK, ControlInv
    <2>2. QED
      BY <2>1 DEF Tick, execVars, counters
  <1>2. grace \in 1..GraceTicks /\ n \in Nat /\ n <= ChanCap
    BY <1>1, LenProperties DEF WholeInv, TypeInv, TypeOK, ControlInv
  <1>3. r \in Nat /\ r <= b /\ Rest' = Rest
    BY <1>1, Sums DEF Rest
  <1>4. o = 0 /\ o1 = PerTick
    <2>1. o = Cardinality(Workers) * 0
      BY <1>1, SlotsFull
    <2>2. o1 = Cardinality(Workers) * CommandsPerTick
      BY <1>1, SlotsFull, PipelineAssumption
    <2>3. QED
      BY <2>1, <2>2, Quantities DEF PerTick
  <1>5. PerTick * (GraceTicks - grace') = PerTick * (GraceTicks - grace) + PerTick
    <2> DEFINE k == GraceTicks - grace
    <2>1. k \in Nat /\ GraceTicks - grace' = k + 1 /\ PerTick \in Nat
      BY <1>1, <1>2, Quantities
    <2> HIDE DEF k
    <2>2. (k + 1) * PerTick = k * PerTick + PerTick /\ k * PerTick \in Nat
      BY <2>1, NextMultiple
    <2>3. QED
      BY <2>1, <2>2 DEF k
  <1>6. /\ b \in Nat /\ Demand = 2 * ChanCap + b /\ PerTick \in Nat /\ ChanCap \in Nat
        /\ GraceTicks \in Nat
    BY Quantities
  <1> HIDE DEF r, o, o1, n, b
  <1>7. 2 * n + r + (PerTick * (GraceTicks - grace) + PerTick) <= Demand + PerTick
    <2>1. CASE grace = GraceTicks
      <3> DEFINE left == PerTick * (GraceTicks - grace)
      <3>1. left = 0
        BY <1>6, <2>1
      <3> HIDE DEF left
      <3>2. 2 * n + r + (left + PerTick) <= Demand + PerTick
        BY <1>2, <1>3, <1>6, <3>1
      <3>3. QED
        BY <3>2 DEF left
    <2>2. CASE grace # GraceTicks
      <3>1. 2 * n + r + PerTick * (GraceTicks - grace) <= Demand + o
        <4>1. grace < GraceTicks /\ dataChannel # <<>> /\ resends = 0
          BY <1>1, <1>2, <1>6, <2>2
        <4>2. QED
          BY <1>1, <4>1 DEF Backlog, n, r, o
      <3> DEFINE left == PerTick * (GraceTicks - grace)
      <3>2. left \in Int /\ Demand \in Nat
        BY <1>2, <1>6, Quantities
      <3> HIDE DEF left
      <3>3. 2 * n + r + left <= Demand + o
        BY <3>1 DEF left
      <3>4. 2 * n + r + (left + PerTick) <= Demand + PerTick
        BY <1>2, <1>3, <1>4, <1>6, <3>2, <3>3
      <3>5. QED
        BY <3>4 DEF left
    <2>3. QED
      BY <2>1, <2>2
  <1>8. QED
    BY <1>1, <1>3, <1>4, <1>5, <1>7 DEF n, r, o1

(* The types and control facts the steps of the shutdown proof rest on.    *)
LEMMA ShutdownFacts ==
    ASSUME WholeInv
    PROVE  /\ TypeInv /\ TypeOK
           /\ \A w \in Workers :
                 /\ Len(batch[w]) \in Nat /\ acked[w] \in Nat /\ acked[w] <= Len(batch[w])
                 /\ owed[w] \in Nat
           /\ Len(dataChannel) \in Nat
           /\ phase = "running" => grace = GraceTicks
           /\ grace \in Nat /\ resends \in Nat /\ CommandsPerTick \in Nat
  <1>1. TypeInv /\ TypeOK /\ ControlInv
    BY DEF WholeInv, TypeInv
  <1>2. \A w \in Workers : Len(batch[w]) \in Nat
    BY BatchBound
  <1>3. \A w \in Workers : acked[w] \in Nat /\ acked[w] <= Len(batch[w])
    BY <1>1 DEF TypeOK, ControlInv
  <1>4. CommandsPerTick \in Nat /\ GraceTicks \in Nat
    BY PipelineAssumption
  <1>5. owed \in [Workers -> 0..CommandsPerTick]
    BY <1>1 DEF TypeOK
  <1>6. \A w \in Workers : owed[w] \in Nat
    BY <1>4, <1>5
  <1>7. Len(dataChannel) \in Nat
    BY <1>1, LenProperties DEF TypeOK
  <1>8. grace \in Nat /\ resends \in Nat /\ (phase = "running" => grace = GraceTicks)
    BY <1>1, <1>4 DEF TypeOK, ControlInv
  <1>9. QED
    BY <1>1, <1>2, <1>3, <1>4, <1>6, <1>7, <1>8

LEMMA BacklogStep ==
    ASSUME WholeInv, WholeInv', Backlog, [Next]_vars
    PROVE  Backlog'
  <1>0. /\ TypeInv /\ TypeOK
        /\ \A w \in Workers :
              /\ Len(batch[w]) \in Nat /\ acked[w] \in Nat /\ acked[w] <= Len(batch[w])
              /\ owed[w] \in Nat
        /\ Len(dataChannel) \in Nat
        /\ phase = "running" => grace = GraceTicks
    BY ShutdownFacts
  <1>1. ASSUME NEW k \in Keys, Send(k) PROVE Backlog'
    <2>1. ~ (phase' = "stopping" /\ grace' < GraceTicks)
      BY <1>1, Quantities DEF Send
    <2>2. QED
      BY <2>1 DEF Backlog
  <1>2. ASSUME NEW w \in Workers, Take(w) PROVE Backlog'
    <2>1. /\ UNCHANGED <<phase, grace, resends, owed>> /\ dataChannel # <<>>
          /\ dataChannel' = Tail(dataChannel)
      BY <1>2 DEF Take, counters
    <2>2. Len(dataChannel') + 1 = Len(dataChannel)
      BY <1>0, <2>1, HeadTailProperties DEF TypeOK
    <2>3. /\ Len(batch'[w]) = Len(batch[w]) + 2 /\ acked' = acked
          /\ \A v \in Workers \ {w} : batch'[v] = batch[v]
      BY <1>0, <1>2, TakeEffect
    <2>4. (Len(batch'[w]) - acked'[w]) + owed[w] <= (Len(batch[w]) - acked[w]) + owed'[w] + 2 * 1
      BY <1>0, <2>1, <2>3
    <2>5. QED
      BY <2>1, <2>2, <2>3, <2>4, WorkerBacklog
  <1>3. ASSUME NEW w \in Workers, Exec(w) \/ Reject(w) PROVE Backlog'
    <2>1. /\ UNCHANGED <<phase, grace, resends, dataChannel, batch>>
          /\ acked' = [acked EXCEPT ![w] = acked[w] + 1]
          /\ owed' = [owed EXCEPT ![w] = IF owed[w] = 0 THEN 0 ELSE owed[w] - 1]
      BY <1>3 DEF Exec, Reject, Answered, counters
    <2>2. \A v \in Workers \ {w} : acked'[v] = acked[v] /\ owed'[v] = owed[v]
      BY <1>0, <2>1 DEF TypeOK
    <2>3. (Len(batch'[w]) - acked'[w]) + owed[w] <= (Len(batch[w]) - acked[w]) + owed'[w] + 2 * 0
      <3>1. acked'[w] = acked[w] + 1 /\ owed'[w] = IF owed[w] = 0 THEN 0 ELSE owed[w] - 1
        BY <1>0, <2>1 DEF TypeOK
      <3>2. QED
        BY <1>0, <2>1, <3>1
    <2>4. Len(dataChannel') + 0 = Len(dataChannel)
      BY <1>0, <2>1
    <2>5. QED
      BY <2>1, <2>2, <2>3, <2>4, WorkerBacklog
  <1>4. ASSUME NEW w \in Workers, Return(w) \/ Fail(w) PROVE Backlog'
    <2>1. /\ UNCHANGED <<phase, grace, resends, dataChannel, owed>>
          /\ acked' = [acked EXCEPT ![w] = 0]
          /\ batch' = [batch EXCEPT ![w] = <<>>]
      BY <1>4 DEF Return, Fail, GiveUp, BackToSelect, counters
    <2>2. \A v \in Workers \ {w} : acked'[v] = acked[v] /\ batch'[v] = batch[v]
      BY <1>0, <2>1 DEF TypeOK
    <2>3. (Len(batch'[w]) - acked'[w]) + owed[w] <= (Len(batch[w]) - acked[w]) + owed'[w] + 2 * 0
      <3>1. acked'[w] = 0 /\ batch'[w] = <<>> /\ Len(<<>>) = 0
        BY <1>0, <2>1, EmptySeq DEF TypeOK
      <3>2. QED
        BY <1>0, <2>1, <3>1
    <2>4. Len(dataChannel') + 0 = Len(dataChannel)
      BY <1>0, <2>1
    <2>5. QED
      BY <2>1, <2>2, <2>3, <2>4, WorkerBacklog
  <1>5. ASSUME NEW w \in Workers, Retry(w) PROVE Backlog'
    BY <1>0, <1>5 DEF Retry, TypeOK, Backlog
  <1>6. ASSUME UNCHANGED <<phase, grace, resends, dataChannel, batch, acked, owed>> PROVE Backlog'
    BY <1>6 DEF Backlog, Rest, Slots
  <1>7. ASSUME NEW w \in Workers, TimerFlush(w) PROVE Backlog'
    <2>1. acked' = acked
      BY <1>0, <1>7, BeginExecType DEF TimerFlush
    <2>2. QED
      BY <1>6, <1>7, <2>1 DEF TimerFlush, counters
  <1>8. CASE (\E p \in late : LateExec(p) \/ LateLost(p)) \/ UNCHANGED vars
    BY <1>6, <1>8 DEF LateExec, LateLost, vars, workerVars, execVars, counters
  <1>9. CASE Stop
    <2>1. grace' = GraceTicks
      BY <1>0, <1>9 DEF Stop
    <2>2. QED
      BY <2>1, Quantities DEF Backlog
  <1>10. CASE Tick
    BY <1>10, TickBacklog
  <1>11. QED
    BY <1>1, <1>2, <1>3, <1>4, <1>5, <1>7, <1>8, <1>9, <1>10 DEF Next, WorkerStep, Terminated

(* The channel is empty before the last interval begins.                   *)
LEMMA EmptyBeforeLast ==
    ASSUME Responsive, WholeInv, Backlog, Tick, phase = "stopping", grace = 2, resends = 0
    PROVE  dataChannel = <<>>
  <1> SUFFICES ASSUME dataChannel # <<>> PROVE FALSE
    OBVIOUS
  <1>1. \A w \in Workers : owed[w] = 0
    BY DEF Tick
  <1>2. Cardinality(Slots(owed)) = 0
    <2>1. Cardinality(Slots(owed)) = Cardinality(Workers) * 0
      BY <1>1, SlotsFull
    <2>2. QED
      BY <2>1, Quantities
  <1>3. Len(dataChannel) \in Nat \ {0}
    BY EmptySeq DEF WholeInv, TypeInv, TypeOK
  <1> DEFINE left == PerTick * (GraceTicks - 2)
  <1>4. left \in Int /\ left >= Demand /\ Demand \in Nat /\ GraceTicks > 2
    BY LongShutdown, Quantities DEF Responsive
  <1>5. 2 * Len(dataChannel) + Cardinality(Slots(Rest)) + left <= Demand + 0
    BY <1>2, <1>4 DEF Backlog
  <1>6. Cardinality(Slots(Rest)) \in Nat
    BY Sums
  <1> HIDE DEF left
  <1>7. QED
    BY <1>3, <1>4, <1>5, <1>6

LEMMA LastIntervalStep ==
    ASSUME Responsive, WholeInv, WholeInv', Backlog, LastInterval, [Next]_vars
    PROVE  LastInterval'
  <1> SUFFICES ASSUME phase' = "stopping", grace' = 1, resends' = 0
               PROVE  /\ dataChannel' = <<>>
                      /\ \A v \in Workers :
                            /\ wpc'[v] = "select" =>
                                  batch'[v] = <<>> \/ (timer'[v] = "fired" /\ owed'[v] = CommandsPerTick)
                            /\ wpc'[v] = "exec" => acked'[v] + owed'[v] >= CommandsPerTick
    BY DEF LastInterval
  <1> DEFINE Goal == /\ dataChannel' = <<>>
                     /\ \A v \in Workers :
                           /\ wpc'[v] = "select" =>
                                 batch'[v] = <<>> \/ (timer'[v] = "fired" /\ owed'[v] = CommandsPerTick)
                           /\ wpc'[v] = "exec" => acked'[v] + owed'[v] >= CommandsPerTick
  <1>0. /\ TypeInv /\ TypeOK
        /\ \A w \in Workers : acked[w] \in Nat /\ owed[w] \in Nat
        /\ phase = "running" => grace = GraceTicks
        /\ CommandsPerTick \in Nat /\ GraceTicks > 2 /\ grace \in Nat /\ resends \in Nat
    BY LongShutdown, ShutdownFacts
  <1>1. ASSUME NEW k \in Keys, Send(k) PROVE Goal
    BY <1>0, <1>1 DEF Send
  <1>2. ASSUME UNCHANGED <<phase, grace, resends, dataChannel, batch, wpc, acked, timer, owed>>
        PROVE  Goal
    BY <1>2 DEF LastInterval
  <1>3. ASSUME (\E p \in late : LateExec(p) \/ LateLost(p)) \/ UNCHANGED vars PROVE Goal
    BY <1>2, <1>3 DEF LateExec, LateLost, vars, workerVars, execVars, counters
  <1>4. ASSUME Stop PROVE Goal
    BY <1>0, <1>4 DEF Stop
  <1>5. ASSUME Tick PROVE Goal
    <2>1. /\ phase = "stopping" /\ grace = 2
      BY <1>0, <1>5, PipelineAssumption DEF Tick
    <2>2. UNCHANGED <<dataChannel, batch, wpc, acked, resends>>
      BY <1>5 DEF Tick, execVars, counters
    <2>3. dataChannel = <<>>
      BY <1>5, <2>1, <2>2, EmptyBeforeLast
    <2>4. \A v \in Workers : owed'[v] = CommandsPerTick /\ (wpc[v] = "select" => timer'[v] = "fired")
      BY <1>0, <1>5 DEF Tick, TypeOK
    <2>5. QED
      BY <1>0, <2>2, <2>3, <2>4
  <1>6. ASSUME NEW w \in Workers, Retry(w) PROVE Goal
    BY <1>0, <1>6 DEF Retry
  <1>7. ASSUME NEW w \in Workers, Take(w) \/ TimerFlush(w) \/ Exec(w) \/ Reject(w) \/ Return(w) \/ Fail(w)
        PROVE  Goal
    <2>1. UNCHANGED <<phase, grace, resends>>
      BY <1>7 DEF Take, TimerFlush, Exec, Reject, Answered, Return, Fail, GiveUp, counters
    <2>2. /\ dataChannel = <<>>
          /\ \A v \in Workers :
                /\ wpc[v] = "select" =>
                      batch[v] = <<>> \/ (timer[v] = "fired" /\ owed[v] = CommandsPerTick)
                /\ wpc[v] = "exec" => acked[v] + owed[v] >= CommandsPerTick
      BY <2>1 DEF LastInterval
    <2>3. CASE Take(w)
      BY <2>2, <2>3 DEF Take
    <2>4. CASE TimerFlush(w)
      <3>1. /\ UNCHANGED <<dataChannel, batch, owed, acked>>
            /\ \A v \in Workers : v # w => wpc'[v] = wpc[v]
        BY <1>0, <2>4, BeginExecType DEF TimerFlush
      <3>2. \A v \in Workers : v # w => timer'[v] = timer[v]
        BY <1>0, <2>4 DEF TimerFlush, TypeOK
      <3>3. (batch[w] = <<>> /\ wpc'[w] = wpc[w]) \/ (batch[w] # <<>> /\ wpc'[w] = "exec")
        <4>1. CASE batch[w] = <<>>
          <5>1. UNCHANGED execVars
            BY <2>4, <4>1 DEF TimerFlush
          <5>2. wpc' = wpc
            BY <5>1 DEF execVars
          <5>3. QED
            BY <4>1, <5>2
        <4>2. CASE batch[w] # <<>>
          <5>1. wpc' = [wpc EXCEPT ![w] = "exec"]
            BY <2>4, <4>2 DEF TimerFlush, BeginExec
          <5>2. w \in DOMAIN wpc
            BY <1>0 DEF TypeOK
          <5>3. wpc'[w] = "exec"
            BY <5>1, <5>2
          <5>4. QED
            BY <4>2, <5>3
        <4>3. QED
          BY <4>1, <4>2
      <3>4. wpc[w] = "select"
        BY <2>4 DEF TimerFlush
      <3>5. QED
        BY <1>0, <2>2, <3>1, <3>2, <3>3, <3>4
    <2>5. CASE Exec(w) \/ Reject(w)
      <3>1. /\ UNCHANGED <<dataChannel, batch, wpc, timer>> /\ wpc[w] = "exec"
            /\ acked' = [acked EXCEPT ![w] = acked[w] + 1]
            /\ owed' = [owed EXCEPT ![w] = IF owed[w] = 0 THEN 0 ELSE owed[w] - 1]
        BY <2>5 DEF Exec, Reject, Answered
      <3>2. \A v \in Workers \ {w} : acked'[v] = acked[v] /\ owed'[v] = owed[v]
        BY <1>0, <3>1 DEF TypeOK
      <3>3. acked'[w] = acked[w] + 1 /\ owed'[w] = IF owed[w] = 0 THEN 0 ELSE owed[w] - 1
        BY <1>0, <3>1 DEF TypeOK
      <3>4. acked'[w] + owed'[w] >= CommandsPerTick
        <4>1. acked[w] \in Nat /\ owed[w] \in Nat /\ acked[w] + owed[w] >= CommandsPerTick
          BY <1>0, <2>2, <3>1
        <4>2. QED
          BY <1>0, <3>3, <4>1
      <3>5. QED
        BY <2>2, <3>1, <3>2, <3>4
    <2>6. CASE Return(w) \/ Fail(w)
      <3>1. /\ UNCHANGED <<dataChannel, owed>>
            /\ batch' = [batch EXCEPT ![w] = <<>>] /\ wpc' = [wpc EXCEPT ![w] = "select"]
            /\ acked' = [acked EXCEPT ![w] = 0] /\ timer' = [timer EXCEPT ![w] = "armed"]
        BY <2>6 DEF Return, Fail, GiveUp, BackToSelect
      <3>2. \A v \in Workers \ {w} : /\ batch'[v] = batch[v] /\ wpc'[v] = wpc[v]
                                     /\ acked'[v] = acked[v] /\ timer'[v] = timer[v]
        BY <1>0, <3>1 DEF TypeOK
      <3>3. batch'[w] = <<>> /\ wpc'[w] = "select"
        BY <1>0, <3>1 DEF TypeOK
      <3>4. QED
        BY <2>2, <3>1, <3>2, <3>3
    <2>7. QED
      BY <1>7, <2>3, <2>4, <2>5, <2>6
  <1> HIDE DEF Goal
  <1>8. Goal
    <2>1. CASE \E k \in Keys : Send(k)
      BY <1>1, <2>1
    <2>2. CASE \E w \in Workers : WorkerStep(w)
      BY <1>6, <1>7, <2>2 DEF WorkerStep
    <2>3. QED
      BY <1>3, <1>4, <1>5, <2>1, <2>2 DEF Next, Terminated
  <1>9. QED
    BY <1>8 DEF Goal

LEMMA DrainedStep ==
    ASSUME Responsive, WholeInv, LastInterval, DrainedAtExit, [Next]_vars
    PROVE  DrainedAtExit'
  <1> SUFFICES ASSUME phase' = "exited", resends' = 0
               PROVE  dataChannel' = <<>> /\ \A w \in Workers : batch'[w] = <<>>
    BY DEF DrainedAtExit, Settled
  <1>1. CASE phase = "exited"
    <2>1. UNCHANGED <<resends, dataChannel, batch>>
      BY <1>1 DEF Next, WorkerStep, Terminated, Send, Take, TimerFlush, Exec, Reject, Answered,
                  Return, Retry, Fail, GiveUp, LateExec, LateLost, Stop, Tick, vars, workerVars, counters
    <2>2. QED
      BY <1>1, <2>1 DEF DrainedAtExit, Settled
  <1>2. CASE phase # "exited"
    <2>1. Tick
      BY <1>2 DEF Next, WorkerStep, Terminated, Send, Take, TimerFlush, Exec, Reject, Answered,
                  Return, Retry, Fail, GiveUp, LateExec, LateLost, Stop, vars
    <2>2. phase = "stopping" /\ grace = 1 /\ UNCHANGED <<resends, dataChannel, batch>>
      BY <1>2, <2>1 DEF Tick, counters
    <2>3. /\ dataChannel = <<>>
          /\ \A w \in Workers :
                /\ wpc[w] = "select" =>
                      batch[w] = <<>> \/ (timer[w] = "fired" /\ owed[w] = CommandsPerTick)
                /\ wpc[w] = "exec" => acked[w] + owed[w] >= CommandsPerTick
      BY <2>2 DEF LastInterval
    <2>4. ASSUME NEW w \in Workers PROVE batch[w] = <<>>
      <3>1. CASE wpc[w] = "select" /\ timer[w] # "fired"
        BY <2>3, <3>1
      <3>2. CASE wpc[w] = "exec" /\ owed[w] = 0
        <4>1. /\ acked[w] \in Nat /\ acked[w] <= Len(batch[w]) /\ Len(batch[w]) \in Nat
              /\ Len(batch[w]) <= PipelineSize + 1
          BY BatchBound DEF WholeInv, TypeInv, TypeOK, ControlInv
        <4>2. acked[w] + 0 >= CommandsPerTick /\ CommandsPerTick > PipelineSize + 1
          BY <2>3, <3>2 DEF Responsive
        <4>3. PipelineSize \in Nat /\ CommandsPerTick \in Nat
          BY PipelineAssumption
        <4>4. QED
          BY <4>1, <4>2, <4>3
      <3>3. QED
        BY <2>1, <3>1, <3>2 DEF Tick
    <2>5. QED
      BY <2>2, <2>3, <2>4
  <1>3. QED
    BY <1>1, <1>2

(* The whole backlog of a full channel and full batches is written before  *)
(* main returns if no pipeline had to be sent again, however many are      *)
(* refused, when Redis answers each worker more than one batch per flush   *)
(* interval and all of them that backlog within the sleep without its      *)
(* first and last interval (main.go:276, 389-393).                         *)
THEOREM ShutdownDrains ==
    ASSUME CommandsPerTick > PipelineSize + 1,
           Cardinality(Workers) * CommandsPerTick * (GraceTicks - 2)
              >= 2 * ChanCap + Cardinality(Workers) * (PipelineSize + 1)
    PROVE  Spec => []DrainedAtExit
  <1>1. Responsive
    BY DEF Responsive, PerTick, Demand
  <1>2. Init => DrainInv
    BY WholeInvInit DEF Init, DrainInv, Backlog, LastInterval, DrainedAtExit
  <1>3. DrainInv /\ [Next]_vars => DrainInv'
    BY <1>1, WholeInvStep, BacklogStep, LastIntervalStep, DrainedStep DEF DrainInv
  <1>4. DrainInv => DrainedAtExit
    BY DEF DrainInv
  <1>5. QED
    BY <1>2, <1>3, <1>4, PTL DEF Spec

-----------------------------------------------------------------------------
(* Refinement.                                                             *)

(* With one worker and no failing pipeline the Redis hashes behave as the  *)
(* store of QuoteStore: they only ever move to newer quotes of their own.  *)
THEOREM ImplementsStore ==
    ASSUME \A u, v \in Workers : u = v, ~ RedisMayFail
    PROVE  Spec => StoreSpec
  <1> DEFINE RInv == IInv /\ late = {} /\ \A w \in Workers : attempt[w] = 0
  <1>1. Init => RInv
    BY IInvInit DEF Init
  <1>2. RInv /\ [Next]_vars => RInv'
    <2> SUFFICES ASSUME RInv, [Next]_vars PROVE late' = {} /\ \A v \in Workers : attempt'[v] = 0
      BY IInvStep
    <2>0. attempt \in [Workers -> 0..MaxRetries]
      BY DEF IInv, TypeInv, TypeOK
    <2>1. ASSUME NEW w \in Workers, WorkerStep(w) PROVE late' = {} /\ \A v \in Workers : attempt'[v] = 0
      <3>1. late' = late
        BY <2>1 DEF WorkerStep, Take, TimerFlush, Exec, Reject, Answered, Return, Retry, Fail,
                    GiveUp, FaultsLeft, storeVars
      <3>2. attempt' = attempt \/ attempt' = [attempt EXCEPT ![w] = 0]
        BY <2>1 DEF WorkerStep, Take, TimerFlush, Exec, Reject, Answered, Return, Retry, Fail,
                    GiveUp, FaultsLeft, BeginExec, BackToSelect, execVars
      <3>3. QED
        BY <2>0, <3>1, <3>2
    <2>2. CASE ~ \E w \in Workers : WorkerStep(w)
      BY <2>2 DEF Next, Terminated, Send, LateExec, LateLost, Stop, Tick, vars, workerVars, execVars,
                  storeVars
    <2>3. QED
      BY <2>1, <2>2
  <1>3. Init => Store!Init
    BY DEF Init, Store!Init
  <1>4. RInv /\ [Next]_vars => [Store!Next]_(Store!vars)
    <2> SUFFICES ASSUME RInv, [Next]_vars PROVE [Store!Next]_(Store!vars)
      OBVIOUS
    <2> USE DEF Store!Next, Store!vars
    <2>1. ASSUME NEW k \in Keys, Send(k) PROVE Store!Publish(k)
      BY <2>1 DEF Send, Store!Publish, storeVars
    <2>2. ASSUME NEW w \in Workers, Exec(w) PROVE [Store!Next]_(Store!vars)
      <3> DEFINE e == batch[w][acked[w] + 1]
                 h == e.hash
                 i == e.quote
      <3>1. /\ acked[w] < Len(batch[w]) /\ published' = published
            /\ redis' = [redis EXCEPT ![h] = i] /\ attempt[w] = 0
        BY <2>2 DEF Exec, Answered
      <3>2. /\ acked[w] + 1 \in 1..Len(batch[w]) /\ acked[w] < acked[w] + 1
            /\ h \in HashKeys
        BY <3>1, NextCommand, Lengths DEF IInv
      <3>3. i \in 1..Len(taker) /\ h \in HashesOf(published[i])
        BY <3>2 DEF IInv, OrderInv, BatchOwned, Received
      <3>4. i \in DOMAIN published
        BY <3>3, Lengths, LenProperties DEF IInv, TypeInv, TypeOK
      <3>5. redis \in [HashKeys -> Nat] /\ redis[h] \in 0..Len(taker) /\ NotAhead(redis[h], w)
        BY <3>2 DEF IInv, TypeInv, TypeOK, OrderInv, StoreNotAhead
      <3>6. redis[h] <= i
        <4>1. CASE redis[h] = 0
          BY <3>3, <4>1, Lengths DEF IInv
        <4>2. CASE redis[h] # 0
          <5>1. redis[h] \in 1..Len(taker)
            BY <3>5, <4>2, Lengths DEF IInv
          <5>2. taker[redis[h]] = w
            BY <5>1, ElementOfSeq DEF IInv, TypeInv, TypeOK
          <5>3. QED
            BY <3>1, <3>2, <3>5, <4>2, <5>2 DEF NotAhead
        <4>3. QED
          BY <4>1, <4>2
      <3> HIDE DEF e, h, i
      <3>7. CASE redis[h] = i
        <4>1. redis' = redis
          BY <3>1, <3>2, <3>5, <3>7
        <4>2. QED
          BY <3>1, <4>1
      <3>8. CASE redis[h] # i
        <4>1. redis[h] < i
          BY <3>3, <3>5, <3>6, <3>8, Lengths DEF IInv
        <4>2. Store!Write(h, i)
          BY <3>1, <3>3, <4>1 DEF Store!Write
        <4>3. QED
          BY <3>2, <3>4, <4>2
      <3>9. QED
        BY <3>7, <3>8
    <2>3. CASE (~ \E k \in Keys : Send(k)) /\ (~ \E w \in Workers : Exec(w))
      BY <2>3 DEF Next, WorkerStep, Terminated, Take, TimerFlush, Reject, Answered, Return, Retry,
                  Fail, GiveUp, FaultsLeft, LateExec, LateLost, Stop, Tick, vars, storeVars
    <2>4. QED
      BY <2>1, <2>2, <2>3
  <1>5. QED
    BY <1>1, <1>2, <1>3, <1>4, PTL DEF Spec, StoreSpec, Store!Spec
=============================================================================

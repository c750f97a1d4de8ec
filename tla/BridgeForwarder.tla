-------------------------- MODULE BridgeForwarder --------------------------
(***************************************************************************)
(* The bridge between consumers and a core of PIT-less routers             *)
(* (daemon/fw/bridge-forwarder.cpp).  The class derives from Forwarder,    *)
(* and so does this module: tables, timers and the pipelines that are not  *)
(* redefined are those of Forwarder.                                       *)
(*                                                                         *)
(* An Interest goes upstream with the name of the bridge as its supporting *)
(* name.  The producer answers with Data that carries the name of the      *)
(* bridge, which routes it back, and as supporting name the name of the    *)
(* Interest, under which the bridge finds the pending entries:             *)
(*   Data == [name, supportingName, freshness]                             *)
(***************************************************************************)
EXTENDS Forwarder

CONSTANT BridgeName    \* m_Name

(* Every Data that arrives carries both names. *)
ASSUME BridgeAssumption == \A d \in Datas : {"name", "supportingName", "freshness"} \subseteq DOMAIN d

(* onContentStoreHit: the timers were cancelled, and none is set.  The entry *)
(* stays in the PIT until a miss for the same key arms a timer again.        *)
BridgeContentStoreHit(f, i, d) ==
  LET cell == cancelUnsatisfyAndStragglerTimer(PitCell(i.key))
      to == OutgoingDataFaces(d, {f})
  IN  /\ ReceivedOn(f)
      /\ ~ViolatesLocalhost(f, i.key.name)
      /\ ~hasDuplicateNonce(i)
      /\ ~isPending(i) /\ d \in CsFind(cs, i.key, now)
      /\ pit' = PitPut(i.key, cell.entry)
      /\ timers' = [timers EXCEPT ![i.key] = cell.timers]
      /\ sent' = {DataPacket(d, g) : g \in to}
      /\ credit' = Paid(Charged(f), to)
      /\ UNCHANGED <<cs, dnl, forwarded>>

(* BridgeBestRouteStrategy: every Interest is sent, pending or not. *)
afterReceiveInterestBridge(f, i) ==
  firstNextHopExcept(findLongestPrefixMatch(fib, i.key.name), f)

(* onOutgoingInterestBridge: no scope control, and no out-record. *)
BridgeInterestPacket(i, f) ==
  [type |-> "Interest", face |-> f, key |-> i.key, nonce |-> i.nonce,
   lifetime |-> i.lifetime, supportingName |-> BridgeName]

BridgeContentStoreMiss(f, i) ==
  LET k == i.key
      pending == PendingCell(f, i)
  IN  /\ ReceivedOn(f)
      /\ ~ViolatesLocalhost(f, k.name)
      /\ ~hasDuplicateNonce(i)
      /\ isPending(i) \/ CsFind(cs, k, now) = {}
      /\ \E lastExpiry \in LastExpiry(pending.entry), faces \in afterReceiveInterestBridge(f, i) :
           LET cell == setUnsatisfyTimer(pending, lastExpiry)
               to == faces \cap Up
           IN  /\ pit' = PitPut(k, cell.entry)
               /\ timers' = [timers EXCEPT ![k] = cell.timers]
               /\ sent' = {BridgeInterestPacket(i, g) : g \in to}
               /\ forwarded' = forwarded \cup {<<k, i.nonce>> : g \in to}
      /\ credit' = Charged(f)
      /\ UNCHANGED <<cs, dnl>>
-----------------------------------------------------------------------------
(* The name in Data is that of the bridge; scope is checked on the other one. *)
BridgeDropLocalhostData(f, d) ==
  /\ ReceivedOn(f)
  /\ ViolatesLocalhost(f, d.supportingName)
  /\ sent' = {}
  /\ UNCHANGED <<pit, timers, cs, dnl, credit, forwarded>>

(* The Selectors of the pending Interest are not looked at. *)
findAllDataMatchesByName(name) == {k \in DOMAIN pit : k.name = name}

BridgeDataUnsolicited(f, d) ==
  /\ ReceivedOn(f)
  /\ ~ViolatesLocalhost(f, d.supportingName)
  /\ findAllDataMatchesByName(d.supportingName) = {}
  /\ cs' = IF f \in LocalFaces THEN CsInsert(cs, d, TRUE, now) ELSE cs
  /\ sent' = {}
  /\ UNCHANGED <<pit, timers, dnl, credit, forwarded>>

(* Mutant: the Data keeps the name of the bridge. *)
KeepName(d) == d

(* Data::setName(getSupportingName()). *)
Renamed(d) == [d EXCEPT !.name = d.supportingName]

(* Mutant: the timers of the entry are left alone. *)
BridgeCellUncancelled(k, f, d) ==
  setStragglerTimer(
    [PitCell(k) EXCEPT !.entry = deleteOutRecord(deleteInRecords(@), f)], TRUE, d.freshness)

(* One iteration of the loop over the matching PIT entries. *)
BridgeSatisfiedCell(k, f, d) == SatisfiedCell(k, f, d)

(* The Data is cached and sent on under the name of the Interest. *)
BridgeDataSatisfies(f, d) ==
  LET matches == findAllDataMatchesByName(d.supportingName)
      data == Renamed(d)
      pendingDownstreams == UNION {PendingDownstreams(pit[k]) : k \in matches}
      to == OutgoingDataFaces(data, pendingDownstreams \ {f})
  IN  /\ ReceivedOn(f)
      /\ ~ViolatesLocalhost(f, d.supportingName)
      /\ matches # {}
      /\ cs' = CsInsert(cs, data, FALSE, now)
      /\ dnl' = dnl \cup UNION {insertDeadNonceList(k, pit[k], TRUE, d.freshness, {f}) : k \in matches}
      /\ pit' = [k \in DOMAIN pit |-> IF k \in matches THEN BridgeSatisfiedCell(k, f, d).entry ELSE pit[k]]
      /\ timers' = [k \in Keys |-> IF k \in matches THEN BridgeSatisfiedCell(k, f, d).timers ELSE timers[k]]
      /\ sent' = {DataPacket(data, g) : g \in to}
      /\ credit' = Paid(credit, to)
      /\ forwarded' = forwarded \ ({k \in matches : ~needDnl(k, TRUE, d.freshness)} \X Nonces)
-----------------------------------------------------------------------------
BridgeInterestStep(f, i) ==
  \/ DropLocalhostInterest(f, i)
  \/ InterestLoop(f, i)
  \/ BridgeContentStoreMiss(f, i)
  \/ \E d \in DOMAIN cs : BridgeContentStoreHit(f, i, d)

BridgeDataStep(f, d) ==
  \/ BridgeDropLocalhostData(f, d)
  \/ BridgeDataUnsolicited(f, d)
  \/ BridgeDataSatisfies(f, d)

(* Timers, and management and eviction of the tables.  Nothing is evicted    *)
(* from the Dead Nonce List: without out-records nothing is ever put into it.*)
BridgeLocalStep ==
  \/ \E k \in Keys : TimerFires(k)
  \/ Tick
  \/ \E f \in Faces : FaceAdd(f) \/ FaceRemove(f)
  \/ \E r \in Routes : FibAddNextHop(r) \/ FibRemoveNextHop(r)
  \/ \E d \in DOMAIN cs : CsEvict(d)

BridgeNext ==
  \/ \E f \in Faces, i \in Interests : Arrival /\ BridgeInterestStep(f, i)
  \/ \E f \in Faces, d \in Datas : Arrival /\ BridgeDataStep(f, d)
  \/ BridgeLocalStep

BridgeSpec == Init /\ [][BridgeNext]_vars
FairBridgeSpec == BridgeSpec /\ Fairness
-----------------------------------------------------------------------------
BridgeAnswers(k, d) == k.name = d.name

BridgePromise == INSTANCE PendingInterests
  WITH pending <- Requests, delivered <- Deliveries,
       Datas <- Datas \cup {Renamed(d) : d \in Datas},
       Matches <- matchesData, Answers <- BridgeAnswers

(* The bridge keeps the promise of a PIT although the Data that arrives is     *)
(* named after the bridge: a downstream receives Data only under a name it     *)
(* asked for and was not answered for since.                                   *)
BridgeImplementsPromise == BridgePromise!Spec

=============================================================================

---------------------------- MODULE BridgeProofs ----------------------------
(***************************************************************************)
(* Proofs about BridgeForwarder.  The bridge derives from the forwarder,   *)
(* and its proofs from those of the forwarder: the cells of the PIT keep   *)
(* the invariant IInv, and as no out-record is ever made, an entry whose   *)
(* timers the Content Store hit cancelled has no record left to lose.      *)
(***************************************************************************)
EXTENDS BridgeForwarder, ForwarderSafetyProofs

(* onOutgoingInterestBridge inserts no out-record. *)
NoOutRecords == \A k \in DOMAIN pit : DOMAIN pit[k].outRecords = {}

(* The Data the bridge holds: as it arrived, or renamed. *)
BridgeDatas == Datas \cup {Renamed(d) : d \in Datas}

(* The inductive invariant of the bridge. *)
BInv == IInv /\ NoOutRecords /\ DOMAIN cs \subseteq BridgeDatas

(* onContentStoreHit cancels the timers and sets none. *)
LEMMA BridgeHitRecords ==
  ASSUME IInv, NEW f, NEW i \in Interests, NEW d, BridgeContentStoreHit(f, i, d)
  PROVE  LET k == i.key
             c == cancelUnsatisfyAndStragglerTimer(PitCell(k))
         IN  /\ pit' = PitPut(k, c.entry) /\ timers' = [timers EXCEPT ![k] = c.timers]
             /\ IsCell(c) /\ c.timers = {}
             /\ c.entry.unsatisfyTimer = NoTimer /\ c.entry.stragglerTimer = NoTimer
             /\ DOMAIN c.entry.inRecords = {}
             /\ k \in DOMAIN pit => DOMAIN pit[k].inRecords = {}
             /\ c.entry.outRecords = PitCell(k).entry.outRecords
<1> DEFINE k == i.key
           c == cancelUnsatisfyAndStragglerTimer(PitCell(k))
<1>1. k \in Keys
  BY DEF Keys
<1>2. /\ IsCell(c) /\ c.timers = {}
      /\ c.entry.unsatisfyTimer = NoTimer /\ c.entry.stragglerTimer = NoTimer
      /\ c.entry.inRecords = PitCell(k).entry.inRecords
      /\ c.entry.outRecords = PitCell(k).entry.outRecords
  BY <1>1, CancelClears DEF IInv
<1>3. /\ pit' = PitPut(k, c.entry) /\ timers' = [timers EXCEPT ![k] = c.timers]
      /\ DOMAIN PitCell(k).entry.inRecords = {}
  BY DEF BridgeContentStoreHit, isPending
<1> HIDE DEF c
<1> QED
  BY <1>2, <1>3, PitCellRecords DEF c

(* The same for the step as a whole. *)
LEMMA BridgeHitStep ==
  ASSUME BInv, budget' \in Nat, NEW f \in Faces, NEW i \in Interests, NEW d,
         BridgeContentStoreHit(f, i, d)
  PROVE  IInv' /\ NoOutRecords'
<1> USE DEF BInv
<1> DEFINE k == i.key
           c == cancelUnsatisfyAndStragglerTimer(PitCell(k))
<1>1. k \in Keys
  BY DEF Keys
<1>2. /\ pit' = PitPut(k, c.entry) /\ timers' = [timers EXCEPT ![k] = c.timers]
      /\ IsCell(c) /\ c.timers = {}
      /\ c.entry.unsatisfyTimer = NoTimer /\ c.entry.stragglerTimer = NoTimer
      /\ DOMAIN c.entry.inRecords = {}
      /\ c.entry.outRecords = PitCell(k).entry.outRecords
  BY BridgeHitRecords
<1>3. now' = now /\ face' = face /\ dnl' = dnl /\ forwarded' = forwarded
  BY DEF ReceivedOn, BridgeContentStoreHit
<1>4. credit' \in [Faces -> Int]
  <2>1. \A S : Paid(Charged(f), S) \in [Faces -> Int]
    BY ChargedCredit DEF Paid
  <2> QED
    BY <2>1 DEF BridgeContentStoreHit
<1>5. DOMAIN PitCell(k).entry.outRecords = {}
  BY PitCellRecords DEF NoOutRecords
<1> HIDE DEF c
<1>6. EntryTimers(c.entry, c.timers)
  BY <1>2, <1>5 DEF EntryTimers
<1>7. /\ DOMAIN pit' \subseteq Keys /\ \A j \in DOMAIN pit' : IsPitEntry(pit'[j])
      /\ timers' \in [Keys -> SUBSET Event]
      /\ TimerDiscipline'
  BY <1>1, <1>2, <1>3, <1>6, CellReplaced
<1>8. IInv'
  BY <1>3, <1>4, <1>7 DEF IInv, BaseOK
<1>9. /\ DOMAIN pit' = DOMAIN pit \cup {k} /\ pit'[k] = c.entry
      /\ \A j \in DOMAIN pit \ {k} : pit'[j] = pit[j]
  BY <1>2, EntryPut
<1>10. NoOutRecords'
  BY <1>2, <1>5, <1>9 DEF NoOutRecords
<1> QED
  BY <1>8, <1>10

(* onContentStoreMiss: an in-record, the unsatisfy timer, and Interests only. *)
LEMMA BridgeMissStep ==
  ASSUME BInv, NEW f \in Faces, NEW i \in Interests, BridgeContentStoreMiss(f, i)
  PROVE  /\ budget' \in Nat => IInv' /\ NoOutRecords'
         /\ DOMAIN pit' = DOMAIN pit \cup {i.key}
         /\ \A j \in DOMAIN pit \ {i.key} : pit'[j] = pit[j]
         /\ DOMAIN pit'[i.key].inRecords = DOMAIN PitCell(i.key).entry.inRecords \cup {f}
         /\ \A m \in sent' : m.type = "Interest"
<1> USE DEF BInv
<1> DEFINE k == i.key
           p == PendingCell(f, i)
           e == p.entry
<1>1. k \in Keys /\ now \in Nat
  BY DEF Keys, IInv, BaseOK
<1>2. /\ IsCell(p) /\ p.timers = {}
      /\ e.unsatisfyTimer = NoTimer /\ e.stragglerTimer = NoTimer
      /\ f \in DOMAIN e.inRecords /\ e.inRecords[f].expiry >= now
      /\ DOMAIN e.inRecords = DOMAIN PitCell(k).entry.inRecords \cup {f}
      /\ e.outRecords = PitCell(k).entry.outRecords
  BY PendingCellOK
<1>3. PICK t, to :
        /\ t \in LastExpiry(e)
        /\ pit' = PitPut(k, setUnsatisfyTimer(p, t).entry)
        /\ timers' = [timers EXCEPT ![k] = setUnsatisfyTimer(p, t).timers]
        /\ sent' = {BridgeInterestPacket(i, g) : g \in to}
        /\ forwarded' = forwarded \cup {<<k, i.nonce>> : g \in to}
  BY Zenon DEF BridgeContentStoreMiss
<1>4. now' = now /\ face' = face /\ dnl' = dnl /\ credit' = Charged(f)
  BY DEF ReceivedOn, BridgeContentStoreMiss
<1> DEFINE a == setUnsatisfyTimer(p, t)
<1> HIDE DEF p
<1>0. t \in LastExpiry(e)
  BY <1>3, Zenon
<1>5. t >= now
  BY <1>0, <1>1, <1>2 DEF LastExpiry, IsCell, IsPitEntry, IsRecordCollection, FaceRecord
<1>6. /\ IsCell(a) /\ EntryTimers(a.entry, a.timers)
      /\ a.entry.inRecords = e.inRecords /\ a.entry.outRecords = e.outRecords
  BY <1>0, <1>1, <1>2, <1>5, UnsatisfyArmed
<1>7. pit' = PitPut(k, a.entry) /\ timers' = [timers EXCEPT ![k] = a.timers]
  BY <1>3
<1> HIDE DEF a
<1>8. /\ DOMAIN pit' \subseteq Keys /\ \A j \in DOMAIN pit' : IsPitEntry(pit'[j])
      /\ timers' \in [Keys -> SUBSET Event]
      /\ TimerDiscipline'
  BY <1>1, <1>4, <1>6, <1>7, CellReplaced
<1>9. forwarded' \subseteq Keys \X Nonces /\ credit' \in [Faces -> Int]
  BY <1>1, <1>3, <1>4, ForwarderAssumption, ChargedCredit DEF IInv, BaseOK
<1>10. budget' \in Nat => IInv'
  BY <1>4, <1>8, <1>9 DEF IInv, BaseOK
<1>11. /\ DOMAIN pit' = DOMAIN pit \cup {k} /\ pit'[k] = a.entry
       /\ \A j \in DOMAIN pit \ {k} : pit'[j] = pit[j]
  BY <1>7, EntryPut
<1>12. DOMAIN PitCell(k).entry.outRecords = {}
  BY PitCellRecords DEF NoOutRecords
<1>13. NoOutRecords'
  BY <1>2, <1>6, <1>11, <1>12 DEF NoOutRecords
<1>14. \A m \in sent' : m.type = "Interest"
  BY <1>3 DEF BridgeInterestPacket
<1> QED
  BY <1>2, <1>6, <1>10, <1>11, <1>13, <1>14

(* onIncomingData: entries are found by the supporting name of the Data. *)
LEMMA BridgeDataStepOK ==
  ASSUME BInv, NEW f \in Faces, NEW d \in Datas, BridgeDataSatisfies(f, d)
  PROVE  LET matches == findAllDataMatchesByName(d.supportingName)
         IN  /\ budget' \in Nat => IInv' /\ NoOutRecords'
             /\ DOMAIN pit' = DOMAIN pit /\ matches \subseteq DOMAIN pit
             /\ \A k \in DOMAIN pit \ matches : pit'[k] = pit[k]
             /\ \A k \in matches : DOMAIN pit'[k].inRecords = {}
<1> USE DEF BInv
<1> DEFINE matches == findAllDataMatchesByName(d.supportingName)
<1>1. matches \in SUBSET DOMAIN pit
  BY DEF findAllDataMatchesByName
<1>2. /\ pit' = [k \in DOMAIN pit |-> IF k \in matches THEN SatisfiedCell(k, f, d).entry ELSE pit[k]]
      /\ timers' = [k \in Keys |-> IF k \in matches THEN SatisfiedCell(k, f, d).timers ELSE timers[k]]
      /\ dnl' = dnl \cup UNION {insertDeadNonceList(k, pit[k], TRUE, d.freshness, {f}) : k \in matches}
  BY Zenon DEF BridgeDataSatisfies, BridgeSatisfiedCell
<1>3. ReceivedOn(f) /\ (\E S : forwarded' = forwarded \ S) /\ (\E S : credit' = Paid(credit, S))
  BY Zenon DEF BridgeDataSatisfies
<1>4. now' = now /\ face' = face /\ forwarded' \subseteq forwarded
  BY <1>3 DEF ReceivedOn
<1>5. credit' \in [Faces -> Int]
  BY <1>3 DEF Paid, IInv, BaseOK
<1> HIDE DEF matches
<1>6. budget' \in Nat => IInv'
  BY <1>1, <1>2, <1>4, <1>5, EntriesSatisfied
<1>7. /\ DOMAIN pit' = DOMAIN pit
      /\ \A k \in DOMAIN pit \ matches : pit'[k] = pit[k]
      /\ \A k \in matches :
           /\ DOMAIN pit'[k].inRecords = {}
           /\ DOMAIN pit'[k].outRecords = DOMAIN pit[k].outRecords \ {f}
  <2>1. RecordsAnswered(matches, f)
    BY <1>1, <1>2, SatisfiedEntries
  <2> QED
    BY <2>1 DEF RecordsAnswered
<1>8. NoOutRecords'
  BY <1>1, <1>7 DEF NoOutRecords
<1> QED
  BY <1>1, <1>6, <1>7, <1>8 DEF matches

(* Every step of the bridge preserves its invariant. *)
LEMMA BridgeInvariantStep ==
  ASSUME BInv, [BridgeNext]_vars
  PROVE  BInv'
<1> USE DEF BInv
<1>0. Arrival => budget' \in Nat
  BY DEF Arrival, IInv, BaseOK
<1>1. ASSUME NEW f \in Faces, NEW i \in Interests, Arrival, BridgeInterestStep(f, i)
      PROVE  BInv'
  <2>1. cs' = cs
    BY <1>1, Zenon DEF BridgeInterestStep, DropLocalhostInterest, InterestLoop,
                       BridgeContentStoreMiss, BridgeContentStoreHit
  <2>2. CASE DropLocalhostInterest(f, i)
    <3>1. pit' = pit
      BY <2>2 DEF DropLocalhostInterest
    <3> QED
      BY <1>0, <1>1, <2>1, <2>2, <3>1, DroppedInterestStep DEF NoOutRecords, BridgeDatas
  <2>3. CASE InterestLoop(f, i)
    <3>1. NoOutRecords'
      BY <2>3, LoopRecords DEF NoOutRecords
    <3> QED
      BY <1>0, <1>1, <2>1, <2>3, <3>1, DroppedInterestStep DEF BridgeDatas
  <2>4. CASE BridgeContentStoreMiss(f, i)
    BY <1>0, <1>1, <2>1, <2>4, BridgeMissStep DEF BridgeDatas
  <2>5. ASSUME NEW d \in DOMAIN cs, BridgeContentStoreHit(f, i, d)
        PROVE  BInv'
    BY <1>0, <1>1, <2>1, <2>5, BridgeHitStep DEF BridgeDatas
  <2> QED
    BY <1>1, <2>2, <2>3, <2>4, <2>5 DEF BridgeInterestStep
<1>2. ASSUME NEW f \in Faces, NEW d \in Datas, Arrival, BridgeDataStep(f, d)
      PROVE  BInv'
  <2>1. cs' = cs \/ \E x \in BridgeDatas : \E solicited : cs' = CsInsert(cs, x, solicited, now)
    BY <1>2, Zenon DEF BridgeDataStep, BridgeDropLocalhostData, BridgeDataUnsolicited,
                       BridgeDataSatisfies, BridgeDatas
  <2>2. (DOMAIN cs \subseteq BridgeDatas)'
    BY <2>1 DEF CsInsert, BridgeDatas
  <2>3. CASE BridgeDropLocalhostData(f, d) \/ BridgeDataUnsolicited(f, d)
    <3>1. IInv' /\ pit' = pit
      BY <1>0, <1>2, <2>3, TablesUntouchedStep
         DEF BridgeDropLocalhostData, BridgeDataUnsolicited, ReceivedOn, IInv, BaseOK
    <3> QED
      BY <2>2, <3>1 DEF NoOutRecords
  <2>4. CASE BridgeDataSatisfies(f, d)
    BY <1>0, <1>2, <2>2, <2>4, BridgeDataStepOK
  <2> QED
    BY <1>2, <2>3, <2>4 DEF BridgeDataStep
<1>3. CASE BridgeLocalStep \/ UNCHANGED vars
  <2>1. IInv'
    BY <1>3, LocalStep DEF BridgeLocalStep
  <2>2. DOMAIN cs' \subseteq DOMAIN cs
    BY <1>3 DEF BridgeLocalStep, TimerFires, Tick, FaceAdd, FaceRemove, FibAddNextHop,
                FibRemoveNextHop, CsEvict, vars
  <2>3. pit' = pit \/ \E k \in Keys : TimerFires(k)
    BY <1>3 DEF BridgeLocalStep, Tick, FaceAdd, FaceRemove, FibAddNextHop,
                FibRemoveNextHop, CsEvict, vars
  <2>4. NoOutRecords'
    BY <2>3, TimerRecords DEF NoOutRecords
  <2> QED
    BY <2>1, <2>2, <2>4 DEF BridgeDatas
<1> QED
  BY <1>1, <1>2, <1>3 DEF BridgeNext

(* The invariant of the bridge. *)
LEMMA BridgeInvariance == BridgeSpec => []BInv
<1>1. Init => BInv
  BY InvariantInit DEF Init, BInv, NoOutRecords, EmptyStore
<1> QED
  BY <1>1, BridgeInvariantStep, PTL DEF BridgeSpec

(* The bridge cancels timers on a Content Store hit and sets none, and still   *)
(* no callback outlives its entry and no entry with records is left without a  *)
(* timer: the entries it leaves without one have no record.                    *)
THEOREM BridgeTimersDisciplined == BridgeSpec => []TimerDiscipline
<1>1. BInv => TimerDiscipline
  BY DEF BInv, IInv
<1> QED
  BY <1>1, BridgeInvariance, PTL

-----------------------------------------------------------------------------
(* onIncomingInterest at the bridge. *)
LEMMA BridgeInterestRefines ==
  ASSUME BInv, NEW f \in Faces, NEW i \in Interests, BridgeInterestStep(f, i)
  PROVE  BridgePromise!Next
<1> USE DEF BInv
<1> DEFINE k == i.key
<1>0. k \in Keys
  BY DEF Keys
<1>1. CASE DropLocalhostInterest(f, i)
  <2>1. pit' = pit /\ sent' = {}
    BY <1>1 DEF DropLocalhostInterest
  <2>2. Requests' = Requests /\ Deliveries' = {}
    BY <2>1, NoDelivery DEF Requests
  <2> QED
    BY <2>2 DEF BridgePromise!Next, BridgePromise!Idle
<1>2. CASE InterestLoop(f, i)
  <2>1. sent' = {}
    BY <1>2 DEF InterestLoop
  <2>2. /\ DOMAIN pit' = DOMAIN pit \cup {k}
        /\ \A j \in DOMAIN pit : pit'[j] = pit[j]
        /\ k \notin DOMAIN pit => DOMAIN pit'[k].inRecords = {}
    BY <1>2, LoopRecords
  <2> HIDE DEF k
  <2>3. Requests' = Requests
    BY <2>2, SameRequests
  <2> QED
    BY <2>1, <2>3, NoDelivery DEF BridgePromise!Next, BridgePromise!Idle
<1>3. ASSUME NEW d \in DOMAIN cs, BridgeContentStoreHit(f, i, d)
      PROVE  BridgePromise!Next
  <2> DEFINE to == OutgoingDataFaces(d, {f})
             c == cancelUnsatisfyAndStragglerTimer(PitCell(k))
  <2>1. sent' = {DataPacket(d, g) : g \in to} /\ to \subseteq {f}
    BY <1>3 DEF BridgeContentStoreHit, OutgoingDataFaces
  <2> HIDE DEF to
  <2>2. Deliveries' \subseteq {<<f, d>>}
    <3>1. Deliveries' = {<<g, d>> : g \in to}
      BY <2>1, DataDelivery
    <3> QED
      BY <2>1, <3>1
  <2>3. matchesData(k, d) /\ d \in BridgeDatas
    BY <1>3 DEF BridgeContentStoreHit, CsFind, canSatisfy
  <2>4. /\ pit' = PitPut(k, c.entry) /\ DOMAIN c.entry.inRecords = {}
        /\ k \in DOMAIN pit => DOMAIN pit[k].inRecords = {}
    BY <1>3, BridgeHitRecords
  <2> HIDE DEF k, c
  <2>5. /\ DOMAIN pit' = DOMAIN pit \cup {k} /\ pit'[k] = c.entry
        /\ \A j \in DOMAIN pit \ {k} : pit'[j] = pit[j]
    BY <2>4, EntryPut
  <2>6. Requests' = Requests
    BY <2>4, <2>5, SameRequests
  <2>7. \A g \in Faces : <<g, k>> \notin Requests
    BY <2>4 DEF Requests
  <2>8. BridgePromise!AnswerAtOnce(f, k, d)
    BY <2>2, <2>3, <2>6, <2>7 DEF BridgePromise!AnswerAtOnce
  <2> QED
    BY <1>0, <2>3, <2>8 DEF BridgePromise!Next, BridgeDatas
<1>4. CASE BridgeContentStoreMiss(f, i)
  <2>1. /\ DOMAIN pit' = DOMAIN pit \cup {k}
        /\ \A j \in DOMAIN pit \ {k} : pit'[j] = pit[j]
        /\ DOMAIN pit'[k].inRecords = DOMAIN PitCell(k).entry.inRecords \cup {f}
        /\ \A m \in sent' : m.type = "Interest"
    BY <1>4, BridgeMissStep
  <2>2. /\ k \notin DOMAIN pit => DOMAIN PitCell(k).entry.inRecords = {}
        /\ k \in DOMAIN pit => PitCell(k).entry = pit[k]
    BY PitCellRecords
  <2> HIDE DEF k
  <2>3. Requests' = Requests \cup {<<f, k>>}
    BY <1>0, <2>1, <2>2 DEF Requests
  <2>4. BridgePromise!Ask(f, k)
    BY <2>1, <2>3, NoDelivery DEF BridgePromise!Ask
  <2> QED
    BY <1>0, <2>4 DEF BridgePromise!Next
<1> QED
  BY <1>1, <1>2, <1>3, <1>4 DEF BridgeInterestStep

(* onIncomingData at the bridge: the Data that answers the requests is the one *)
(* renamed after its supporting name.                                          *)
LEMMA BridgeDataRefines ==
  ASSUME BInv, NEW f \in Faces, NEW d \in Datas, BridgeDataSatisfies(f, d)
  PROVE  BridgePromise!Answer(Renamed(d))
<1> DEFINE x == Renamed(d)
           matches == findAllDataMatchesByName(d.supportingName)
           waiting == UNION {PendingDownstreams(pit[k]) : k \in matches}
           to == OutgoingDataFaces(x, waiting \ {f})
<1>1. sent' = {DataPacket(x, g) : g \in to}
  BY Zenon DEF BridgeDataSatisfies
<1>2. /\ DOMAIN pit' = DOMAIN pit
      /\ \A k \in DOMAIN pit \ matches : pit'[k] = pit[k]
      /\ \A k \in matches : DOMAIN pit'[k].inRecords = {}
  BY BridgeDataStepOK
<1>3. x.name = d.supportingName
  BY BridgeAssumption DEF Renamed
<1>4. \A k : k \in matches <=> k \in DOMAIN pit /\ BridgeAnswers(k, x)
  BY <1>3 DEF findAllDataMatchesByName, BridgeAnswers
<1>5. Requests' = {r \in Requests : ~BridgeAnswers(r[2], x)}
  BY <1>2, <1>4 DEF Requests
<1>6. ASSUME NEW g \in to
      PROVE  \E k : <<g, k>> \in Requests /\ BridgeAnswers(k, x)
  <2>1. PICK k \in matches : g \in PendingDownstreams(pit[k])
    BY DEF OutgoingDataFaces
  <2>2. k \in DOMAIN pit /\ g \in DOMAIN pit[k].inRecords
    BY <1>4, <2>1 DEF PendingDownstreams
  <2> QED
    BY <1>4, <2>1, <2>2, RequestIsRecord DEF BInv, IInv
<1> HIDE DEF to, matches, x
<1>7. Deliveries' = {<<g, x>> : g \in to}
  BY <1>1, DataDelivery
<1>8. Deliveries' \subseteq {<<r[1], x>> : r \in Requests \ Requests'}
  <2> SUFFICES ASSUME NEW g \in to
               PROVE  <<g, x>> \in {<<r[1], x>> : r \in Requests \ Requests'}
    BY <1>7
  <2>1. PICK k : <<g, k>> \in Requests /\ BridgeAnswers(k, x)
    BY <1>6
  <2>2. <<g, k>> \in Requests \ Requests' /\ <<g, k>>[1] = g
    BY <1>5, <2>1
  <2> QED
    BY <2>2
<1> QED
  BY <1>5, <1>8 DEF BridgePromise!Answer, x

(* Every step of the bridge is one of PendingInterests. *)
LEMMA BridgeStepRefines ==
  ASSUME BInv, [BridgeNext]_vars
  PROVE  [BridgePromise!Next]_(BridgePromise!vars)
<1>1. CASE pit' = pit /\ sent' = {}
  <2>1. Requests' = Requests /\ Deliveries' = {}
    BY <1>1, NoDelivery DEF Requests
  <2> QED
    BY <2>1 DEF BridgePromise!Next, BridgePromise!Idle
<1>2. CASE UNCHANGED vars
  <2>1. Requests' = Requests /\ Deliveries' = Deliveries
    BY <1>2 DEF vars, Requests, Deliveries
  <2> QED
    BY <2>1 DEF BridgePromise!vars
<1>3. ASSUME NEW f \in Faces, NEW d \in Datas, BridgeDataStep(f, d)
      PROVE  BridgePromise!Next \/ (pit' = pit /\ sent' = {})
  BY <1>3, BridgeDataRefines
     DEF BridgeDataStep, BridgeDropLocalhostData, BridgeDataUnsolicited, BridgePromise!Next
<1>4. ASSUME NEW k \in Keys, TimerFires(k)
      PROVE  BridgePromise!Next
  <2>1. /\ sent' = {} /\ DOMAIN pit' = DOMAIN pit \ {k}
        /\ \A j \in DOMAIN pit \ {k} : pit'[j] = pit[j]
    BY <1>4, TimerRecords DEF BInv
  <2>2. Requests' = {r \in Requests : r[2] # k}
    BY <2>1 DEF Requests
  <2> QED
    BY <2>1, <2>2, NoDelivery DEF BridgePromise!GiveUp, BridgePromise!Next
<1> QED
  BY <1>1, <1>2, <1>3, <1>4, BridgeInterestRefines
     DEF BridgeNext, BridgeLocalStep, Tick, FaceAdd, FaceRemove, FibAddNextHop,
         FibRemoveNextHop, CsEvict

(* The bridge keeps the promise of a node with a PIT across a core without     *)
(* one: a downstream receives Data only under a name it asked for, and only    *)
(* while it waits for it.                                                      *)
THEOREM BridgePromiseImplemented == BridgeSpec => BridgeImplementsPromise
<1>1. Init => BridgePromise!Init
  BY DEF Init, BridgePromise!Init, Requests, Deliveries
<1> QED
  BY <1>1, BridgeInvariance, BridgeStepRefines, PTL
     DEF BridgeSpec, BridgeImplementsPromise, BridgePromise!Spec

=============================================================================

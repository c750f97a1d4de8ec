----------------------------- MODULE Forwarder -----------------------------
(***************************************************************************)
(* The forwarding pipelines of a PIT-based node (daemon/fw/forwarder.cpp)  *)
(* over its tables: faces, FIB, PIT, Content Store, Dead Nonce List.       *)
(*                                                                         *)
(* The program is a single-threaded event loop run by the ns-3 simulator:  *)
(* a handler runs to its end, and a scheduled event runs exactly when it   *)
(* is due.  An action is one handler; two handlers due at the same instant *)
(* run in either order.  One clock tick is a unit of InterestLifetime.     *)
(*                                                                         *)
(* The scheduler is explicit: timers[k] holds the scheduled events whose   *)
(* callback is bound to the PIT entry of k, while the entry only holds the *)
(* two EventId handles through which it can cancel them.  An event that    *)
(* outlives its handle, or its entry, stays visible in timers.             *)
(***************************************************************************)
EXTENDS PitEntry, Fib, Cs, FiniteSets

CONSTANTS
  Interests,        \* Interests that may arrive: [key, nonce, lifetime, nextHop]
  Datas,            \* Data that may arrive: [name, freshness]
  Routes,           \* next hops management may add: [prefix, face, cost]
  LateFaces,        \* Face objects created after start-up
  StrategyOf,       \* effective strategy of every key (StrategyChoice)
  StragglerTime,    \* 100 milliseconds
  DnlLifetime,      \* DeadNonceList::getLifetime()
  InitialInterval,  \* RetxSuppressionExponential
  MaxInterval,
  NoFace,           \* Interest without NextHopFaceId
  NoTimer,          \* a null EventId
  Horizon,          \* bound: packets and commands arrive up to this time
  MaxTime,          \* bound: the clock stops here
  Budget            \* bound: number of packets that arrive

(* A scheduled callback: its pipeline, due time and bound arguments. *)
Event == [kind : {"unsatisfy", "straggler"}, due : Nat,
          satisfied : BOOLEAN, freshness : Int]

ASSUME ForwarderAssumption ==
  /\ StragglerTime \in Nat /\ DnlLifetime \in Nat
  /\ InitialInterval \in Nat /\ MaxInterval \in Nat
  /\ Horizon \in Nat /\ MaxTime \in Nat /\ Budget \in Nat
  /\ NoTimer \notin Event
  /\ \A i \in Interests :
       /\ i.nonce \in Nonces /\ i.lifetime \in Int
       /\ StrategyOf[i.key] \in {"best-route", "best-route2", "multicast", "client-control"}
  /\ \A d \in Datas : d.freshness \in Int
  /\ \A r \in Routes : r.face \in Faces /\ r.cost \in Nat

VARIABLES
  now,        \* time::steady_clock::now()
  face,       \* "new", "up" (in the face table), "closed" (INVALID_FACEID)
  fib,        \* m_fib
  pit,        \* m_pit: a function from the keys that have an entry
  timers,     \* scheduler events bound to the entry of a key
  cs,         \* m_cs: a function from the cached Data to [staleTime, unsolicited]
  dnl,        \* m_deadNonceList: Name and Nonce pairs
  sent,       \* packets sent by the last handler
  credit,     \* per face, Interests received minus Data sent (FaceCounters)
  forwarded,  \* history: keys and Nonces sent upstream and not yet answered
  budget      \* arrivals left

vars == <<now, face, fib, pit, timers, cs, dnl, sent, credit, forwarded, budget>>

Keys == {i.key : i \in Interests}
Up == {f \in Faces : face[f] = "up"}

NoFreshness == -1
-----------------------------------------------------------------------------
(***************************************************************************)
(* Timers of a PIT entry.  The operators take and return a cell, the entry *)
(* of a key with the scheduler events bound to it.                         *)
(***************************************************************************)
IsRecordCollection(records) ==
  DOMAIN records \subseteq Faces /\ \A f \in DOMAIN records : records[f] \in FaceRecord

IsPitEntry(e) ==
  /\ DOMAIN e = {"inRecords", "outRecords", "unsatisfyTimer", "stragglerTimer", "retxInterval"}
  /\ IsRecordCollection(e.inRecords) /\ IsRecordCollection(e.outRecords)
  /\ e.unsatisfyTimer \in Event \cup {NoTimer}
  /\ e.stragglerTimer \in Event \cup {NoTimer}
  /\ e.retxInterval \in Nat

NewEntry ==
  [inRecords |-> [f \in {} |-> 0], outRecords |-> [f \in {} |-> 0],
   unsatisfyTimer |-> NoTimer, stragglerTimer |-> NoTimer,
   retxInterval |-> InitialInterval]

(* Pit::insert: the entry of the key, a new one if there is none. *)
PitCell(k) ==
  [entry |-> IF k \in DOMAIN pit THEN pit[k] ELSE NewEntry, timers |-> timers[k]]

(* Mutant: the straggler timer is forgotten. *)
cancelUnsatisfyTimerOnly(c) ==
  [entry |-> [c.entry EXCEPT !.unsatisfyTimer = NoTimer],
   timers |-> c.timers \ {c.entry.unsatisfyTimer}]

cancelUnsatisfyAndStragglerTimer(c) ==
  [entry |-> [c.entry EXCEPT !.unsatisfyTimer = NoTimer, !.stragglerTimer = NoTimer],
   timers |-> c.timers \ {c.entry.unsatisfyTimer, c.entry.stragglerTimer}]

(* Mutant: the in-record that expires first. *)
FirstExpiry(e) ==
  {t \in {e.inRecords[f].expiry : f \in DOMAIN e.inRecords} :
     \A f \in DOMAIN e.inRecords : e.inRecords[f].expiry >= t}

(* The expiry of the last expiring in-record, as a set with one element. *)
LastExpiry(e) ==
  {t \in {e.inRecords[f].expiry : f \in DOMAIN e.inRecords} :
     \A f \in DOMAIN e.inRecords : e.inRecords[f].expiry =< t}

setUnsatisfyTimer(c, lastExpiry) ==
  LET event == [kind |-> "unsatisfy", due |-> lastExpiry,
                satisfied |-> FALSE, freshness |-> NoFreshness]
  IN  [entry |-> [c.entry EXCEPT !.unsatisfyTimer = event],
       timers |-> (c.timers \ {c.entry.unsatisfyTimer}) \cup {event}]

setStragglerTimer(c, isSatisfied, freshness) ==
  LET event == [kind |-> "straggler", due |-> now + StragglerTime,
                satisfied |-> isSatisfied, freshness |-> freshness]
  IN  [entry |-> [c.entry EXCEPT !.stragglerTimer = event],
       timers |-> (c.timers \ {c.entry.stragglerTimer}) \cup {event}]

(* Mutant: the timers are cancelled and no straggler timer is set. *)
rejectWithoutStraggler(c) ==
  IF hasUnexpiredOutRecords(c.entry, now) THEN c ELSE cancelUnsatisfyAndStragglerTimer(c)

(* onInterestReject: forwarded Interests cannot be rejected. *)
onInterestReject(c) ==
  IF hasUnexpiredOutRecords(c.entry, now) THEN c
  ELSE setStragglerTimer(cancelUnsatisfyAndStragglerTimer(c), FALSE, NoFreshness)

PitPut(k, entry) ==
  [j \in DOMAIN pit \cup {k} |-> IF j = k THEN entry ELSE pit[j]]
-----------------------------------------------------------------------------
(***************************************************************************)
(* Dead Nonce List insertion.                                              *)
(***************************************************************************)
needDnl(k, isSatisfied, freshness) ==
  isSatisfied => /\ k.mustBeFresh
                 /\ freshness >= 0 /\ freshness < DnlLifetime

(* Mutant: expired out-records are ignored. *)
insertUnexpiredNonces(k, e, isSatisfied, freshness, upstreams) ==
  IF needDnl(k, isSatisfied, freshness)
  THEN {<<k.name, e.outRecords[f].nonce>> :
          f \in {g \in upstreams \cap DOMAIN e.outRecords : e.outRecords[g].expiry > now}}
  ELSE {}

(* insertDeadNonceList: the pairs added for out-records of the given faces. *)
insertDeadNonceList(k, e, isSatisfied, freshness, upstreams) ==
  IF needDnl(k, isSatisfied, freshness)
  THEN {<<k.name, e.outRecords[f].nonce>> : f \in upstreams \cap DOMAIN e.outRecords}
  ELSE {}
-----------------------------------------------------------------------------
(***************************************************************************)
(* Strategies.  A decision names the faces given to sendInterest, whether  *)
(* rejectPendingInterest is called, and the suppression interval.          *)
(***************************************************************************)
Decision(faces, reject, retx) == [sends |-> faces, reject |-> reject, retx |-> retx]
NothingToDo(e) == Decision({}, FALSE, e.retxInterval)

(* The first next hop of S in the list, or a rejection if there is none. *)
FirstOrReject(e, hops, S) ==
  IF S = {} THEN {Decision({}, TRUE, e.retxInterval)}
  ELSE {Decision({f}, FALSE, e.retxInterval) : f \in FirstAmong(hops, S)}

bestRoute(k, e, hops) ==
  IF hasUnexpiredOutRecords(e, now) THEN {NothingToDo(e)}
  ELSE FirstOrReject(e, hops, {f \in DOMAIN hops : canForwardTo(k, e, f, now)})

multicast(k, e, hops) ==
  LET sends == {f \in DOMAIN hops : canForwardTo(k, e, f, now)}
  IN  {Decision(sends, sends = {} /\ ~hasUnexpiredOutRecords(e, now), e.retxInterval)}

(* NextHopFaceId overrides the FIB, and is not checked against the PIT entry. *)
clientControl(k, e, hops, i) ==
  IF i.nextHop = NoFace THEN bestRoute(k, e, hops)
  ELSE IF face[i.nextHop] # "up" THEN {Decision({}, TRUE, e.retxInterval)}
  ELSE {Decision({i.nextHop}, FALSE, e.retxInterval)}

getLastOutgoing(e) ==
  CHOOSE t \in {e.outRecords[f].renewed : f \in DOMAIN e.outRecords} :
    \A f \in DOMAIN e.outRecords : e.outRecords[f].renewed =< t

(* RetxSuppressionExponential::decide: suppressed within the interval since the *)
(* last transmission, which is doubled by a retransmission that is forwarded.   *)
shouldSuppress(e) == now - getLastOutgoing(e) < e.retxInterval

nextRetxInterval(e) ==
  IF 2 * e.retxInterval < MaxInterval THEN 2 * e.retxInterval ELSE MaxInterval

NextHopEligible(k, e, f, inFace) == f # inFace /\ ~violatesScope(k, e, f)

EarliestOutRecord(e, S) ==
  {f \in S : \A g \in S : e.outRecords[f].renewed =< e.outRecords[g].renewed}

bestRoute2(k, e, hops, inFace) ==
  LET eligible == {f \in DOMAIN hops : NextHopEligible(k, e, f, inFace)}
      unused == {f \in eligible :
                   ~ (f \in DOMAIN e.outRecords /\ e.outRecords[f].expiry > now)}
      retx == nextRetxInterval(e)
      upstreams == IF unused # {} THEN FirstAmong(hops, unused)
                   ELSE EarliestOutRecord(e, eligible)
  IN  IF ~hasUnexpiredOutRecords(e, now) THEN FirstOrReject(e, hops, eligible)
      ELSE IF shouldSuppress(e) THEN {NothingToDo(e)}
      ELSE IF eligible = {} THEN {Decision({}, FALSE, retx)}
      ELSE {Decision({f}, FALSE, retx) : f \in upstreams}

(* Strategy::afterReceiveInterest of the effective strategy. *)
afterReceiveInterest(k, e, inFace, i) ==
  LET hops == findLongestPrefixMatch(fib, k.name)
  IN  CASE StrategyOf[k] = "best-route" -> bestRoute(k, e, hops)
        [] StrategyOf[k] = "best-route2" -> bestRoute2(k, e, hops, inFace)
        [] StrategyOf[k] = "multicast" -> multicast(k, e, hops)
        [] StrategyOf[k] = "client-control" -> clientControl(k, e, hops, i)
-----------------------------------------------------------------------------
(***************************************************************************)
(* Outgoing pipelines.                                                     *)
(***************************************************************************)
(* onOutgoingInterest drops the Interest on a closed face or out of scope. *)
OutgoingInterestFaces(k, e, faces) ==
  {f \in faces \cap Up : ~violatesScope(k, e, f)}

InsertOutRecords(e, pick) ==
  [e EXCEPT !.outRecords =
     [f \in DOMAIN e.outRecords \cup DOMAIN pick |->
        IF f \in DOMAIN pick
        THEN insertOrUpdateOutRecord(e, f, e.inRecords[pick[f]], now).outRecords[f]
        ELSE e.outRecords[f]]]

InterestPacket(k, f, nonce) == [type |-> "Interest", face |-> f, key |-> k, nonce |-> nonce]
DataPacket(d, f) == [type |-> "Data", face |-> f, data |-> d]

(* Mutant: no scope control. *)
OutgoingDataUpFaces(d, faces) == faces \cap Up

(* onOutgoingData: a closed face, or a non-local one under /localhost, is skipped. *)
OutgoingDataFaces(d, faces) ==
  {f \in faces \cap Up : f \in LocalFaces \/ ~IsPrefix(LOCALHOST_NAME, d.name)}

(* Face counters after Data went to the given faces. *)
Paid(counters, faces) ==
  [f \in Faces |-> IF f \in faces THEN counters[f] - 1 ELSE counters[f]]

Charged(f) == [credit EXCEPT ![f] = @ + 1]
-----------------------------------------------------------------------------
(***************************************************************************)
(* onIncomingInterest: one action for each way through the pipeline.       *)
(***************************************************************************)
(* A packet of the environment, within the bounds of the model. *)
Arrival ==
  /\ budget > 0 /\ now =< Horizon
  /\ budget' = budget - 1

(* Face::onReceiveInterest or onReceiveData: a closed face emits nothing. *)
ReceivedOn(f) == face[f] = "up" /\ UNCHANGED <<now, face, fib>>

ViolatesLocalhost(f, name) == f \notin LocalFaces /\ IsPrefix(LOCALHOST_NAME, name)

hasDuplicateNonce(i) ==
  \/ findNonce(PitCell(i.key).entry, i.nonce)
  \/ <<i.key.name, i.nonce>> \in dnl

DropLocalhostInterest(f, i) ==
  /\ ReceivedOn(f)
  /\ ViolatesLocalhost(f, i.key.name)
  /\ sent' = {} /\ credit' = Charged(f)
  /\ UNCHANGED <<pit, timers, cs, dnl, forwarded>>

(* onInterestLoop drops the Interest, but Pit::insert has been called: a key *)
(* without an entry now has one, without records and without timers.         *)
InterestLoop(f, i) ==
  /\ ReceivedOn(f)
  /\ ~ViolatesLocalhost(f, i.key.name)
  /\ hasDuplicateNonce(i)
  /\ pit' = PitPut(i.key, PitCell(i.key).entry)
  /\ sent' = {} /\ credit' = Charged(f)
  /\ UNCHANGED <<timers, cs, dnl, forwarded>>

isPending(i) == DOMAIN PitCell(i.key).entry.inRecords # {}

ContentStoreHit(f, i, d) ==
  LET cancelled == cancelUnsatisfyAndStragglerTimer(PitCell(i.key))
      cell == setStragglerTimer(cancelled, TRUE, d.freshness)
      to == OutgoingDataFaces(d, {f})
  IN  /\ ReceivedOn(f)
      /\ ~ViolatesLocalhost(f, i.key.name)
      /\ ~hasDuplicateNonce(i)
      /\ ~isPending(i) /\ d \in CsFind(cs, i.key, now)
      /\ pit' = PitPut(i.key, cell.entry)
      /\ timers' = [timers EXCEPT ![i.key] = cell.timers]
      /\ sent' = {DataPacket(d, g) : g \in to}
      /\ credit' = Paid(Charged(f), to)
      /\ UNCHANGED <<cs, dnl, forwarded>>

(* The cell after the timers are cancelled and the in-record is inserted. *)
PendingCell(f, i) ==
  LET cancelled == cancelUnsatisfyAndStragglerTimer(PitCell(i.key))
  IN  [cancelled EXCEPT !.entry = insertOrUpdateInRecord(@, f, i, now)]

(* The cell after the strategy sent the picked Interests and perhaps rejected. *)
DecidedCell(cell, decision, pick) ==
  LET out == InsertOutRecords([cell.entry EXCEPT !.retxInterval = decision.retx], pick)
      decided == [cell EXCEPT !.entry = out]
  IN  IF decision.reject THEN onInterestReject(decided) ELSE decided

(* The Interest goes to the faces of pick, on each as the picked in-record. *)
MissOutcome(f, i, lastExpiry, decision, pick) ==
  LET k == i.key
      e == PendingCell(f, i).entry
      cell == DecidedCell(setUnsatisfyTimer(PendingCell(f, i), lastExpiry), decision, pick)
      erased == OutNonces(e) \ OutNonces(cell.entry)
      nonces == {e.inRecords[pick[g]].nonce : g \in DOMAIN pick}
  IN  /\ \A g \in DOMAIN pick : pick[g] \in pickInterest(e, g)
      /\ pit' = PitPut(k, cell.entry)
      /\ timers' = [timers EXCEPT ![k] = cell.timers]
      /\ sent' = {InterestPacket(k, g, e.inRecords[pick[g]].nonce) : g \in DOMAIN pick}
      /\ forwarded' = (forwarded \ ({k} \X erased)) \cup ({k} \X nonces)

ContentStoreMiss(f, i) ==
  LET k == i.key
      e == PendingCell(f, i).entry
  IN  /\ ReceivedOn(f)
      /\ ~ViolatesLocalhost(f, k.name)
      /\ ~hasDuplicateNonce(i)
      /\ isPending(i) \/ CsFind(cs, k, now) = {}
      /\ \E lastExpiry \in LastExpiry(e), decision \in afterReceiveInterest(k, e, f, i) :
         \E pick \in [OutgoingInterestFaces(k, e, decision.sends) -> DOMAIN e.inRecords] :
           MissOutcome(f, i, lastExpiry, decision, pick)
      /\ credit' = Charged(f)
      /\ UNCHANGED <<cs, dnl>>
-----------------------------------------------------------------------------
(***************************************************************************)
(* Timers firing.  The event leaves the scheduler; the stale handle stays  *)
(* in the entry until it is cancelled, which then has no effect.           *)
(***************************************************************************)
onInterestFinalize(k, isSatisfied, freshness, events) ==
  LET cell == cancelUnsatisfyAndStragglerTimer([entry |-> pit[k], timers |-> events])
  IN  /\ dnl' = dnl \cup insertDeadNonceList(k, pit[k], isSatisfied, freshness, Faces)
      /\ timers' = [timers EXCEPT ![k] = cell.timers]
      /\ pit' = [j \in DOMAIN pit \ {k} |-> pit[j]]
      /\ forwarded' = IF needDnl(k, isSatisfied, freshness) THEN forwarded
                      ELSE forwarded \ ({k} \X Nonces)

onInterestUnsatisfied(k, events) == onInterestFinalize(k, FALSE, NoFreshness, events)

TimerFires(k) ==
  \E event \in timers[k] :
    /\ event.due =< now /\ k \in DOMAIN pit
    /\ IF event.kind = "unsatisfy"
       THEN onInterestUnsatisfied(k, timers[k] \ {event})
       ELSE onInterestFinalize(k, event.satisfied, event.freshness, timers[k] \ {event})
    /\ sent' = {}
    /\ UNCHANGED <<now, face, fib, cs, credit, budget>>

(* The simulator advances the clock only when nothing is due. *)
Tick ==
  /\ now < MaxTime
  /\ \A k \in Keys : \A event \in timers[k] : event.due > now
  /\ now' = now + 1
  /\ sent' = {}
  /\ UNCHANGED <<face, fib, pit, timers, cs, dnl, credit, forwarded, budget>>
-----------------------------------------------------------------------------
(***************************************************************************)
(* onIncomingData.                                                         *)
(***************************************************************************)
findAllDataMatches(d) == {k \in DOMAIN pit : matchesData(k, d)}

DropLocalhostData(f, d) ==
  /\ ReceivedOn(f)
  /\ ViolatesLocalhost(f, d.name)
  /\ sent' = {}
  /\ UNCHANGED <<pit, timers, cs, dnl, credit, forwarded>>

onDataUnsolicited(f, d) ==
  /\ ReceivedOn(f)
  /\ ~ViolatesLocalhost(f, d.name)
  /\ findAllDataMatches(d) = {}
  /\ cs' = IF f \in LocalFaces THEN CsInsert(cs, d, TRUE, now) ELSE cs
  /\ sent' = {}
  /\ UNCHANGED <<pit, timers, dnl, credit, forwarded>>

(* Downstreams whose in-record has not expired. *)
PendingDownstreams(e) == {f \in DOMAIN e.inRecords : e.inRecords[f].expiry > now}

(* Mutant: the entry is not marked satisfied. *)
UnmarkedCell(k, f, d) ==
  LET cancelled == cancelUnsatisfyAndStragglerTimer(PitCell(k))
  IN  setStragglerTimer(
        [cancelled EXCEPT !.entry = deleteOutRecord(@, f)], TRUE, d.freshness)

(* One iteration of the loop over the matching PIT entries. *)
SatisfiedCell(k, f, d) ==
  LET cancelled == cancelUnsatisfyAndStragglerTimer(PitCell(k))
  IN  setStragglerTimer(
        [cancelled EXCEPT !.entry = deleteOutRecord(deleteInRecords(@), f)],
        TRUE, d.freshness)

DataSatisfies(f, d) ==
  LET matches == findAllDataMatches(d)
      pendingDownstreams == UNION {PendingDownstreams(pit[k]) : k \in matches}
      to == OutgoingDataFaces(d, pendingDownstreams \ {f})
  IN  /\ ReceivedOn(f)
      /\ ~ViolatesLocalhost(f, d.name)
      /\ matches # {}
      /\ cs' = CsInsert(cs, d, FALSE, now)
      /\ dnl' = dnl \cup UNION {insertDeadNonceList(k, pit[k], TRUE, d.freshness, {f}) : k \in matches}
      /\ pit' = [k \in DOMAIN pit |-> IF k \in matches THEN SatisfiedCell(k, f, d).entry ELSE pit[k]]
      /\ timers' = [k \in Keys |-> IF k \in matches THEN SatisfiedCell(k, f, d).timers ELSE timers[k]]
      /\ sent' = {DataPacket(d, g) : g \in to}
      /\ credit' = Paid(credit, to)
      /\ forwarded' = forwarded \ ({k \in matches : ~needDnl(k, TRUE, d.freshness)} \X Nonces)
-----------------------------------------------------------------------------
(***************************************************************************)
(* Management and eviction.                                                *)
(***************************************************************************)
(* FaceTable::add of a new Face object. *)
FaceAdd(f) ==
  /\ face[f] = "new" /\ now =< Horizon
  /\ face' = [face EXCEPT ![f] = "up"]
  /\ sent' = {}
  /\ UNCHANGED <<now, fib, pit, timers, cs, dnl, credit, forwarded, budget>>

(* FaceTable::remove: PIT records of the face stay, FIB next hops go. *)
FaceRemove(f) ==
  /\ face[f] = "up" /\ now =< Horizon
  /\ face' = [face EXCEPT ![f] = "closed"]
  /\ fib' = removeNextHopFromAllEntries(fib, f)
  /\ sent' = {}
  /\ UNCHANGED <<now, pit, timers, cs, dnl, credit, forwarded, budget>>

(* FibManager::addNextHop refuses a FaceId that is not in the face table. *)
FibAddNextHop(r) ==
  /\ now =< Horizon /\ face[r.face] = "up"
  /\ fib' = addNextHop(fib, r.prefix, r.face, r.cost)
  /\ sent' = {}
  /\ UNCHANGED <<now, face, pit, timers, cs, dnl, credit, forwarded, budget>>

FibRemoveNextHop(r) ==
  /\ now =< Horizon /\ face[r.face] = "up"
  /\ fib' = removeNextHopFromEntries(fib, {r.prefix}, r.face)
  /\ sent' = {}
  /\ UNCHANGED <<now, face, pit, timers, cs, dnl, credit, forwarded, budget>>

(* The eviction policy of the Content Store, whichever Data it picks. *)
CsEvict(d) ==
  /\ d \in DOMAIN cs /\ now =< Horizon
  /\ cs' = [x \in DOMAIN cs \ {d} |-> cs[x]]
  /\ sent' = {}
  /\ UNCHANGED <<now, face, fib, pit, timers, dnl, credit, forwarded, budget>>

(* DeadNonceList::evictEntries; the history gives up what is evicted. *)
DnlEvict(p) ==
  /\ p \in dnl /\ now =< Horizon
  /\ dnl' = dnl \ {p}
  /\ forwarded' = {x \in forwarded : <<x[1].name, x[2]>> # p}
  /\ sent' = {}
  /\ UNCHANGED <<now, face, fib, pit, timers, cs, credit, budget>>
-----------------------------------------------------------------------------
Init ==
  /\ now = 0
  /\ face = [f \in Faces |-> IF f \in LateFaces THEN "new" ELSE "up"]
  /\ fib = [p \in {} |-> NoNextHops]
  /\ pit = [k \in {} |-> NewEntry]
  /\ timers = [k \in Keys |-> {}]
  /\ cs = EmptyStore
  /\ dnl = {} /\ sent = {} /\ forwarded = {}
  /\ credit = [f \in Faces |-> 0]
  /\ budget = Budget

InterestStep(f, i) ==
  \/ DropLocalhostInterest(f, i)
  \/ InterestLoop(f, i)
  \/ ContentStoreMiss(f, i)
  \/ \E d \in DOMAIN cs : ContentStoreHit(f, i, d)

DataStep(f, d) ==
  \/ DropLocalhostData(f, d)
  \/ onDataUnsolicited(f, d)
  \/ DataSatisfies(f, d)

Next ==
  \/ \E f \in Faces, i \in Interests : Arrival /\ InterestStep(f, i)
  \/ \E f \in Faces, d \in Datas : Arrival /\ DataStep(f, d)
  \/ \E k \in Keys : TimerFires(k)
  \/ Tick
  \/ \E f \in Faces : FaceAdd(f) \/ FaceRemove(f)
  \/ \E r \in Routes : FibAddNextHop(r) \/ FibRemoveNextHop(r)
  \/ \E d \in Datas : CsEvict(d)
  \/ \E p \in dnl : DnlEvict(p)

(* The simulator runs every event that is due, and otherwise lets time pass. *)
Fairness == WF_vars(Tick) /\ \A k \in Keys : WF_vars(TimerFires(k))

Spec == Init /\ [][Next]_vars
FairSpec == Spec /\ Fairness
-----------------------------------------------------------------------------
(***************************************************************************)
(* Correctness.                                                            *)
(***************************************************************************)
(* The types of the tables, the scheduler and the counters. *)
TypeOK ==
  /\ now \in Nat /\ budget \in Nat
  /\ face \in [Faces -> {"new", "up", "closed"}]
  /\ DOMAIN pit \subseteq Keys /\ \A k \in DOMAIN pit : IsPitEntry(pit[k])
  /\ timers \in [Keys -> SUBSET Event]
  /\ DOMAIN cs \subseteq Datas
  /\ dnl \subseteq {k.name : k \in Keys} \X Nonces
  /\ forwarded \subseteq Keys \X Nonces
  /\ credit \in [Faces -> Int]

(* Scheduled events are exactly the ones the entries can cancel.  Every       *)
(* entry has one armed timer: the unsatisfy timer, due when the last of its   *)
(* in-records expires, or the straggler timer.  The exception is an entry     *)
(* that Pit::insert created for an Interest dropped by onInterestLoop: it has *)
(* no records, and no timer that would ever erase it.                         *)
EntryTimers(e, events) ==
  LET unsatisfy == e.unsatisfyTimer
      straggler == e.stragglerTimer
  IN  /\ events = {unsatisfy, straggler} \ {NoTimer}
      /\ unsatisfy = NoTimer \/ straggler = NoTimer
      /\ unsatisfy # NoTimer =>
           /\ unsatisfy.kind = "unsatisfy" /\ unsatisfy.due >= now
           /\ unsatisfy.due \in LastExpiry(e)
      /\ straggler # NoTimer =>
           /\ straggler.kind = "straggler" /\ straggler.due \in now .. now + StragglerTime
           /\ straggler.satisfied => DOMAIN e.inRecords = {}
      /\ unsatisfy = NoTimer /\ straggler = NoTimer =>
           DOMAIN e.inRecords = {} /\ DOMAIN e.outRecords = {}

TimerDiscipline ==
  \A k \in Keys :
    IF k \in DOMAIN pit THEN EntryTimers(pit[k], timers[k]) ELSE timers[k] = {}

(* Flow balance: a face is never sent more Data than it sent Interests, and   *)
(* what it is still owed covers every in-record it has in the PIT.            *)
FlowBalance ==
  \A f \in Faces :
    credit[f] >= Cardinality({k \in DOMAIN pit : f \in DOMAIN pit[k].inRecords})

(* Loop detection: a Nonce sent upstream and not answered is found again, in  *)
(* an out-record or in the Dead Nonce List, until it is evicted or replaced   *)
(* by a retransmission on the same face.                                      *)
UnansweredNonceRemembered ==
  \A x \in forwarded :
    \/ x[1] \in DOMAIN pit /\ x[2] \in OutNonces(pit[x[1]])
    \/ <<x[1].name, x[2]>> \in dnl

(* The FIB never names a closed face, and has no entry without next hops,     *)
(* although faces fail between the addition of a route and its use.           *)
FibFacesUp ==
  \A p \in DOMAIN fib : DOMAIN fib[p] # {} /\ DOMAIN fib[p] \subseteq Up

(* Packets under /localhost stay on local faces: no record of a non-local     *)
(* face under such a key, and no such packet sent to one, even when a shorter *)
(* Interest of a remote face matches local Data.                              *)
LocalhostConfined ==
  /\ \A k \in DOMAIN pit : IsPrefix(LOCALHOST_NAME, k.name) =>
       DOMAIN pit[k].inRecords \cup DOMAIN pit[k].outRecords \subseteq LocalFaces
  /\ \A m \in sent : m.type = "Data" /\ IsPrefix(LOCALHOST_NAME, m.data.name) =>
       m.face \in LocalFaces

(* An entry is erased with an unexpired in-record only after the strategy     *)
(* rejected it: the unsatisfy timer covers the longest-lived downstream.      *)
NoPrematureExpiry ==
  [][\A k \in DOMAIN pit :
       k \notin DOMAIN pit' /\ PendingDownstreams(pit[k]) # {} =>
         pit[k].stragglerTimer # NoTimer /\ ~pit[k].stragglerTimer.satisfied]_vars

(* Every pending Interest is eventually answered, expired or rejected: once   *)
(* arrivals stop, an entry with in-records loses them or is erased.           *)
PendingDrains ==
  \A k \in Keys :
    k \in DOMAIN pit /\ DOMAIN pit[k].inRecords # {}
      ~> (k \in DOMAIN pit => DOMAIN pit[k].inRecords = {})

(* The forwarder implements PendingInterests: Data reaches a downstream only   *)
(* as the answer to a request of its own that is still pending.               *)
Requests == {r \in Faces \X Keys : r[2] \in DOMAIN pit /\ r[1] \in DOMAIN pit[r[2]].inRecords}
Deliveries == {<<m.face, m.data>> : m \in {x \in sent : x.type = "Data"}}

Promise == INSTANCE PendingInterests
  WITH pending <- Requests, delivered <- Deliveries,
       Matches <- matchesData, Answers <- matchesData

ImplementsPromise == Promise!Spec
=============================================================================

-------------------------- MODULE ForwarderProofs --------------------------
(***************************************************************************)
(* Proofs about Forwarder, for every set of faces, keys, Interests, Data   *)
(* and routes and every value of the time constants and bounds.            *)
(***************************************************************************)
EXTENDS Forwarder, TLAPS

(* A PIT entry with the scheduler events bound to it. *)
IsCell(c) ==
  DOMAIN c = {"entry", "timers"} /\ IsPitEntry(c.entry) /\ c.timers \subseteq Event

(* The types of everything but the Content Store, which the bridge forwarder *)
(* shares with the forwarder.                                                *)
BaseOK ==
  /\ now \in Nat /\ budget \in Nat
  /\ face \in [Faces -> {"new", "up", "closed"}]
  /\ DOMAIN pit \subseteq Keys /\ \A k \in DOMAIN pit : IsPitEntry(pit[k])
  /\ timers \in [Keys -> SUBSET Event]
  /\ dnl \subseteq {k.name : k \in Keys} \X Nonces
  /\ forwarded \subseteq Keys \X Nonces
  /\ credit \in [Faces -> Int]

(* The inductive invariant of both: the types, and the discipline without   *)
(* which an event that outlived its entry could run on another.             *)
IInv == BaseOK /\ TimerDiscipline

(* The Content Store holds Data that arrived. *)
CsOK == DOMAIN cs \subseteq Datas

(* The entry Pit::insert returns is well typed, new or not. *)
LEMMA PitCellType ==
  ASSUME BaseOK, NEW k \in Keys
  PROVE  IsCell(PitCell(k))
<1>1. IsPitEntry(NewEntry)
  BY ForwarderAssumption DEF NewEntry, IsPitEntry, IsRecordCollection
<1>2. k \in DOMAIN pit => IsPitEntry(pit[k])
  BY DEF BaseOK
<1> QED
  BY <1>1, <1>2 DEF IsCell, PitCell, BaseOK

(* Under the timer discipline, cancelling both timers of an entry leaves no *)
(* event bound to it, and its records as they were.                         *)
LEMMA CancelClears ==
  ASSUME BaseOK, TimerDiscipline, NEW k \in Keys
  PROVE  LET c == cancelUnsatisfyAndStragglerTimer(PitCell(k))
         IN  /\ IsCell(c) /\ c.timers = {}
             /\ c.entry.unsatisfyTimer = NoTimer /\ c.entry.stragglerTimer = NoTimer
             /\ c.entry.inRecords = PitCell(k).entry.inRecords
             /\ c.entry.outRecords = PitCell(k).entry.outRecords
<1> DEFINE p == PitCell(k)
           c == cancelUnsatisfyAndStragglerTimer(p)
<1>1. IsCell(p)
  BY PitCellType
<1>2. p.timers \subseteq {p.entry.unsatisfyTimer, p.entry.stragglerTimer}
  BY DEF TimerDiscipline, EntryTimers, PitCell
<1>3. c.timers = {}
  BY <1>2 DEF cancelUnsatisfyAndStragglerTimer
<1> HIDE DEF p
<1>4. /\ DOMAIN c = {"entry", "timers"}
      /\ c.entry = [p.entry EXCEPT !.unsatisfyTimer = NoTimer, !.stragglerTimer = NoTimer]
  BY DEF cancelUnsatisfyAndStragglerTimer
<1>5. /\ IsPitEntry(c.entry)
      /\ c.entry.unsatisfyTimer = NoTimer /\ c.entry.stragglerTimer = NoTimer
      /\ c.entry.inRecords = p.entry.inRecords
      /\ c.entry.outRecords = p.entry.outRecords
  BY <1>1, <1>4 DEF IsCell, IsPitEntry, IsRecordCollection
<1> QED
  BY <1>3, <1>4, <1>5 DEF IsCell, p

(* A straggler timer set on an entry whose timers are cancelled is its only *)
(* event; a satisfied one is set on entries without in-records only.        *)
LEMMA StragglerArmed ==
  ASSUME NEW c, IsCell(c), c.timers = {}, now \in Nat,
         c.entry.unsatisfyTimer = NoTimer, c.entry.stragglerTimer = NoTimer,
         NEW isSatisfied \in BOOLEAN, NEW freshness \in Int,
         isSatisfied => DOMAIN c.entry.inRecords = {}
  PROVE  LET d == setStragglerTimer(c, isSatisfied, freshness)
         IN  IsCell(d) /\ EntryTimers(d.entry, d.timers)
<1> DEFINE event == [kind |-> "straggler", due |-> now + StragglerTime,
                     satisfied |-> isSatisfied, freshness |-> freshness]
           d == setStragglerTimer(c, isSatisfied, freshness)
<1>1. event \in Event /\ event # NoTimer
  BY ForwarderAssumption DEF Event
<1>2. /\ event.kind = "straggler" /\ event.satisfied = isSatisfied
      /\ event.due \in now .. now + StragglerTime
  BY ForwarderAssumption
<1>3. /\ d.entry = [c.entry EXCEPT !.stragglerTimer = event]
      /\ d.timers = (c.timers \ {c.entry.stragglerTimer}) \cup {event}
      /\ DOMAIN d = {"entry", "timers"}
  BY DEF setStragglerTimer
<1> HIDE DEF event, d
<1>4. /\ IsPitEntry(d.entry)
      /\ d.entry.stragglerTimer = event /\ d.entry.unsatisfyTimer = NoTimer
      /\ d.entry.inRecords = c.entry.inRecords
  BY <1>1, <1>3 DEF IsCell, IsPitEntry
<1>5. d.timers = {event}
  BY <1>3
<1>6. EntryTimers(d.entry, d.timers)
  BY <1>1, <1>2, <1>4, <1>5 DEF EntryTimers
<1> QED
  BY <1>1, <1>3, <1>4, <1>5, <1>6 DEF IsCell, d

(* The same for the unsatisfy timer, due when the last in-record expires. *)
LEMMA UnsatisfyArmed ==
  ASSUME NEW c, IsCell(c), c.timers = {}, now \in Nat,
         c.entry.unsatisfyTimer = NoTimer, c.entry.stragglerTimer = NoTimer,
         NEW t \in LastExpiry(c.entry), t >= now
  PROVE  LET d == setUnsatisfyTimer(c, t)
         IN  /\ IsCell(d) /\ EntryTimers(d.entry, d.timers)
             /\ d.entry.inRecords = c.entry.inRecords
             /\ d.entry.outRecords = c.entry.outRecords
             /\ d.entry.retxInterval = c.entry.retxInterval
<1> DEFINE event == [kind |-> "unsatisfy", due |-> t,
                     satisfied |-> FALSE, freshness |-> NoFreshness]
           d == setUnsatisfyTimer(c, t)
<1>1. t \in Nat
  BY DEF IsCell, IsPitEntry, IsRecordCollection, LastExpiry, FaceRecord
<1>2. event \in Event /\ event # NoTimer
  <2>1. NoFreshness \in Int
    BY DEF NoFreshness
  <2>2. event \in Event
    BY <1>1, <2>1 DEF Event
  <2> QED
    BY <2>2, ForwarderAssumption
<1>3. event.kind = "unsatisfy" /\ event.due = t
  OBVIOUS
<1>4. /\ d.entry = [c.entry EXCEPT !.unsatisfyTimer = event]
      /\ d.timers = (c.timers \ {c.entry.unsatisfyTimer}) \cup {event}
      /\ DOMAIN d = {"entry", "timers"}
  BY DEF setUnsatisfyTimer
<1> HIDE DEF event, d
<1>5. /\ IsPitEntry(d.entry)
      /\ d.entry.unsatisfyTimer = event /\ d.entry.stragglerTimer = NoTimer
      /\ d.entry.inRecords = c.entry.inRecords
      /\ d.entry.outRecords = c.entry.outRecords
      /\ d.entry.retxInterval = c.entry.retxInterval
  BY <1>2, <1>4 DEF IsCell, IsPitEntry
<1>6. d.timers = {event}
  BY <1>4
<1>7. LastExpiry(d.entry) = LastExpiry(c.entry)
  BY <1>5 DEF LastExpiry
<1>8. EntryTimers(d.entry, d.timers)
  BY <1>2, <1>3, <1>5, <1>6, <1>7 DEF EntryTimers
<1> QED
  BY <1>2, <1>4, <1>5, <1>6, <1>8 DEF IsCell, d

(* insertOrUpdateInRecord gives the face a record that has not expired. *)
LEMMA InRecordInserted ==
  ASSUME NEW e, IsPitEntry(e), now \in Nat, NEW f \in Faces, NEW i \in Interests
  PROVE  LET n == insertOrUpdateInRecord(e, f, i, now)
         IN  /\ IsPitEntry(n)
             /\ DOMAIN n.inRecords = DOMAIN e.inRecords \cup {f}
             /\ n.inRecords[f].expiry >= now
             /\ n.outRecords = e.outRecords
             /\ n.unsatisfyTimer = e.unsatisfyTimer
             /\ n.stragglerTimer = e.stragglerTimer
             /\ n.retxInterval = e.retxInterval
<1> DEFINE r == NewRecord(i.nonce, i.lifetime, now)
           n == insertOrUpdateInRecord(e, f, i, now)
<1>1. EffectiveLifetime(i.lifetime) \in Nat
  BY PitEntryAssumption, ForwarderAssumption DEF EffectiveLifetime
<1>2. r \in FaceRecord /\ r.expiry >= now
  BY <1>1, ForwarderAssumption DEF NewRecord, FaceRecord
<1>3. n = [e EXCEPT !.inRecords = Put(e.inRecords, f, r)]
  BY DEF insertOrUpdateInRecord
<1> HIDE DEF n, r
<1>4. /\ DOMAIN Put(e.inRecords, f, r) = DOMAIN e.inRecords \cup {f}
      /\ Put(e.inRecords, f, r)[f] = r
      /\ IsRecordCollection(Put(e.inRecords, f, r))
  BY <1>2 DEF Put, IsRecordCollection, IsPitEntry
<1>5. /\ n.inRecords = Put(e.inRecords, f, r) /\ n.outRecords = e.outRecords
      /\ n.unsatisfyTimer = e.unsatisfyTimer /\ n.stragglerTimer = e.stragglerTimer
      /\ n.retxInterval = e.retxInterval /\ DOMAIN n = DOMAIN e
  BY <1>3 DEF IsPitEntry
<1>6. IsPitEntry(n)
  BY <1>4, <1>5 DEF IsPitEntry
<1> QED
  BY <1>2, <1>4, <1>5, <1>6 DEF n

(* Every decision of a strategy carries a suppression interval. *)
LEMMA DecisionType ==
  ASSUME NEW i \in Interests, NEW e, IsPitEntry(e), NEW f,
         NEW decision \in afterReceiveInterest(i.key, e, f, i)
  PROVE  decision.retx \in Nat
<1> DEFINE k == i.key
           hops == findLongestPrefixMatch(fib, k.name)
<1> USE DEF IsPitEntry
<1>1. NothingToDo(e).retx \in Nat
  BY DEF NothingToDo, Decision
<1>2. \A S, h : \A d \in FirstOrReject(e, h, S) : d.retx \in Nat
  BY DEF FirstOrReject, Decision
<1>3. \A h : \A d \in bestRoute(k, e, h) : d.retx \in Nat
  BY <1>1, <1>2 DEF bestRoute
<1>4. \A h : \A d \in multicast(k, e, h) : d.retx \in Nat
  BY DEF multicast, Decision
<1>5. \A h : \A d \in clientControl(k, e, h, i) : d.retx \in Nat
  BY <1>3 DEF clientControl, Decision
<1>6. nextRetxInterval(e) \in Nat
  BY ForwarderAssumption DEF nextRetxInterval
<1>7. \A h : \A d \in bestRoute2(k, e, h, f) : d.retx \in Nat
  <2> SUFFICES ASSUME NEW h, NEW d \in bestRoute2(k, e, h, f)
               PROVE  d.retx \in Nat
    OBVIOUS
  <2> HIDE DEF k
  <2>1. \/ d = NothingToDo(e)
        \/ \E S : d \in FirstOrReject(e, h, S)
        \/ \E S : d = Decision(S, FALSE, nextRetxInterval(e))
    BY DEF bestRoute2
  <2> QED
    BY <2>1, <1>1, <1>2, <1>6 DEF Decision
<1>8. StrategyOf[k] \in {"best-route", "best-route2", "multicast", "client-control"}
  BY ForwarderAssumption
<1> QED
  BY <1>3, <1>4, <1>5, <1>7, <1>8 DEF afterReceiveInterest

(* Sending the picked Interests updates out-records only. *)
LEMMA OutRecordsInserted ==
  ASSUME NEW e, IsPitEntry(e), now \in Nat, NEW S \in SUBSET Faces,
         NEW pick \in [S -> DOMAIN e.inRecords]
  PROVE  LET n == InsertOutRecords(e, pick)
         IN  /\ IsPitEntry(n)
             /\ n.inRecords = e.inRecords
             /\ n.unsatisfyTimer = e.unsatisfyTimer
             /\ n.stragglerTimer = e.stragglerTimer
             /\ DOMAIN n.outRecords = DOMAIN e.outRecords \cup S
             /\ \A f \in S : n.outRecords[f].nonce = e.inRecords[pick[f]].nonce
             /\ \A f \in DOMAIN e.outRecords \ S : n.outRecords[f] = e.outRecords[f]
<1> DEFINE rec(f) == NewRecord(e.inRecords[pick[f]].nonce,
                               e.inRecords[pick[f]].expiry - e.inRecords[pick[f]].renewed, now)
           out == [f \in DOMAIN e.outRecords \cup S |->
                     IF f \in S THEN rec(f) ELSE e.outRecords[f]]
           n == InsertOutRecords(e, pick)
<1>1. ASSUME NEW f \in S
      PROVE  rec(f) \in FaceRecord /\ rec(f).nonce = e.inRecords[pick[f]].nonce
  <2>1. e.inRecords[pick[f]] \in FaceRecord
    BY DEF IsPitEntry, IsRecordCollection
  <2> DEFINE r == e.inRecords[pick[f]]
  <2>2. r.nonce \in Nonces /\ r.expiry - r.renewed \in Int
    BY <2>1 DEF FaceRecord
  <2> HIDE DEF r
  <2>3. EffectiveLifetime(r.expiry - r.renewed) \in Nat
    BY <2>2, PitEntryAssumption DEF EffectiveLifetime
  <2> QED
    BY <2>2, <2>3 DEF NewRecord, FaceRecord, r
<1>2. ASSUME NEW f \in S
      PROVE  insertOrUpdateOutRecord(e, f, e.inRecords[pick[f]], now).outRecords[f] = rec(f)
  BY DEF insertOrUpdateOutRecord, Put, IsPitEntry
<1>3. n = [e EXCEPT !.outRecords = out]
  BY <1>2 DEF InsertOutRecords
<1>4. IsRecordCollection(out)
  BY <1>1 DEF IsRecordCollection, IsPitEntry
<1> HIDE DEF n
<1>5. /\ n.outRecords = out /\ n.inRecords = e.inRecords
      /\ n.unsatisfyTimer = e.unsatisfyTimer /\ n.stragglerTimer = e.stragglerTimer
      /\ n.retxInterval = e.retxInterval /\ DOMAIN n = DOMAIN e
  BY <1>3 DEF IsPitEntry
<1>6. IsPitEntry(n)
  BY <1>4, <1>5 DEF IsPitEntry
<1> QED
  BY <1>1, <1>5, <1>6 DEF n

(* The cell a Content Store miss leaves behind, whatever the strategy decided. *)
LEMMA DecidedCellOK ==
  ASSUME NEW c, IsCell(c), now \in Nat, EntryTimers(c.entry, c.timers),
         c.entry.stragglerTimer = NoTimer, DOMAIN c.entry.inRecords # {},
         NEW decision, decision.retx \in Nat,
         NEW S \in SUBSET Faces, NEW pick \in [S -> DOMAIN c.entry.inRecords]
  PROVE  LET d == DecidedCell(c, decision, pick)
         IN  IsCell(d) /\ EntryTimers(d.entry, d.timers)
<1> DEFINE r == [c.entry EXCEPT !.retxInterval = decision.retx]
           o == InsertOutRecords(r, pick)
           m == [c EXCEPT !.entry = o]
<1>1. /\ IsPitEntry(r) /\ r.inRecords = c.entry.inRecords
      /\ r.unsatisfyTimer = c.entry.unsatisfyTimer
      /\ r.stragglerTimer = c.entry.stragglerTimer
  BY DEF IsCell, IsPitEntry
<1> HIDE DEF r
<1>2. /\ IsPitEntry(o) /\ o.inRecords = c.entry.inRecords
      /\ o.unsatisfyTimer = c.entry.unsatisfyTimer
      /\ o.stragglerTimer = c.entry.stragglerTimer
  BY <1>1, OutRecordsInserted
<1> HIDE DEF o
<1>3. DOMAIN m = {"entry", "timers"} /\ m.entry = o /\ m.timers = c.timers
  BY DEF IsCell
<1> HIDE DEF m
<1>4. IsCell(m)
  BY <1>2, <1>3 DEF IsCell
<1>5. LastExpiry(m.entry) = LastExpiry(c.entry)
  BY <1>2, <1>3 DEF LastExpiry
<1>6. EntryTimers(m.entry, m.timers)
  BY <1>2, <1>3, <1>5 DEF EntryTimers
<1>7. IsCell(onInterestReject(m)) /\ EntryTimers(onInterestReject(m).entry, onInterestReject(m).timers)
  <2>1. CASE hasUnexpiredOutRecords(m.entry, now)
    BY <2>1, <1>4, <1>6 DEF onInterestReject
  <2>2. CASE ~hasUnexpiredOutRecords(m.entry, now)
    <3> DEFINE q == cancelUnsatisfyAndStragglerTimer(m)
    <3>1. /\ DOMAIN q = {"entry", "timers"}
          /\ q.entry = [m.entry EXCEPT !.unsatisfyTimer = NoTimer, !.stragglerTimer = NoTimer]
          /\ q.timers = m.timers \ {m.entry.unsatisfyTimer, m.entry.stragglerTimer}
      BY DEF cancelUnsatisfyAndStragglerTimer
    <3>2. q.timers = {}
      BY <3>1, <1>6 DEF EntryTimers
    <3> HIDE DEF q
    <3>3. /\ IsPitEntry(q.entry) /\ q.entry.unsatisfyTimer = NoTimer
          /\ q.entry.stragglerTimer = NoTimer
      BY <3>1, <1>4 DEF IsCell, IsPitEntry
    <3>4. IsCell(q)
      BY <3>1, <3>2, <3>3 DEF IsCell
    <3>5. NoFreshness \in Int
      BY DEF NoFreshness
    <3>6. LET d == setStragglerTimer(q, FALSE, NoFreshness)
          IN  IsCell(d) /\ EntryTimers(d.entry, d.timers)
      BY <3>2, <3>3, <3>4, <3>5, StragglerArmed
    <3> QED
      BY <2>2, <3>6 DEF onInterestReject, q
  <2> QED
    BY <2>1, <2>2
<1>8. DecidedCell(c, decision, pick) = IF decision.reject THEN onInterestReject(m) ELSE m
  BY DEF DecidedCell, m, o, r
<1> QED
  BY <1>4, <1>6, <1>7, <1>8

(* The cell of an entry satisfied by Data: no in-records, straggler armed. *)
LEMMA SatisfiedCellOK ==
  ASSUME BaseOK, TimerDiscipline, NEW k \in Keys, NEW f, NEW d \in Datas
  PROVE  LET c == SatisfiedCell(k, f, d)
         IN  IsCell(c) /\ EntryTimers(c.entry, c.timers)
<1> DEFINE q == cancelUnsatisfyAndStragglerTimer(PitCell(k))
           x == deleteInRecords(q.entry)
           y == deleteOutRecord(x, f)
           m == [q EXCEPT !.entry = y]
<1>1. /\ IsCell(q) /\ q.timers = {}
      /\ q.entry.unsatisfyTimer = NoTimer /\ q.entry.stragglerTimer = NoTimer
  BY CancelClears
<1> HIDE DEF q
<1>2. /\ DOMAIN x = DOMAIN q.entry
      /\ DOMAIN x.inRecords = {} /\ x.outRecords = q.entry.outRecords
      /\ x.unsatisfyTimer = NoTimer /\ x.stragglerTimer = NoTimer
      /\ x.retxInterval = q.entry.retxInterval
  BY <1>1 DEF deleteInRecords, IsCell, IsPitEntry
<1>3. IsPitEntry(x)
  BY <1>1, <1>2 DEF IsCell, IsPitEntry, IsRecordCollection
<1> HIDE DEF x
<1>4. /\ DOMAIN y = DOMAIN x
      /\ y.outRecords = [g \in DOMAIN x.outRecords \ {f} |-> x.outRecords[g]]
      /\ y.inRecords = x.inRecords
      /\ y.unsatisfyTimer = NoTimer /\ y.stragglerTimer = NoTimer
      /\ y.retxInterval = x.retxInterval
  BY <1>2, <1>3 DEF deleteOutRecord, IsPitEntry
<1>5. IsPitEntry(y) /\ DOMAIN y.inRecords = {}
  BY <1>2, <1>3, <1>4 DEF IsPitEntry, IsRecordCollection
<1> HIDE DEF y
<1>6. DOMAIN m = {"entry", "timers"} /\ m.entry = y /\ m.timers = {}
  BY <1>1 DEF IsCell
<1> HIDE DEF m
<1>7. IsCell(m)
  BY <1>5, <1>6 DEF IsCell
<1>8. d.freshness \in Int /\ now \in Nat
  BY ForwarderAssumption DEF BaseOK
<1>9. LET c == setStragglerTimer(m, TRUE, d.freshness)
      IN  IsCell(c) /\ EntryTimers(c.entry, c.timers)
  BY <1>4, <1>5, <1>6, <1>7, <1>8, StragglerArmed
<1> QED
  BY <1>9 DEF SatisfiedCell, m, y, x, q

(* Replacing the cell of one key by a well-formed one keeps the invariant of *)
(* the PIT and of the scheduler.                                             *)
LEMMA CellReplaced ==
  ASSUME IInv, NEW k \in Keys, NEW c, IsCell(c), EntryTimers(c.entry, c.timers),
         pit' = PitPut(k, c.entry), timers' = [timers EXCEPT ![k] = c.timers],
         now' = now
  PROVE  /\ DOMAIN pit' \subseteq Keys /\ \A j \in DOMAIN pit' : IsPitEntry(pit'[j])
         /\ timers' \in [Keys -> SUBSET Event]
         /\ TimerDiscipline'
<1>1. /\ DOMAIN pit' = DOMAIN pit \cup {k} /\ pit'[k] = c.entry
      /\ \A j \in DOMAIN pit \ {k} : pit'[j] = pit[j]
  BY DEF PitPut
<1>2. /\ timers' \in [Keys -> SUBSET Event] /\ timers'[k] = c.timers
      /\ \A j \in Keys \ {k} : timers'[j] = timers[j]
  BY DEF IInv, BaseOK, IsCell
<1>3. DOMAIN pit' \subseteq Keys /\ \A j \in DOMAIN pit' : IsPitEntry(pit'[j])
  BY <1>1 DEF IInv, BaseOK, IsCell
<1>4. TimerDiscipline'
  <2> SUFFICES ASSUME NEW j \in Keys
               PROVE  IF j \in DOMAIN pit' THEN EntryTimers(pit[j], timers[j])'
                      ELSE timers'[j] = {}
    BY DEF TimerDiscipline
  <2>1. CASE j = k
    BY <2>1, <1>1, <1>2 DEF EntryTimers, LastExpiry
  <2>2. CASE j # k /\ j \in DOMAIN pit
    BY <2>2, <1>1, <1>2 DEF IInv, TimerDiscipline, EntryTimers, LastExpiry
  <2>3. CASE j # k /\ j \notin DOMAIN pit
    BY <2>3, <1>1, <1>2 DEF IInv, TimerDiscipline
  <2> QED
    BY <2>1, <2>2, <2>3
<1> QED
  BY <1>2, <1>3, <1>4

(* Interest handlers that leave the tables alone but for an empty PIT entry. *)
LEMMA DroppedInterestStep ==
  ASSUME IInv, budget' \in Nat, NEW f \in Faces, NEW i \in Interests,
         DropLocalhostInterest(f, i) \/ InterestLoop(f, i)
  PROVE  IInv'
<1> USE DEF IInv
<1>1. credit' \in [Faces -> Int] /\ budget' \in Nat
  BY DEF DropLocalhostInterest, InterestLoop, Charged, BaseOK
<1>2. CASE DropLocalhostInterest(f, i)
  <2>1. BaseOK'
    BY <1>1, <1>2 DEF ReceivedOn, DropLocalhostInterest, BaseOK
  <2>2. TimerDiscipline'
    BY <1>2 DEF ReceivedOn, DropLocalhostInterest, TimerDiscipline, EntryTimers, LastExpiry
  <2> QED
    BY <2>1, <2>2
<1>3. CASE InterestLoop(f, i)
  <2> DEFINE k == i.key
             e == PitCell(k).entry
  <2>1. k \in Keys
    BY DEF Keys
  <2>2. IsPitEntry(e)
    BY <2>1, PitCellType DEF IsCell
  <2>3. /\ pit' = PitPut(k, e) /\ timers' = timers /\ now' = now
    BY <1>3 DEF ReceivedOn, InterestLoop
  <2>4. EntryTimers(e, timers[k])
    <3>1. CASE k \in DOMAIN pit
      BY <3>1, <2>1 DEF TimerDiscipline, PitCell
    <3>2. CASE k \notin DOMAIN pit
      BY <3>2, <2>1 DEF TimerDiscipline, PitCell, NewEntry, EntryTimers
    <3> QED
      BY <3>1, <3>2
  <2>5. timers' = [timers EXCEPT ![k] = timers[k]]
    BY <2>3 DEF BaseOK
  <2> DEFINE c == [entry |-> e, timers |-> timers[k]]
  <2>6. IsCell(c) /\ c.entry = e /\ c.timers = timers[k]
    BY <2>1, <2>2 DEF IsCell, BaseOK
  <2> HIDE DEF c, e
  <2>7. /\ DOMAIN pit' \subseteq Keys /\ \A j \in DOMAIN pit' : IsPitEntry(pit'[j])
        /\ timers' \in [Keys -> SUBSET Event]
        /\ TimerDiscipline'
    BY <2>1, <2>3, <2>4, <2>5, <2>6, CellReplaced
  <2>8. BaseOK'
    BY <1>1, <1>3, <2>7 DEF ReceivedOn, InterestLoop, BaseOK
  <2> QED
    BY <2>7, <2>8
<1> QED
  BY <1>2, <1>3

(* onContentStoreHit. *)
LEMMA ContentStoreHitStep ==
  ASSUME IInv, budget' \in Nat, NEW f \in Faces, NEW i \in Interests, NEW d \in Datas,
         ContentStoreHit(f, i, d)
  PROVE  IInv'
<1> USE DEF IInv
<1> DEFINE k == i.key
           q == cancelUnsatisfyAndStragglerTimer(PitCell(k))
           c == setStragglerTimer(q, TRUE, d.freshness)
<1>1. k \in Keys /\ now \in Nat /\ d.freshness \in Int
  BY ForwarderAssumption DEF Keys, BaseOK
<1>2. /\ IsCell(q) /\ q.timers = {}
      /\ q.entry.unsatisfyTimer = NoTimer /\ q.entry.stragglerTimer = NoTimer
      /\ q.entry.inRecords = PitCell(k).entry.inRecords
  BY <1>1, CancelClears
<1>3. DOMAIN q.entry.inRecords = {}
  BY <1>2 DEF ContentStoreHit, isPending
<1>4. pit' = PitPut(k, c.entry) /\ timers' = [timers EXCEPT ![k] = c.timers]
  BY DEF ContentStoreHit
<1> HIDE DEF q
<1>5. IsCell(c) /\ EntryTimers(c.entry, c.timers)
  BY <1>1, <1>2, <1>3, StragglerArmed
<1> HIDE DEF c
<1>6. now' = now /\ face' = face /\ cs' = cs /\ dnl' = dnl /\ forwarded' = forwarded
  BY DEF ReceivedOn, ContentStoreHit
<1>7. /\ DOMAIN pit' \subseteq Keys /\ \A j \in DOMAIN pit' : IsPitEntry(pit'[j])
      /\ timers' \in [Keys -> SUBSET Event]
      /\ TimerDiscipline'
  BY <1>1, <1>4, <1>5, <1>6, CellReplaced
<1>8. credit' \in [Faces -> Int] /\ budget' \in Nat
  <2>1. Charged(f) \in [Faces -> Int] /\ budget' \in Nat
    BY DEF ReceivedOn, ContentStoreHit, Charged, BaseOK
  <2>2. \A S : Paid(Charged(f), S) \in [Faces -> Int]
    BY <2>1 DEF Paid
  <2> QED
    BY <2>1, <2>2 DEF ContentStoreHit
<1>9. BaseOK'
  BY <1>6, <1>7, <1>8 DEF BaseOK
<1> QED
  BY <1>7, <1>9

(* The cell with the in-record of the Interest that missed the Content Store. *)
LEMMA PendingCellOK ==
  ASSUME IInv, NEW f \in Faces, NEW i \in Interests
  PROVE  LET c == PendingCell(f, i)
         IN  /\ IsCell(c) /\ c.timers = {}
             /\ c.entry.unsatisfyTimer = NoTimer /\ c.entry.stragglerTimer = NoTimer
             /\ DOMAIN c.entry.inRecords = DOMAIN PitCell(i.key).entry.inRecords \cup {f}
             /\ c.entry.inRecords[f].expiry >= now
             /\ c.entry.outRecords = PitCell(i.key).entry.outRecords
<1> USE DEF IInv
<1> DEFINE k == i.key
           q == cancelUnsatisfyAndStragglerTimer(PitCell(k))
           c == PendingCell(f, i)
<1>1. k \in Keys /\ now \in Nat
  BY DEF Keys, BaseOK
<1>2. /\ IsCell(q) /\ q.timers = {}
      /\ q.entry.unsatisfyTimer = NoTimer /\ q.entry.stragglerTimer = NoTimer
      /\ q.entry.inRecords = PitCell(k).entry.inRecords
      /\ q.entry.outRecords = PitCell(k).entry.outRecords
  BY <1>1, CancelClears
<1> DEFINE n == insertOrUpdateInRecord(q.entry, f, i, now)
<1>3. c = [q EXCEPT !.entry = n]
  BY DEF PendingCell
<1> HIDE DEF q
<1>4. /\ IsPitEntry(n)
      /\ DOMAIN n.inRecords = DOMAIN q.entry.inRecords \cup {f}
      /\ n.inRecords[f].expiry >= now
      /\ n.outRecords = q.entry.outRecords
      /\ n.unsatisfyTimer = NoTimer /\ n.stragglerTimer = NoTimer
  BY <1>1, <1>2, InRecordInserted DEF IsCell
<1> HIDE DEF n, c
<1>5. DOMAIN c = {"entry", "timers"} /\ c.entry = n /\ c.timers = {}
  BY <1>2, <1>3 DEF IsCell
<1>6. IsCell(c)
  BY <1>4, <1>5 DEF IsCell
<1> QED
  BY <1>2, <1>4, <1>5, <1>6 DEF c

(* onContentStoreMiss, the strategy included. *)
LEMMA ContentStoreMissStep ==
  ASSUME IInv, budget' \in Nat, NEW f \in Faces, NEW i \in Interests, ContentStoreMiss(f, i)
  PROVE  IInv'
<1> USE DEF IInv
<1> DEFINE k == i.key
           p == PendingCell(f, i)
           e == p.entry
<1>1. k \in Keys /\ now \in Nat
  BY DEF Keys, BaseOK
<1>2. /\ IsCell(p) /\ p.timers = {}
      /\ e.unsatisfyTimer = NoTimer /\ e.stragglerTimer = NoTimer
      /\ f \in DOMAIN e.inRecords /\ e.inRecords[f].expiry >= now
  BY PendingCellOK
<1>3. PICK t \in LastExpiry(e), decision \in afterReceiveInterest(k, e, f, i) :
        \E pick \in [OutgoingInterestFaces(k, e, decision.sends) -> DOMAIN e.inRecords] :
          MissOutcome(f, i, t, decision, pick)
  BY Zenon DEF ContentStoreMiss
<1> DEFINE S == OutgoingInterestFaces(k, e, decision.sends)
           a == setUnsatisfyTimer(p, t)
<1>4. PICK pick \in [S -> DOMAIN e.inRecords] : MissOutcome(f, i, t, decision, pick)
  BY <1>3
<1>5. now' = now /\ face' = face /\ cs' = cs /\ dnl' = dnl /\ budget' \in Nat
  BY DEF ReceivedOn, ContentStoreMiss, BaseOK
<1>6. credit' \in [Faces -> Int] /\ S \in SUBSET Faces
  BY DEF ContentStoreMiss, Charged, BaseOK, OutgoingInterestFaces, Up
<1>7. \E erased :
        /\ pit' = PitPut(k, DecidedCell(a, decision, pick).entry)
        /\ timers' = [timers EXCEPT ![k] = DecidedCell(a, decision, pick).timers]
        /\ forwarded' = (forwarded \ ({k} \X erased))
                          \cup ({k} \X {e.inRecords[pick[g]].nonce : g \in DOMAIN pick})
  BY <1>4 DEF MissOutcome
<1> HIDE DEF p, S
<1>8. t >= now
  BY <1>1, <1>2 DEF LastExpiry, IsCell, IsPitEntry, IsRecordCollection, FaceRecord
<1>9. /\ IsCell(a) /\ EntryTimers(a.entry, a.timers)
      /\ a.entry.inRecords = e.inRecords
  BY <1>1, <1>2, <1>8, UnsatisfyArmed
<1>10. a.entry.stragglerTimer = NoTimer
  BY <1>2 DEF setUnsatisfyTimer, IsCell, IsPitEntry
<1> HIDE DEF a
<1>11. decision.retx \in Nat
  BY <1>2, DecisionType DEF IsCell
<1> DEFINE c == DecidedCell(a, decision, pick)
<1>12. IsCell(c) /\ EntryTimers(c.entry, c.timers)
  BY <1>1, <1>2, <1>4, <1>6, <1>9, <1>10, <1>11, DecidedCellOK
<1>13. pit' = PitPut(k, c.entry) /\ timers' = [timers EXCEPT ![k] = c.timers]
  BY <1>7
<1>14. forwarded' \subseteq Keys \X Nonces
  <2>1. \A g \in S : e.inRecords[pick[g]].nonce \in Nonces
    BY <1>2, <1>4 DEF IsCell, IsPitEntry, IsRecordCollection, FaceRecord
  <2> QED
    BY <2>1, <1>1, <1>4, <1>7 DEF BaseOK
<1> HIDE DEF c
<1>15. /\ DOMAIN pit' \subseteq Keys /\ \A j \in DOMAIN pit' : IsPitEntry(pit'[j])
       /\ timers' \in [Keys -> SUBSET Event]
       /\ TimerDiscipline'
  BY <1>1, <1>5, <1>12, <1>13, CellReplaced
<1>16. BaseOK'
  BY <1>5, <1>6, <1>14, <1>15 DEF BaseOK
<1> QED
  BY <1>15, <1>16

(* The pairs added to the Dead Nonce List are well typed. *)
LEMMA DeadNonceType ==
  ASSUME BaseOK, NEW k \in DOMAIN pit, NEW isSatisfied, NEW freshness, NEW upstreams
  PROVE  insertDeadNonceList(k, pit[k], isSatisfied, freshness, upstreams)
           \subseteq {j.name : j \in Keys} \X Nonces
<1>1. \A g \in DOMAIN pit[k].outRecords : pit[k].outRecords[g].nonce \in Nonces
  BY DEF BaseOK, IsPitEntry, IsRecordCollection, FaceRecord
<1>2. k.name \in {j.name : j \in Keys}
  BY DEF BaseOK
<1> QED
  BY <1>1, <1>2 DEF insertDeadNonceList

(* onInterestFinalize, run by either timer: nothing is left for the key. *)
LEMMA TimerFiresStep ==
  ASSUME IInv, NEW k \in Keys, TimerFires(k)
  PROVE  IInv'
<1> USE DEF IInv
<1>1. PICK event \in timers[k] :
        /\ k \in DOMAIN pit
        /\ \/ onInterestFinalize(k, FALSE, NoFreshness, timers[k] \ {event})
           \/ onInterestFinalize(k, event.satisfied, event.freshness, timers[k] \ {event})
        /\ UNCHANGED <<now, face, fib, cs, credit, budget>>
  BY DEF TimerFires, onInterestUnsatisfied
<1>2. event.satisfied \in BOOLEAN /\ event.freshness \in Int /\ NoFreshness \in Int
  BY <1>1 DEF BaseOK, Event, NoFreshness
<1>3. PICK isSatisfied \in BOOLEAN, freshness \in Int :
        onInterestFinalize(k, isSatisfied, freshness, timers[k] \ {event})
  BY <1>1, <1>2
<1> DEFINE c == cancelUnsatisfyAndStragglerTimer(
                  [entry |-> pit[k], timers |-> timers[k] \ {event}])
           dead == insertDeadNonceList(k, pit[k], isSatisfied, freshness, Faces)
<1>4. /\ dnl' = dnl \cup dead
      /\ timers' = [timers EXCEPT ![k] = c.timers]
      /\ pit' = [j \in DOMAIN pit \ {k} |-> pit[j]]
      /\ forwarded' \subseteq forwarded
  BY <1>3 DEF onInterestFinalize
<1>5. c.timers = {}
  BY <1>1 DEF cancelUnsatisfyAndStragglerTimer, TimerDiscipline, EntryTimers
<1>6. dead \subseteq {j.name : j \in Keys} \X Nonces
  BY <1>1, <1>3, DeadNonceType
<1> HIDE DEF c, dead
<1>7. /\ timers' \in [Keys -> SUBSET Event] /\ timers'[k] = {}
      /\ \A j \in Keys \ {k} : timers'[j] = timers[j]
  BY <1>4, <1>5 DEF BaseOK
<1>8. BaseOK'
  BY <1>1, <1>4, <1>6, <1>7 DEF BaseOK
<1>9. TimerDiscipline'
  BY <1>1, <1>4, <1>7 DEF TimerDiscipline, EntryTimers, LastExpiry
<1> QED
  BY <1>8, <1>9

(* The clock advances only when every scheduled event is in the future. *)
LEMMA TickStep ==
  ASSUME IInv, Tick
  PROVE  IInv'
<1> USE DEF IInv
<1>1. now \in Nat /\ now' = now + 1 /\ pit' = pit /\ timers' = timers
  BY DEF Tick, BaseOK
<1>2. BaseOK'
  BY <1>1 DEF Tick, BaseOK
<1>3. ASSUME NEW k \in Keys, k \in DOMAIN pit
      PROVE  EntryTimers(pit[k], timers[k])'
  <2> DEFINE e == pit[k]
  <2>1. EntryTimers(e, timers[k]) /\ IsPitEntry(e)
    BY <1>3 DEF TimerDiscipline, BaseOK
  <2>2. \A event \in timers[k] : event.due \in Nat /\ event.due > now
    BY DEF Tick, BaseOK, Event
  <2> HIDE DEF e
  <2>3. e.unsatisfyTimer # NoTimer => e.unsatisfyTimer.due >= now + 1
    BY <1>1, <2>1, <2>2 DEF EntryTimers
  <2>4. e.stragglerTimer # NoTimer =>
          e.stragglerTimer.due \in (now + 1) .. (now + 1 + StragglerTime)
    BY <1>1, <2>1, <2>2, ForwarderAssumption DEF EntryTimers
  <2>5. pit[k]' = e /\ timers[k]' = timers[k] /\ LastExpiry(e)' = LastExpiry(pit[k]')
    BY <1>1 DEF e, LastExpiry
  <2> QED
    BY <1>1, <2>1, <2>3, <2>4 DEF EntryTimers, LastExpiry, e
<1>4. TimerDiscipline'
  BY <1>1, <1>3 DEF TimerDiscipline
<1> QED
  BY <1>2, <1>4

(* The loop of onIncomingData over the entries that Data satisfies, whichever *)
(* entries these are.                                                         *)
LEMMA EntriesSatisfied ==
  ASSUME IInv, NEW f, NEW d \in Datas, NEW matches \in SUBSET DOMAIN pit,
         now' = now, face' = face, budget' \in Nat,
         pit' = [k \in DOMAIN pit |-> IF k \in matches THEN SatisfiedCell(k, f, d).entry ELSE pit[k]],
         timers' = [k \in Keys |-> IF k \in matches THEN SatisfiedCell(k, f, d).timers ELSE timers[k]],
         dnl' = dnl \cup UNION {insertDeadNonceList(k, pit[k], TRUE, d.freshness, {f}) : k \in matches},
         forwarded' \subseteq forwarded, credit' \in [Faces -> Int]
  PROVE  IInv'
<1> USE DEF IInv
<1> DEFINE dead(k) == insertDeadNonceList(k, pit[k], TRUE, d.freshness, {f})
           c(k) == SatisfiedCell(k, f, d)
<1>1. matches \subseteq DOMAIN pit /\ DOMAIN pit \subseteq Keys
  BY DEF BaseOK
<1>2. /\ pit' = [k \in DOMAIN pit |-> IF k \in matches THEN c(k).entry ELSE pit[k]]
      /\ timers' = [k \in Keys |-> IF k \in matches THEN c(k).timers ELSE timers[k]]
      /\ dnl' = dnl \cup UNION {dead(k) : k \in matches}
  OBVIOUS
<1>3. ASSUME NEW k \in matches
      PROVE  IsCell(c(k)) /\ EntryTimers(c(k).entry, c(k).timers)
  BY <1>1, SatisfiedCellOK
<1>4. ASSUME NEW k \in matches
      PROVE  dead(k) \subseteq {j.name : j \in Keys} \X Nonces
  BY <1>1, DeadNonceType
<1> HIDE DEF c, dead
<1>5. /\ \A k \in DOMAIN pit' : IsPitEntry(pit'[k])
      /\ timers' \in [Keys -> SUBSET Event]
  BY <1>1, <1>2, <1>3 DEF BaseOK, IsCell
<1>6. dnl' \subseteq {k.name : k \in Keys} \X Nonces
  <2>1. \A x \in UNION {dead(k) : k \in matches} : x \in {k.name : k \in Keys} \X Nonces
    BY <1>4, Zenon
  <2>2. dnl \subseteq {k.name : k \in Keys} \X Nonces
    BY DEF BaseOK
  <2> QED
    BY <1>2, <2>1, <2>2, Zenon
<1>7. BaseOK'
  BY <1>1, <1>2, <1>5, <1>6 DEF BaseOK
<1>8. TimerDiscipline'
  <2> SUFFICES ASSUME NEW k \in Keys
               PROVE  IF k \in DOMAIN pit' THEN EntryTimers(pit[k], timers[k])'
                      ELSE timers'[k] = {}
    BY DEF TimerDiscipline
  <2>1. CASE k \in matches
    BY <2>1, <1>1, <1>2, <1>3 DEF EntryTimers, LastExpiry
  <2>2. CASE k \notin matches
    BY <2>2, <1>1, <1>2 DEF TimerDiscipline, EntryTimers, LastExpiry
  <2> QED
    BY <2>1, <2>2
<1> QED
  BY <1>7, <1>8

(* onIncomingData on matching PIT entries. *)
LEMMA DataSatisfiesStep ==
  ASSUME IInv, budget' \in Nat, NEW f \in Faces, NEW d \in Datas, DataSatisfies(f, d)
  PROVE  IInv'
<1> DEFINE matches == findAllDataMatches(d)
<1>1. matches \in SUBSET DOMAIN pit
  BY DEF findAllDataMatches
<1>2. /\ pit' = [k \in DOMAIN pit |-> IF k \in matches THEN SatisfiedCell(k, f, d).entry ELSE pit[k]]
      /\ timers' = [k \in Keys |-> IF k \in matches THEN SatisfiedCell(k, f, d).timers ELSE timers[k]]
      /\ dnl' = dnl \cup UNION {insertDeadNonceList(k, pit[k], TRUE, d.freshness, {f}) : k \in matches}
  BY Zenon DEF DataSatisfies
<1>3. ReceivedOn(f) /\ \E S : forwarded' = forwarded \ S
  BY Zenon DEF DataSatisfies
<1>4. credit' \in [Faces -> Int]
  BY DEF DataSatisfies, Paid, IInv, BaseOK
<1>5. now' = now /\ face' = face /\ forwarded' \subseteq forwarded
  BY <1>3 DEF ReceivedOn
<1> HIDE DEF matches
<1> QED
  BY <1>1, <1>2, <1>4, <1>5, EntriesSatisfied

(* The steps that leave the clock, the PIT and the scheduler alone. *)
LEMMA TablesUntouchedStep ==
  ASSUME IInv, UNCHANGED <<now, pit, timers>>,
         budget' \in Nat, face' \in [Faces -> {"new", "up", "closed"}],
         dnl' \subseteq dnl,
         forwarded' \subseteq forwarded, credit' = credit
  PROVE  IInv'
<1>1. BaseOK'
  BY DEF IInv, BaseOK
<1>2. TimerDiscipline'
  BY DEF IInv, TimerDiscipline, EntryTimers, LastExpiry
<1> QED
  BY <1>1, <1>2 DEF IInv

(* Timers, the clock, and management and eviction of the tables. *)
LEMMA LocalStep ==
  ASSUME IInv,
         \/ \E k \in Keys : TimerFires(k)
         \/ Tick
         \/ \E f \in Faces : FaceAdd(f) \/ FaceRemove(f)
         \/ \E r \in Routes : FibAddNextHop(r) \/ FibRemoveNextHop(r)
         \/ \E d : CsEvict(d)
         \/ UNCHANGED vars
  PROVE  IInv'
<1>1. CASE \E k \in Keys : TimerFires(k)
  BY <1>1, TimerFiresStep
<1>2. CASE Tick
  BY <1>2, TickStep
<1>3. CASE \E f \in Faces : FaceAdd(f) \/ FaceRemove(f)
  BY <1>3, TablesUntouchedStep DEF FaceAdd, FaceRemove, IInv, BaseOK
<1>4. CASE \E r \in Routes : FibAddNextHop(r) \/ FibRemoveNextHop(r)
  BY <1>4, TablesUntouchedStep DEF FibAddNextHop, FibRemoveNextHop, IInv, BaseOK
<1>5. CASE \E d : CsEvict(d)
  BY <1>5, TablesUntouchedStep DEF CsEvict, IInv, BaseOK
<1>6. CASE UNCHANGED vars
  BY <1>6, TablesUntouchedStep DEF vars, IInv, BaseOK
<1> QED
  BY <1>1, <1>2, <1>3, <1>4, <1>5, <1>6

(* Only Data that arrived is cached. *)
LEMMA CsStep ==
  ASSUME CsOK, [Next]_vars
  PROVE  CsOK'
<1>1. CASE cs' = cs
  BY <1>1 DEF CsOK
<1>2. ASSUME NEW f \in Faces, NEW d \in Datas, DataStep(f, d)
      PROVE  CsOK'
  <2>1. cs' = cs \/ \E solicited : cs' = CsInsert(cs, d, solicited, now)
    BY <1>2, Zenon DEF DataStep, DropLocalhostData, onDataUnsolicited, DataSatisfies
  <2> QED
    BY <1>1, <2>1 DEF CsInsert, CsOK
<1>3. ASSUME NEW f \in Faces, NEW i \in Interests, InterestStep(f, i)
      PROVE  cs' = cs
  BY <1>3, Zenon DEF InterestStep, DropLocalhostInterest, InterestLoop, ContentStoreMiss, ContentStoreHit
<1>4. ASSUME NEW d, CsEvict(d)
      PROVE  CsOK'
  BY <1>4 DEF CsEvict, CsOK
<1> QED
  BY <1>1, <1>2, <1>3, <1>4
     DEF Next, TimerFires, Tick, FaceAdd, FaceRemove, FibAddNextHop, FibRemoveNextHop, DnlEvict, vars

(* Every step preserves the inductive invariant. *)
LEMMA InvariantStep ==
  ASSUME IInv, CsOK, [Next]_vars
  PROVE  IInv'
<1>0. Arrival => budget' \in Nat
  BY DEF Arrival, IInv, BaseOK
<1>1. ASSUME NEW f \in Faces, NEW i \in Interests, Arrival, InterestStep(f, i)
      PROVE  IInv'
  <2>1. ASSUME NEW d \in DOMAIN cs, ContentStoreHit(f, i, d)
        PROVE  IInv'
    BY <1>0, <1>1, <2>1, ContentStoreHitStep DEF CsOK
  <2> QED
    BY <1>1, <1>0, <2>1, DroppedInterestStep, ContentStoreMissStep DEF InterestStep
<1>2. ASSUME NEW f \in Faces, NEW d \in Datas, Arrival, DataStep(f, d)
      PROVE  IInv'
  <2>1. CASE DropLocalhostData(f, d) \/ onDataUnsolicited(f, d)
    BY <1>0, <1>2, <2>1, TablesUntouchedStep
       DEF DropLocalhostData, onDataUnsolicited, ReceivedOn, IInv, BaseOK
  <2> QED
    BY <1>2, <1>0, <2>1, DataSatisfiesStep DEF DataStep
<1>3. CASE \E p \in dnl : DnlEvict(p)
  BY <1>3, TablesUntouchedStep DEF DnlEvict, IInv, BaseOK
<1> QED
  BY <1>1, <1>2, <1>3, LocalStep DEF Next

(* The inductive invariant holds in the initial state. *)
LEMMA InvariantInit ==
  ASSUME Init
  PROVE  IInv /\ CsOK
<1>1. BaseOK
  BY ForwarderAssumption DEF Init, BaseOK
<1>2. TimerDiscipline
  BY DEF Init, TimerDiscipline
<1>3. CsOK
  BY DEF Init, CsOK, EmptyStore
<1> QED
  BY <1>1, <1>2, <1>3 DEF IInv

(* Type correctness and the timer discipline together. *)
LEMMA Invariance == Spec => [](IInv /\ CsOK)
<1> QED
  BY InvariantInit, InvariantStep, CsStep, PTL DEF Spec

(* Type correctness: every table of the forwarder keeps its type through every *)
(* pipeline; in particular no record ever has an expiry before the epoch.      *)
THEOREM TypeCorrect == Spec => []TypeOK
<1>1. IInv /\ CsOK => TypeOK
  BY DEF IInv, CsOK, BaseOK, TypeOK
<1> QED
  BY <1>1, Invariance, PTL

(* The scheduler holds exactly the events that PIT entries can cancel, and an  *)
(* entry with records has one armed timer: no callback of the pipelines runs   *)
(* for an entry that has been erased, and no entry with records is leaked.     *)
THEOREM TimersDisciplined == Spec => []TimerDiscipline
<1>1. IInv => TimerDiscipline
  BY DEF IInv
<1> QED
  BY <1>1, Invariance, PTL

-----------------------------------------------------------------------------
(* A step erases an entry that still has an unexpired in-record only if the *)
(* straggler timer of a rejected Interest is armed.                         *)
LEMMA NoPrematureExpiryStep ==
  ASSUME IInv, Next, NEW k \in DOMAIN pit, k \notin DOMAIN pit',
         PendingDownstreams(pit[k]) # {}
  PROVE  pit[k].stragglerTimer # NoTimer /\ ~pit[k].stragglerTimer.satisfied
<1> USE DEF IInv
<1>1. k \in Keys /\ IsPitEntry(pit[k]) /\ EntryTimers(pit[k], timers[k])
  BY DEF BaseOK, TimerDiscipline
<1>2. TimerFires(k)
  <2>1. ASSUME NEW f \in Faces, NEW i \in Interests, InterestStep(f, i)
        PROVE  k \in DOMAIN pit'
    <3>1. CASE DropLocalhostInterest(f, i)
      BY <3>1 DEF DropLocalhostInterest
    <3>2. CASE InterestLoop(f, i)
      BY <3>2 DEF InterestLoop, PitPut
    <3>3. CASE ContentStoreMiss(f, i)
      <4>1. \E t, decision, pick : MissOutcome(f, i, t, decision, pick)
        BY <3>3, Zenon DEF ContentStoreMiss
      <4> QED
        BY <4>1 DEF MissOutcome, PitPut
    <3>4. ASSUME NEW d \in DOMAIN cs, ContentStoreHit(f, i, d)
          PROVE  k \in DOMAIN pit'
      BY <3>4 DEF ContentStoreHit, PitPut
    <3> QED
      BY <2>1, <3>1, <3>2, <3>3, <3>4 DEF InterestStep
  <2>2. ASSUME NEW f \in Faces, NEW d \in Datas, DataStep(f, d)
        PROVE  k \in DOMAIN pit'
    BY <2>2 DEF DataStep, DropLocalhostData, onDataUnsolicited, DataSatisfies
  <2>3. ASSUME NEW j \in Keys, TimerFires(j), j # k
        PROVE  k \in DOMAIN pit'
    BY <2>3 DEF TimerFires, onInterestUnsatisfied, onInterestFinalize
  <2> QED
    BY <2>1, <2>2, <2>3
       DEF Next, Tick, FaceAdd, FaceRemove, FibAddNextHop, FibRemoveNextHop, CsEvict, DnlEvict
<1>3. PICK event \in timers[k] : event.due =< now
  BY <1>2 DEF TimerFires
<1> DEFINE e == pit[k]
<1>4. event # NoTimer /\ (event = e.unsatisfyTimer \/ event = e.stragglerTimer)
  BY <1>1 DEF EntryTimers
<1>5. e.unsatisfyTimer = NoTimer
  <2> SUFFICES ASSUME e.unsatisfyTimer # NoTimer
               PROVE  FALSE
    OBVIOUS
  <2>1. event.due = now /\ event.due \in LastExpiry(e) /\ now \in Nat
    BY <1>1, <1>3, <1>4 DEF EntryTimers, BaseOK, Event, IsPitEntry
  <2>2. \A f \in DOMAIN e.inRecords : e.inRecords[f].expiry \in Nat
    BY <1>1 DEF IsPitEntry, IsRecordCollection, FaceRecord
  <2> QED
    BY <2>1, <2>2 DEF LastExpiry, PendingDownstreams
<1> QED
  BY <1>1, <1>4, <1>5 DEF EntryTimers, PendingDownstreams

(* No pipeline, timer or table operation gives up a downstream that still      *)
(* waits, except after the strategy rejected its Interest.                     *)
THEOREM PrematureExpiryExcluded == Spec => NoPrematureExpiry
<1>1. ASSUME IInv, [Next]_vars
      PROVE  [\A k \in DOMAIN pit :
                k \notin DOMAIN pit' /\ PendingDownstreams(pit[k]) # {} =>
                  pit[k].stragglerTimer # NoTimer /\ ~pit[k].stragglerTimer.satisfied]_vars
  BY <1>1, NoPrematureExpiryStep
<1> QED
  BY <1>1, Invariance, PTL DEF Spec, NoPrematureExpiry

(* Removing the next hops to a face keeps FIB entries that are not empty. *)
LEMMA NextHopsRemoved ==
  ASSUME NEW table, NEW S, NEW f,
         \A p \in DOMAIN table : DOMAIN table[p] # {}
  PROVE  LET t == removeNextHopFromEntries(table, S, f)
         IN  /\ DOMAIN t \subseteq DOMAIN table
             /\ \A p \in DOMAIN t : /\ DOMAIN t[p] # {}
                                    /\ DOMAIN t[p] \subseteq DOMAIN table[p]
                                    /\ p \in S => f \notin DOMAIN t[p]
BY DEF removeNextHopFromEntries, WithoutFace

(* Faces only become "up" by FaceAdd, and only stop to be by FaceRemove, which *)
(* clears their next hops in the same step.                                    *)
LEMMA FibFacesUpStep ==
  ASSUME BaseOK, FibFacesUp, [Next]_vars
  PROVE  FibFacesUp'
<1>1. CASE UNCHANGED <<face, fib>>
  BY <1>1 DEF FibFacesUp, Up
<1>2. ASSUME NEW f \in Faces, FaceAdd(f)
      PROVE  FibFacesUp'
  BY <1>2 DEF FaceAdd, FibFacesUp, Up, BaseOK
<1>3. ASSUME NEW f \in Faces, FaceRemove(f)
      PROVE  FibFacesUp'
  <2>1. fib' = removeNextHopFromEntries(fib, DOMAIN fib, f) /\ Up \ {f} \subseteq Up'
    BY <1>3 DEF FaceRemove, removeNextHopFromAllEntries, Up, BaseOK
  <2>2. \A p \in DOMAIN fib : DOMAIN fib[p] # {} /\ DOMAIN fib[p] \subseteq Up
    BY DEF FibFacesUp
  <2>3. /\ DOMAIN fib' \subseteq DOMAIN fib
        /\ \A p \in DOMAIN fib' : /\ DOMAIN fib'[p] # {}
                                  /\ DOMAIN fib'[p] \subseteq DOMAIN fib[p]
                                  /\ f \notin DOMAIN fib'[p]
    <3> DEFINE t == removeNextHopFromEntries(fib, DOMAIN fib, f)
    <3>1. /\ DOMAIN t \subseteq DOMAIN fib
          /\ \A p \in DOMAIN t : /\ DOMAIN t[p] # {}
                                 /\ DOMAIN t[p] \subseteq DOMAIN fib[p]
                                 /\ p \in DOMAIN fib => f \notin DOMAIN t[p]
      BY <2>2, NextHopsRemoved
    <3> QED
      BY <2>1, <3>1
  <2> QED
    BY <2>1, <2>2, <2>3 DEF FibFacesUp
<1>4. ASSUME NEW r \in Routes, FibAddNextHop(r)
      PROVE  FibFacesUp'
  <2>1. fib' = addNextHop(fib, r.prefix, r.face, r.cost) /\ Up' = Up /\ r.face \in Up
    BY <1>4, ForwarderAssumption DEF FibAddNextHop, Up
  <2>2. \A p \in DOMAIN fib' :
          IF p = r.prefix
          THEN DOMAIN fib'[p] = DOMAIN findExactMatch(fib, p) \cup {r.face}
          ELSE p \in DOMAIN fib /\ fib'[p] = fib[p]
    BY <2>1 DEF addNextHop
  <2>3. DOMAIN findExactMatch(fib, r.prefix) \subseteq Up
    BY DEF findExactMatch, FibFacesUp, NoNextHops
  <2>4. ASSUME NEW p \in DOMAIN fib'
        PROVE  DOMAIN fib'[p] # {} /\ DOMAIN fib'[p] \subseteq Up
    <3>1. CASE p = r.prefix
      <4>1. DOMAIN fib'[p] = DOMAIN findExactMatch(fib, p) \cup {r.face}
        BY <2>2, <3>1
      <4> QED
        BY <2>1, <2>3, <3>1, <4>1
    <3>2. CASE p # r.prefix
      <4>1. p \in DOMAIN fib /\ fib'[p] = fib[p]
        BY <2>2, <3>2
      <4> QED
        BY <4>1 DEF FibFacesUp
    <3> QED
      BY <3>1, <3>2
  <2> QED
    BY <2>1, <2>4 DEF FibFacesUp
<1>5. ASSUME NEW r \in Routes, FibRemoveNextHop(r)
      PROVE  FibFacesUp'
  <2> DEFINE S == {r.prefix}
  <2>1. fib' = removeNextHopFromEntries(fib, S, r.face) /\ Up' = Up
    BY <1>5 DEF FibRemoveNextHop, Up
  <2> HIDE DEF S
  <2>2. \A p \in DOMAIN fib : DOMAIN fib[p] # {} /\ DOMAIN fib[p] \subseteq Up
    BY DEF FibFacesUp
  <2>3. /\ DOMAIN fib' \subseteq DOMAIN fib
        /\ \A p \in DOMAIN fib' : /\ DOMAIN fib'[p] # {}
                                  /\ DOMAIN fib'[p] \subseteq DOMAIN fib[p]
                                  /\ p \in S => r.face \notin DOMAIN fib'[p]
    BY <2>1, <2>2, NextHopsRemoved
  <2> QED
    BY <2>1, <2>2, <2>3 DEF FibFacesUp
<1>6. CASE \E f \in Faces, i \in Interests : InterestStep(f, i)
  <2>1. UNCHANGED <<face, fib>>
    <3>1. PICK f \in Faces, i \in Interests : InterestStep(f, i)
      BY <1>6
    <3>2. CASE DropLocalhostInterest(f, i)
      BY <3>2, Zenon DEF DropLocalhostInterest, ReceivedOn
    <3>3. CASE InterestLoop(f, i)
      BY <3>3, Zenon DEF InterestLoop, ReceivedOn
    <3>4. CASE ContentStoreMiss(f, i)
      BY <3>4, Zenon DEF ContentStoreMiss, ReceivedOn
    <3>5. CASE \E d \in DOMAIN cs : ContentStoreHit(f, i, d)
      BY <3>5, Zenon DEF ContentStoreHit, ReceivedOn
    <3> QED
      BY <3>1, <3>2, <3>3, <3>4, <3>5, Zenon DEF InterestStep
  <2> QED
    BY <1>1, <2>1
<1>7. CASE \E f \in Faces, d \in Datas : DataStep(f, d)
  <2>1. UNCHANGED <<face, fib>>
    BY <1>7, Zenon DEF ReceivedOn, DataStep, DropLocalhostData, onDataUnsolicited, DataSatisfies
  <2> QED
    BY <1>1, <2>1
<1> QED
  BY <1>1, <1>2, <1>3, <1>4, <1>5, <1>6, <1>7
     DEF Next, TimerFires, Tick, CsEvict, DnlEvict, vars

(* No FIB entry names a face that has left the face table, and none is empty:  *)
(* the loop over next hops in the strategies never meets a closed face.        *)
THEOREM FibNamesUpFaces == Spec => []FibFacesUp
<1>1. Init => FibFacesUp
  BY DEF Init, FibFacesUp
<1>2. IInv => BaseOK
  BY DEF IInv
<1> QED
  BY <1>1, <1>2, FibFacesUpStep, Invariance, PTL DEF Spec

=============================================================================

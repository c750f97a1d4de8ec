-------------------------- MODULE StrategiesProofs --------------------------
(***************************************************************************)
(* Proofs about Strategies, what the NCC and the access strategy take for  *)
(* granted about their timers and next hops, and about ContentStore, that  *)
(* the replacement policies keep what the table holds.  The two share no   *)
(* state.                                                                  *)
(*                                                                         *)
(* AssumptionsHold is not inductive.  A handle that stands for an event    *)
(* that is gone may come to stand for another one that gets its EventId,   *)
(* and to cancel it.  The invariant says that every handle of a PIT entry  *)
(* stands for nothing or for an event of its own kind, that EventIds are   *)
(* those of one event, and that one is left to be given out.               *)
(*                                                                         *)
(* QueuesMatchTable is not inductive either: which queue an entry belongs  *)
(* to, and that the time its event has left is the time until it is stale, *)
(* must be known before an entry is detached, moved or evicted.  Within an *)
(* operation some entry is in no queue yet: Kept(s, pol, D) is about the   *)
(* packets D that are.                                                     *)
(***************************************************************************)
EXTENDS Strategies, ContentStore, FiniteSetTheorems, NaturalsInduction, SequenceTheorems,
        WellFoundedInduction, TLAPS

TimersOK(ts) ==
  /\ IsFiniteSet(ts) /\ \A t \in ts : t.id \in Nat /\ t.id > 0
  /\ \A t, u \in ts : t.id = u.id => t = u

Held(h, kind, ts) == h = NoTimer \/ \E t \in ts : t.id = h /\ t.kind = kind

HandlesOK(e, ts) ==
  /\ Held(e.rto, "rtoTimer", ts)
  /\ e.ncc # NoInfo => /\ Held(e.ncc.bestFaceTimeout, "bestFaceTimeout", ts)
                       /\ Held(e.ncc.propagateTimer, "propagateTimer", ts)
  /\ \A t \in ts : t.kind = "rtoTimer" => e.rto = t.id

EntryOK(e, ts) == e \in PitEntries /\ TimersOK(ts) /\ HandlesOK(e, ts)

EventsOK(e, ts) ==
  IF e = NoEntry THEN TimersOK(ts) /\ \A t \in ts : t.kind # "rtoTimer" ELSE EntryOK(e, ts)

(* The inductive invariant. *)
StInv ==
  /\ hops \in Seq(Faces) /\ EventsOK(pit, timers) /\ Cardinality(timers) =< MaxTimers
  /\ fault # "nUpstreams"

-----------------------------------------------------------------------------
(* An EventId is left as long as one more event is scheduled than MaxTimers.  *)
LEMMA FreshIdFound ==
  ASSUME NEW ts, TimersOK(ts), Cardinality(ts) =< MaxTimers + 1
  PROVE  /\ FreshId(ts) \in Nat /\ FreshId(ts) > 0
         /\ \A t \in ts : t.id # FreshId(ts)
<1> DEFINE I == 1 .. MaxTimers + 2
           ids == {t.id : t \in ts}
<1>0. MaxTimers \in Nat
  BY StrategiesAssumption
<1>1. IsFiniteSet(ts) /\ Cardinality(ts) \in Nat
  BY FS_CardinalityType DEF TimersOK
<1>2. IsFiniteSet(ids) /\ Cardinality(ids) \in Nat /\ Cardinality(ids) =< Cardinality(ts)
  <2> DEFINE f == [t \in ts |-> t.id]
  <2>1. f \in Surjection(ts, ids)
    BY DEF Surjection
  <2> HIDE DEF f, ids
  <2>2. IsFiniteSet(ids) /\ Cardinality(ids) =< Cardinality(ts)
    BY <1>1, <2>1, FS_Surjection DEF ExistsSurjection
  <2> QED
    BY <2>2, FS_CardinalityType
<1>3. IsFiniteSet(I) /\ Cardinality(I) = MaxTimers + 2
  BY <1>0, FS_Interval
<1>4. \E i \in I : i \notin ids
  <2> SUFFICES ASSUME I \subseteq ids PROVE FALSE
    OBVIOUS
  <2> HIDE DEF I, ids
  <2>1. Cardinality(I) =< Cardinality(ids)
    BY <1>2, FS_Subset
  <2> QED
    BY <1>0, <1>1, <1>2, <1>3, <2>1
<1>5. \E i \in I : \A t \in ts : t.id # i
  BY <1>4
<1>6. FreshId(ts) \in I /\ \A t \in ts : t.id # FreshId(ts)
  BY <1>5 DEF FreshId
<1> QED
  BY <1>0, <1>6

LEMMA ScheduledOK ==
  ASSUME NEW ts, TimersOK(ts), Cardinality(ts) =< MaxTimers + 1, NEW kind, NEW except
  PROVE  /\ TimersOK(scheduled(ts, kind, except))
         /\ Cardinality(scheduled(ts, kind, except)) =< Cardinality(ts) + 1
         /\ Held(FreshId(ts), kind, scheduled(ts, kind, except))
<1> DEFINE i == FreshId(ts)
           t0 == [id |-> i, kind |-> kind, except |-> except]
<1>1. i \in Nat /\ i > 0 /\ \A t \in ts : t.id # i
  BY FreshIdFound
<1> HIDE DEF i
<1>2. t0.id = i /\ t0.kind = kind
  OBVIOUS
<1>3. scheduled(ts, kind, except) = ts \cup {t0}
  BY DEF scheduled, i
<1> HIDE DEF t0
<1>4. IsFiniteSet(ts \cup {t0}) /\ Cardinality(ts \cup {t0}) =< Cardinality(ts) + 1
  <2>1. IsFiniteSet(ts) /\ Cardinality(ts) \in Nat
    BY FS_CardinalityType DEF TimersOK
  <2> QED
    BY <2>1, FS_AddElement
<1>5. TimersOK(ts \cup {t0})
  BY <1>1, <1>2, <1>4 DEF TimersOK
<1>6. Held(i, kind, ts \cup {t0})
  BY <1>2 DEF Held
<1> QED
  BY <1>3, <1>4, <1>5, <1>6 DEF i

LEMMA HeldStays ==
  ASSUME NEW h, NEW kind, NEW ts, Held(h, kind, ts), NEW us, ts \subseteq us
  PROVE  Held(h, kind, us)
  BY DEF Held

(* Scheduling keeps the handles that there are. *)
LEMMA HandlesStay ==
  ASSUME NEW e, NEW ts, HandlesOK(e, ts), NEW kind, NEW except, kind # "rtoTimer"
  PROVE  HandlesOK(e, scheduled(ts, kind, except))
<1> DEFINE t0 == [id |-> FreshId(ts), kind |-> kind, except |-> except]
<1>1. scheduled(ts, kind, except) = ts \cup {t0} /\ t0.kind = kind
  BY DEF scheduled
<1> HIDE DEF t0
<1> QED
  BY <1>1 DEF HandlesOK, Held

LEMMA CancelledOK ==
  ASSUME NEW ts, TimersOK(ts), NEW us, us \subseteq ts
  PROVE  TimersOK(us) /\ Cardinality(us) =< Cardinality(ts)
<1>1. IsFiniteSet(us) /\ Cardinality(us) =< Cardinality(ts)
  BY FS_Subset DEF TimersOK
<1> QED
  BY <1>1 DEF TimersOK

(* Handles of an event that is cancelled or has run, and those of others. *)
LEMMA ReleasedOK ==
  ASSUME NEW e, NEW ts, EntryOK(e, ts), NEW i
  PROVE  EntryOK(released(e, i), cancelled(ts, i))
<1> DEFINE Off(h) == IF h = i THEN NoTimer ELSE h
           us == cancelled(ts, i)
           d == released(e, i)
<1>1. e \in PitEntries /\ TimersOK(ts) /\ HandlesOK(e, ts)
  BY DEF EntryOK
<1>2. /\ d \in PitEntries /\ d.rto = Off(e.rto)
      /\ e.ncc = NoInfo => d.ncc = NoInfo
      /\ e.ncc # NoInfo => /\ d.ncc.bestFaceTimeout = Off(e.ncc.bestFaceTimeout)
                           /\ d.ncc.propagateTimer = Off(e.ncc.propagateTimer)
  BY <1>1 DEF released, PitEntries, NccInfos, NoTimer
<1>3. us = {t \in ts : t.id # i}
  BY DEF cancelled
<1>4. TimersOK(us)
  BY <1>1, <1>3, CancelledOK
<1> HIDE DEF us, d
<1>5. ASSUME NEW h, NEW kind, Held(h, kind, ts) PROVE Held(Off(h), kind, us)
  BY <1>3, <1>5 DEF Held
<1>6. \A t \in us : t.kind = "rtoTimer" => Off(e.rto) = t.id
  BY <1>1, <1>3 DEF HandlesOK
<1> HIDE DEF Off
<1>7. HandlesOK(d, us)
  BY <1>1, <1>2, <1>5, <1>6 DEF HandlesOK
<1> QED
  BY <1>2, <1>4, <1>7 DEF EntryOK, d, us

-----------------------------------------------------------------------------
(* Changes of an entry that leave its handles alone. *)
SameHandles(e, d) == d \in PitEntries /\ d.rto = e.rto /\ d.ncc = e.ncc

LEMMA HandlesKept ==
  ASSUME NEW e, NEW d, NEW ts, EntryOK(e, ts), SameHandles(e, d)
  PROVE  EntryOK(d, ts)
  BY DEF EntryOK, SameHandles, HandlesOK

LEMMA OutsTyped ==
  ASSUME NEW D \in SUBSET Faces, NEW f \in [D -> SUBSET Faces]
  PROVE  f \in UNION {[E -> SUBSET Faces] : E \in SUBSET Faces}
  OBVIOUS

LEMMA OutsOfEntry ==
  ASSUME NEW e \in PitEntries
  PROVE  DOMAIN e.outs \in SUBSET Faces /\ e.outs \in [DOMAIN e.outs -> SUBSET Faces]
<1>1. e.outs \in UNION {[E -> SUBSET Faces] : E \in SUBSET Faces}
  BY DEF PitEntries
<1>2. PICK D \in SUBSET Faces : e.outs \in [D -> SUBSET Faces]
  BY <1>1
<1> QED
  BY <1>2

LEMMA SentOK ==
  ASSUME NEW e \in PitEntries, NEW fs \in SUBSET Faces
  PROVE  /\ SameHandles(e, sentToAll(e, fs))
         /\ DOMAIN sentToAll(e, fs).outs = DOMAIN e.outs \cup fs
<1> DEFINE outs == [g \in DOMAIN e.outs \cup fs |-> IF g \in fs THEN e.ins ELSE e.outs[g]]
<1>1. outs \in [DOMAIN e.outs \cup fs -> SUBSET Faces] /\ DOMAIN e.outs \cup fs \in SUBSET Faces
  BY OutsOfEntry DEF PitEntries
<1>2. outs \in UNION {[E -> SUBSET Faces] : E \in SUBSET Faces} /\ DOMAIN outs = DOMAIN e.outs \cup fs
  BY <1>1, OutsTyped
<1>3. sentToAll(e, fs) = [e EXCEPT !.outs = outs, !.old = e.old \ fs]
  BY DEF sentToAll
<1> HIDE DEF outs
<1>4. e.old \ fs \in SUBSET Faces
  BY DEF PitEntries
<1> QED
  BY <1>2, <1>3, <1>4 DEF PitEntries, SameHandles

LEMMA HopsAreFaces ==
  ASSUME hops \in Seq(Faces)
  PROVE  ToSet(hops) \in SUBSET Faces /\ \A e : eligible(e) \in SUBSET Faces
  BY DEF ToSet, eligible

(* Two next hops that differ are two of the list. *)
LEMMA TwoHops ==
  ASSUME hops \in Seq(Faces), NEW f \in ToSet(hops), NEW g \in ToSet(hops), f # g
  PROVE  Len(hops) >= 2
<1>1. Len(hops) \in Nat /\ DOMAIN hops = 1 .. Len(hops)
  OBVIOUS
<1>2. PICK i \in DOMAIN hops : hops[i] = f
  BY DEF ToSet
<1>3. PICK j \in DOMAIN hops : hops[j] = g
  BY DEF ToSet
<1>4. i # j
  BY <1>2, <1>3
<1> QED
  BY <1>1, <1>4

-----------------------------------------------------------------------------
(* The worlds that the triggers and timers work on. *)
WorldOK(w) ==
  /\ w = World(w.pit, w.timers, w.mt, w.fault)
  /\ EntryOK(w.pit, w.timers) /\ w.fault # "nUpstreams"

LEMMA WorldGood ==
  ASSUME NEW e, NEW ts, NEW m, NEW d, EntryOK(e, ts), d # "nUpstreams"
  PROVE  WorldOK(World(e, ts, m, d))
<1>1. /\ World(e, ts, m, d).pit = e /\ World(e, ts, m, d).timers = ts
      /\ World(e, ts, m, d).mt = m /\ World(e, ts, m, d).fault = d
  BY DEF World
<1> QED
  BY <1>1, Zenon DEF WorldOK

-----------------------------------------------------------------------------
(* NCC. *)

(* An entry whose PitEntryInfo is made anew holds no event by it. *)
LEMMA InfoMade ==
  ASSUME NEW e, NEW ts, EntryOK(e, ts)
  PROVE  LET d == [e EXCEPT !.ncc = IF @ = NoInfo THEN [bestFaceTimeout |-> NoTimer, propagateTimer |-> NoTimer] ELSE @]
         IN  /\ EntryOK(d, ts) /\ d.ncc \in NccInfos /\ d.ncc # NoInfo
             /\ DOMAIN d.outs = DOMAIN e.outs
<1> DEFINE none == [bestFaceTimeout |-> NoTimer, propagateTimer |-> NoTimer]
           d == [e EXCEPT !.ncc = IF @ = NoInfo THEN none ELSE @]
<1>1. e \in PitEntries /\ HandlesOK(e, ts) /\ TimersOK(ts)
  BY DEF EntryOK
<1>2. none \in NccInfos /\ none.bestFaceTimeout = NoTimer /\ none.propagateTimer = NoTimer
  BY DEF NccInfos, NoTimer
<1> HIDE DEF none
<1>3. none # NoInfo
  BY <1>2, StrategiesAssumption
<1>4. /\ d \in PitEntries /\ d.rto = e.rto /\ d.outs = e.outs
      /\ d.ncc = IF e.ncc = NoInfo THEN none ELSE e.ncc
  BY <1>1, <1>2 DEF PitEntries
<1>5. d.ncc \in NccInfos /\ d.ncc # NoInfo
  <2>1. e.ncc \in NccInfos \cup {NoInfo}
    BY <1>1 DEF PitEntries
  <2> QED
    BY <1>2, <1>3, <1>4, <2>1
<1> HIDE DEF d
<1>6. HandlesOK(d, ts)
  <2>1. CASE e.ncc = NoInfo
    BY <1>1, <1>2, <1>4, <2>1 DEF HandlesOK, Held
  <2>2. CASE e.ncc # NoInfo
    BY <1>1, <1>4, <2>2 DEF HandlesOK
  <2> QED
    BY <2>1, <2>2
<1> QED
  BY <1>1, <1>4, <1>5, <1>6, Zenon DEF EntryOK, d, none

(* New timers whose handles the PitEntryInfo gets. *)
LEMMA InfoReplaced ==
  ASSUME NEW e, NEW ts, EntryOK(e, ts), NEW b \in Nat, NEW q \in Nat,
         Held(b, "bestFaceTimeout", ts), Held(q, "propagateTimer", ts)
  PROVE  EntryOK([e EXCEPT !.ncc = [bestFaceTimeout |-> b, propagateTimer |-> q]], ts)
<1> DEFINE info == [bestFaceTimeout |-> b, propagateTimer |-> q]
           d == [e EXCEPT !.ncc = info]
<1>1. e \in PitEntries /\ HandlesOK(e, ts) /\ TimersOK(ts)
  BY DEF EntryOK
<1>2. info \in NccInfos /\ info.bestFaceTimeout = b /\ info.propagateTimer = q
  BY DEF NccInfos
<1> HIDE DEF info
<1>3. d \in PitEntries /\ d.rto = e.rto /\ d.ncc = info
  BY <1>1, <1>2 DEF PitEntries
<1> HIDE DEF d
<1>4. HandlesOK(d, ts)
  BY <1>1, <1>2, <1>3 DEF HandlesOK
<1> QED
  BY <1>1, <1>3, <1>4, Zenon DEF EntryOK, d, info

LEMMA TimerAdded ==
  ASSUME NEW e, NEW ts, EntryOK(e, ts), Cardinality(ts) =< MaxTimers + 1,
         NEW kind, kind # "rtoTimer", NEW except
  PROVE  LET us == scheduled(ts, kind, except)
         IN  /\ EntryOK(e, us) /\ Cardinality(us) =< Cardinality(ts) + 1
             /\ Held(FreshId(ts), kind, us) /\ FreshId(ts) \in Nat /\ ts \subseteq us
<1>1. e \in PitEntries /\ HandlesOK(e, ts) /\ TimersOK(ts)
  BY DEF EntryOK
<1> DEFINE us == scheduled(ts, kind, except)
<1>2. TimersOK(us) /\ Cardinality(us) =< Cardinality(ts) + 1 /\ Held(FreshId(ts), kind, us)
  BY <1>1, ScheduledOK
<1>3. HandlesOK(e, us) /\ FreshId(ts) \in Nat
  BY <1>1, HandlesStay, FreshIdFound
<1>4. ts \subseteq us
  BY DEF scheduled
<1> HIDE DEF us
<1> QED
  BY <1>1, <1>2, <1>3, <1>4 DEF EntryOK, us

(* nUpstreams, the number of next hops but for the best and the previous      *)
(* face, is none below 0: where both are counted, they are two, as no         *)
(* Interest can be forwarded to the best face again.                          *)
LEMMA UpstreamsCounted ==
  ASSUME hops \in Seq(Faces), hops # <<>>, NEW e \in PitEntries, NEW e1, NEW best, NEW previous,
         NEW useBest, useBest = (best \in ToSet(hops) /\ canForwardToFace(e, best)),
         useBest => DOMAIN e1.outs = DOMAIN e.outs \cup {best}
  PROVE  ~ (Len(hops) - (IF useBest THEN 1 ELSE 0)
                      - (IF previousCounts(e, e1, previous) THEN 1 ELSE 0) < 0)
<1> DEFINE counts == previousCounts(e, e1, previous)
<1>1. Len(hops) \in Nat /\ Len(hops) >= 1
  OBVIOUS
<1>2. ASSUME useBest, counts PROVE Len(hops) >= 2
  <2>1. best \in ToSet(hops) /\ previous \in ToSet(hops) /\ previous \notin DOMAIN e1.outs
    BY <1>2, Zenon DEF previousCounts, canForwardToFace
  <2>2. best # previous
    BY <1>2, <2>1
  <2> QED
    BY <2>1, <2>2, TwoHops
<1> HIDE DEF counts
<1> DEFINE a == IF useBest THEN 1 ELSE 0
           c == IF counts THEN 1 ELSE 0
<1>3. (a = 0 \/ (a = 1 /\ useBest)) /\ (c = 0 \/ (c = 1 /\ counts))
  BY Zenon
<1>4. (a = 0 \/ a = 1) /\ (c = 0 \/ c = 1) /\ (a = 1 /\ c = 1 => Len(hops) >= 2)
  <2> HIDE DEF a, c
  <2>1. ASSUME a = 1, c = 1 PROVE Len(hops) >= 2
    <3>1. a # 0 /\ c # 0
      BY <2>1
    <3>2. useBest /\ counts
      BY <1>3, <3>1, Zenon
    <3> QED
      BY <1>2, <3>2
  <2> QED
    BY <1>3, <2>1, Zenon
<1> HIDE DEF a, c
<1>5. ~ (Len(hops) - a - c < 0)
  BY <1>1, <1>4
<1> QED
  BY <1>5, Zenon DEF a, c, counts

LEMMA NccReceives ==
  ASSUME NEW p, NEW ts, NEW m0, EntryOK(p, ts), Cardinality(ts) =< MaxTimers, hops \in Seq(Faces)
  PROVE  WorldOK(nccAfterReceiveInterest(World(p, ts, m0, "none")))
<1> DEFINE w == World(p, ts, m0, "none")
           none == [bestFaceTimeout |-> NoTimer, propagateTimer |-> NoTimer]
           e == [p EXCEPT !.ncc = IF @ = NoInfo THEN none ELSE @]
           m == getMeasurementsEntryInfo(m0)
           info == getBestFace(m[Own].ncc)
           useBest == info.best \in ToSet(hops) /\ canForwardToFace(e, info.best)
           e1 == sentToAll(e, IF useBest THEN {info.best} ELSE eligible(e))
           t1 == IF useBest THEN scheduled(ts, "bestFaceTimeout", {}) ELSE ts
           nUpstreams == Len(hops) - (IF useBest THEN 1 ELSE 0)
                                   - (IF previousCounts(e, e1, info.previous) THEN 1 ELSE 0)
           t2 == scheduled(t1, "propagateTimer", {})
           b == IF useBest THEN FreshId(ts) ELSE e1.ncc.bestFaceTimeout
           m1 == [m EXCEPT ![Own].ncc = info]
<1>0. w.pit = p /\ w.timers = ts /\ w.mt = m0
  BY DEF World
<1>1. EntryOK(e, ts) /\ e.ncc \in NccInfos /\ DOMAIN e.outs = DOMAIN p.outs /\ e \in PitEntries
  BY InfoMade, Zenon DEF EntryOK
<1>2. CASE hops = <<>>
  <2> DEFINE d == [p EXCEPT !.straggler = DOMAIN p.outs = {}]
  <2>1. nccAfterReceiveInterest(w) = [w EXCEPT !.pit.straggler = DOMAIN w.pit.outs = {}]
    BY <1>2, Zenon DEF nccAfterReceiveInterest
  <2>2. [w EXCEPT !.pit.straggler = DOMAIN w.pit.outs = {}] = World(d, ts, m0, "none")
    BY DEF World
  <2>3. SameHandles(p, d)
    BY DEF SameHandles, PitEntries, EntryOK
  <2>4. EntryOK(d, ts)
    BY <2>3, HandlesKept
  <2> HIDE DEF d
  <2> QED
    BY <2>1, <2>2, <2>4, WorldGood
<1>3. CASE hops # <<>> /\ DOMAIN e.outs # {}
  <2>1. nccAfterReceiveInterest(w) = [w EXCEPT !.pit = e]
    BY <1>0, <1>3, Zenon DEF nccAfterReceiveInterest
  <2> HIDE DEF e
  <2>2. [w EXCEPT !.pit = e] = World(e, ts, m0, "none")
    BY DEF World
  <2> QED
    BY <1>1, <2>1, <2>2, WorldGood
<1>4. CASE hops # <<>> /\ ~ (DOMAIN e.outs # {})
  <2> DEFINE d == [e1 EXCEPT !.ncc = [bestFaceTimeout |-> IF useBest THEN FreshId(ts) ELSE @.bestFaceTimeout,
                                      propagateTimer |-> FreshId(t1)]]
             bad == IF nUpstreams < 0 THEN "nUpstreams" ELSE "none"
  <2>1. nccAfterReceiveInterest(w) = World(d, t2, m1, bad)
    BY <1>0, <1>4, Zenon DEF nccAfterReceiveInterest, World
  <2> HIDE DEF e, info, m1, w
  <2>2. /\ EntryOK(e1, ts) /\ e1.ncc = e.ncc
        /\ (useBest => DOMAIN e1.outs = DOMAIN e.outs \cup {info.best})
    <3> DEFINE fs == IF useBest THEN {info.best} ELSE eligible(e)
    <3>1. fs \in SUBSET Faces /\ (useBest => fs = {info.best})
      BY HopsAreFaces, Zenon
    <3> HIDE DEF fs
    <3>2. SameHandles(e, e1) /\ DOMAIN e1.outs = DOMAIN e.outs \cup fs
      BY <1>1, <3>1, SentOK, Zenon DEF fs
    <3> QED
      BY <1>1, <3>1, <3>2, HandlesKept, Zenon DEF SameHandles
  <2>3. ~ (nUpstreams < 0)
    BY <1>1, <1>4, <2>2, UpstreamsCounted, Zenon
  <2> HIDE DEF useBest, e1, nUpstreams
  <2>4. EntryOK(e1, t1) /\ Cardinality(t1) =< MaxTimers + 1 /\ Held(b, "bestFaceTimeout", t1) /\ b \in Nat
    <3>1. IsFiniteSet(ts) /\ Cardinality(ts) \in Nat /\ MaxTimers \in Nat
      BY StrategiesAssumption, FS_CardinalityType DEF EntryOK, TimersOK
    <3>2. CASE useBest
      <4>1. LET us == scheduled(ts, "bestFaceTimeout", {})
            IN  /\ EntryOK(e1, us) /\ Cardinality(us) =< Cardinality(ts) + 1
                /\ Held(FreshId(ts), "bestFaceTimeout", us) /\ FreshId(ts) \in Nat
        BY <2>2, <3>1, TimerAdded
      <4>2. IsFiniteSet(t1) /\ t1 = scheduled(ts, "bestFaceTimeout", {}) /\ b = FreshId(ts)
        BY <3>2, <4>1, Zenon DEF EntryOK, TimersOK
      <4> HIDE DEF t1, b
      <4> QED
        BY <3>1, <4>1, <4>2, FS_CardinalityType
    <3>3. CASE ~ useBest
      <4>1. t1 = ts /\ b = e.ncc.bestFaceTimeout
        BY <2>2, <3>3, Zenon
      <4>2. b \in Nat
        BY <1>1, <4>1 DEF NccInfos
      <4>3. Held(b, "bestFaceTimeout", t1)
        <5>1. e.ncc # NoInfo /\ HandlesOK(e, ts)
          BY <1>1, StrategiesAssumption, Zenon DEF EntryOK
        <5> QED
          BY <4>1, <5>1, Zenon DEF HandlesOK
      <4> HIDE DEF t1, b
      <4> QED
        BY <2>2, <3>1, <4>1, <4>2, <4>3
    <3> QED
      BY <3>2, <3>3
  <2>5. d = [e1 EXCEPT !.ncc = [bestFaceTimeout |-> b, propagateTimer |-> FreshId(t1)]]
    BY Zenon
  <2> HIDE DEF t1, b, d
  <2>6. /\ EntryOK(e1, t2) /\ Held(FreshId(t1), "propagateTimer", t2) /\ FreshId(t1) \in Nat
        /\ t1 \subseteq t2
    <3>1. EntryOK(e1, t1) /\ Cardinality(t1) =< MaxTimers + 1
      BY <2>4, Zenon
    <3>2. LET us == scheduled(t1, "propagateTimer", {})
          IN  /\ EntryOK(e1, us) /\ Cardinality(us) =< Cardinality(t1) + 1
              /\ Held(FreshId(t1), "propagateTimer", us) /\ FreshId(t1) \in Nat /\ t1 \subseteq us
      BY <3>1, TimerAdded
    <3> QED
      BY <3>2, Zenon
  <2> HIDE DEF t2
  <2>7. EntryOK(d, t2)
    BY <2>4, <2>5, <2>6, HeldStays, InfoReplaced
  <2>8. bad = "none"
    BY <2>3, Zenon
  <2>9. WorldOK(World(d, t2, m1, bad))
    BY <2>7, <2>8, WorldGood
  <2> QED
    BY <2>1, <2>9, Zenon DEF w
<1> QED
  BY <1>2, <1>3, <1>4

LEMMA NccPropagates ==
  ASSUME NEW p, NEW ts, NEW m0, EntryOK(p, ts), Cardinality(ts) =< MaxTimers, hops \in Seq(Faces)
  PROVE  WorldOK(nccDoPropagate(World(p, ts, m0, "none")))
<1> DEFINE w == World(p, ts, m0, "none")
           m == getMeasurementsEntryInfo(m0)
           previous == m[Own].ncc.previous
           e1 == IF previous \in ToSet(hops) \cap up /\ canForwardToFace(p, previous)
                 THEN sent(p, previous) ELSE p
           next == eligible(e1)
           e2 == sentToAll(e1, next)
<1>0. w.pit = p /\ w.timers = ts /\ w.mt = m0
  BY DEF World
<1>1. p \in PitEntries /\ Cardinality(ts) =< MaxTimers + 1
  <2>1. IsFiniteSet(ts) /\ Cardinality(ts) \in Nat /\ MaxTimers \in Nat
    BY StrategiesAssumption, FS_CardinalityType DEF EntryOK, TimersOK
  <2>2. p \in PitEntries
    BY DEF EntryOK
  <2> QED
    BY <2>1, <2>2
<1>2. EntryOK(e1, ts) /\ e1.ncc = p.ncc /\ e1 \in PitEntries
  <2>1. CASE previous \in ToSet(hops) \cap up /\ canForwardToFace(p, previous)
    <3>1. e1 = sentToAll(p, {previous})
      BY <2>1, Zenon DEF sent
    <3>2. {previous} \in SUBSET Faces
      BY <2>1, HopsAreFaces
    <3> HIDE DEF e1, previous
    <3>3. SameHandles(p, e1)
      BY <1>1, <3>1, <3>2, SentOK
    <3> QED
      BY <3>3, HandlesKept DEF SameHandles
  <2>2. CASE ~ (previous \in ToSet(hops) \cap up /\ canForwardToFace(p, previous))
    <3>1. e1 = p
      BY <2>2, Zenon
    <3> QED
      BY <1>1, <3>1, Zenon
  <2> QED
    BY <2>1, <2>2
<1>3. CASE p.ncc = NoInfo
  <2>1. nccDoPropagate(w) = [w EXCEPT !.fault = "pitEntryInfo"]
    BY <1>0, <1>3, Zenon DEF nccDoPropagate
  <2>2. [w EXCEPT !.fault = "pitEntryInfo"] = World(p, ts, m0, "pitEntryInfo")
    BY DEF World
  <2> QED
    BY <2>1, <2>2, WorldGood
<1>4. CASE p.ncc # NoInfo /\ next = {}
  <2>1. nccDoPropagate(w) = World(e1, ts, m, "none")
    BY <1>0, <1>4, Zenon DEF nccDoPropagate
  <2> HIDE DEF e1, m, w
  <2> QED
    BY <1>2, <2>1, WorldGood DEF w
<1>5. CASE p.ncc # NoInfo /\ next # {}
  <2> DEFINE q == FreshId(ts)
             us == scheduled(ts, "propagateTimer", {})
             d == [e2 EXCEPT !.ncc = [bestFaceTimeout |-> @.bestFaceTimeout, propagateTimer |-> q]]
  <2>1. nccDoPropagate(w) = World(d, us, m, "none")
    BY <1>0, <1>5, Zenon DEF nccDoPropagate
  <2> HIDE DEF e1, m
  <2>2. EntryOK(e2, ts) /\ e2.ncc = p.ncc
    <3>1. SameHandles(e1, e2)
      BY <1>2, HopsAreFaces, SentOK, Zenon
    <3> QED
      BY <1>2, <3>1, HandlesKept, Zenon DEF SameHandles
  <2> HIDE DEF next, e2
  <2>3. EntryOK(e2, us) /\ Held(q, "propagateTimer", us) /\ q \in Nat /\ ts \subseteq us
    <3>1. LET vs == scheduled(ts, "propagateTimer", {})
          IN  /\ EntryOK(e2, vs) /\ Cardinality(vs) =< Cardinality(ts) + 1
              /\ Held(FreshId(ts), "propagateTimer", vs) /\ FreshId(ts) \in Nat /\ ts \subseteq vs
      BY <1>1, <2>2, TimerAdded
    <3> QED
      BY <3>1, Zenon
  <2> HIDE DEF q, us
  <2>4. e2.ncc \in NccInfos /\ Held(e2.ncc.bestFaceTimeout, "bestFaceTimeout", us)
    <3>1. e2.ncc # NoInfo /\ e2 \in PitEntries /\ HandlesOK(e2, us)
      BY <1>5, <2>2, <2>3, Zenon DEF EntryOK
    <3>2. e2.ncc \in NccInfos
      BY <3>1 DEF PitEntries
    <3> QED
      BY <3>1, <3>2, Zenon DEF HandlesOK
  <2>5. d = [e2 EXCEPT !.ncc = [bestFaceTimeout |-> e2.ncc.bestFaceTimeout, propagateTimer |-> q]]
    BY Zenon
  <2> HIDE DEF d
  <2>6. e2.ncc.bestFaceTimeout \in Nat
    BY <2>4 DEF NccInfos
  <2>7. EntryOK(d, us)
    BY <2>3, <2>4, <2>5, <2>6, InfoReplaced
  <2> HIDE DEF w
  <2> QED
    BY <2>1, <2>7, WorldGood DEF w
<1> QED
  BY <1>3, <1>4, <1>5

LEMMA NccTimesOut ==
  ASSUME NEW p, NEW ts, NEW m0, EntryOK(p, ts)
  PROVE  WorldOK(nccTimeoutOnBestFace(World(p, ts, m0, "none")))
<1> DEFINE w == World(p, ts, m0, "none")
           m1 == [m0 EXCEPT ![Own].exists = TRUE]
           m2 == [getMeasurementsEntryInfo(m0) EXCEPT ![Parent].exists = TRUE]
<1>1. w.mt = m0
  BY DEF World
<1>2. \/ nccTimeoutOnBestFace(w) = [w EXCEPT !.mt = m1]
      \/ nccTimeoutOnBestFace(w) = [w EXCEPT !.mt = m2]
  BY <1>1, Zenon DEF nccTimeoutOnBestFace
<1> HIDE DEF m1, m2
<1>3. ASSUME NEW m PROVE WorldOK([w EXCEPT !.mt = m])
  <2>1. [w EXCEPT !.mt = m] = World(p, ts, m, "none")
    BY DEF World
  <2> QED
    BY <2>1, WorldGood
<1> HIDE DEF w
<1>4. WorldOK(nccTimeoutOnBestFace(w))
  BY <1>2, <1>3, Zenon
<1> QED
  BY <1>4 DEF w

(* beforeSatisfyInterest cancels the propagate timer and no other. *)
LEMMA NccSatisfied ==
  ASSUME NEW p, NEW ts, NEW m0, EntryOK(p, ts), NEW f
  PROVE  WorldOK(nccBeforeSatisfyInterest(World(p, ts, m0, "none"), f))
<1> DEFINE w == World(p, ts, m0, "none")
           m1 == bestFaceUpdated(m0, f)
           q == p.ncc.propagateTimer
<1>0. w.pit = p /\ w.timers = ts /\ w.mt = m0
  BY DEF World
<1>1. WorldOK(w)
  BY WorldGood
<1>2. WorldOK([w EXCEPT !.mt = m1])
  <2> HIDE DEF m1
  <2>1. [w EXCEPT !.mt = m1] = World(p, ts, m1, "none")
    BY DEF World
  <2> QED
    BY <2>1, WorldGood
<1>3. WorldOK(World(released(p, q), cancelled(ts, q), m1, "none"))
  <2> HIDE DEF q, m1
  <2> QED
    BY ReleasedOK, WorldGood
<1>4. \/ nccBeforeSatisfyInterest(w, f) = w
      \/ nccBeforeSatisfyInterest(w, f) = [w EXCEPT !.mt = m1]
      \/ nccBeforeSatisfyInterest(w, f) = World(released(p, q), cancelled(ts, q), m1, "none")
  BY <1>0, Zenon DEF nccBeforeSatisfyInterest
<1> HIDE DEF w, m1, q
<1>5. WorldOK(nccBeforeSatisfyInterest(w, f))
  BY <1>1, <1>2, <1>3, <1>4, Zenon
<1> QED
  BY <1>5 DEF w

-----------------------------------------------------------------------------
(* The access strategy. *)

(* The RTO timer is cancelled: no other handle stands for it. *)
LEMMA RtoCancelled ==
  ASSUME NEW e, NEW ts, EntryOK(e, ts)
  PROVE  LET us == cancelled(ts, e.rto)
         IN  /\ TimersOK(us) /\ Cardinality(us) =< Cardinality(ts)
             /\ \A t \in us : t.kind # "rtoTimer"
             /\ e.ncc # NoInfo => /\ Held(e.ncc.bestFaceTimeout, "bestFaceTimeout", us)
                                  /\ Held(e.ncc.propagateTimer, "propagateTimer", us)
<1> DEFINE us == cancelled(ts, e.rto)
<1>1. HandlesOK(e, ts) /\ TimersOK(ts)
  BY DEF EntryOK
<1>2. us = {t \in ts : t.id # e.rto}
  BY DEF cancelled
<1> HIDE DEF us
<1>3. TimersOK(us) /\ Cardinality(us) =< Cardinality(ts)
  BY <1>1, <1>2, CancelledOK
<1>4. \A t \in us : t.kind # "rtoTimer"
  BY <1>1, <1>2 DEF HandlesOK
<1>5. ASSUME NEW t \in ts, t.kind # "rtoTimer" PROVE t \in us
  BY <1>1, <1>2, <1>5 DEF HandlesOK, Held, TimersOK, NoTimer
<1>6. ASSUME NEW h, NEW kind, kind # "rtoTimer", Held(h, kind, ts) PROVE Held(h, kind, us)
  BY <1>5, <1>6 DEF Held
<1>7. e.ncc # NoInfo => /\ Held(e.ncc.bestFaceTimeout, "bestFaceTimeout", us)
                        /\ Held(e.ncc.propagateTimer, "propagateTimer", us)
  BY <1>1, <1>6 DEF HandlesOK
<1> QED
  BY <1>3, <1>4, <1>7 DEF us

LEMMA RtoStopped ==
  ASSUME NEW e, NEW ts, EntryOK(e, ts)
  PROVE  EntryOK([e EXCEPT !.rto = NoTimer], cancelled(ts, e.rto))
<1> DEFINE us == cancelled(ts, e.rto)
           d == [e EXCEPT !.rto = NoTimer]
<1>1. e \in PitEntries
  BY DEF EntryOK
<1>2. d \in PitEntries /\ d.rto = NoTimer /\ d.ncc = e.ncc
  BY <1>1 DEF PitEntries, NoTimer
<1>3. /\ TimersOK(us) /\ \A t \in us : t.kind # "rtoTimer"
      /\ e.ncc # NoInfo => /\ Held(e.ncc.bestFaceTimeout, "bestFaceTimeout", us)
                           /\ Held(e.ncc.propagateTimer, "propagateTimer", us)
  BY RtoCancelled
<1> HIDE DEF us, d
<1>4. HandlesOK(d, us)
  <2>1. Held(d.rto, "rtoTimer", us)
    BY <1>2 DEF Held
  <2> QED
    BY <1>2, <1>3, <2>1 DEF HandlesOK
<1> QED
  BY <1>2, <1>3, <1>4 DEF EntryOK, d, us

(* The ScopedEventId gets the new event after the old one is cancelled. *)
LEMMA RtoReplaced ==
  ASSUME NEW e, NEW ts, EntryOK(e, ts), Cardinality(ts) =< MaxTimers, NEW x
  PROVE  LET us == cancelled(ts, e.rto)
         IN  EntryOK([e EXCEPT !.rto = FreshId(us)], scheduled(us, "rtoTimer", x))
<1> DEFINE us == cancelled(ts, e.rto)
           i == FreshId(us)
           vs == scheduled(us, "rtoTimer", x)
           d == [e EXCEPT !.rto = i]
           t0 == [id |-> i, kind |-> "rtoTimer", except |-> x]
<1>1. e \in PitEntries /\ TimersOK(ts)
  BY DEF EntryOK
<1>2. /\ TimersOK(us) /\ Cardinality(us) =< Cardinality(ts) /\ \A t \in us : t.kind # "rtoTimer"
      /\ e.ncc # NoInfo => /\ Held(e.ncc.bestFaceTimeout, "bestFaceTimeout", us)
                           /\ Held(e.ncc.propagateTimer, "propagateTimer", us)
  BY RtoCancelled
<1> HIDE DEF us
<1>3. Cardinality(us) =< MaxTimers + 1
  <2>1. Cardinality(us) \in Nat /\ Cardinality(ts) \in Nat /\ MaxTimers \in Nat
    BY <1>1, <1>2, FS_CardinalityType, StrategiesAssumption DEF TimersOK
  <2> QED
    BY <1>2, <2>1
<1>4. TimersOK(vs) /\ Held(i, "rtoTimer", vs)
  BY <1>2, <1>3, ScheduledOK
<1>5. i \in Nat
  BY <1>2, <1>3, FreshIdFound
<1>6. vs = us \cup {t0} /\ t0.id = i
  BY DEF scheduled
<1> HIDE DEF i, vs, t0
<1>7. d \in PitEntries /\ d.rto = i /\ d.ncc = e.ncc
  BY <1>1, <1>5 DEF PitEntries
<1> HIDE DEF d
<1>8. \A t \in vs : t.kind = "rtoTimer" => d.rto = t.id
  BY <1>2, <1>6, <1>7
<1>9. HandlesOK(d, vs)
  <2>1. d.ncc # NoInfo => /\ Held(d.ncc.bestFaceTimeout, "bestFaceTimeout", vs)
                          /\ Held(d.ncc.propagateTimer, "propagateTimer", vs)
    BY <1>2, <1>6, <1>7, HeldStays
  <2> QED
    BY <1>4, <1>7, <1>8, <2>1 DEF HandlesOK
<1> QED
  BY <1>4, <1>7, <1>9 DEF EntryOK, d, vs, i, us

LEMMA Multicasts ==
  ASSUME NEW e, NEW ts, EntryOK(e, ts), NEW x, hops \in Seq(Faces)
  PROVE  EntryOK(multicast(e, x), ts)
<1>1. e \in PitEntries /\ ToSet(hops) \ x \in SUBSET Faces
  BY HopsAreFaces DEF EntryOK
<1>2. SameHandles(e, multicast(e, x))
  BY <1>1, SentOK, Zenon DEF multicast
<1> QED
  BY <1>2, HandlesKept

LEMMA MulticastGood ==
  ASSUME NEW p, NEW ts, NEW m0, NEW x, EntryOK(p, ts), hops \in Seq(Faces)
  PROVE  LET w == World(p, ts, m0, "none") IN WorldOK([w EXCEPT !.pit = multicast(w.pit, x)])
<1> DEFINE w == World(p, ts, m0, "none")
           d == multicast(p, x)
<1>1. EntryOK(d, ts)
  BY Multicasts
<1>2. w.pit = p
  BY DEF World
<1> HIDE DEF d
<1>3. [w EXCEPT !.pit = d] = World(d, ts, m0, "none")
  BY DEF World
<1>4. WorldOK([w EXCEPT !.pit = d])
  BY <1>1, <1>3, WorldGood
<1> QED
  BY <1>2, <1>4 DEF d

LEMMA LastNexthopGood ==
  ASSUME NEW p, NEW ts, NEW m0, NEW f, NEW last \in Faces, EntryOK(p, ts), Cardinality(ts) =< MaxTimers
  PROVE  WorldOK(sendToLastNexthop(World(p, ts, m0, "none"), f, last))
<1> DEFINE w == World(p, ts, m0, "none")
           e == sent(p, last)
           us == cancelled(ts, p.rto)
           d == [e EXCEPT !.rto = FreshId(us)]
           vs == scheduled(us, "rtoTimer", {f, last})
<1>1. w.pit = p /\ w.timers = ts /\ w.mt = m0
  BY DEF World
<1>2. sendToLastNexthop(w, f, last) = World(d, vs, m0, "none")
  BY <1>1, Zenon DEF sendToLastNexthop
<1>3. EntryOK(e, ts) /\ e.rto = p.rto
  <2>1. p \in PitEntries
    BY DEF EntryOK
  <2>2. SameHandles(p, e)
    BY <2>1, SentOK DEF sent
  <2> HIDE DEF e
  <2> QED
    BY <2>2, HandlesKept DEF SameHandles
<1> HIDE DEF e, w
<1>4. EntryOK(d, vs)
  BY <1>3, RtoReplaced
<1> HIDE DEF d, vs
<1>5. WorldOK(sendToLastNexthop(w, f, last))
  BY <1>2, <1>4, WorldGood
<1> QED
  BY <1>5 DEF w

LEMMA AccessReceives ==
  ASSUME NEW p, NEW ts, NEW m0, NEW f, EntryOK(p, ts), Cardinality(ts) =< MaxTimers, hops \in Seq(Faces),
         NEW after \in accessAfterReceiveInterest(World(p, ts, m0, "none"), f)
  PROVE  WorldOK(after)
<1> DEFINE w == World(p, ts, m0, "none")
           many == [w EXCEPT !.pit = multicast(w.pit, {f})]
           last == w.mt[longestMeasurements(w.mt)].access
<1>1. WorldOK(w)
  BY WorldGood
<1>2. WorldOK(many)
  BY MulticastGood
<1>3. WorldOK([w EXCEPT !.fault = "MtInfo"])
  <2>1. [w EXCEPT !.fault = "MtInfo"] = World(p, ts, m0, "MtInfo")
    BY DEF World
  <2> QED
    BY <2>1, WorldGood
<1>4. last \in up \cap ToSet(hops) => WorldOK(sendToLastNexthop(w, f, last))
  <2> HIDE DEF last
  <2> QED
    BY HopsAreFaces, LastNexthopGood
<1> HIDE DEF w, many
<1>5. \/ accessNewInterest(w, f) = many
      \/ accessNewInterest(w, f) = [w EXCEPT !.fault = "MtInfo"]
      \/ last \in up \cap ToSet(hops) /\ accessNewInterest(w, f) = sendToLastNexthop(w, f, last)
  BY Zenon DEF accessNewInterest, many
<1>6. WorldOK(accessNewInterest(w, f))
  <2> HIDE DEF last
  <2> QED
    BY <1>2, <1>3, <1>4, <1>5, Zenon
<1>7. after = accessNewInterest(w, f) \/ after = many \/ after = w
  BY Zenon DEF accessAfterReceiveInterest, w, many
<1> QED
  BY <1>1, <1>2, <1>6, <1>7, Zenon

LEMMA AccessSatisfied ==
  ASSUME NEW p, NEW ts, NEW m0, EntryOK(p, ts), NEW f, NEW data
  PROVE  WorldOK(accessBeforeSatisfyInterest(World(p, ts, m0, "none"), f, data))
<1> DEFINE w == World(p, ts, m0, "none")
           d == [p EXCEPT !.rto = NoTimer]
           us == cancelled(ts, p.rto)
           v == World(d, us, m0, "none")
<1>1. w.pit = p /\ w.timers = ts /\ w.mt = m0
  BY DEF World
<1>2. EntryOK(d, us)
  BY RtoStopped
<1>3. \/ accessBeforeSatisfyInterest(w, f, data) = v
      \/ accessBeforeSatisfyInterest(w, f, data) = accessUpdateMeasurements(v, f, data)
  BY <1>1, Zenon DEF accessBeforeSatisfyInterest
<1> HIDE DEF w, d, us
<1>4. WorldOK(v)
  BY <1>2, WorldGood
<1>5. WorldOK(accessUpdateMeasurements(v, f, data))
  <2> DEFINE over == data - 1
             at == IF effective(choice, over) = "access" THEN over ELSE data
             m == [v.mt EXCEPT ![over].exists = TRUE, ![at].exists = TRUE]
             m1 == [m EXCEPT ![at].access = f]
  <2>1. v.pit = d /\ v.timers = us
    BY DEF World
  <2>2. \/ accessUpdateMeasurements(v, f, data) = World(d, us, m, "data outside namespace")
        \/ accessUpdateMeasurements(v, f, data) = [v EXCEPT !.mt = m1]
    BY <2>1, Zenon DEF accessUpdateMeasurements
  <2> HIDE DEF m1, m
  <2>3. [v EXCEPT !.mt = m1] = World(d, us, m1, "none")
    BY DEF World
  <2>4. WorldOK(World(d, us, m1, "none")) /\ WorldOK(World(d, us, m, "data outside namespace"))
    BY <1>2, WorldGood
  <2> QED
    BY <2>2, <2>3, <2>4, Zenon
<1>6. WorldOK(accessBeforeSatisfyInterest(w, f, data))
  BY <1>3, <1>4, <1>5, Zenon
<1> QED
  BY <1>6 DEF w

-----------------------------------------------------------------------------
(* The actions. *)

LEMMA EntryIsOne ==
  ASSUME NEW e, NEW ts, EntryOK(e, ts)
  PROVE  e # NoEntry /\ EventsOK(e, ts)
<1>1. e # NoEntry
  BY StrategiesAssumption, Zenon DEF EntryOK
<1> QED
  BY <1>1, Zenon DEF EventsOK

(* What a trigger or a timer leaves behind. *)
LEMMA WorldBecomes ==
  ASSUME NEW w, WorldOK(w), Becomes(w), hops' = hops, hops \in Seq(Faces)
  PROVE  StInv'
<1>1. pit' = w.pit /\ timers' = w.timers /\ fault' = w.fault /\ Cardinality(w.timers) =< MaxTimers
  BY Zenon DEF Becomes
<1>2. EntryOK(w.pit, w.timers) /\ w.fault # "nUpstreams"
  BY Zenon DEF WorldOK
<1>3. EventsOK(pit', timers')
  BY <1>1, <1>2, EntryIsOne, Zenon
<1>4. EventsOK(pit, timers)'
  BY <1>3, Zenon DEF EventsOK, EntryOK, TimersOK, HandlesOK, Held
<1> QED
  BY <1>1, <1>2, <1>4, Zenon DEF StInv

LEMMA NewEntryOK ==
  ASSUME StInv, pit = NoEntry
  PROVE  EntryOK(NewPitEntry, timers)
<1> DEFINE none == [f \in {} |-> {}]
<1>1. TimersOK(timers) /\ \A t \in timers : t.kind # "rtoTimer"
  BY Zenon DEF StInv, EventsOK
<1>2. none \in UNION {[E -> SUBSET Faces] : E \in SUBSET Faces}
  <2>1. {} \in SUBSET Faces /\ none \in [{} -> SUBSET Faces]
    OBVIOUS
  <2> QED
    BY <2>1, OutsTyped
<1> HIDE DEF none
<1>3. NewPitEntry \in PitEntries /\ NewPitEntry.ncc = NoInfo /\ NewPitEntry.rto = NoTimer
  BY <1>2 DEF NewPitEntry, PitEntries, NoTimer, none
<1>4. HandlesOK(NewPitEntry, timers)
  BY <1>1, <1>3, Zenon DEF HandlesOK, Held
<1> QED
  BY <1>1, <1>3, <1>4, Zenon DEF EntryOK

(* Records come and go; the handles stay. *)
LEMMA RecordsChange ==
  ASSUME NEW e \in PitEntries, NEW f \in Faces
  PROVE  /\ SameHandles(e, interestReceived(e, f))
         /\ SameHandles(e, dataReceived(e, f))
         /\ SameHandles(e, [e EXCEPT !.ins = @ \ {f}, !.outs = [g \in DOMAIN @ |-> @[g] \ {f}]])
         /\ SameHandles(e, [e EXCEPT !.outs = [g \in DOMAIN @ \ {f} |-> @[g]], !.old = @ \cup {f}])
<1> DEFINE O == UNION {[E -> SUBSET Faces] : E \in SUBSET Faces}
           a == [g \in DOMAIN e.outs |-> e.outs[g] \ {f}]
           b == [g \in DOMAIN e.outs \ {f} |-> {}]
           c == [g \in DOMAIN e.outs \ {f} |-> e.outs[g]]
<1>1. DOMAIN e.outs \in SUBSET Faces /\ e.outs \in [DOMAIN e.outs -> SUBSET Faces]
  BY OutsOfEntry
<1>2. a \in O
  BY <1>1, OutsTyped
<1>3. b \in O
  <2>1. DOMAIN e.outs \ {f} \in SUBSET Faces /\ b \in [DOMAIN e.outs \ {f} -> SUBSET Faces]
    BY <1>1
  <2> QED
    BY <2>1, OutsTyped
<1>4. c \in O
  <2>1. DOMAIN e.outs \ {f} \in SUBSET Faces /\ c \in [DOMAIN e.outs \ {f} -> SUBSET Faces]
    BY <1>1
  <2> QED
    BY <2>1, OutsTyped
<1>5. e.ins \in SUBSET Faces /\ e.old \in SUBSET Faces
  BY DEF PitEntries
<1>6. interestReceived(e, f) = [e EXCEPT !.ins = e.ins \cup {f}, !.answered = FALSE, !.straggler = FALSE, !.outs = a]
  BY DEF interestReceived
<1>7. dataReceived(e, f) = [e EXCEPT !.ins = {}, !.answered = TRUE, !.straggler = TRUE, !.old = e.old \ {f}, !.outs = b]
  BY DEF dataReceived
<1> HIDE DEF a, b, c, O
<1>8. SameHandles(e, [e EXCEPT !.ins = e.ins \cup {f}, !.answered = FALSE, !.straggler = FALSE, !.outs = a])
  BY <1>2, <1>5 DEF PitEntries, SameHandles, O
<1>9. SameHandles(e, [e EXCEPT !.ins = {}, !.answered = TRUE, !.straggler = TRUE, !.old = e.old \ {f}, !.outs = b])
  BY <1>3, <1>5 DEF PitEntries, SameHandles, O
<1>10. SameHandles(e, [e EXCEPT !.ins = e.ins \ {f}, !.outs = a])
  BY <1>2, <1>5 DEF PitEntries, SameHandles, O
<1>11. SameHandles(e, [e EXCEPT !.outs = c, !.old = e.old \cup {f}])
  BY <1>4, <1>5 DEF PitEntries, SameHandles, O
<1> QED
  BY <1>6, <1>7, <1>8, <1>9, <1>10, <1>11, Zenon DEF a, c

LEMMA InterestKeeps ==
  ASSUME StInv, NEW f \in Downstreams, IncomingInterest(f)
  PROVE  StInv'
<1> DEFINE e == IF pit = NoEntry THEN NewPitEntry ELSE pit
           d == interestReceived(e, f)
           w == World(d, timers, mt, "none")
<1>1. hops \in Seq(Faces) /\ EventsOK(pit, timers) /\ Cardinality(timers) =< MaxTimers
  BY Zenon DEF StInv
<1>2. EntryOK(e, timers)
  BY <1>1, NewEntryOK, Zenon DEF EventsOK
<1>3. hops' = hops
  BY Zenon DEF IncomingInterest
<1>4. PICK after \in IF effective(choice, Own) = "ncc" THEN {nccAfterReceiveInterest(w)}
                    ELSE accessAfterReceiveInterest(w, f) : Becomes(after)
  BY Zenon DEF IncomingInterest
<1> HIDE DEF e
<1>5. EntryOK(d, timers)
  <2>1. e \in PitEntries /\ f \in Faces
    BY <1>2 DEF EntryOK, Faces
  <2>2. SameHandles(e, d)
    BY <2>1, RecordsChange, Zenon
  <2> QED
    BY <1>2, <2>2, HandlesKept
<1> HIDE DEF d
<1>6. WorldOK(nccAfterReceiveInterest(w))
  BY <1>1, <1>5, NccReceives
<1>7. after \in accessAfterReceiveInterest(w, f) => WorldOK(after)
  BY <1>1, <1>5, AccessReceives
<1> HIDE DEF w
<1>8. WorldOK(after)
  BY <1>4, <1>6, <1>7, Zenon
<1> QED
  BY <1>1, <1>3, <1>4, <1>8, WorldBecomes

LEMMA DataKeeps ==
  ASSUME StInv, NEW f \in Upstreams, NEW data, IncomingData(f, data)
  PROVE  StInv'
<1> DEFINE w == IF effective(choice, Own) = "ncc" THEN nccBeforeSatisfyInterest(State, f)
                ELSE accessBeforeSatisfyInterest(State, f, data)
           d == dataReceived(w.pit, f)
<1>1. hops \in Seq(Faces) /\ EventsOK(pit, timers)
  BY Zenon DEF StInv
<1>2. pit # NoEntry /\ hops' = hops /\ Becomes([w EXCEPT !.pit = d])
  BY Zenon DEF IncomingData
<1>3. EntryOK(pit, timers)
  BY <1>1, <1>2, Zenon DEF EventsOK
<1>4. WorldOK(w)
  BY <1>3, NccSatisfied, AccessSatisfied, Zenon DEF State
<1> HIDE DEF w
<1>5. EntryOK(w.pit, w.timers) /\ w = World(w.pit, w.timers, w.mt, w.fault) /\ w.fault # "nUpstreams"
  BY <1>4, Zenon DEF WorldOK
<1>6. EntryOK(d, w.timers)
  <2>1. w.pit \in PitEntries /\ f \in Faces
    BY <1>5 DEF EntryOK, Faces
  <2>2. SameHandles(w.pit, d)
    BY <2>1, RecordsChange, Zenon
  <2> QED
    BY <1>5, <2>2, HandlesKept
<1> HIDE DEF d
<1>7. [w EXCEPT !.pit = d] = World(d, w.timers, w.mt, w.fault)
  <2> DEFINE x == w.pit
             y == w.timers
             z == w.mt
             v == w.fault
  <2>1. w = World(x, y, z, v)
    BY <1>5, Zenon
  <2> HIDE DEF x, y, z, v
  <2>2. [World(x, y, z, v) EXCEPT !.pit = d] = World(d, y, z, v)
    BY DEF World
  <2>3. [w EXCEPT !.pit = d] = World(d, y, z, v)
    BY <2>1, <2>2
  <2> QED
    BY <2>3 DEF y, z, v
<1>8. WorldOK([w EXCEPT !.pit = d])
  BY <1>5, <1>6, <1>7, WorldGood
<1> QED
  BY <1>1, <1>2, <1>8, WorldBecomes

LEMMA TimerKeeps ==
  ASSUME StInv, NEW t \in timers, TimerRuns(t)
  PROVE  StInv'
<1> DEFINE e == IF pit = NoEntry THEN pit ELSE released(pit, t.id)
           us == timers \ {t}
           w == World(e, us, mt, "none")
<1>1. hops \in Seq(Faces) /\ EventsOK(pit, timers) /\ Cardinality(timers) =< MaxTimers
  BY Zenon DEF StInv
<1>2. hops' = hops
  BY Zenon DEF TimerRuns
<1>3. TimersOK(timers)
  BY <1>1, Zenon DEF EventsOK, EntryOK
<1>4. TimersOK(us) /\ Cardinality(us) =< MaxTimers
  <2>1. TimersOK(us) /\ Cardinality(us) =< Cardinality(timers)
    BY <1>3, CancelledOK
  <2>2. Cardinality(us) \in Nat /\ Cardinality(timers) \in Nat /\ MaxTimers \in Nat
    BY <1>3, <2>1, FS_CardinalityType, StrategiesAssumption DEF TimersOK
  <2> HIDE DEF us
  <2> QED
    BY <1>1, <2>1, <2>2
<1>5. w.pit = e /\ w.timers = us /\ w.fault = "none"
  BY DEF World
<1>6. CASE pit = NoEntry
  <2>1. Becomes(w) /\ e = NoEntry
    BY <1>6, Zenon DEF TimerRuns
  <2>2. pit' = NoEntry /\ timers' = us /\ fault' = "none"
    <3> HIDE DEF w, us, e
    <3> QED
      BY <1>5, <2>1, Zenon DEF Becomes
  <2>3. \A u \in us : u.kind # "rtoTimer"
    BY <1>1, <1>6, Zenon DEF EventsOK
  <2>4. EventsOK(pit, timers)'
    BY <1>4, <2>2, <2>3, Zenon DEF EventsOK, TimersOK
  <2>5. Cardinality(timers') =< MaxTimers /\ fault' # "nUpstreams"
    BY <1>4, <2>2
  <2> QED
    BY <1>1, <1>2, <2>4, <2>5, Zenon DEF StInv
<1>7. CASE pit # NoEntry
  <2>1. EntryOK(pit, timers) /\ e = released(pit, t.id)
    BY <1>1, <1>7, Zenon DEF EventsOK
  <2>2. us = cancelled(timers, t.id)
    BY <1>3 DEF cancelled, TimersOK
  <2>3. EntryOK(e, us)
    BY <2>1, <2>2, ReleasedOK
  <2> DEFINE x == t.except
  <2>4. \/ Becomes(nccTimeoutOnBestFace(w)) \/ Becomes(w) \/ Becomes(nccDoPropagate(w))
        \/ Becomes(accessAfterRtoTimeout(w, x))
    BY <1>7, Zenon DEF TimerRuns
  <2> HIDE DEF e, us, x
  <2>5. WorldOK(w) /\ WorldOK(nccTimeoutOnBestFace(w))
    BY <2>3, WorldGood, NccTimesOut
  <2>6. WorldOK(nccDoPropagate(w))
    BY <1>1, <1>4, <2>3, NccPropagates
  <2>7. WorldOK(accessAfterRtoTimeout(w, x))
    BY <1>1, <2>3, MulticastGood DEF accessAfterRtoTimeout
  <2> HIDE DEF w
  <2> QED
    BY <1>1, <1>2, <2>4, <2>5, <2>6, <2>7, WorldBecomes
<1> QED
  BY <1>6, <1>7

LEMMA RecordExpiryKeeps ==
  ASSUME StInv, NEW f \in Faces, RecordExpires(f)
  PROVE  StInv'
<1>1. hops \in Seq(Faces) /\ EventsOK(pit, timers) /\ Cardinality(timers) =< MaxTimers /\ fault # "nUpstreams"
  BY Zenon DEF StInv
<1>2. pit # NoEntry /\ hops' = hops /\ timers' = timers /\ fault' = fault
  BY Zenon DEF RecordExpires
<1>3. EntryOK(pit, timers) /\ pit \in PitEntries
  BY <1>1, <1>2, Zenon DEF EventsOK, EntryOK
<1>4. SameHandles(pit, pit')
  BY <1>3, RecordsChange, Zenon DEF RecordExpires
<1>5. EntryOK(pit', timers)
  BY <1>3, <1>4, HandlesKept
<1>6. EventsOK(pit', timers')
  BY <1>2, <1>5, EntryIsOne, Zenon
<1>7. EventsOK(pit, timers)'
  BY <1>6, Zenon DEF EventsOK, EntryOK, TimersOK, HandlesOK, Held
<1> QED
  BY <1>1, <1>2, <1>7, Zenon DEF StInv

(* The destructor of the StrategyInfo leaves no RTO timer behind. *)
LEMMA InfoDestroyed ==
  ASSUME StInv, pit # NoEntry
  PROVE  LET us == {t \in timers : t.id \notin HeldTimers(pit)}
         IN  /\ TimersOK(us) /\ Cardinality(us) =< MaxTimers
             /\ \A t \in us : t.kind # "rtoTimer"
<1> DEFINE us == {t \in timers : t.id \notin HeldTimers(pit)}
<1>1. EventsOK(pit, timers) /\ Cardinality(timers) =< MaxTimers
  BY Zenon DEF StInv
<1>2. TimersOK(timers) /\ HandlesOK(pit, timers)
  BY <1>1, Zenon DEF EventsOK, EntryOK
<1>3. TimersOK(us) /\ Cardinality(us) =< Cardinality(timers)
  BY <1>2, CancelledOK
<1>4. \A t \in us : t.kind # "rtoTimer"
  <2>1. pit.rto \in HeldTimers(pit)
    BY DEF HeldTimers
  <2> QED
    BY <1>2, <2>1 DEF HandlesOK
<1>5. Cardinality(us) \in Nat /\ Cardinality(timers) \in Nat /\ MaxTimers \in Nat
  BY <1>2, <1>3, FS_CardinalityType, StrategiesAssumption DEF TimersOK
<1> HIDE DEF us
<1>6. Cardinality(us) =< MaxTimers
  BY <1>1, <1>3, <1>5
<1> QED
  BY <1>3, <1>4, <1>6 DEF us

LEMMA EraseKeeps ==
  ASSUME StInv, EraseEntry
  PROVE  StInv'
<1> DEFINE us == {t \in timers : t.id \notin HeldTimers(pit)}
<1>1. pit # NoEntry /\ pit' = NoEntry /\ timers' = us /\ hops' = hops /\ fault' = fault
  BY Zenon DEF EraseEntry
<1>2. TimersOK(us) /\ Cardinality(us) =< MaxTimers /\ \A t \in us : t.kind # "rtoTimer"
  BY <1>1, InfoDestroyed
<1> HIDE DEF us
<1>3. EventsOK(pit, timers)'
  BY <1>1, <1>2, Zenon DEF EventsOK, TimersOK
<1> QED
  BY <1>1, <1>2, <1>3, Zenon DEF StInv

LEMMA FaceRemovalKeeps ==
  ASSUME StInv, NEW f, FaceRemoved(f)
  PROVE  StInv'
<1>1. hops \in Seq(Faces)
  BY Zenon DEF StInv
<1>2. UNCHANGED <<pit, timers, fault>>
  BY Zenon DEF FaceRemoved
<1>3. hops' \in Seq(Faces)
  <2>1. CASE f \in ToSet(hops)
    <3> DEFINE k == CHOOSE k \in DOMAIN hops : hops[k] = f
    <3>1. hops' = RemoveAt(hops, k)
      BY <2>1, Zenon DEF FaceRemoved
    <3>2. \E i \in DOMAIN hops : hops[i] = f
      BY <2>1 DEF ToSet
    <3>3. k \in DOMAIN hops
      BY <3>2
    <3> HIDE DEF k
    <3>4. Len(hops) \in Nat /\ k \in 1 .. Len(hops)
      BY <1>1, <3>3
    <3>5. SubSeq(hops, 1, k - 1) \in Seq(Faces) /\ SubSeq(hops, k + 1, Len(hops)) \in Seq(Faces)
      <4>1. ASSUME NEW i \in 1 .. Len(hops) + 1, NEW j \in 0 .. Len(hops)
            PROVE  SubSeq(hops, i, j) \in Seq(Faces)
        BY <1>1, SubSeqProperties
      <4> QED
        BY <3>4, <4>1
    <3> QED
      BY <3>1, <3>5, ConcatProperties DEF RemoveAt
  <2>2. CASE f \notin ToSet(hops)
    BY <1>1, <2>2, Zenon DEF FaceRemoved
  <2> QED
    BY <2>1, <2>2
<1> QED
  BY <1>2, <1>3, Zenon DEF StInv, EventsOK, EntryOK, TimersOK, HandlesOK, Held

LEMMA StrategyChangeKeeps ==
  ASSUME StInv, NEW l, NEW s, ChangeStrategy(l, s)
  PROVE  StInv'
<1> DEFINE us == {t \in timers : t.id \notin HeldTimers(pit)}
           d == [pit EXCEPT !.ncc = NoInfo, !.rto = NoTimer]
<1>1. /\ hops' = hops /\ fault' = fault
      /\ \/ pit # NoEntry /\ timers' = us /\ pit' = d
         \/ UNCHANGED <<pit, timers>>
  BY Zenon DEF ChangeStrategy
<1>2. CASE UNCHANGED <<pit, timers>>
  BY <1>1, <1>2, Zenon DEF StInv, EventsOK, EntryOK, TimersOK, HandlesOK, Held
<1>3. CASE pit # NoEntry /\ timers' = us /\ pit' = d
  <2>1. TimersOK(us) /\ Cardinality(us) =< MaxTimers /\ \A t \in us : t.kind # "rtoTimer"
    BY <1>3, InfoDestroyed
  <2>2. pit \in PitEntries
    BY <1>3, Zenon DEF StInv, EventsOK, EntryOK
  <2>3. d \in PitEntries /\ d.ncc = NoInfo /\ d.rto = NoTimer
    BY <2>2 DEF PitEntries, NoTimer
  <2> HIDE DEF us, d
  <2>4. EntryOK(d, us)
    BY <2>1, <2>3, Zenon DEF EntryOK, HandlesOK, Held
  <2>5. EventsOK(pit', timers')
    BY <1>3, <2>4, EntryIsOne, Zenon
  <2>6. EventsOK(pit, timers)'
    BY <2>5, Zenon DEF EventsOK, EntryOK, TimersOK, HandlesOK, Held
  <2> QED
    BY <1>1, <1>3, <2>1, <2>6, Zenon DEF StInv
<1> QED
  BY <1>1, <1>2, <1>3, Zenon

-----------------------------------------------------------------------------
LEMMA StInvInitially == StInit => StInv
<1> SUFFICES ASSUME StInit PROVE StInv
  OBVIOUS
<1>1. hops \in Hops /\ pit = NoEntry /\ timers = {} /\ fault = "none"
  BY Zenon DEF StInit
<1>2. hops \in Seq(Faces)
  BY <1>1, StrategiesAssumption, Zenon
<1>3. Cardinality(timers) =< MaxTimers
  BY <1>1, FS_EmptySet, StrategiesAssumption
<1>4. TimersOK(timers)
  BY <1>1, FS_EmptySet DEF TimersOK
<1> QED
  BY <1>1, <1>2, <1>3, <1>4 DEF StInv, EventsOK

LEMMA StInvKept == StInv /\ [StNext]_stVars => StInv'
<1> SUFFICES ASSUME StInv, [StNext]_stVars PROVE StInv'
  OBVIOUS
<1>1. CASE \E f \in Downstreams : IncomingInterest(f)
  BY <1>1, InterestKeeps, Zenon
<1>2. CASE \E f \in Upstreams, data \in DataLevels : IncomingData(f, data)
  BY <1>2, DataKeeps, Zenon
<1>3. CASE \E t \in timers : TimerRuns(t)
  BY <1>3, TimerKeeps, Zenon
<1>4. CASE \E f \in Faces : RecordExpires(f)
  BY <1>4, RecordExpiryKeeps, Zenon
<1>5. CASE EraseEntry
  BY <1>5, EraseKeeps, Zenon
<1>6. CASE \E f \in Faces : FaceRemoved(f)
  BY <1>6, FaceRemovalKeeps, Zenon
<1>7. CASE \E l \in ChoiceLevels, s \in {"ncc", "access", "inherit"} : ChangeStrategy(l, s)
  BY <1>7, StrategyChangeKeeps, Zenon
<1>8. CASE \E l \in Levels : MeasurementsExpire(l)
  BY <1>8, Zenon DEF MeasurementsExpire, StInv, EventsOK, EntryOK, TimersOK, HandlesOK, Held
<1>9. CASE UNCHANGED stVars
  BY <1>9, Zenon DEF stVars, StInv, EventsOK, EntryOK, TimersOK, HandlesOK, Held
<1> QED
  BY <1>1, <1>2, <1>3, <1>4, <1>5, <1>6, <1>7, <1>8, <1>9, Zenon DEF StNext

LEMMA StInvSuffices == StInv => AssumptionsHold
<1> SUFFICES ASSUME StInv PROVE AssumptionsHold
  OBVIOUS
<1>1. EventsOK(pit, timers) /\ fault # "nUpstreams"
  BY Zenon DEF StInv
<1>2. ASSUME NEW t \in timers, t.kind = "rtoTimer" PROVE pit # NoEntry /\ pit.rto = t.id
  BY <1>1, <1>2, Zenon DEF EventsOK, EntryOK, HandlesOK
<1> QED
  BY <1>1, <1>2, Zenon DEF AssumptionsHold

(* Every RTO timer is the one that the PIT entry's PitInfo holds, so that it  *)
(* cannot run after the PIT entry is gone, as afterRtoTimeout asserts         *)
(* (access-strategy.cpp:159), and NCC never counts fewer than no upstreams    *)
(* (ncc-strategy.cpp:81-106): for any faces, next hops, numbers of timers,    *)
(* retransmissions and strategy changes.                                      *)
THEOREM StrategiesAssumeRightly == StSpec => []AssumptionsHold
<1>1. StInit => StInv
  BY StInvInitially
<1>2. StInv /\ [StNext]_stVars => StInv'
  BY StInvKept
<1>3. StInv => AssumptionsHold
  BY StInvSuffices
<1> QED
  BY <1>1, <1>2, <1>3, PTL DEF StSpec

-----------------------------------------------------------------------------
(* The Content Store: queues as lists of distinct packets.                    *)
(* A queue of distinct packets. *)
Line(queue) == queue \in Seq(Packets) /\ IsInjective(queue)

LEMMA LineAppended ==
  ASSUME NEW Q, Line(Q), NEW p \in Packets, ~ Contains(Q, p)
  PROVE  /\ Line(Append(Q, p))
         /\ \A x : Contains(Append(Q, p), x) <=> Contains(Q, x) \/ x = p
<1> DEFINE A == Append(Q, p)
<1>1. Q \in Seq(Packets) /\ A \in Seq(Packets) /\ Len(A) = Len(Q) + 1 /\ Len(Q) \in Nat
  BY DEF Line
<1>2. A[Len(A)] = p /\ \A i \in 1 .. Len(Q) : A[i] = Q[i]
  BY <1>1
<1>3. DOMAIN A = 1 .. Len(A) /\ DOMAIN Q = 1 .. Len(Q)
  BY <1>1
<1> HIDE DEF A
<1>4. \A i, j \in 1 .. Len(Q) : Q[i] = Q[j] => i = j
  BY <1>3 DEF Line, IsInjective
<1>5. \A i \in 1 .. Len(Q) : Q[i] # p
  BY DEF Contains
<1>6. \A i, j \in 1 .. Len(A) : A[i] = A[j] => i = j
  BY <1>1, <1>2, <1>4, <1>5
<1>7. Line(A)
  BY <1>1, <1>3, <1>6 DEF Line, IsInjective
<1>8. ASSUME NEW x PROVE Contains(A, x) <=> Contains(Q, x) \/ x = p
  <2>1. Len(A) \in 1 .. Len(A) /\ \A i \in 1 .. Len(Q) : i \in 1 .. Len(A)
    BY <1>1
  <2>2. \A i \in 1 .. Len(A) : i = Len(A) \/ i \in 1 .. Len(Q)
    BY <1>1
  <2> QED
    BY <1>2, <2>1, <2>2 DEF Contains
<1> QED
  BY <1>7, <1>8 DEF A

(* What is left of a queue without the element at k. *)
LEMMA LineWithout ==
  ASSUME NEW Q, Line(Q), NEW R, NEW k \in 1 .. Len(Q),
         R \in Seq(Packets), Len(R) = Len(Q) - 1,
         \A i \in 1 .. Len(R) : R[i] = IF i < k THEN Q[i] ELSE Q[i + 1]
  PROVE  Line(R) /\ \A x : Contains(R, x) <=> Contains(Q, x) /\ x # Q[k]
<1>1. Q \in Seq(Packets) /\ Len(Q) \in Nat /\ DOMAIN Q = 1 .. Len(Q) /\ DOMAIN R = 1 .. Len(R)
  BY DEF Line
<1>4. \A i, j \in 1 .. Len(Q) : Q[i] = Q[j] => i = j
  BY <1>1 DEF Line, IsInjective
<1>2. \A i, j \in 1 .. Len(R) : R[i] = R[j] => i = j
  <2> TAKE i, j \in 1 .. Len(R)
  <2> DEFINE a == IF i < k THEN i ELSE i + 1
             b == IF j < k THEN j ELSE j + 1
  <2>1. R[i] = Q[a] /\ R[j] = Q[b] /\ a \in 1 .. Len(Q) /\ b \in 1 .. Len(Q)
    BY <1>1
  <2>2. a = b => i = j
    BY <1>1
  <2> QED
    BY <1>4, <2>1, <2>2
<1>3. Line(R)
  BY <1>1, <1>2 DEF Line, IsInjective
<1>5. ASSUME NEW x, Contains(R, x) PROVE Contains(Q, x) /\ x # Q[k]
  <2>1. PICK i \in 1 .. Len(R) : R[i] = x
    BY <1>5 DEF Contains
  <2> DEFINE a == IF i < k THEN i ELSE i + 1
  <2>2. x = Q[a] /\ a \in 1 .. Len(Q) /\ a # k
    BY <1>1, <2>1
  <2> HIDE DEF a
  <2> QED
    BY <1>4, <2>2 DEF Contains
<1>6. ASSUME NEW x, Contains(Q, x), x # Q[k] PROVE Contains(R, x)
  <2>1. PICK i \in 1 .. Len(Q) : Q[i] = x /\ i # k
    BY <1>6 DEF Contains
  <2> DEFINE a == IF i < k THEN i ELSE i - 1
  <2>2. a \in 1 .. Len(R) /\ R[a] = x
    BY <1>1, <2>1
  <2> HIDE DEF a
  <2> QED
    BY <2>2 DEF Contains
<1> QED
  BY <1>3, <1>5, <1>6

LEMMA LineErased ==
  ASSUME NEW Q, Line(Q), NEW p, Contains(Q, p)
  PROVE  /\ Line(Erase(Q, p))
         /\ \A x : Contains(Erase(Q, p), x) <=> Contains(Q, x) /\ x # p
<1> DEFINE k == CHOOSE i \in 1 .. Len(Q) : Q[i] = p
           R == RemoveAt(Q, k)
<1>1. k \in 1 .. Len(Q) /\ Q[k] = p
  BY Zenon DEF Contains
<1>2. Erase(Q, p) = R
  BY Zenon DEF Erase
<1> HIDE DEF k
<1>3. Q \in Seq(Packets) /\ Len(Q) \in Nat
  BY DEF Line
<1> DEFINE A == SubSeq(Q, 1, k - 1)
           B == SubSeq(Q, k + 1, Len(Q))
<1>4. A \in Seq(Packets) /\ Len(A) = k - 1 /\ \A i \in 1 .. k - 1 : A[i] = Q[i]
  BY <1>1, <1>3
<1>5. B \in Seq(Packets) /\ Len(B) = Len(Q) - k /\ \A i \in 1 .. Len(Q) - k : B[i] = Q[k + i]
  BY <1>1, <1>3
<1>6. R = A \o B
  BY Zenon DEF RemoveAt
<1> HIDE DEF A, B, R
<1>7. /\ R \in Seq(Packets) /\ Len(R) = Len(A) + Len(B)
      /\ \A i \in 1 .. Len(A) + Len(B) : R[i] = IF i =< Len(A) THEN A[i] ELSE B[i - Len(A)]
  BY <1>4, <1>5, <1>6, ConcatProperties
<1>71. Len(R) = Len(Q) - 1
  BY <1>1, <1>3, <1>4, <1>5, <1>7
<1>8. ASSUME NEW i \in 1 .. Len(R) PROVE R[i] = IF i < k THEN Q[i] ELSE Q[i + 1]
  <2>1. CASE i < k
    BY <1>1, <1>3, <1>4, <1>5, <1>7, <2>1
  <2>2. CASE ~ (i < k)
    <3>1. R[i] = B[i - (k - 1)]
      BY <1>1, <1>3, <1>4, <1>5, <1>7, <2>2
    <3>2. i - (k - 1) \in 1 .. Len(Q) - k /\ k + (i - (k - 1)) = i + 1
      BY <1>1, <1>3, <1>71, <2>2
    <3> QED
      BY <1>5, <2>2, <3>1, <3>2
  <2> QED
    BY <2>1, <2>2
<1>9. Line(R) /\ \A x : Contains(R, x) <=> Contains(Q, x) /\ x # Q[k]
  BY <1>1, <1>7, <1>71, <1>8, LineWithout
<1> QED
  BY <1>1, <1>2, <1>9

LEMMA LineHead ==
  ASSUME NEW Q, Line(Q), Q # <<>>
  PROVE  /\ Contains(Q, Head(Q)) /\ Line(Tail(Q))
         /\ \A x : Contains(Tail(Q), x) <=> Contains(Q, x) /\ x # Head(Q)
<1>1. Q \in Seq(Packets) /\ Len(Q) \in Nat /\ Len(Q) > 0 /\ Head(Q) = Q[1]
  BY DEF Line
<1>2. Tail(Q) \in Seq(Packets) /\ Len(Tail(Q)) = Len(Q) - 1 /\ \A i \in 1 .. Len(Q) - 1 : Tail(Q)[i] = Q[i + 1]
  BY <1>1
<1>3. 1 \in 1 .. Len(Q) /\ \A i \in 1 .. Len(Tail(Q)) : Tail(Q)[i] = IF i < 1 THEN Q[i] ELSE Q[i + 1]
  BY <1>1, <1>2
<1>4. Line(Tail(Q)) /\ \A x : Contains(Tail(Q), x) <=> Contains(Q, x) /\ x # Q[1]
  BY <1>2, <1>3, LineWithout
<1>5. Contains(Q, Head(Q))
  BY <1>1, <1>3 DEF Contains
<1> QED
  BY <1>1, <1>4, <1>5

LEMMA LineEmpty == Line(<<>>) /\ \A x : ~ Contains(<<>>, x)
BY DEF Line, Contains, IsInjective

LEMMA LineFilled ==
  ASSUME NEW Q, Line(Q), \A x : ~ Contains(Q, x)
  PROVE  Q = <<>>
<1> SUFFICES ASSUME Q # <<>> PROVE FALSE
  OBVIOUS
<1> QED
  BY LineHead

LEMMA LinesJoined ==
  ASSUME NEW Q, Line(Q), NEW R, Line(R), \A x : ~ (Contains(Q, x) /\ Contains(R, x))
  PROVE  Line(Q \o R) /\ \A x : Contains(Q \o R, x) <=> Contains(Q, x) \/ Contains(R, x)
<1> DEFINE J == Q \o R
<1>1. /\ Q \in Seq(Packets) /\ Len(Q) \in Nat /\ DOMAIN Q = 1 .. Len(Q)
      /\ R \in Seq(Packets) /\ Len(R) \in Nat /\ DOMAIN R = 1 .. Len(R)
  BY DEF Line
<1>2. J \in Seq(Packets) /\ Len(J) = Len(Q) + Len(R) /\ DOMAIN J = 1 .. Len(J)
  BY <1>1
<1>3. \A i \in 1 .. Len(J) : J[i] = IF i =< Len(Q) THEN Q[i] ELSE R[i - Len(Q)]
  BY <1>1, <1>2, ConcatProperties
<1> HIDE DEF J
<1>4. /\ \A i, j \in 1 .. Len(Q) : Q[i] = Q[j] => i = j
      /\ \A i, j \in 1 .. Len(R) : R[i] = R[j] => i = j
  BY <1>1 DEF Line, IsInjective
<1>5. \A i \in 1 .. Len(Q), j \in 1 .. Len(R) : Q[i] # R[j]
  BY DEF Contains
<1>6. \A i, j \in 1 .. Len(J) : J[i] = J[j] => i = j
  <2> TAKE i, j \in 1 .. Len(J)
  <2>1. CASE i =< Len(Q) /\ j =< Len(Q)
    <3>1. i \in 1 .. Len(Q) /\ j \in 1 .. Len(Q)
      BY <1>1, <2>1
    <3> QED
      BY <1>3, <1>4, <2>1, <3>1
  <2>2. CASE ~ (i =< Len(Q)) /\ ~ (j =< Len(Q))
    <3>1. i - Len(Q) \in 1 .. Len(R) /\ j - Len(Q) \in 1 .. Len(R)
      BY <1>1, <1>2, <2>2
    <3>2. J[i] = J[j] => i - Len(Q) = j - Len(Q)
      BY <1>3, <1>4, <2>2, <3>1
    <3> QED
      BY <1>1, <3>2
  <2>3. CASE i =< Len(Q) /\ ~ (j =< Len(Q))
    <3>1. i \in 1 .. Len(Q) /\ j - Len(Q) \in 1 .. Len(R)
      BY <1>1, <1>2, <2>3
    <3> QED
      BY <1>3, <1>5, <2>3, <3>1
  <2>4. CASE ~ (i =< Len(Q)) /\ j =< Len(Q)
    <3>1. j \in 1 .. Len(Q) /\ i - Len(Q) \in 1 .. Len(R)
      BY <1>1, <1>2, <2>4
    <3> QED
      BY <1>3, <1>5, <2>4, <3>1
  <2> QED
    BY <2>1, <2>2, <2>3, <2>4
<1>7. Line(J)
  BY <1>2, <1>6 DEF Line, IsInjective
<1>8. ASSUME NEW x, Contains(J, x) PROVE Contains(Q, x) \/ Contains(R, x)
  <2>1. PICK i \in 1 .. Len(J) : J[i] = x
    BY <1>8 DEF Contains
  <2>2. CASE i =< Len(Q)
    <3>1. i \in 1 .. Len(Q) /\ Q[i] = x
      BY <1>1, <1>3, <2>1, <2>2
    <3> QED
      BY <3>1 DEF Contains
  <2>3. CASE ~ (i =< Len(Q))
    <3>1. i - Len(Q) \in 1 .. Len(R) /\ R[i - Len(Q)] = x
      BY <1>1, <1>2, <1>3, <2>1, <2>3
    <3> QED
      BY <3>1 DEF Contains
  <2> QED
    BY <2>2, <2>3
<1>9. ASSUME NEW x, Contains(Q, x) PROVE Contains(J, x)
  <2>1. PICK i \in 1 .. Len(Q) : Q[i] = x
    BY <1>9 DEF Contains
  <2>2. i \in 1 .. Len(J) /\ J[i] = x
    BY <1>1, <1>2, <1>3, <2>1
  <2> QED
    BY <2>2 DEF Contains
<1>10. ASSUME NEW x, Contains(R, x) PROVE Contains(J, x)
  <2>1. PICK i \in 1 .. Len(R) : R[i] = x
    BY <1>10 DEF Contains
  <2>2. Len(Q) + i \in 1 .. Len(J) /\ J[Len(Q) + i] = x
    <3>1. Len(Q) + i \in 1 .. Len(J) /\ ~ (Len(Q) + i =< Len(Q)) /\ (Len(Q) + i) - Len(Q) = i
      BY <1>1, <1>2
    <3> QED
      BY <1>3, <2>1, <3>1
  <2> QED
    BY <2>2 DEF Contains
<1> QED
  BY <1>7, <1>8, <1>9, <1>10 DEF J

-----------------------------------------------------------------------------
QueuesOK(qs) ==
  /\ qs \in [QueueTypes -> Seq(Packets)] /\ \A q \in QueueTypes : Line(qs[q])
  /\ \A q, r \in QueueTypes : \A x : Contains(qs[q], x) /\ Contains(qs[r], x) => q = r

(* The packets of D, and only they, are in the queues of the policy. *)
HeldIn(qs, D, pol) ==
  /\ \A x : x \in D <=> \E q \in QueueTypes : Contains(qs[q], x)
  /\ pol = "fifo" => qs["lru"] = <<>>
  /\ pol = "lru" => qs["unsolicited"] = <<>> /\ qs["stale"] = <<>> /\ qs["fifo"] = <<>>

EntryFits(p, entry) ==
  /\ entry.unsolicited \in BOOLEAN /\ entry.staleIn \in Int
  /\ IF canStale(p) THEN entry.staleIn < Forever ELSE entry.staleIn = Forever

TableOK(t) ==
  /\ IsFiniteSet(DOMAIN t) /\ DOMAIN t \subseteq Packets
  /\ \A p \in DOMAIN t : EntryFits(p, t[p])

Event(p, n) == [packet |-> p, left |-> IF n > 0 THEN n ELSE 0]

Scheduled(t, qs, m) ==
  \A e : e \in m <=> \E x : Contains(qs["fifo"], x) /\ canStale(x) /\ e = Event(x, t[x].staleIn)

Placed(t, qs) ==
  \A x : /\ Contains(qs["unsolicited"], x) => t[x].unsolicited = TRUE
         /\ Contains(qs["stale"], x) => t[x].unsolicited = FALSE /\ t[x].staleIn =< 0
         /\ Contains(qs["fifo"], x) => t[x].unsolicited = FALSE

Kept(s, pol, D) ==
  /\ pol \in {"fifo", "lru"} /\ D \subseteq DOMAIN s.table
  /\ TableOK(s.table) /\ QueuesOK(s.queues) /\ HeldIn(s.queues, D, pol)
  /\ Scheduled(s.table, s.queues, s.moves) /\ Placed(s.table, s.queues)

LEMMA FreshnessIsTime ==
  ASSUME NEW p \in Packets
  PROVE  Freshness[p] \in Nat /\ Freshness[p] =< Forever
<1>1. Freshness[p] \in 0 .. Forever
  BY ContentStoreAssumption, Zenon
<1>2. \A n \in 0 .. Forever : n \in Nat /\ n =< Forever
  BY SMT DEF Forever
<1> QED
  BY <1>1, <1>2, Zenon

LEMMA StoredFields ==
  ASSUME NEW t, NEW q, NEW m
  PROVE  Stored(t, q, m).table = t /\ Stored(t, q, m).queues = q /\ Stored(t, q, m).moves = m
BY DEF Stored

LEMMA LeastNatural ==
  ASSUME NEW S \in SUBSET Nat, S # {}
  PROVE  \E x \in S : \A y \in S : x =< y
<1> DEFINE R == OpToRel(<, Nat)
<1>1. IsWellFoundedOn(R, Nat)
  BY NatLessThanWellFounded
<1>2. \A x, y \in Nat : x < y => <<x, y>> \in R
  BY DEF OpToRel
<1> HIDE DEF R
<1>3. \E x \in S : \A y \in S : ~ (<<y, x>> \in R)
  BY <1>1, WFMin
<1>4. PICK x \in S : \A y \in S : ~ (<<y, x>> \in R)
  BY <1>3
<1>5. x \in Nat /\ \A y \in S : y \in Nat /\ ~ (y < x)
  BY <1>2, <1>4
<1> QED
  BY <1>5

LEMMA QueuesEnqueued ==
  ASSUME NEW qs, QueuesOK(qs), NEW q \in QueueTypes, NEW p \in Packets,
         \A r \in QueueTypes : ~ Contains(qs[r], p)
  PROVE  /\ QueuesOK(Enqueued(qs, q, p))
         /\ \A r \in QueueTypes : r # q => Enqueued(qs, q, p)[r] = qs[r]
         /\ \A x : Contains(Enqueued(qs, q, p)[q], x) <=> Contains(qs[q], x) \/ x = p
<1> DEFINE E == Enqueued(qs, q, p)
<1>1. qs \in [QueueTypes -> Seq(Packets)] /\ Line(qs[q])
  BY DEF QueuesOK
<1>2. DOMAIN E = QueueTypes /\ E[q] = Append(qs[q], p) /\ \A r \in QueueTypes : r # q => E[r] = qs[r]
  BY <1>1 DEF Enqueued
<1>3. E = [r \in QueueTypes |-> E[r]]
  BY <1>1 DEF Enqueued
<1>4. Line(E[q]) /\ \A x : Contains(E[q], x) <=> Contains(qs[q], x) \/ x = p
  BY <1>1, <1>2, LineAppended
<1> HIDE DEF E
<1>5. \A r \in QueueTypes : Line(E[r])
  BY <1>2, <1>4 DEF QueuesOK
<1>6. E \in [QueueTypes -> Seq(Packets)]
  BY <1>3, <1>5 DEF Line
<1>7. \A r, u \in QueueTypes : \A x : Contains(E[r], x) /\ Contains(E[u], x) => r = u
  <2>1. \A r \in QueueTypes : \A x : Contains(E[r], x) => Contains(qs[r], x) \/ (r = q /\ x = p)
    BY <1>2, <1>4, Zenon
  <2>2. \A r, u \in QueueTypes : \A x : Contains(qs[r], x) /\ Contains(qs[u], x) => r = u
    BY DEF QueuesOK
  <2> QED
    BY <2>1, <2>2
<1>8. QueuesOK(E)
  BY <1>5, <1>6, <1>7 DEF QueuesOK
<1> QED
  BY <1>2, <1>4, <1>8 DEF E

LEMMA QueuesWithout ==
  ASSUME NEW qs, QueuesOK(qs), NEW q \in QueueTypes, NEW p, NEW R,
         Line(R), \A x : Contains(R, x) <=> Contains(qs[q], x) /\ x # p
  PROVE  /\ QueuesOK([qs EXCEPT ![q] = R])
         /\ \A r \in QueueTypes : r # q => [qs EXCEPT ![q] = R][r] = qs[r]
         /\ \A x : Contains([qs EXCEPT ![q] = R][q], x) <=> Contains(qs[q], x) /\ x # p
<1> DEFINE E == [qs EXCEPT ![q] = R]
<1>1. qs \in [QueueTypes -> Seq(Packets)]
  BY DEF QueuesOK
<1>2. E[q] = R /\ \A r \in QueueTypes : r # q => E[r] = qs[r]
  BY <1>1
<1>3. E = [r \in QueueTypes |-> E[r]]
  BY <1>1
<1> HIDE DEF E
<1>5. \A r \in QueueTypes : Line(E[r])
  BY <1>2 DEF QueuesOK
<1>6. E \in [QueueTypes -> Seq(Packets)]
  BY <1>3, <1>5 DEF Line
<1>7. \A r, u \in QueueTypes : \A x : Contains(E[r], x) /\ Contains(E[u], x) => r = u
  <2>1. \A r \in QueueTypes : \A x : Contains(E[r], x) => Contains(qs[r], x)
    BY <1>2, Zenon
  <2> QED
    BY <2>1, Zenon DEF QueuesOK
<1>8. QueuesOK(E)
  BY <1>5, <1>6, <1>7 DEF QueuesOK
<1> QED
  BY <1>2, <1>8 DEF E

LEMMA QueuesDequeued ==
  ASSUME NEW qs, QueuesOK(qs), NEW q \in QueueTypes, NEW p, Contains(qs[q], p)
  PROVE  /\ QueuesOK(Dequeued(qs, q, p))
         /\ \A r \in QueueTypes : r # q => Dequeued(qs, q, p)[r] = qs[r]
         /\ \A x : Contains(Dequeued(qs, q, p)[q], x) <=> Contains(qs[q], x) /\ x # p
<1>1. Line(qs[q])
  BY DEF QueuesOK
<1>2. /\ Line(Erase(qs[q], p))
      /\ \A x : Contains(Erase(qs[q], p), x) <=> Contains(qs[q], x) /\ x # p
  BY <1>1, LineErased
<1> QED
  BY <1>2, QueuesWithout, Zenon DEF Dequeued

(* A packet that is in no queue has an entry of its own. *)
LEMMA EntryPut ==
  ASSUME NEW s, NEW pol, NEW D, Kept(s, pol, D),
         NEW p \in Packets, NEW entry, EntryFits(p, entry), p \notin D \/ pol = "lru",
         NEW t, t = [x \in DOMAIN s.table \cup {p} |-> IF x = p THEN entry ELSE s.table[x]]
  PROVE  Kept(Stored(t, s.queues, s.moves), pol, D)
<1>1. DOMAIN t = DOMAIN s.table \cup {p} /\ t[p] = entry /\ \A x \in DOMAIN s.table : x # p => t[x] = s.table[x]
  OBVIOUS
<1>2. TableOK(t)
  <2>1. IsFiniteSet(DOMAIN t)
    BY <1>1, FS_AddElement DEF Kept, TableOK
  <2> QED
    BY <1>1, <2>1 DEF Kept, TableOK
<1>3. \A x : x \in D <=> \E q \in QueueTypes : Contains(s.queues[q], x)
  BY DEF Kept, HeldIn
<1>4. D \subseteq DOMAIN s.table /\ QueuesOK(s.queues) /\ HeldIn(s.queues, D, pol)
  BY DEF Kept
<1>5. \A x : Contains(s.queues["unsolicited"], x) \/ Contains(s.queues["stale"], x) \/ Contains(s.queues["fifo"], x)
              => t[x] = s.table[x]
  <2> TAKE x
  <2>1. CASE p \notin D
    <3>1. \A q \in QueueTypes : Contains(s.queues[q], x) => x \in D
      BY <1>3
    <3>2. x \in D => t[x] = s.table[x]
      BY <1>1, <1>4, <2>1
    <3> QED
      BY <3>1, <3>2 DEF QueueTypes
  <2>2. CASE pol = "lru"
    BY <1>4, <2>2, LineEmpty DEF HeldIn
  <2> QED
    BY <2>1, <2>2
<1>6. Scheduled(t, s.queues, s.moves)
  <2>1. \A x : Contains(s.queues["fifo"], x) => t[x] = s.table[x]
    BY <1>5
  <2> QED
    BY <2>1, Zenon DEF Kept, Scheduled
<1>7. Placed(t, s.queues)
  <2>1. Placed(s.table, s.queues)
    BY DEF Kept
  <2> QED
    BY <1>5, <2>1, Zenon DEF Placed
<1> QED
  BY <1>1, <1>2, <1>4, <1>6, <1>7, StoredFields DEF Kept

LEMMA EntryErased ==
  ASSUME NEW s, NEW pol, NEW D, Kept(s, pol, D), NEW p, p \notin D
  PROVE  Kept(erased(s, p), pol, D)
<1> DEFINE t == [x \in DOMAIN s.table \ {p} |-> s.table[x]]
<1>1. DOMAIN t = DOMAIN s.table \ {p} /\ \A x \in DOMAIN s.table : x # p => t[x] = s.table[x]
  OBVIOUS
<1> HIDE DEF t
<1>2. TableOK(t)
  <2>1. IsFiniteSet(DOMAIN t)
    BY <1>1, FS_RemoveElement DEF Kept, TableOK
  <2> QED
    BY <1>1, <2>1 DEF Kept, TableOK
<1>3. \A x : x \in D <=> \E q \in QueueTypes : Contains(s.queues[q], x)
  BY DEF Kept, HeldIn
<1>4. D \subseteq DOMAIN s.table /\ QueuesOK(s.queues) /\ HeldIn(s.queues, D, pol)
  BY DEF Kept
<1>5. \A x : \A q \in QueueTypes : Contains(s.queues[q], x) => t[x] = s.table[x]
  BY <1>1, <1>3, <1>4
<1>6. "fifo" \in QueueTypes /\ "unsolicited" \in QueueTypes /\ "stale" \in QueueTypes
  BY DEF QueueTypes
<1>7. Scheduled(t, s.queues, s.moves)
  BY <1>5, <1>6, Zenon DEF Kept, Scheduled
<1>8. Placed(t, s.queues)
  <2>1. Placed(s.table, s.queues)
    BY DEF Kept
  <2> QED
    BY <1>5, <1>6, <2>1, Zenon DEF Placed
<1>9. erased(s, p) = Stored(t, s.queues, s.moves)
  BY DEF erased, t
<1>10. D \subseteq DOMAIN t
  BY <1>1, <1>4
<1> QED
  BY <1>2, <1>4, <1>7, <1>8, <1>9, <1>10, StoredFields DEF Kept

(* A packet joins the queue its entry belongs to, with an event for the time   *)
(* it becomes stale in the FIFO queue.                                         *)
LEMMA PacketJoins ==
  ASSUME NEW s, NEW D, Kept(s, "fifo", D), NEW p \in DOMAIN s.table, p \notin D,
         NEW q \in {"unsolicited", "stale", "fifo"},
         q = "unsolicited" => s.table[p].unsolicited = TRUE,
         q = "stale" => s.table[p].unsolicited = FALSE /\ s.table[p].staleIn =< 0,
         q = "fifo" => s.table[p].unsolicited = FALSE,
         NEW m,
         \A e : e \in m <=> e \in s.moves \/ (q = "fifo" /\ canStale(p) /\ e = Event(p, s.table[p].staleIn))
  PROVE  Kept(Stored(s.table, Enqueued(s.queues, q, p), m), "fifo", D \cup {p})
<1> DEFINE qs == Enqueued(s.queues, q, p)
<1>2. /\ QueuesOK(s.queues) /\ HeldIn(s.queues, D, "fifo") /\ TableOK(s.table)
      /\ Scheduled(s.table, s.queues, s.moves) /\ Placed(s.table, s.queues)
  BY DEF Kept
<1>3. p \in Packets
  BY <1>2 DEF TableOK
<1>5. q \in QueueTypes
  BY DEF QueueTypes
<1>6. \A r \in QueueTypes : ~ Contains(s.queues[r], p)
  BY <1>2 DEF HeldIn
<1>7. /\ QueuesOK(qs) /\ \A r \in QueueTypes : r # q => qs[r] = s.queues[r]
      /\ \A x : Contains(qs[q], x) <=> Contains(s.queues[q], x) \/ x = p
  BY <1>2, <1>3, <1>5, <1>6, QueuesEnqueued
<1> HIDE DEF qs
<1>8. \A r \in QueueTypes : \A x : Contains(qs[r], x) <=> Contains(s.queues[r], x) \/ (r = q /\ x = p)
  BY <1>7, Zenon
<1>9. /\ "fifo" \in QueueTypes /\ "unsolicited" \in QueueTypes /\ "stale" \in QueueTypes
      /\ "lru" \in QueueTypes
  BY DEF QueueTypes
<1>10. HeldIn(qs, D \cup {p}, "fifo")
  <2>1. \A x : x \in D \cup {p} <=> \E r \in QueueTypes : Contains(qs[r], x)
    BY <1>2, <1>5, <1>8 DEF HeldIn
  <2>2. qs["lru"] = <<>>
    BY <1>2, <1>7, <1>9 DEF HeldIn
  <2> QED
    BY <2>1, <2>2 DEF HeldIn
<1>11. Placed(s.table, qs)
  BY <1>2, <1>8, <1>9 DEF Placed
<1>12. Scheduled(s.table, qs, m)
  <2>1. \A x : Contains(qs["fifo"], x) <=> Contains(s.queues["fifo"], x) \/ (q = "fifo" /\ x = p)
    BY <1>8, <1>9
  <2> QED
    BY <1>2, <2>1, Zenon DEF Scheduled
<1>13. D \cup {p} \subseteq DOMAIN s.table
  BY DEF Kept
<1> QED
  BY <1>2, <1>7, <1>10, <1>11, <1>12, <1>13, StoredFields DEF Kept, qs

LEMMA EntryAttached ==
  ASSUME NEW s, NEW D, Kept(s, "fifo", D),
         NEW p \in DOMAIN s.table, p \notin D, s.table[p].staleIn = Freshness[p]
  PROVE  Kept(attachQueue(s, p), "fifo", D \cup {p}) /\ attachQueue(s, p).table = s.table
<1> DEFINE entry == s.table[p]
           q == CASE entry.unsolicited -> "unsolicited"
                  [] ~ entry.unsolicited /\ isStale(entry) -> "stale"
                  [] OTHER -> "fifo"
           m == IF q = "fifo" /\ canStale(p)
                THEN s.moves \cup {[packet |-> p, left |-> Freshness[p]]} ELSE s.moves
<1>1. attachQueue(s, p) = Stored(s.table, Enqueued(s.queues, q, p), m)
  BY Zenon DEF attachQueue
<1>2. p \in Packets /\ EntryFits(p, entry)
  BY DEF Kept, TableOK
<1>3. entry.staleIn = Freshness[p] /\ entry.staleIn \in Nat
  BY <1>2, FreshnessIsTime
<1>4. /\ q = "unsolicited" => entry.unsolicited = TRUE
      /\ q = "stale" => entry.unsolicited = FALSE /\ entry.staleIn =< 0
      /\ q = "fifo" => entry.unsolicited = FALSE
      /\ q \in {"unsolicited", "stale", "fifo"}
  <2>1. entry.unsolicited \in BOOLEAN /\ entry.staleIn \in Int
    BY <1>2 DEF EntryFits
  <2>2. isStale(entry) => entry.staleIn =< 0
    BY <2>1 DEF isStale
  <2> HIDE DEF entry
  <2>3. CASE entry.unsolicited = TRUE
    BY <2>3
  <2>4. CASE entry.unsolicited = FALSE
    <3>1. CASE isStale(entry)
      BY <2>2, <2>4, <3>1
    <3>2. CASE ~ isStale(entry)
      BY <2>4, <3>2
    <3> QED
      BY <3>1, <3>2
  <2> QED
    BY <2>1, <2>3, <2>4
<1> HIDE DEF q
<1>5. Event(p, entry.staleIn) = [packet |-> p, left |-> Freshness[p]]
  BY <1>3 DEF Event
<1>6. \A e : e \in m <=> e \in s.moves \/ (q = "fifo" /\ canStale(p) /\ e = Event(p, entry.staleIn))
  BY <1>5
<1> HIDE DEF m
<1>7. Kept(Stored(s.table, Enqueued(s.queues, q, p), m), "fifo", D \cup {p})
  BY <1>4, <1>6, PacketJoins
<1> QED
  BY <1>1, <1>7, StoredFields

LEMMA QueueIsOne ==
  ASSUME NEW qs, QueuesOK(qs), NEW q \in QueueTypes, NEW p, Contains(qs[q], p)
  PROVE  QueueOf(qs, p) = q
BY Zenon DEF QueuesOK, QueueOf

(* A packet leaves its queue, and its event is cancelled. *)
LEMMA PacketLeaves ==
  ASSUME NEW s, NEW pol, NEW D, Kept(s, pol, D), NEW q \in QueueTypes, NEW p,
         Contains(s.queues[q], p), NEW qs, QueuesOK(qs),
         \A r \in QueueTypes : r # q => qs[r] = s.queues[r],
         \A x : Contains(qs[q], x) <=> Contains(s.queues[q], x) /\ x # p,
         NEW m, \A e : e \in m <=> e \in s.moves /\ (q = "fifo" => e.packet # p)
  PROVE  Kept(Stored(s.table, qs, m), pol, D \ {p})
<1>2. /\ QueuesOK(s.queues) /\ HeldIn(s.queues, D, pol) /\ TableOK(s.table)
      /\ Scheduled(s.table, s.queues, s.moves) /\ Placed(s.table, s.queues)
  BY DEF Kept
<1>3. \A r \in QueueTypes : Contains(s.queues[r], p) => r = q
  BY <1>2 DEF QueuesOK
<1>4. \A r \in QueueTypes : \A x : Contains(qs[r], x) <=> Contains(s.queues[r], x) /\ x # p
  BY <1>3, Zenon
<1>5. /\ "fifo" \in QueueTypes /\ "unsolicited" \in QueueTypes /\ "stale" \in QueueTypes
      /\ "lru" \in QueueTypes
  BY DEF QueueTypes
<1>6. \A r \in QueueTypes : s.queues[r] = <<>> => qs[r] = <<>>
  BY LineEmpty
<1>7. HeldIn(qs, D \ {p}, pol)
  <2>1. \A x : x \in D \ {p} <=> \E r \in QueueTypes : Contains(qs[r], x)
    BY <1>2, <1>4 DEF HeldIn
  <2> QED
    BY <1>2, <1>5, <1>6, <2>1 DEF HeldIn
<1>8. Placed(s.table, qs)
  BY <1>2, <1>4, <1>5, Zenon DEF Placed
<1>9. Scheduled(s.table, qs, m)
  <2>1. \A x, n : Event(x, n).packet = x
    BY DEF Event
  <2>2. \A x : Contains(qs["fifo"], x) <=> Contains(s.queues["fifo"], x) /\ x # p
    BY <1>4, <1>5
  <2>3. q # "fifo" => ~ Contains(s.queues["fifo"], p)
    BY <1>3, <1>5
  <2>4. ASSUME NEW e, e \in m
        PROVE  \E x : Contains(qs["fifo"], x) /\ canStale(x) /\ e = Event(x, s.table[x].staleIn)
    <3>1. e \in s.moves
      BY <2>4
    <3>2. PICK x : Contains(s.queues["fifo"], x) /\ canStale(x) /\ e = Event(x, s.table[x].staleIn)
      BY <1>2, <3>1, Zenon DEF Scheduled
    <3>3. x # p
      BY <2>1, <2>3, <2>4, <3>2
    <3> QED
      BY <2>2, <3>2, <3>3, Zenon
  <2>5. ASSUME NEW x, Contains(qs["fifo"], x), canStale(x)
        PROVE  Event(x, s.table[x].staleIn) \in m
    <3>1. Contains(s.queues["fifo"], x) /\ x # p
      BY <2>2, <2>5
    <3>2. Event(x, s.table[x].staleIn) \in s.moves
      BY <1>2, <2>5, <3>1, Zenon DEF Scheduled
    <3> QED
      BY <2>1, <3>1, <3>2
  <2> QED
    BY <2>4, <2>5, Zenon DEF Scheduled
<1>10. D \ {p} \subseteq DOMAIN s.table
  BY DEF Kept
<1> QED
  BY <1>2, <1>7, <1>8, <1>9, <1>10, StoredFields DEF Kept

LEMMA EntryDetached ==
  ASSUME NEW s, NEW pol, NEW D, Kept(s, pol, D), NEW q \in QueueTypes, NEW p,
         Contains(s.queues[q], p)
  PROVE  /\ Kept(detachQueue(s, p), pol, D \ {p}) /\ detachQueue(s, p).table = s.table
         /\ \A r \in QueueTypes : r # q => detachQueue(s, p).queues[r] = s.queues[r]
<1> DEFINE qs == Dequeued(s.queues, q, p)
           m == IF q = "fifo" THEN {e \in s.moves : e.packet # p} ELSE s.moves
<1>1. QueuesOK(s.queues)
  BY DEF Kept
<1>2. QueueOf(s.queues, p) = q
  BY <1>1, QueueIsOne
<1>3. detachQueue(s, p) = Stored(s.table, qs, m)
  BY <1>2, Zenon DEF detachQueue
<1>4. /\ QueuesOK(qs) /\ \A r \in QueueTypes : r # q => qs[r] = s.queues[r]
      /\ \A x : Contains(qs[q], x) <=> Contains(s.queues[q], x) /\ x # p
  BY <1>1, QueuesDequeued
<1>5. \A e : e \in m <=> e \in s.moves /\ (q = "fifo" => e.packet # p)
  OBVIOUS
<1> HIDE DEF qs, m
<1>6. Kept(Stored(s.table, qs, m), pol, D \ {p})
  BY <1>4, <1>5, PacketLeaves
<1> QED
  BY <1>3, <1>4, <1>6, StoredFields

(* insertToQueue: the packet is at the end of the queue, wherever it was. *)
LEMMA EntryQueued ==
  ASSUME NEW s, NEW D, Kept(s, "lru", D), NEW p \in DOMAIN s.table
  PROVE  Kept(insertToQueue(s, p), "lru", D \cup {p}) /\ insertToQueue(s, p).table = s.table
<1> DEFINE rest == IF Contains(s.queues["lru"], p) THEN Dequeued(s.queues, "lru", p) ELSE s.queues
           qs == Enqueued(rest, "lru", p)
<1>1. insertToQueue(s, p) = Stored(s.table, qs, s.moves)
  BY Zenon DEF insertToQueue
<1>2. /\ QueuesOK(s.queues) /\ HeldIn(s.queues, D, "lru") /\ TableOK(s.table)
      /\ Scheduled(s.table, s.queues, s.moves) /\ Placed(s.table, s.queues)
  BY DEF Kept
<1>3. p \in Packets
  BY <1>2 DEF TableOK
<1>4. /\ "fifo" \in QueueTypes /\ "unsolicited" \in QueueTypes /\ "stale" \in QueueTypes
      /\ "lru" \in QueueTypes
  BY DEF QueueTypes
<1>5. /\ QueuesOK(rest) /\ \A r \in QueueTypes : r # "lru" => rest[r] = s.queues[r]
      /\ \A x : Contains(rest["lru"], x) <=> Contains(s.queues["lru"], x) /\ x # p
  <2>1. CASE Contains(s.queues["lru"], p)
    <3>1. rest = Dequeued(s.queues, "lru", p)
      BY <2>1
    <3> HIDE DEF rest
    <3> QED
      BY <1>2, <1>4, <2>1, <3>1, QueuesDequeued
  <2>2. CASE ~ Contains(s.queues["lru"], p)
    <3>1. rest = s.queues
      BY <2>2
    <3> HIDE DEF rest
    <3> QED
      BY <1>2, <2>2, <3>1
  <2> QED
    BY <2>1, <2>2
<1> HIDE DEF rest
<1>6. \A r \in QueueTypes : ~ Contains(rest[r], p)
  <2> TAKE r \in QueueTypes
  <2>1. CASE r = "lru"
    BY <1>5, <2>1
  <2>2. CASE r # "lru"
    <3>1. rest[r] = <<>>
      BY <1>2, <1>5, <2>2 DEF HeldIn, QueueTypes
    <3> QED
      BY <3>1, LineEmpty
  <2> QED
    BY <2>1, <2>2
<1>7. /\ QueuesOK(qs) /\ \A r \in QueueTypes : r # "lru" => qs[r] = rest[r]
      /\ \A x : Contains(qs["lru"], x) <=> Contains(rest["lru"], x) \/ x = p
  BY <1>3, <1>4, <1>5, <1>6, QueuesEnqueued
<1> HIDE DEF qs
<1>8. /\ qs["unsolicited"] = <<>> /\ qs["stale"] = <<>> /\ qs["fifo"] = <<>>
      /\ qs["fifo"] = s.queues["fifo"]
  BY <1>2, <1>4, <1>5, <1>7 DEF HeldIn
<1>9. HeldIn(qs, D \cup {p}, "lru")
  <2>1. \A x : x \in D <=> Contains(s.queues["lru"], x)
    <3>1. \A r \in QueueTypes : r # "lru" => s.queues[r] = <<>>
      BY <1>2 DEF HeldIn, QueueTypes
    <3>2. \A x : \A r \in QueueTypes : Contains(s.queues[r], x) => r = "lru"
      BY <3>1, LineEmpty
    <3> QED
      BY <1>2, <1>4, <3>2, Zenon DEF HeldIn
  <2>2. \A x : x \in D \cup {p} <=> Contains(qs["lru"], x)
    BY <1>5, <1>7, <2>1
  <2>3. \A x : \A r \in QueueTypes : Contains(qs[r], x) => r = "lru"
    <3>1. \A r \in QueueTypes : r # "lru" => qs[r] = <<>>
      BY <1>8 DEF QueueTypes
    <3> QED
      BY <3>1, LineEmpty
  <2>4. \A x : x \in D \cup {p} <=> \E r \in QueueTypes : Contains(qs[r], x)
    BY <1>4, <2>2, <2>3
  <2> QED
    BY <1>8, <2>4 DEF HeldIn
<1>10. Placed(s.table, qs)
  BY <1>8, LineEmpty DEF Placed
<1>11. Scheduled(s.table, qs, s.moves)
  BY <1>2, <1>8, Zenon DEF Scheduled
<1>12. D \cup {p} \subseteq DOMAIN s.table
  BY DEF Kept
<1> QED
  BY <1>1, <1>2, <1>7, <1>9, <1>10, <1>11, <1>12, StoredFields DEF Kept

-----------------------------------------------------------------------------
Idle(s) == s.queues["unsolicited"] = <<>> /\ s.queues["stale"] = <<>>

Whole(s) == Kept(s, policy, DOMAIN s.table)

(* One entry less: fresh Data that was asked for only when there is no other. *)
OneLess(s, t, p) ==
  /\ Whole(t) /\ p \in DOMAIN s.table /\ DOMAIN t.table = DOMAIN s.table \ {p}
  /\ \A x \in DOMAIN t.table : t.table[x] = s.table[x]
  /\ policy = "fifo" /\ s.table[p].unsolicited = FALSE /\ s.table[p].staleIn > 0 => Idle(t)
  /\ policy = "fifo" /\ Idle(s) => Idle(t)

LEMMA ErasedFields ==
  ASSUME NEW s, NEW p
  PROVE  /\ erased(s, p).queues = s.queues
         /\ DOMAIN erased(s, p).table = DOMAIN s.table \ {p}
         /\ \A x \in DOMAIN s.table \ {p} : erased(s, p).table[x] = s.table[x]
<1> DEFINE t == [x \in DOMAIN s.table \ {p} |-> s.table[x]]
<1>1. erased(s, p) = Stored(t, s.queues, s.moves)
  BY DEF erased
<1>2. erased(s, p).queues = s.queues /\ erased(s, p).table = t
  BY <1>1, StoredFields
<1> QED
  BY <1>2

LEMMA EvictFifo ==
  ASSUME NEW s, policy = "fifo", Whole(s), DOMAIN s.table # {}
  PROVE  \E p : OneLess(s, evictOne(s), p)
<1> DEFINE First(q) == /\ s.queues[q] # <<>>
                       /\ q # "unsolicited" => s.queues["unsolicited"] = <<>>
                       /\ q = "fifo" => s.queues["stale"] = <<>>
           q == CHOOSE r \in {"unsolicited", "stale", "fifo"} : First(r)
           p == Head(s.queues[q])
           d == detachQueue(s, p)
<1>1. evictOne(s) = erased(d, p)
  BY Zenon DEF evictOne
<1>2. /\ QueuesOK(s.queues) /\ HeldIn(s.queues, DOMAIN s.table, "fifo") /\ TableOK(s.table)
      /\ Placed(s.table, s.queues) /\ Kept(s, "fifo", DOMAIN s.table)
  BY DEF Kept, Whole
<1>3. PICK x, r : r \in QueueTypes /\ Contains(s.queues[r], x)
  BY <1>2 DEF HeldIn
<1>4. s.queues[r] # <<>> /\ r # "lru"
  BY <1>2, <1>3, LineEmpty DEF HeldIn
<1>5. s.queues["unsolicited"] # <<>> \/ s.queues["stale"] # <<>> \/ s.queues["fifo"] # <<>>
  BY <1>3, <1>4 DEF QueueTypes
<1>6. \E u \in {"unsolicited", "stale", "fifo"} : First(u)
  BY <1>5
<1>7. q \in {"unsolicited", "stale", "fifo"} /\ First(q)
  BY <1>6, Zenon
<1> HIDE DEF q
<1>8. q \in QueueTypes /\ Line(s.queues[q])
  BY <1>2, <1>7 DEF QueueTypes, QueuesOK
<1>9. Contains(s.queues[q], p)
  BY <1>7, <1>8, LineHead
<1> HIDE DEF p
<1>10. p \in DOMAIN s.table
  BY <1>2, <1>8, <1>9 DEF HeldIn
<1>11. /\ Kept(d, "fifo", DOMAIN s.table \ {p}) /\ d.table = s.table
       /\ \A u \in QueueTypes : u # q => d.queues[u] = s.queues[u]
  BY <1>2, <1>8, <1>9, EntryDetached
<1> HIDE DEF d
<1> DEFINE t == erased(d, p)
<1>12. Kept(t, "fifo", DOMAIN s.table \ {p})
  BY <1>11, EntryErased
<1>13. /\ t.queues = d.queues /\ DOMAIN t.table = DOMAIN s.table \ {p}
       /\ \A x_1 \in DOMAIN s.table \ {p} : t.table[x_1] = s.table[x_1]
  BY <1>11, ErasedFields
<1> HIDE DEF t
<1>14. Whole(t)
  BY <1>12, <1>13 DEF Whole
<1>15. "unsolicited" \in QueueTypes /\ "stale" \in QueueTypes /\ "fifo" \in QueueTypes
  BY DEF QueueTypes
<1>16. q = "fifo" => Idle(t)
  BY <1>7, <1>11, <1>13, <1>15 DEF Idle
<1>17. s.table[p].unsolicited = FALSE /\ s.table[p].staleIn > 0 => q = "fifo"
  <2> SUFFICES ASSUME s.table[p].unsolicited = FALSE, s.table[p].staleIn > 0 PROVE q = "fifo"
    OBVIOUS
  <2>1. s.table[p].staleIn \in Int
    BY <1>2, <1>10 DEF TableOK, EntryFits
  <2>2. ~ Contains(s.queues["unsolicited"], p)
    BY <1>2 DEF Placed
  <2>3. ~ Contains(s.queues["stale"], p)
    BY <1>2, <2>1 DEF Placed
  <2> QED
    BY <1>7, <1>9, <2>2, <2>3
<1>18. Idle(s) => q = "fifo"
  BY <1>7 DEF Idle
<1>19. OneLess(s, t, p)
  BY <1>10, <1>13, <1>14, <1>16, <1>17, <1>18 DEF OneLess
<1> QED
  BY <1>1, <1>19 DEF t

LEMMA EvictLru ==
  ASSUME NEW s, policy = "lru", Whole(s), DOMAIN s.table # {}
  PROVE  \E p : OneLess(s, lruEvictOne(s), p)
<1> DEFINE queue == s.queues["lru"]
           p == Head(queue)
           qs == [s.queues EXCEPT !["lru"] = Tail(queue)]
           d == Stored(s.table, qs, s.moves)
           t == erased(d, p)
<1>1. lruEvictOne(s) = t
  BY Zenon DEF lruEvictOne
<1>2. /\ QueuesOK(s.queues) /\ HeldIn(s.queues, DOMAIN s.table, "lru")
      /\ Kept(s, "lru", DOMAIN s.table)
  BY DEF Kept, Whole
<1>3. PICK x, r : r \in QueueTypes /\ Contains(s.queues[r], x)
  BY <1>2 DEF HeldIn
<1>4. r = "lru" /\ queue # <<>> /\ "lru" \in QueueTypes
  BY <1>2, <1>3, LineEmpty DEF HeldIn, QueueTypes
<1>5. Line(queue)
  BY <1>2, <1>4 DEF QueuesOK
<1>6. /\ Contains(queue, p) /\ Line(Tail(queue))
      /\ \A y : Contains(Tail(queue), y) <=> Contains(queue, y) /\ y # p
  BY <1>4, <1>5, LineHead
<1> HIDE DEF p
<1>7. p \in DOMAIN s.table
  BY <1>2, <1>4, <1>6 DEF HeldIn
<1>8. /\ QueuesOK(qs) /\ \A u \in QueueTypes : u # "lru" => qs[u] = s.queues[u]
      /\ \A y : Contains(qs["lru"], y) <=> Contains(s.queues["lru"], y) /\ y # p
  <2> DEFINE R == Tail(queue)
  <2>1. Line(R) /\ \A y : Contains(R, y) <=> Contains(s.queues["lru"], y) /\ y # p
    BY <1>6
  <2> HIDE DEF R
  <2>2. /\ QueuesOK([s.queues EXCEPT !["lru"] = R])
        /\ \A u \in QueueTypes : u # "lru" => [s.queues EXCEPT !["lru"] = R][u] = s.queues[u]
        /\ \A y : Contains([s.queues EXCEPT !["lru"] = R]["lru"], y) <=> Contains(s.queues["lru"], y) /\ y # p
    BY <1>2, <1>4, <2>1, QueuesWithout
  <2> QED
    BY <2>2, Zenon DEF R
<1> HIDE DEF qs
<1>9. Kept(d, "lru", DOMAIN s.table \ {p})
  <2>1. \A e : e \in s.moves <=> e \in s.moves /\ ("lru" = "fifo" => e.packet # p)
    OBVIOUS
  <2> QED
    BY <1>2, <1>4, <1>6, <1>8, <2>1, PacketLeaves
<1>10. d.table = s.table
  BY StoredFields
<1> HIDE DEF d
<1>11. Kept(t, "lru", DOMAIN s.table \ {p})
  BY <1>9, EntryErased
<1>12. /\ DOMAIN t.table = DOMAIN s.table \ {p}
       /\ \A y \in DOMAIN s.table \ {p} : t.table[y] = s.table[y]
  BY <1>10, ErasedFields
<1> HIDE DEF t
<1>13. OneLess(s, t, p)
  BY <1>7, <1>11, <1>12 DEF OneLess, Whole
<1> QED
  BY <1>1, <1>13

(* One entry after the other. *)
Ran(f, n, s) == f = [i \in 0 .. n |-> IF i = 0 THEN s
                                      ELSE IF policy = "fifo" THEN evictOne(f[i - 1])
                                      ELSE lruEvictOne(f[i - 1])]

LEMMA RunExtends ==
  ASSUME NEW n \in Nat, NEW s, NEW f, Ran(f, n, s)
  PROVE  \E h : Ran(h, n + 1, s)
<1> DEFINE next == IF policy = "fifo" THEN evictOne(f[n]) ELSE lruEvictOne(f[n])
           h == [i \in 0 .. (n + 1) |-> IF i = n + 1 THEN next ELSE f[i]]
           value(a, i) == IF i = 0 THEN s
                          ELSE IF policy = "fifo" THEN evictOne(a[i - 1])
                          ELSE lruEvictOne(a[i - 1])
<1>1. \A i \in 0 .. n : f[i] = value(f, i)
  <2>1. f = [i \in 0 .. n |-> value(f, i)]
    BY DEF Ran
  <2> HIDE DEF value
  <2> QED
    BY <2>1
<1>2. \A i \in 0 .. n : h[i] = f[i]
  <2> HIDE DEF next
  <2> QED
    OBVIOUS
<1>3. ASSUME NEW i \in 0 .. (n + 1) PROVE h[i] = value(h, i)
  <2>1. CASE i = n + 1
    <3>1. h[i] = next
      BY <2>1 DEF h
    <3>2. h[i - 1] = f[n] /\ i # 0
      BY <1>2, <2>1
    <3> HIDE DEF h
    <3> QED
      BY <3>1, <3>2, Zenon DEF next, value
  <2>2. CASE i # n + 1
    <3>1. i \in 0 .. n /\ (i # 0 => i - 1 \in 0 .. n)
      BY <2>2
    <3>2. h[i] = f[i] /\ (i # 0 => h[i - 1] = f[i - 1])
      BY <1>2, <3>1
    <3>3. f[i] = value(f, i)
      BY <1>1, <3>1
    <3> HIDE DEF h
    <3> QED
      BY <3>2, <3>3, Zenon DEF value
  <2> QED
    BY <2>1, <2>2
<1>4. h = [i \in 0 .. (n + 1) |-> value(h, i)]
  <2>1. h = [i \in 0 .. (n + 1) |-> h[i]]
    <3> HIDE DEF next
    <3> QED
      OBVIOUS
  <2> HIDE DEF h, value
  <2> QED
    BY <1>3, <2>1
<1>5. Ran(h, n + 1, s)
  BY <1>4, Zenon DEF Ran, value
<1> QED
  BY <1>5, Zenon

LEMMA RunExists ==
  ASSUME NEW n \in Nat, NEW s
  PROVE  \E f : Ran(f, n, s)
<1> DEFINE Reached(m) == \E f : Ran(f, m, s)
           S == {m \in Nat : ~ Reached(m)}
<1>1. Reached(0)
  <2> DEFINE f == [i \in 0 .. 0 |-> s]
  <2>1. f = [i \in 0 .. 0 |-> IF i = 0 THEN s
                              ELSE IF policy = "fifo" THEN evictOne(f[i - 1])
                              ELSE lruEvictOne(f[i - 1])]
    <3>1. \A i \in 0 .. 0 : i = 0
      OBVIOUS
    <3> QED
      BY <3>1
  <2>2. Ran(f, 0, s)
    BY <2>1 DEF Ran
  <2> QED
    BY <2>2, Zenon
<1>2. \A m \in Nat : Reached(m) => Reached(m + 1)
  BY RunExtends, Zenon
<1> HIDE DEF Reached
<1>3. S = {}
  <2> SUFFICES ASSUME S # {} PROVE FALSE
    OBVIOUS
  <2>1. PICK m \in S : \A l \in S : m =< l
    BY LeastNatural
  <2>2. m \in Nat /\ ~ Reached(m) /\ m # 0
    BY <1>1, <2>1
  <2>3. m - 1 \in Nat /\ m - 1 \notin S
    BY <2>1, <2>2
  <2>4. Reached(m - 1) /\ (m - 1) + 1 = m
    BY <2>2, <2>3
  <2> QED
    BY <1>2, <2>2, <2>3, <2>4
<1>4. Reached(n)
  BY <1>3
<1> QED
  BY <1>4 DEF Reached

(* k entries less than s. *)
Evicted(s, t, k) ==
  /\ Whole(t) /\ DOMAIN t.table \subseteq DOMAIN s.table
  /\ \A x \in DOMAIN t.table : t.table[x] = s.table[x]
  /\ Cardinality(DOMAIN t.table) = Cardinality(DOMAIN s.table) - k
  /\ policy = "fifo" =>
       \A p \in DOMAIN s.table \ DOMAIN t.table :
         s.table[p].unsolicited = FALSE /\ s.table[p].staleIn > 0 => Idle(t)

LEMMA EvictedMore ==
  ASSUME NEW s, NEW t, NEW k \in Nat, Evicted(s, t, k), IsFiniteSet(DOMAIN s.table),
         Cardinality(DOMAIN s.table) > k
  PROVE  Evicted(s, IF policy = "fifo" THEN evictOne(t) ELSE lruEvictOne(t), k + 1)
<1> DEFINE u == IF policy = "fifo" THEN evictOne(t) ELSE lruEvictOne(t)
<1>1. /\ Cardinality(DOMAIN s.table) \in Nat
      /\ IsFiniteSet(DOMAIN t.table) /\ Cardinality(DOMAIN t.table) = Cardinality(DOMAIN s.table) - k
  BY FS_CardinalityType DEF Evicted, Whole, Kept, TableOK
<1>2. DOMAIN t.table # {}
  BY <1>1, FS_EmptySet
<1>3. Whole(t) /\ policy \in {"fifo", "lru"}
  BY DEF Evicted, Whole, Kept
<1>4. \E p : OneLess(t, u, p)
  <2>1. CASE policy = "fifo"
    BY <1>2, <1>3, <2>1, EvictFifo
  <2>2. CASE policy = "lru"
    <3>1. u = lruEvictOne(t)
      BY <2>2
    <3> QED
      BY <1>2, <1>3, <2>2, <3>1, EvictLru
  <2> QED
    BY <1>3, <2>1, <2>2
<1> HIDE DEF u
<1>5. PICK p : OneLess(t, u, p)
  BY <1>4
<1>6. Cardinality(DOMAIN u.table) = Cardinality(DOMAIN s.table) - (k + 1)
  <2>1. p \in DOMAIN t.table /\ DOMAIN u.table = DOMAIN t.table \ {p}
    BY <1>5 DEF OneLess
  <2>2. Cardinality(DOMAIN u.table) = Cardinality(DOMAIN t.table) - 1
    BY <1>1, <2>1, FS_RemoveElement
  <2> QED
    BY <1>1, <2>2
<1>7. Evicted(s, u, k + 1)
  BY <1>5, <1>6 DEF Evicted, OneLess
<1> QED
  BY <1>7 DEF u

LEMMA MaxOfTwo ==
  ASSUME NEW a \in Int, NEW b \in Int
  PROVE  Max({a, b}) = IF a >= b THEN a ELSE b
<1> DEFINE m == IF a >= b THEN a ELSE b
<1>1. m \in {a, b} /\ \A y \in {a, b} : m >= y
  OBVIOUS
<1>2. \A x \in {a, b} : (\A y \in {a, b} : x >= y) => x = m
  OBVIOUS
<1> HIDE DEF m
<1>3. Max({a, b}) = m
  BY <1>1, <1>2, Zenon DEF Max
<1> QED
  BY <1>3 DEF m

LEMMA EvictedAll ==
  ASSUME NEW s, Whole(s), NEW max \in Nat
  PROVE  /\ \E k \in Nat : Evicted(s, evictEntries(s, max), k)
         /\ Cardinality(DOMAIN evictEntries(s, max).table) =< max
<1> DEFINE c == Cardinality(DOMAIN s.table)
           n == Max({0, c - max})
           a == CHOOSE f : Ran(f, n, s)
<1>1. IsFiniteSet(DOMAIN s.table) /\ c \in Nat
  BY FS_CardinalityType DEF Whole, Kept, TableOK
<1>2. n = IF c > max THEN c - max ELSE 0
  BY <1>1, MaxOfTwo
<1>3. n \in Nat /\ n =< c /\ c - n =< max
  BY <1>1, <1>2
<1>4. Ran(a, n, s)
  <2> HIDE DEF n
  <2> QED
    BY <1>3, RunExists, Zenon
<1>5. evictEntries(s, max) = a[n]
  BY Zenon DEF evictEntries, Ran
<1> HIDE DEF n, a
<1> DEFINE value(i) == IF i = 0 THEN s
                       ELSE IF policy = "fifo" THEN evictOne(a[i - 1]) ELSE lruEvictOne(a[i - 1])
<1>6. \A i \in 0 .. n : a[i] = value(i)
  <2>1. a = [i \in 0 .. n |-> value(i)]
    BY <1>4, Zenon DEF Ran
  <2> HIDE DEF value
  <2> QED
    BY <2>1
<1> DEFINE S == {i \in Nat : i =< n /\ ~ Evicted(s, a[i], i)}
<1>7. Evicted(s, s, 0)
  BY <1>1 DEF Evicted
<1>8. S = {}
  <2> SUFFICES ASSUME S # {} PROVE FALSE
    OBVIOUS
  <2>1. PICK i \in S : \A j \in S : i =< j
    BY LeastNatural
  <2>2. i \in 0 .. n /\ ~ Evicted(s, a[i], i)
    BY <1>3
  <2>3. a[0] = s
    BY <1>3, <1>6
  <2>4. i # 0
    BY <1>7, <2>2, <2>3
  <2>5. i - 1 \in Nat /\ i - 1 =< n /\ i - 1 \notin S /\ c > i - 1 /\ (i - 1) + 1 = i
    BY <1>1, <1>3, <2>1, <2>2, <2>4
  <2> DEFINE j == i - 1
  <2>6. Evicted(s, a[j], j)
    BY <2>5
  <2>7. a[i] = IF policy = "fifo" THEN evictOne(a[j]) ELSE lruEvictOne(a[j])
    BY <1>6, <2>2, <2>4, Zenon
  <2>8. j \in Nat /\ Cardinality(DOMAIN s.table) > j /\ j + 1 = i
    BY <2>5
  <2> HIDE DEF j, S
  <2>9. Evicted(s, a[i], j + 1)
    BY <1>1, <2>6, <2>7, <2>8, EvictedMore
  <2> QED
    BY <2>2, <2>8, <2>9
<1>9. Evicted(s, a[n], n)
  BY <1>3, <1>8
<1>10. Cardinality(DOMAIN a[n].table) =< max
  <2>1. Cardinality(DOMAIN a[n].table) = c - n
    BY <1>9 DEF Evicted
  <2> QED
    BY <1>3, <2>1
<1> QED
  BY <1>3, <1>5, <1>9, <1>10, Zenon

-----------------------------------------------------------------------------
(* The inductive invariant. *)
CsInv == Whole(Store) /\ limit \in Nat /\ Cardinality(DOMAIN table) =< limit

(* What fresh Data that was asked for makes way for. *)
FreshLast ==
  policy = "fifo" =>
    \A p \in DOMAIN table \ DOMAIN table' :
      ~ table[p].unsolicited /\ table[p].staleIn > 0 =>
        \A x \in DOMAIN table' :
          /\ ~ table'[x].unsolicited
          /\ isStale(table'[x]) => \E e \in moves' : e.packet = x /\ e.left = 0

LEMMA StoreFields == Store.table = table /\ Store.queues = queues /\ Store.moves = moves
BY StoredFields DEF Store

LEMMA WholeNext ==
  ASSUME NEW t, Kept(t, policy, DOMAIN t.table), policy' = policy,
         table' = t.table, queues' = t.queues, moves' = t.moves
  PROVE  Whole(Store)'
<1>1. Store' = Stored(table', queues', moves')
  BY DEF Store
<1>2. Store'.table = t.table /\ Store'.queues = t.queues /\ Store'.moves = t.moves
  BY <1>1, StoredFields
<1>3. Kept(Store', policy', DOMAIN Store'.table)
  BY <1>2 DEF Kept
<1> QED
  BY <1>3 DEF Whole

(* What is left is in the FIFO queue once fresh Data that was asked for went. *)
LEMMA FreshGoesLast ==
  ASSUME NEW s, NEW t, NEW k, Evicted(s, t, k), DOMAIN table \subseteq DOMAIN s.table,
         \A x \in DOMAIN table : s.table[x] = table[x],
         Whole(Store), table' = t.table, moves' = t.moves
  PROVE  FreshLast
<1> SUFFICES ASSUME policy = "fifo", NEW p \in DOMAIN table, p \notin DOMAIN t.table,
                    ~ table[p].unsolicited, table[p].staleIn > 0,
                    NEW x \in DOMAIN t.table
             PROVE  /\ ~ t.table[x].unsolicited
                    /\ isStale(t.table[x]) => \E e \in t.moves : e.packet = x /\ e.left = 0
  BY DEF FreshLast
<1>1. EntryFits(p, table[p])
  BY StoreFields DEF Whole, Kept, TableOK
<1>2. p \in DOMAIN s.table \ DOMAIN t.table /\ s.table[p].unsolicited = FALSE /\ s.table[p].staleIn > 0
  BY <1>1 DEF EntryFits
<1>3. Idle(t)
  BY <1>2 DEF Evicted
<1>4. /\ TableOK(t.table) /\ HeldIn(t.queues, DOMAIN t.table, "fifo")
      /\ Scheduled(t.table, t.queues, t.moves) /\ Placed(t.table, t.queues)
  BY DEF Evicted, Whole, Kept
<1>5. Contains(t.queues["fifo"], x)
  <2>1. PICK q \in QueueTypes : Contains(t.queues[q], x)
    BY <1>4 DEF HeldIn
  <2>2. t.queues[q] # <<>>
    BY <2>1, LineEmpty
  <2>3. q = "fifo"
    BY <1>3, <1>4, <2>1, <2>2 DEF Idle, HeldIn, QueueTypes
  <2> QED
    BY <2>1, <2>3
<1>6. t.table[x].unsolicited = FALSE
  BY <1>4, <1>5 DEF Placed
<1>7. ASSUME isStale(t.table[x]) PROVE \E e \in t.moves : e.packet = x /\ e.left = 0
  <2>1. t.table[x].staleIn \in Int /\ t.table[x].staleIn < 0 /\ (~ canStale(x) => t.table[x].staleIn = Forever)
    BY <1>4, <1>7 DEF TableOK, EntryFits, isStale
  <2>2. canStale(x)
    BY <2>1 DEF Forever
  <2> DEFINE e == Event(x, t.table[x].staleIn)
  <2>3. e.packet = x /\ e.left = 0
    BY <2>1 DEF Event
  <2>4. e \in t.moves
    BY <1>4, <1>5, <2>2, Zenon DEF Scheduled
  <2> QED
    BY <2>3, <2>4
<1> QED
  BY <1>6, <1>7

LEMMA EvictionStep ==
  ASSUME NEW s, Whole(s), Whole(Store), NEW max \in Nat, limit' = max, policy' = policy,
         DOMAIN table \subseteq DOMAIN s.table, \A x \in DOMAIN table : s.table[x] = table[x],
         NEW t, t = evictEntries(s, max), table' = t.table, queues' = t.queues, moves' = t.moves
  PROVE  CsInv' /\ FreshLast
<1>1. PICK k \in Nat : Evicted(s, t, k)
  BY EvictedAll
<1>2. Cardinality(DOMAIN t.table) =< max
  BY EvictedAll
<1>3. Whole(Store)'
  BY <1>1, WholeNext DEF Evicted, Whole
<1>4. FreshLast
  BY <1>1, FreshGoesLast
<1> QED
  BY <1>2, <1>3, <1>4 DEF CsInv

LEMMA KeepingStep ==
  ASSUME CsInv, NEW t, Kept(t, policy, DOMAIN t.table), policy' = policy, limit' = limit,
         DOMAIN t.table = DOMAIN table, table' = t.table, queues' = t.queues, moves' = t.moves
  PROVE  CsInv' /\ FreshLast
<1>1. Whole(Store)'
  BY WholeNext
<1>2. FreshLast
  BY DEF FreshLast
<1> QED
  BY <1>1, <1>2 DEF CsInv

LEMMA EntryMade ==
  ASSUME NEW p \in Packets, NEW u
  PROVE  EntryFits(p, [unsolicited |-> u /\ (p \notin DOMAIN table \/ table[p].unsolicited),
                       staleIn |-> Freshness[p]])
<1> DEFINE b == u /\ (p \notin DOMAIN table \/ table[p].unsolicited)
<1>1. b \in BOOLEAN
  OBVIOUS
<1> HIDE DEF b
<1>2. Freshness[p] \in Nat /\ Freshness[p] =< Forever
  BY FreshnessIsTime
<1>3. EntryFits(p, [unsolicited |-> b, staleIn |-> Freshness[p]])
  BY <1>1, <1>2 DEF EntryFits, canStale, Forever
<1> QED
  BY <1>3 DEF b

LEMMA InsertStep ==
  ASSUME CsInv, NEW p \in Packets, NEW u \in BOOLEAN, Insert(p, u)
  PROVE  CsInv' /\ FreshLast
<1> DEFINE isNewEntry == p \notin DOMAIN table
           entry == [unsolicited |-> u /\ (isNewEntry \/ table[p].unsolicited),
                     staleIn |-> Freshness[p]]
           put == [x \in DOMAIN table \cup {p} |-> IF x = p THEN entry ELSE table[x]]
           s == Stored(put, queues, moves)
           after == IF isNewEntry THEN afterInsert(s, p) ELSE afterRefresh(s, p)
<1>1. /\ table' = after.table /\ queues' = after.queues /\ moves' = after.moves
      /\ policy' = policy /\ limit' = limit
  BY Zenon DEF Insert
<1>2. EntryFits(p, entry) /\ entry.staleIn = Freshness[p]
  BY EntryMade
<1> HIDE DEF entry
<1>3. /\ DOMAIN put = DOMAIN table \cup {p} /\ put[p] = entry
      /\ \A x \in DOMAIN table : x # p => put[x] = table[x]
  OBVIOUS
<1>4. Kept(Store, policy, DOMAIN table) /\ policy \in {"fifo", "lru"} /\ limit \in Nat
  BY StoreFields DEF CsInv, Whole, Kept
<1>5. put = [x \in DOMAIN Store.table \cup {p} |-> IF x = p THEN entry ELSE Store.table[x]]
  BY StoreFields
<1> HIDE DEF put
<1>6. s.table = put /\ s.queues = queues /\ s.moves = moves
  BY StoredFields
<1>7. p \notin DOMAIN table \/ policy = "lru" => Kept(s, policy, DOMAIN table)
  BY <1>2, <1>4, <1>5, EntryPut, StoreFields
<1> HIDE DEF s
<1>8. CASE isNewEntry
  <2> DEFINE w == IF policy = "fifo" THEN attachQueue(s, p) ELSE insertToQueue(s, p)
  <2>1. after = evictEntries(w, limit)
    BY <1>8, Zenon DEF afterInsert
  <2>2. Kept(w, policy, DOMAIN table \cup {p}) /\ w.table = put
    <3>1. CASE policy = "fifo"
      BY <1>2, <1>3, <1>6, <1>7, <1>8, <3>1, EntryAttached
    <3>2. CASE policy = "lru"
      <4>1. w = insertToQueue(s, p)
        BY <3>2
      <4> QED
        BY <1>3, <1>6, <1>7, <1>8, <3>2, <4>1, EntryQueued
    <3> QED
      BY <1>4, <3>1, <3>2
  <2> HIDE DEF w, after
  <2>3. Whole(w)
    BY <1>3, <2>2 DEF Whole
  <2>4. DOMAIN table \subseteq DOMAIN w.table /\ \A x \in DOMAIN table : w.table[x] = table[x]
    BY <1>3, <1>8, <2>2
  <2> QED
    BY <1>1, <1>4, <2>1, <2>3, <2>4, EvictionStep DEF CsInv
<1>9. CASE ~ isNewEntry
  <2>1. after = IF policy = "fifo" THEN attachQueue(detachQueue(s, p), p) ELSE insertToQueue(s, p)
    BY <1>9, Zenon DEF afterRefresh
  <2>2. DOMAIN put = DOMAIN table
    BY <1>3, <1>9
  <2>3. Kept(after, policy, DOMAIN table) /\ after.table = put
    <3>1. CASE policy = "fifo"
      <4> DEFINE d == detachQueue(Store, p)
                 w == detachQueue(s, p)
      <4>1. PICK q \in QueueTypes : Contains(queues[q], p)
        BY <1>4, <1>9, StoreFields DEF Kept, HeldIn
      <4>2. Kept(d, "fifo", DOMAIN table \ {p}) /\ d.table = table
        BY <1>4, <3>1, <4>1, EntryDetached, StoreFields
      <4>3. w.queues = d.queues /\ w.moves = d.moves /\ w.table = put
        BY <1>6, StoreFields, StoredFields DEF detachQueue
      <4>31. w = Stored(put, d.queues, d.moves)
        BY <1>6, <4>3, StoredFields, StoreFields DEF detachQueue
      <4> HIDE DEF d, w
      <4>4. put = [x \in DOMAIN d.table \cup {p} |-> IF x = p THEN entry ELSE d.table[x]]
        BY <4>2 DEF put
      <4>5. Kept(Stored(put, d.queues, d.moves), "fifo", DOMAIN table \ {p})
        BY <1>2, <4>2, <4>4, EntryPut
      <4>6. Kept(w, "fifo", DOMAIN table \ {p})
        BY <4>31, <4>5
      <4>7. /\ Kept(attachQueue(w, p), "fifo", (DOMAIN table \ {p}) \cup {p})
            /\ attachQueue(w, p).table = put
        BY <1>2, <1>3, <4>3, <4>6, EntryAttached
      <4>8. (DOMAIN table \ {p}) \cup {p} = DOMAIN table
        BY <1>9
      <4>9. after = attachQueue(w, p)
        BY <2>1, <3>1 DEF w
      <4> QED
        BY <3>1, <4>7, <4>8, <4>9
    <3>2. CASE policy = "lru"
      <4>1. after = insertToQueue(s, p)
        BY <2>1, <3>2
      <4> HIDE DEF after
      <4>2. Kept(insertToQueue(s, p), "lru", DOMAIN table \cup {p}) /\ insertToQueue(s, p).table = put
        BY <1>3, <1>6, <1>7, <3>2, EntryQueued
      <4>3. DOMAIN table \cup {p} = DOMAIN table
        BY <1>9
      <4> QED
        BY <3>2, <4>1, <4>2, <4>3
    <3> QED
      BY <1>4, <3>1, <3>2
  <2> HIDE DEF after
  <2> QED
    BY <1>1, <2>2, <2>3, KeepingStep
<1> QED
  BY <1>8, <1>9

LEMMA MoveStep ==
  ASSUME CsInv, NEW e \in moves, MoveToStaleQueue(e)
  PROVE  CsInv' /\ FreshLast
<1> DEFINE p == e.packet
           m == moves \ {e}
           d == Stored(table, Dequeued(queues, "fifo", p), m)
           t == Stored(table, Enqueued(Dequeued(queues, "fifo", p), "stale", p), m)
<1>1. /\ table' = t.table /\ queues' = t.queues /\ moves' = t.moves
      /\ policy' = policy /\ limit' = limit /\ e.left = 0
  BY StoredFields DEF MoveToStaleQueue
<1>2. /\ QueuesOK(queues) /\ HeldIn(queues, DOMAIN table, policy) /\ TableOK(table)
      /\ Scheduled(table, queues, moves) /\ Placed(table, queues)
      /\ Kept(Store, policy, DOMAIN table) /\ policy \in {"fifo", "lru"}
  BY StoreFields DEF CsInv, Whole, Kept
<1>3. PICK x : Contains(queues["fifo"], x) /\ canStale(x) /\ e = Event(x, table[x].staleIn)
  BY <1>2, Zenon DEF Scheduled
<1>4. \A y, n : Event(y, n).packet = y
  BY DEF Event
<1>5. p = x /\ Contains(queues["fifo"], p) /\ e = Event(p, table[p].staleIn)
  BY <1>3, <1>4
<1>6. "fifo" \in QueueTypes /\ "stale" \in QueueTypes
  BY DEF QueueTypes
<1> HIDE DEF p
<1>7. p \in DOMAIN table /\ policy = "fifo"
  BY <1>2, <1>5, <1>6, LineEmpty DEF HeldIn
<1>8. table[p].staleIn \in Int /\ table[p].staleIn =< 0 /\ table[p].unsolicited = FALSE
  <2>1. table[p].staleIn \in Int
    BY <1>2, <1>7 DEF TableOK, EntryFits
  <2>2. Event(p, table[p].staleIn).left = IF table[p].staleIn > 0 THEN table[p].staleIn ELSE 0
    BY DEF Event
  <2> QED
    BY <1>1, <1>2, <1>5, <2>1, <2>2 DEF Placed
<1>9. \A f : f \in m <=> f \in moves /\ ("fifo" = "fifo" => f.packet # p)
  <2> TAKE f
  <2>1. f \in moves /\ f.packet = p => f = e
    <3> SUFFICES ASSUME f \in moves, f.packet = p PROVE f = e
      OBVIOUS
    <3>1. PICK y : Contains(queues["fifo"], y) /\ canStale(y) /\ f = Event(y, table[y].staleIn)
      BY <1>2, Zenon DEF Scheduled
    <3>2. y = p
      BY <1>4, <3>1
    <3> QED
      BY <1>5, <3>1, <3>2
  <2>2. e.packet = p
    BY DEF p
  <2> QED
    BY <2>1, <2>2
<1> DEFINE qs == Dequeued(queues, "fifo", p)
<1>10. /\ QueuesOK(qs) /\ \A r \in QueueTypes : r # "fifo" => qs[r] = queues[r]
       /\ \A y : Contains(qs["fifo"], y) <=> Contains(queues["fifo"], y) /\ y # p
  BY <1>2, <1>5, <1>6, QueuesDequeued
<1> HIDE DEF qs, m
<1>11. Kept(Stored(table, qs, m), "fifo", DOMAIN table \ {p})
  BY <1>2, <1>5, <1>6, <1>7, <1>9, <1>10, StoreFields, PacketLeaves
<1>12. d = Stored(table, qs, m) /\ d.table = table /\ d.queues = qs /\ d.moves = m
  BY StoredFields DEF qs
<1>13. t = Stored(table, Enqueued(qs, "stale", p), m)
  BY DEF qs
<1> HIDE DEF d, t
<1>14. \A f : f \in m <=> f \in d.moves \/ ("stale" = "fifo" /\ canStale(p) /\ f = Event(p, d.table[p].staleIn))
  BY <1>12
<1>15. Kept(Stored(d.table, Enqueued(d.queues, "stale", p), m), "fifo", (DOMAIN table \ {p}) \cup {p})
  BY <1>7, <1>8, <1>11, <1>12, <1>14, PacketJoins
<1>16. Kept(t, "fifo", DOMAIN table) /\ t.table = table
  <2>1. (DOMAIN table \ {p}) \cup {p} = DOMAIN table
    BY <1>7
  <2> QED
    BY <1>12, <1>13, <1>15, <2>1, StoredFields
<1> QED
  BY <1>1, <1>7, <1>16, KeepingStep

LEMMA SetLimitStep ==
  ASSUME CsInv, NEW n \in Limits, SetLimit(n)
  PROVE  CsInv' /\ FreshLast
<1> DEFINE t == evictEntries(Store, n)
<1>1. /\ table' = t.table /\ queues' = t.queues /\ moves' = t.moves
      /\ policy' = policy /\ limit' = n
  BY Zenon DEF SetLimit
<1>2. n \in Nat
  BY ContentStoreAssumption
<1> HIDE DEF t
<1>3. Whole(Store) /\ t = evictEntries(Store, n)
  BY DEF CsInv, t
<1> QED
  BY <1>1, <1>2, <1>3, StoreFields, EvictionStep

LEMMA FindStep ==
  ASSUME CsInv, NEW i \in Lookups, Find(i)
  PROVE  CsInv' /\ FreshLast
<1> DEFINE match == FindIn(i)
           p == CHOOSE x \in match : TRUE
           hit == policy = "lru" /\ match # {} /\ match \subseteq DOMAIN table
           t == IF hit THEN insertToQueue(Store, p) ELSE Store
<1>1. queues' = t.queues /\ table' = table /\ moves' = moves /\ policy' = policy /\ limit' = limit
  BY Zenon DEF Find
<1>2. Kept(Store, policy, DOMAIN table)
  BY StoreFields DEF CsInv, Whole
<1>3. Kept(t, policy, DOMAIN table) /\ t.table = table /\ t.moves = moves
  <2>1. CASE hit
    <3>1. match # {} /\ match \subseteq DOMAIN table /\ policy = "lru"
      BY <2>1
    <3> HIDE DEF match
    <3>2. p \in match
      BY <3>1
    <3>3. p \in DOMAIN table /\ DOMAIN table \cup {p} = DOMAIN table
      BY <3>1, <3>2
    <3>4. t = insertToQueue(Store, p)
      BY <2>1
    <3> HIDE DEF p, hit, t
    <3>5. Kept(t, "lru", DOMAIN table \cup {p}) /\ t.table = table
      BY <1>2, <3>1, <3>3, <3>4, StoreFields, EntryQueued
    <3>6. t.moves = moves
      BY <3>4, StoreFields, StoredFields DEF insertToQueue
    <3> QED
      BY <3>1, <3>3, <3>5, <3>6
  <2>2. CASE ~ hit
    BY <1>2, <2>2, StoreFields
  <2> QED
    BY <2>1, <2>2
<1> HIDE DEF t
<1> QED
  BY <1>1, <1>3, KeepingStep

(* Time passes for the entries and for the events alike. *)
LEMMA LaterEvent ==
  ASSUME NEW p, NEW n \in Int, n < Forever
  PROVE  /\ [packet |-> Event(p, n).packet, left |-> Max({0, Event(p, n).left - 1})] = Event(p, Later(n))
         /\ Later(n) \in Int /\ Later(n) < Forever /\ (n =< 0 => Later(n) =< 0)
<1> DEFINE a == IF n > 0 THEN n ELSE 0
<1>1. Event(p, n).packet = p /\ Event(p, n).left = a
  BY DEF Event
<1>2. a \in Nat
  OBVIOUS
<1>3. Max({0, a - 1}) = IF 0 >= a - 1 THEN 0 ELSE a - 1
  BY <1>2, MaxOfTwo
<1>4. Later(n) \in Int /\ Later(n) < Forever /\ (n =< 0 => Later(n) =< 0)
  BY DEF Later, Forever
<1>5. (IF 0 >= a - 1 THEN 0 ELSE a - 1) = IF Later(n) > 0 THEN Later(n) ELSE 0
  BY DEF Later, Forever
<1> HIDE DEF a
<1> QED
  BY <1>1, <1>3, <1>4, <1>5 DEF Event

LEMMA TickStep ==
  ASSUME CsInv, Tick
  PROVE  CsInv' /\ FreshLast
<1> DEFINE t == Stored(table', queues, moves')
<1>1. /\ table' = t.table /\ queues' = t.queues /\ moves' = t.moves
      /\ policy' = policy /\ limit' = limit
  <2>1. queues' = queues /\ policy' = policy /\ limit' = limit
    BY Zenon DEF Tick
  <2>2. t.table = table' /\ t.queues = queues /\ t.moves = moves'
    BY StoredFields
  <2> QED
    BY <2>1, <2>2
<1>2. /\ QueuesOK(queues) /\ HeldIn(queues, DOMAIN table, policy) /\ TableOK(table)
      /\ Scheduled(table, queues, moves) /\ Placed(table, queues)
      /\ policy \in {"fifo", "lru"}
  BY StoreFields DEF CsInv, Whole, Kept
<1>3. DOMAIN table' = DOMAIN table
  BY DEF Tick
<1>4. \A x \in DOMAIN table :
        table'[x] = [unsolicited |-> table[x].unsolicited, staleIn |-> Later(table[x].staleIn)]
  BY DEF Tick
<1>40. \A x \in DOMAIN table : EntryFits(x, table[x])
  BY <1>2 DEF TableOK
<1>5. \A x \in DOMAIN table : /\ table'[x].unsolicited = table[x].unsolicited
                              /\ table'[x].staleIn = Later(table[x].staleIn)
  <2> TAKE x \in DOMAIN table
  <2> DEFINE b == table[x].unsolicited
             n == Later(table[x].staleIn)
  <2>1. table'[x] = [unsolicited |-> b, staleIn |-> n]
    BY <1>4
  <2> HIDE DEF b, n
  <2>2. table'[x].unsolicited = b /\ table'[x].staleIn = n
    BY <2>1
  <2> QED
    BY <2>2 DEF b, n
<1>6. TableOK(table')
  <2>1. ASSUME NEW x \in DOMAIN table PROVE EntryFits(x, table'[x])
    <3>1. table[x].unsolicited \in BOOLEAN /\ table[x].staleIn \in Int
      BY <1>40 DEF EntryFits
    <3>2. CASE canStale(x)
      <4>1. table[x].staleIn < Forever
        BY <1>40, <3>2 DEF EntryFits
      <4>2. Later(table[x].staleIn) \in Int /\ Later(table[x].staleIn) < Forever
        BY <3>1, <4>1, LaterEvent
      <4> QED
        BY <1>5, <3>1, <3>2, <4>2 DEF EntryFits
    <3>3. CASE ~ canStale(x)
      <4>1. table[x].staleIn = Forever
        BY <1>40, <3>3 DEF EntryFits
      <4>2. Later(Forever) = Forever /\ Forever \in Int
        BY DEF Later, Forever
      <4> QED
        BY <1>5, <3>1, <3>3, <4>1, <4>2 DEF EntryFits
    <3> QED
      BY <3>2, <3>3
  <2> QED
    BY <1>2, <1>3, <2>1 DEF TableOK
<1>7. "fifo" \in QueueTypes /\ "unsolicited" \in QueueTypes /\ "stale" \in QueueTypes
  BY DEF QueueTypes
<1>8. \A x : \A q \in QueueTypes : Contains(queues[q], x) => x \in DOMAIN table
  BY <1>2 DEF HeldIn
<1>9. Placed(table', queues)
  <2>1. ASSUME NEW x, Contains(queues["stale"], x)
        PROVE  table'[x].unsolicited = FALSE /\ table'[x].staleIn =< 0
    <3>1. x \in DOMAIN table /\ table[x].unsolicited = FALSE /\ table[x].staleIn =< 0
      BY <1>2, <1>7, <1>8, <2>1 DEF Placed
    <3>2. table[x].staleIn \in Int
      BY <1>40, <3>1 DEF EntryFits
    <3>3. Later(table[x].staleIn) =< 0
      <4> DEFINE n == table[x].staleIn
      <4>1. n \in Int /\ n =< 0
        BY <3>1, <3>2
      <4> HIDE DEF n
      <4>2. Later(n) =< 0
        BY <4>1 DEF Later, Forever
      <4> QED
        BY <4>2 DEF n
    <3> QED
      BY <1>5, <3>1, <3>3
  <2>2. ASSUME NEW x PROVE /\ Contains(queues["unsolicited"], x) => table'[x].unsolicited = TRUE
                           /\ Contains(queues["fifo"], x) => table'[x].unsolicited = FALSE
    BY <1>2, <1>5, <1>7, <1>8 DEF Placed
  <2> QED
    BY <2>1, <2>2 DEF Placed
<1>10. Scheduled(table', queues, moves')
  <2> DEFINE Next(f) == [packet |-> f.packet, left |-> Max({0, f.left - 1})]
  <2>1. moves' = {Next(f) : f \in moves}
    BY Zenon DEF Tick
  <2>2. ASSUME NEW x, Contains(queues["fifo"], x), canStale(x)
        PROVE  Next(Event(x, table[x].staleIn)) = Event(x, table'[x].staleIn)
    <3>1. x \in DOMAIN table
      BY <1>7, <1>8, <2>2
    <3>2. table[x].staleIn \in Int /\ table[x].staleIn < Forever
      BY <1>40, <2>2, <3>1 DEF EntryFits
    <3>3. Next(Event(x, table[x].staleIn)) = Event(x, Later(table[x].staleIn))
      BY <3>2, LaterEvent
    <3> QED
      BY <1>5, <3>1, <3>3
  <2> HIDE DEF Next
  <2>3. ASSUME NEW e \in moves'
        PROVE  \E x : Contains(queues["fifo"], x) /\ canStale(x) /\ e = Event(x, table'[x].staleIn)
    <3>1. PICK f \in moves : e = Next(f)
      BY <2>1
    <3>2. PICK x : Contains(queues["fifo"], x) /\ canStale(x) /\ f = Event(x, table[x].staleIn)
      BY <1>2, Zenon DEF Scheduled
    <3> QED
      BY <2>2, <3>1, <3>2
  <2>4. ASSUME NEW x, Contains(queues["fifo"], x), canStale(x)
        PROVE  Event(x, table'[x].staleIn) \in moves'
    <3>1. Event(x, table[x].staleIn) \in moves
      BY <1>2, <2>4, Zenon DEF Scheduled
    <3> QED
      BY <2>1, <2>2, <2>4, <3>1
  <2> QED
    BY <2>3, <2>4, Zenon DEF Scheduled
<1>11. Kept(t, policy, DOMAIN t.table)
  <2>1. t.table = table' /\ t.queues = queues /\ t.moves = moves'
    BY StoredFields
  <2> HIDE DEF t
  <2> QED
    BY <1>2, <1>3, <1>6, <1>9, <1>10, <2>1 DEF Kept
<1> HIDE DEF t
<1> QED
  BY <1>1, <1>3, <1>11, KeepingStep

LEMMA CsInvInitially == CsInit => CsInv
<1> SUFFICES ASSUME CsInit PROVE CsInv
  OBVIOUS
<1>1. /\ DOMAIN table = {} /\ moves = {} /\ queues = [q \in QueueTypes |-> <<>>]
      /\ policy \in {"fifo", "lru"} /\ limit \in Nat
  BY ContentStoreAssumption DEF CsInit
<1>2. \A q \in QueueTypes : queues[q] = <<>>
  BY <1>1
<1>3. TableOK(table)
  BY <1>1, FS_EmptySet DEF TableOK
<1>4. QueuesOK(queues)
  BY <1>1, <1>2, LineEmpty DEF QueuesOK
<1>5. HeldIn(queues, {}, policy)
  BY <1>2, LineEmpty DEF HeldIn, QueueTypes
<1>6. Scheduled(table, queues, moves) /\ Placed(table, queues)
  BY <1>1, <1>2, LineEmpty DEF Scheduled, Placed, QueueTypes
<1>7. Whole(Store)
  BY <1>1, <1>3, <1>4, <1>5, <1>6, StoreFields DEF Whole, Kept
<1> QED
  BY <1>1, <1>7, FS_EmptySet DEF CsInv

LEMMA CsInvKept == CsInv /\ [CsNext]_csVars => CsInv' /\ [FreshLast]_csVars
<1> SUFFICES ASSUME CsInv, [CsNext]_csVars PROVE CsInv' /\ [FreshLast]_csVars
  OBVIOUS
<1>1. CASE CsNext
  <2>1. ASSUME NEW p \in Packets, NEW u \in BOOLEAN, Insert(p, u) PROVE CsInv' /\ FreshLast
    BY <2>1, InsertStep
  <2>2. ASSUME NEW e \in moves, MoveToStaleQueue(e) PROVE CsInv' /\ FreshLast
    BY <2>2, MoveStep
  <2>3. ASSUME NEW n \in Limits, SetLimit(n) PROVE CsInv' /\ FreshLast
    BY <2>3, SetLimitStep
  <2>4. ASSUME NEW i \in Lookups, Find(i) PROVE CsInv' /\ FreshLast
    BY <2>4, FindStep
  <2>5. ASSUME Tick PROVE CsInv' /\ FreshLast
    BY <2>5, TickStep
  <2>6. CsInv' /\ FreshLast
    BY <1>1, <2>1, <2>2, <2>3, <2>4, <2>5, Zenon DEF CsNext
  <2> QED
    BY <2>6
<1>2. CASE UNCHANGED csVars
  <2>1. CsInv'
    <3>1. table' = table /\ queues' = queues /\ moves' = moves /\ policy' = policy /\ limit' = limit
      BY <1>2 DEF csVars
    <3>2. Store' = Store
      BY <3>1 DEF Store
    <3>3. Whole(Store)'
      BY <3>1, <3>2 DEF CsInv, Whole
    <3> QED
      BY <3>1, <3>3 DEF CsInv
  <2> QED
    BY <1>2, <2>1
<1> QED
  BY <1>1, <1>2

LEMMA CsInvSuffices == CsInv => QueuesMatchTable
<1> SUFFICES ASSUME CsInv PROVE QueuesMatchTable
  OBVIOUS
<1>1. /\ QueuesOK(queues) /\ HeldIn(queues, DOMAIN table, policy) /\ TableOK(table)
      /\ Scheduled(table, queues, moves)
  BY StoreFields DEF CsInv, Whole, Kept
<1> DEFINE a == queues["unsolicited"]
           b == queues["stale"]
           c == queues["fifo"]
           d == queues["lru"]
           all == a \o b \o c \o d
<1>2. Line(a) /\ Line(b) /\ Line(c) /\ Line(d)
  BY <1>1 DEF QueuesOK, QueueTypes
<1>3. \A x : /\ Contains(a, x) => ~ Contains(b, x) /\ ~ Contains(c, x) /\ ~ Contains(d, x)
             /\ Contains(b, x) => ~ Contains(c, x) /\ ~ Contains(d, x)
             /\ Contains(c, x) => ~ Contains(d, x)
  BY <1>1 DEF QueuesOK, QueueTypes
<1>4. \A x : x \in DOMAIN table <=> Contains(a, x) \/ Contains(b, x) \/ Contains(c, x) \/ Contains(d, x)
  BY <1>1 DEF HeldIn, QueueTypes
<1> HIDE DEF a, b, c, d
<1>5. Line(a \o b) /\ \A x : Contains(a \o b, x) <=> Contains(a, x) \/ Contains(b, x)
  BY <1>2, <1>3, LinesJoined
<1>6. Line(a \o b \o c) /\ \A x : Contains(a \o b \o c, x) <=> Contains(a \o b, x) \/ Contains(c, x)
  <2> DEFINE ab == a \o b
  <2>1. Line(ab) /\ \A x : ~ (Contains(ab, x) /\ Contains(c, x))
    BY <1>3, <1>5
  <2> HIDE DEF ab
  <2>2. Line(ab \o c) /\ \A x : Contains(ab \o c, x) <=> Contains(ab, x) \/ Contains(c, x)
    BY <1>2, <2>1, LinesJoined
  <2> QED
    BY <2>2 DEF ab
<1>7. Line(all) /\ \A x : Contains(all, x) <=> Contains(a \o b \o c, x) \/ Contains(d, x)
  <2> DEFINE abc == a \o b \o c
  <2>1. Line(abc) /\ \A x : ~ (Contains(abc, x) /\ Contains(d, x))
    BY <1>3, <1>5, <1>6
  <2> HIDE DEF abc
  <2>2. Line(abc \o d) /\ \A x : Contains(abc \o d, x) <=> Contains(abc, x) \/ Contains(d, x)
    BY <1>2, <2>1, LinesJoined
  <2> QED
    BY <2>2 DEF abc
<1>8. \A Q : Line(Q) => IsInjective(Q) /\ \A x : x \in ToSet(Q) <=> Contains(Q, x)
  <2> TAKE Q
  <2> HAVE Line(Q)
  <2>1. DOMAIN Q = 1 .. Len(Q)
    BY DEF Line
  <2> QED
    BY <2>1 DEF Line, ToSet, Contains
<1>9. IsInjective(all) /\ ToSet(all) = DOMAIN table
  <2>1. \A x : Contains(all, x) <=> x \in DOMAIN table
    BY <1>4, <1>5, <1>6, <1>7
  <2> HIDE DEF all
  <2> QED
    BY <1>7, <1>8, <2>1
<1>10. moves = {[packet |-> p, left |-> Max({0, table[p].staleIn})] :
                  p \in {p \in ToSet(queues["fifo"]) : canStale(p)}}
  <2>1. \A x : x \in ToSet(queues["fifo"]) <=> Contains(queues["fifo"], x)
    BY <1>2, <1>8 DEF c
  <2>2. ASSUME NEW x, Contains(queues["fifo"], x)
        PROVE  Event(x, table[x].staleIn) = [packet |-> x, left |-> Max({0, table[x].staleIn})]
    <3>1. x \in DOMAIN table
      BY <1>4, <2>2 DEF c
    <3>2. table[x].staleIn \in Int
      BY <1>1, <3>1 DEF TableOK, EntryFits
    <3>3. Max({0, table[x].staleIn}) = IF table[x].staleIn > 0 THEN table[x].staleIn ELSE 0
      <4> DEFINE n == table[x].staleIn
      <4>1. n \in Int
        BY <3>2
      <4> HIDE DEF n
      <4>2. Max({0, n}) = IF 0 >= n THEN 0 ELSE n
        BY <4>1, MaxOfTwo
      <4>3. Max({0, n}) = IF n > 0 THEN n ELSE 0
        BY <4>1, <4>2
      <4> QED
        BY <4>3 DEF n
    <3> QED
      BY <3>3 DEF Event
  <2> DEFINE F(p) == [packet |-> p, left |-> Max({0, table[p].staleIn})]
             S == {p \in ToSet(queues["fifo"]) : canStale(p)}
  <2>3. \A x : x \in S <=> Contains(queues["fifo"], x) /\ canStale(x)
    BY <2>1
  <2>4. \A x : Contains(queues["fifo"], x) => Event(x, table[x].staleIn) = F(x)
    BY <2>2
  <2> HIDE DEF F, S
  <2>5. ASSUME NEW e
        PROVE  e \in moves <=> \E x \in S : e = F(x)
    <3>1. e \in moves <=> \E x : Contains(queues["fifo"], x) /\ canStale(x) /\ e = Event(x, table[x].staleIn)
      BY <1>1 DEF Scheduled
    <3>2. ASSUME e \in moves PROVE \E x \in S : e = F(x)
      <4>1. PICK x : Contains(queues["fifo"], x) /\ canStale(x) /\ e = Event(x, table[x].staleIn)
        BY <3>1, <3>2, Zenon
      <4>2. x \in S /\ e = F(x)
        BY <2>3, <2>4, <4>1, Zenon
      <4> QED
        BY <4>2
    <3>3. ASSUME NEW x \in S, e = F(x) PROVE e \in moves
      <4>1. Contains(queues["fifo"], x) /\ canStale(x) /\ e = Event(x, table[x].staleIn)
        BY <2>3, <2>4, <3>3, Zenon
      <4> QED
        BY <3>1, <4>1, Zenon
    <3> QED
      BY <3>2, <3>3, Zenon
  <2>6. moves = {F(p) : p \in S}
    BY <2>5
  <2> QED
    BY <2>6, Zenon DEF F, S
<1> QED
  BY <1>9, <1>10, Zenon DEF CsInv, QueuesMatchTable, all, a, b, c, d

(* The queues of the policy hold every entry of the table once, the table is  *)
(* never over its limit and exactly the entries of the FIFO queue that can    *)
(* become stale have an event, due when they do: no iterator in a queue or in *)
(* an event dangles, for any packets, freshness periods, lookups and limits.  *)
THEOREM QueuesAlwaysMatch == CsSpec => []QueuesMatchTable
<1>1. CsInit => CsInv
  BY CsInvInitially
<1>2. CsInv /\ [CsNext]_csVars => CsInv'
  BY CsInvKept
<1>3. CsInv => QueuesMatchTable
  BY CsInvSuffices
<1> QED
  BY <1>1, <1>2, <1>3, PTL DEF CsSpec

(* An eviction of fresh Data that was asked for leaves neither unsolicited    *)
(* Data nor Data whose move to the stale queue was done: evictOne takes from  *)
(* the FIFO queue only when the two others are empty.                         *)
THEOREM FreshDataGoesLast == CsSpec => FreshDataLast
<1>1. CsInit => CsInv
  BY CsInvInitially
<1>2. CsInv /\ [CsNext]_csVars => CsInv' /\ [FreshLast]_csVars
  BY CsInvKept
<1> QED
  BY <1>1, <1>2, PTL DEF CsSpec, FreshDataLast, FreshLast

=============================================================================

----------------------- MODULE ForwarderSafetyProofs -----------------------
(***************************************************************************)
(* What the pipelines of Forwarder guarantee to the network: no Nonce sent *)
(* upstream is forgotten while it is unanswered, /localhost packets stay   *)
(* on local faces, Data never exceeds Interests, and the whole forwarder   *)
(* implements PendingInterests.  The proofs rest on the inductive          *)
(* invariant IInv of ForwarderProofs, and on one lemma per pipeline that   *)
(* says what it does to the records of the PIT.                            *)
(***************************************************************************)
EXTENDS ForwarderProofs, FiniteSetTheorems

(* Cancelling timers and setting the straggler timer leave the records alone. *)
LEMMA StragglerKeepsRecords ==
  ASSUME NEW c, IsCell(c), NEW isSatisfied \in BOOLEAN, NEW freshness
  PROVE  /\ setStragglerTimer(c, isSatisfied, freshness).entry.inRecords = c.entry.inRecords
         /\ setStragglerTimer(c, isSatisfied, freshness).entry.outRecords = c.entry.outRecords
<1> DEFINE event == [kind |-> "straggler", due |-> now + StragglerTime,
                     satisfied |-> isSatisfied, freshness |-> freshness]
           d == setStragglerTimer(c, isSatisfied, freshness)
<1>1. d.entry = [c.entry EXCEPT !.stragglerTimer = event]
  BY DEF setStragglerTimer
<1> HIDE DEF event, d
<1>2. d.entry.inRecords = c.entry.inRecords /\ d.entry.outRecords = c.entry.outRecords
  BY <1>1 DEF IsCell, IsPitEntry
<1> QED
  BY <1>2 DEF d

(* onInterestReject touches the timers of the entry and nothing else. *)
LEMMA RejectKeepsRecords ==
  ASSUME NEW c, IsCell(c)
  PROVE  /\ onInterestReject(c).entry.inRecords = c.entry.inRecords
         /\ onInterestReject(c).entry.outRecords = c.entry.outRecords
<1> DEFINE q == cancelUnsatisfyAndStragglerTimer(c)
<1>1. /\ DOMAIN q = {"entry", "timers"}
      /\ q.entry = [c.entry EXCEPT !.unsatisfyTimer = NoTimer, !.stragglerTimer = NoTimer]
      /\ q.timers \subseteq c.timers
  BY DEF cancelUnsatisfyAndStragglerTimer
<1> HIDE DEF q
<1>2. /\ IsPitEntry(q.entry)
      /\ q.entry.inRecords = c.entry.inRecords /\ q.entry.outRecords = c.entry.outRecords
  BY <1>1 DEF IsCell, IsPitEntry
<1>3. IsCell(q)
  BY <1>1, <1>2 DEF IsCell
<1>4. /\ setStragglerTimer(q, FALSE, NoFreshness).entry.inRecords = c.entry.inRecords
      /\ setStragglerTimer(q, FALSE, NoFreshness).entry.outRecords = c.entry.outRecords
  BY <1>2, <1>3, StragglerKeepsRecords
<1>5. onInterestReject(c) = IF hasUnexpiredOutRecords(c.entry, now) THEN c
                            ELSE setStragglerTimer(q, FALSE, NoFreshness)
  BY DEF onInterestReject, q
<1> QED
  BY <1>4, <1>5

(* An out-record with the Nonce of the picked in-record for every face the    *)
(* Interest is sent to.                                                       *)
SentRecords(d, e, S, pick) ==
  /\ d.inRecords = e.inRecords
  /\ DOMAIN d.outRecords = DOMAIN e.outRecords \cup S
  /\ \A f \in S : d.outRecords[f].nonce = e.inRecords[pick[f]].nonce
  /\ \A f \in DOMAIN e.outRecords \ S : d.outRecords[f] = e.outRecords[f]

(* What the strategy's decision does to the records. *)
LEMMA DecidedRecords ==
  ASSUME NEW c, IsCell(c), now \in Nat, NEW decision, decision.retx \in Nat,
         NEW S \in SUBSET Faces, NEW pick \in [S -> DOMAIN c.entry.inRecords]
  PROVE  SentRecords(DecidedCell(c, decision, pick).entry, c.entry, S, pick)
<1> DEFINE r == [c.entry EXCEPT !.retxInterval = decision.retx]
           o == InsertOutRecords(r, pick)
           m == [c EXCEPT !.entry = o]
<1>1. /\ IsPitEntry(r) /\ r.inRecords = c.entry.inRecords
      /\ r.outRecords = c.entry.outRecords
  BY DEF IsCell, IsPitEntry
<1> HIDE DEF r
<1>2. /\ IsPitEntry(o) /\ o.inRecords = r.inRecords
      /\ DOMAIN o.outRecords = DOMAIN r.outRecords \cup S
      /\ \A f \in S : o.outRecords[f].nonce = r.inRecords[pick[f]].nonce
      /\ \A f \in DOMAIN r.outRecords \ S : o.outRecords[f] = r.outRecords[f]
  BY <1>1, OutRecordsInserted
<1> HIDE DEF o
<1>3. DOMAIN m = {"entry", "timers"} /\ m.entry = o /\ m.timers = c.timers
  BY DEF IsCell
<1> HIDE DEF m
<1>4. IsCell(m)
  BY <1>2, <1>3 DEF IsCell
<1>5. /\ onInterestReject(m).entry.inRecords = o.inRecords
      /\ onInterestReject(m).entry.outRecords = o.outRecords
  BY <1>3, <1>4, RejectKeepsRecords
<1>6. DecidedCell(c, decision, pick) = IF decision.reject THEN onInterestReject(m) ELSE m
  BY DEF DecidedCell, m, o, r
<1>7. LET d == DecidedCell(c, decision, pick).entry
      IN  d.inRecords = o.inRecords /\ d.outRecords = o.outRecords
  BY <1>3, <1>5, <1>6
<1> QED
  BY <1>1, <1>2, <1>7 DEF SentRecords

(* Data leaves an entry no in-record, and takes the out-record of its face. *)
LEMMA SatisfiedRecords ==
  ASSUME IInv, NEW k \in DOMAIN pit, NEW f, NEW d \in Datas
  PROVE  LET e == SatisfiedCell(k, f, d).entry
         IN  /\ DOMAIN e.inRecords = {}
             /\ DOMAIN e.outRecords = DOMAIN pit[k].outRecords \ {f}
             /\ \A g \in DOMAIN pit[k].outRecords \ {f} :
                  e.outRecords[g] = pit[k].outRecords[g]
<1> DEFINE q == cancelUnsatisfyAndStragglerTimer(PitCell(k))
           x == deleteInRecords(q.entry)
           y == deleteOutRecord(x, f)
           m == [q EXCEPT !.entry = y]
<1>1. IsCell(q) /\ q.entry.outRecords = pit[k].outRecords
  <2>1. k \in Keys /\ PitCell(k).entry = pit[k]
    BY DEF IInv, BaseOK, PitCell
  <2> QED
    BY <2>1, CancelClears DEF IInv
<1> HIDE DEF q
<1>2. /\ DOMAIN x = DOMAIN q.entry
      /\ DOMAIN x.inRecords = {} /\ x.outRecords = q.entry.outRecords
      /\ x.unsatisfyTimer = q.entry.unsatisfyTimer /\ x.stragglerTimer = q.entry.stragglerTimer
      /\ x.retxInterval = q.entry.retxInterval
  BY <1>1 DEF deleteInRecords, IsCell, IsPitEntry
<1>3. IsPitEntry(x)
  BY <1>1, <1>2 DEF IsCell, IsPitEntry, IsRecordCollection
<1> HIDE DEF x
<1>4. /\ DOMAIN y = DOMAIN x
      /\ y.outRecords = [g \in DOMAIN x.outRecords \ {f} |-> x.outRecords[g]]
      /\ y.inRecords = x.inRecords
      /\ y.unsatisfyTimer = x.unsatisfyTimer /\ y.stragglerTimer = x.stragglerTimer
      /\ y.retxInterval = x.retxInterval
  BY <1>2, <1>3 DEF deleteOutRecord, IsPitEntry
<1>5. IsPitEntry(y)
  BY <1>3, <1>4 DEF IsPitEntry, IsRecordCollection
<1> HIDE DEF y
<1>6. DOMAIN m = {"entry", "timers"} /\ m.entry = y /\ m.timers = q.timers
  BY <1>1 DEF IsCell
<1> HIDE DEF m
<1>7. IsCell(m)
  BY <1>1, <1>5, <1>6 DEF IsCell
<1>8. /\ setStragglerTimer(m, TRUE, d.freshness).entry.inRecords = y.inRecords
      /\ setStragglerTimer(m, TRUE, d.freshness).entry.outRecords = y.outRecords
  BY <1>6, <1>7, StragglerKeepsRecords
<1>9. SatisfiedCell(k, f, d) = setStragglerTimer(m, TRUE, d.freshness)
  BY DEF SatisfiedCell, m, y, x, q
<1>10. /\ SatisfiedCell(k, f, d).entry.inRecords = x.inRecords
       /\ SatisfiedCell(k, f, d).entry.outRecords
            = [g \in DOMAIN pit[k].outRecords \ {f} |-> pit[k].outRecords[g]]
  BY <1>1, <1>2, <1>4, <1>8, <1>9
<1> QED
  BY <1>2, <1>10

-----------------------------------------------------------------------------
(***************************************************************************)
(* One lemma per pipeline: the records of the PIT after it.                *)
(***************************************************************************)
(* The entry Pit::insert returns for a key without one has no records. *)
LEMMA PitCellRecords ==
  ASSUME NEW k
  PROVE  /\ k \in DOMAIN pit => PitCell(k).entry = pit[k]
         /\ k \notin DOMAIN pit => /\ DOMAIN PitCell(k).entry.inRecords = {}
                                   /\ DOMAIN PitCell(k).entry.outRecords = {}
<1>1. DOMAIN NewEntry.inRecords = {} /\ DOMAIN NewEntry.outRecords = {}
  BY DEF NewEntry
<1> QED
  BY <1>1 DEF PitCell

(* Storing an entry changes no other entry. *)
LEMMA EntryPut ==
  ASSUME NEW k, NEW n, pit' = PitPut(k, n)
  PROVE  /\ DOMAIN pit' = DOMAIN pit \cup {k} /\ pit'[k] = n
         /\ \A j \in DOMAIN pit \ {k} : pit'[j] = pit[j]
BY DEF PitPut

(* onInterestLoop leaves at most a new entry without records behind. *)
LEMMA LoopRecords ==
  ASSUME NEW f, NEW i \in Interests, InterestLoop(f, i)
  PROVE  /\ DOMAIN pit' = DOMAIN pit \cup {i.key}
         /\ \A j \in DOMAIN pit : pit'[j] = pit[j]
         /\ i.key \notin DOMAIN pit => /\ DOMAIN pit'[i.key].inRecords = {}
                                       /\ DOMAIN pit'[i.key].outRecords = {}
<1>1. pit' = PitPut(i.key, PitCell(i.key).entry)
  BY DEF InterestLoop
<1>2. /\ DOMAIN pit' = DOMAIN pit \cup {i.key} /\ pit'[i.key] = PitCell(i.key).entry
      /\ \A j \in DOMAIN pit \ {i.key} : pit'[j] = pit[j]
  BY <1>1, EntryPut
<1> QED
  BY <1>2, PitCellRecords

(* onContentStoreHit answers an entry without in-records, which keeps none. *)
LEMMA HitRecords ==
  ASSUME IInv, NEW f, NEW i \in Interests, NEW d \in DOMAIN cs, ContentStoreHit(f, i, d)
  PROVE  /\ DOMAIN pit' = DOMAIN pit \cup {i.key}
         /\ \A j \in DOMAIN pit \ {i.key} : pit'[j] = pit[j]
         /\ DOMAIN pit'[i.key].inRecords = {}
         /\ i.key \in DOMAIN pit => /\ DOMAIN pit[i.key].inRecords = {}
                                    /\ pit'[i.key].outRecords = pit[i.key].outRecords
         /\ i.key \notin DOMAIN pit => DOMAIN pit'[i.key].outRecords = {}
<1> DEFINE k == i.key
           q == cancelUnsatisfyAndStragglerTimer(PitCell(k))
           n == setStragglerTimer(q, TRUE, d.freshness).entry
<1>1. k \in Keys
  BY DEF Keys
<1>2. /\ IsCell(q)
      /\ q.entry.inRecords = PitCell(k).entry.inRecords
      /\ q.entry.outRecords = PitCell(k).entry.outRecords
  BY <1>1, CancelClears DEF IInv
<1>3. pit' = PitPut(k, n) /\ DOMAIN PitCell(k).entry.inRecords = {}
  BY DEF ContentStoreHit, isPending
<1> HIDE DEF q
<1>4. n.inRecords = q.entry.inRecords /\ n.outRecords = q.entry.outRecords
  BY <1>2, StragglerKeepsRecords
<1> HIDE DEF n
<1>5. /\ DOMAIN pit' = DOMAIN pit \cup {k} /\ pit'[k] = n
      /\ \A j \in DOMAIN pit \ {k} : pit'[j] = pit[j]
  BY <1>3, EntryPut
<1> QED
  BY <1>2, <1>3, <1>4, <1>5, PitCellRecords

(* The records and packets of a key after its Interest went to the faces of S. *)
InterestsSent(k, e, S, pick) ==
  /\ DOMAIN pit'[k].outRecords = DOMAIN e.outRecords \cup S
  /\ \A g \in S : pit'[k].outRecords[g].nonce = e.inRecords[pick[g]].nonce
  /\ \A g \in DOMAIN e.outRecords \ S : pit'[k].outRecords[g] = e.outRecords[g]
  /\ sent' = {InterestPacket(k, g, e.inRecords[pick[g]].nonce) : g \in S}
  /\ forwarded' = (forwarded \ ({k} \X (OutNonces(e) \ OutNonces(pit'[k]))))
                    \cup ({k} \X {e.inRecords[pick[g]].nonce : g \in S})

(* onContentStoreMiss adds the in-record of the Interest, and an out-record   *)
(* on every face that the strategy chose and that is up and within scope.     *)
LEMMA MissRecords ==
  ASSUME IInv, NEW f \in Faces, NEW i \in Interests, ContentStoreMiss(f, i)
  PROVE  LET k == i.key
             e == PendingCell(f, i).entry
         IN  /\ DOMAIN pit' = DOMAIN pit \cup {k}
             /\ \A j \in DOMAIN pit \ {k} : pit'[j] = pit[j]
             /\ pit'[k].inRecords = e.inRecords
             /\ DOMAIN e.inRecords = DOMAIN PitCell(k).entry.inRecords \cup {f}
             /\ e.outRecords = PitCell(k).entry.outRecords
             /\ \E S \in SUBSET {g \in Faces : ~violatesScope(k, e, g)} :
                \E pick \in [S -> DOMAIN e.inRecords] : InterestsSent(k, e, S, pick)
<1> DEFINE k == i.key
           p == PendingCell(f, i)
           e == p.entry
<1>1. k \in Keys /\ now \in Nat
  BY DEF Keys, IInv, BaseOK
<1>2. /\ IsCell(p) /\ p.timers = {}
      /\ e.unsatisfyTimer = NoTimer /\ e.stragglerTimer = NoTimer
      /\ e.inRecords[f].expiry >= now /\ f \in DOMAIN e.inRecords
      /\ e.outRecords = PitCell(k).entry.outRecords
  BY PendingCellOK
<1>3. DOMAIN e.inRecords = DOMAIN PitCell(k).entry.inRecords \cup {f}
  BY PendingCellOK
<1>4. PICK t \in LastExpiry(e), decision \in afterReceiveInterest(k, e, f, i) :
        \E pick \in [OutgoingInterestFaces(k, e, decision.sends) -> DOMAIN e.inRecords] :
          MissOutcome(f, i, t, decision, pick)
  BY Zenon DEF ContentStoreMiss
<1> DEFINE S == OutgoingInterestFaces(k, e, decision.sends)
           a == setUnsatisfyTimer(p, t)
<1>5. PICK pick \in [S -> DOMAIN e.inRecords] : MissOutcome(f, i, t, decision, pick)
  BY <1>4
<1>6. S \in SUBSET Faces /\ \A g \in S : ~violatesScope(k, e, g)
  BY DEF OutgoingInterestFaces, Up
<1> DEFINE c == DecidedCell(a, decision, pick)
<1>7. /\ pit' = PitPut(k, c.entry)
      /\ sent' = {InterestPacket(k, g, e.inRecords[pick[g]].nonce) : g \in DOMAIN pick}
      /\ forwarded' = (forwarded \ ({k} \X (OutNonces(e) \ OutNonces(c.entry))))
                        \cup ({k} \X {e.inRecords[pick[g]].nonce : g \in DOMAIN pick})
  BY <1>5, Zenon DEF MissOutcome
<1> HIDE DEF p, S
<1>8. t >= now
  BY <1>1, <1>2 DEF LastExpiry, IsCell, IsPitEntry, IsRecordCollection, FaceRecord
<1>9. /\ IsCell(a) /\ a.entry.inRecords = e.inRecords
      /\ a.entry.outRecords = e.outRecords
  BY <1>1, <1>2, <1>8, UnsatisfyArmed
<1> HIDE DEF a
<1>10. decision.retx \in Nat
  BY <1>2, DecisionType DEF IsCell
<1>11. /\ c.entry.inRecords = e.inRecords
       /\ DOMAIN c.entry.outRecords = DOMAIN e.outRecords \cup S
       /\ \A g \in S : c.entry.outRecords[g].nonce = e.inRecords[pick[g]].nonce
       /\ \A g \in DOMAIN e.outRecords \ S : c.entry.outRecords[g] = e.outRecords[g]
  <2>1. pick \in [S -> DOMAIN a.entry.inRecords] /\ S \in SUBSET Faces
    BY <1>5, <1>6, <1>9
  <2>2. SentRecords(DecidedCell(a, decision, pick).entry, a.entry, S, pick)
    BY <1>1, <1>9, <1>10, <2>1, DecidedRecords
  <2> QED
    BY <1>9, <2>2 DEF SentRecords
<1> HIDE DEF c
<1>12. /\ DOMAIN pit' = DOMAIN pit \cup {k} /\ pit'[k] = c.entry
       /\ \A j \in DOMAIN pit \ {k} : pit'[j] = pit[j]
  BY <1>7, EntryPut
<1>13. DOMAIN pick = S /\ S \in SUBSET {g \in Faces : ~violatesScope(k, e, g)}
  BY <1>5, <1>6
<1>14. \E T \in SUBSET {g \in Faces : ~violatesScope(k, e, g)} :
       \E pk \in [T -> DOMAIN e.inRecords] : InterestsSent(k, e, T, pk)
  <2> S \in SUBSET {g \in Faces : ~violatesScope(k, e, g)}
    BY <1>13
  <2> WITNESS S \in SUBSET {g \in Faces : ~violatesScope(k, e, g)}
  <2> WITNESS pick \in [S -> DOMAIN e.inRecords]
  <2>1. OutNonces(pit'[k]) = OutNonces(c.entry)
    BY <1>12
  <2> QED
    BY <1>7, <1>11, <1>12, <1>13, <2>1 DEF InterestsSent
<1> QED
  BY <1>2, <1>3, <1>11, <1>12, <1>14 DEF p

(* onInterestFinalize, run by either timer. *)
LEMMA TimerRecords ==
  ASSUME IInv, NEW k \in Keys, TimerFires(k)
  PROVE  /\ k \in DOMAIN pit /\ sent' = {} /\ credit' = credit
         /\ DOMAIN pit' = DOMAIN pit \ {k}
         /\ \A j \in DOMAIN pit \ {k} : pit'[j] = pit[j]
         /\ \E isSatisfied \in BOOLEAN, freshness \in Int :
              /\ dnl' = dnl \cup insertDeadNonceList(k, pit[k], isSatisfied, freshness, Faces)
              /\ forwarded' = IF needDnl(k, isSatisfied, freshness) THEN forwarded
                              ELSE forwarded \ ({k} \X Nonces)
<1>1. PICK event \in timers[k] :
        /\ k \in DOMAIN pit
        /\ \/ onInterestFinalize(k, FALSE, NoFreshness, timers[k] \ {event})
           \/ onInterestFinalize(k, event.satisfied, event.freshness, timers[k] \ {event})
        /\ sent' = {} /\ credit' = credit
  BY DEF TimerFires, onInterestUnsatisfied
<1>2. event.satisfied \in BOOLEAN /\ event.freshness \in Int /\ NoFreshness \in Int
  BY <1>1 DEF IInv, BaseOK, Event, NoFreshness
<1>3. PICK isSatisfied \in BOOLEAN, freshness \in Int :
        onInterestFinalize(k, isSatisfied, freshness, timers[k] \ {event})
  BY <1>1, <1>2
<1>4. /\ dnl' = dnl \cup insertDeadNonceList(k, pit[k], isSatisfied, freshness, Faces)
      /\ pit' = [j \in DOMAIN pit \ {k} |-> pit[j]]
      /\ forwarded' = IF needDnl(k, isSatisfied, freshness) THEN forwarded
                      ELSE forwarded \ ({k} \X Nonces)
  BY <1>3, Zenon DEF onInterestFinalize
<1> QED
  BY <1>1, <1>4

(* The records after Data from f: entries in matches have lost their in-records *)
(* and the out-record of f.                                                     *)
RecordsAnswered(matches, f) ==
  /\ DOMAIN pit' = DOMAIN pit
  /\ \A k \in DOMAIN pit \ matches : pit'[k] = pit[k]
  /\ \A k \in matches :
       /\ DOMAIN pit'[k].inRecords = {}
       /\ DOMAIN pit'[k].outRecords = DOMAIN pit[k].outRecords \ {f}
       /\ \A g \in DOMAIN pit[k].outRecords \ {f} :
            pit'[k].outRecords[g] = pit[k].outRecords[g]

(* The loop of onIncomingData: what it does to the entries that Data satisfies, *)
(* whichever these are.                                                         *)
LEMMA SatisfiedEntries ==
  ASSUME IInv, NEW f, NEW d \in Datas, NEW matches \in SUBSET DOMAIN pit,
         pit' = [k \in DOMAIN pit |-> IF k \in matches THEN SatisfiedCell(k, f, d).entry ELSE pit[k]]
  PROVE  RecordsAnswered(matches, f)
<1>1. ASSUME NEW k \in matches
      PROVE  /\ DOMAIN pit'[k].inRecords = {}
             /\ DOMAIN pit'[k].outRecords = DOMAIN pit[k].outRecords \ {f}
             /\ \A g \in DOMAIN pit[k].outRecords \ {f} :
                  pit'[k].outRecords[g] = pit[k].outRecords[g]
  <2>1. k \in DOMAIN pit /\ pit'[k] = SatisfiedCell(k, f, d).entry
    OBVIOUS
  <2> QED
    BY <2>1, SatisfiedRecords
<1> QED
  BY <1>1 DEF RecordsAnswered

(* onIncomingData: the entries it finds, and no other. *)
LEMMA DataRecords ==
  ASSUME IInv, NEW f \in Faces, NEW d \in Datas, DataSatisfies(f, d)
  PROVE  findAllDataMatches(d) \subseteq DOMAIN pit /\ RecordsAnswered(findAllDataMatches(d), f)
<1> DEFINE matches == findAllDataMatches(d)
<1>1. matches \in SUBSET DOMAIN pit
  BY DEF findAllDataMatches
<1>2. pit' = [k \in DOMAIN pit |-> IF k \in matches THEN SatisfiedCell(k, f, d).entry ELSE pit[k]]
  BY Zenon DEF DataSatisfies
<1> HIDE DEF matches
<1>3. RecordsAnswered(matches, f)
  BY <1>1, <1>2, SatisfiedEntries
<1> QED
  BY <1>1, <1>3 DEF matches

-----------------------------------------------------------------------------
(***************************************************************************)
(* Loop detection.                                                         *)
(***************************************************************************)
(* A pair of the history is accounted for when its Nonce is found again. *)
Remembered(x) ==
  \/ x[1] \in DOMAIN pit /\ x[2] \in OutNonces(pit[x[1]])
  \/ <<x[1].name, x[2]>> \in dnl

(* The steps that lose no out-record and no dead Nonce. *)
LEMMA RememberedKept ==
  ASSUME UnansweredNonceRemembered, forwarded' \subseteq forwarded, dnl \subseteq dnl',
         \A k \in DOMAIN pit :
           k \in DOMAIN pit' /\ OutNonces(pit[k]) \subseteq OutNonces(pit'[k])
  PROVE  UnansweredNonceRemembered'
BY DEF UnansweredNonceRemembered

(* onContentStoreMiss: a Nonce is dropped from an entry only when a           *)
(* retransmission on the same face replaces it.                               *)
LEMMA MissRemembers ==
  ASSUME IInv, UnansweredNonceRemembered, NEW f \in Faces, NEW i \in Interests,
         ContentStoreMiss(f, i)
  PROVE  UnansweredNonceRemembered'
<1> DEFINE k == i.key
           e == PendingCell(f, i).entry
<1>1. /\ DOMAIN pit' = DOMAIN pit \cup {k}
      /\ \A j \in DOMAIN pit \ {k} : pit'[j] = pit[j]
      /\ e.outRecords = PitCell(k).entry.outRecords
  BY MissRecords
<1>0. PICK S, pick : S \in SUBSET Faces /\ InterestsSent(k, e, S, pick)
  BY MissRecords
<1>2. /\ DOMAIN pit'[k].outRecords = DOMAIN e.outRecords \cup S
      /\ \A g \in S : pit'[k].outRecords[g].nonce = e.inRecords[pick[g]].nonce
      /\ forwarded' = (forwarded \ ({k} \X (OutNonces(e) \ OutNonces(pit'[k]))))
                        \cup ({k} \X {e.inRecords[pick[g]].nonce : g \in S})
  BY <1>0 DEF InterestsSent
<1>3. dnl' = dnl
  BY DEF ContentStoreMiss
<1>4. k \in DOMAIN pit => OutNonces(pit[k]) = OutNonces(e)
  BY <1>1, PitCellRecords DEF OutNonces
<1> HIDE DEF e
<1>5. ASSUME NEW x \in forwarded'
      PROVE  Remembered(x)'
  <2>1. CASE x \in {k} \X {e.inRecords[pick[g]].nonce : g \in S}
    <3>1. x[1] = k /\ \E g \in S : x[2] = pit'[k].outRecords[g].nonce
      BY <2>1, <1>2
    <3> QED
      BY <3>1, <1>1, <1>2 DEF Remembered, OutNonces
  <2>2. CASE x \in forwarded \ ({k} \X (OutNonces(e) \ OutNonces(pit'[k])))
    <3>1. Remembered(x) /\ x = <<x[1], x[2]>>
      BY <2>2 DEF UnansweredNonceRemembered, Remembered, IInv, BaseOK
    <3>2. CASE x[1] = k /\ x[1] \in DOMAIN pit /\ x[2] \in OutNonces(pit[x[1]])
      <4>1. x[2] \in OutNonces(pit'[k])
        BY <2>2, <3>1, <3>2, <1>4
      <4> QED
        BY <3>2, <4>1, <1>1 DEF Remembered
    <3>3. CASE x[1] # k /\ x[1] \in DOMAIN pit /\ x[2] \in OutNonces(pit[x[1]])
      BY <3>3, <1>1 DEF Remembered
    <3> QED
      BY <3>1, <3>2, <3>3, <1>3 DEF Remembered
  <2> QED
    BY <2>1, <2>2, <1>2
<1> QED
  BY <1>5 DEF UnansweredNonceRemembered, Remembered

(* A timer erases the entry: its Nonces move to the Dead Nonce List, unless   *)
(* the Data that satisfied it stays long enough to stop a loop itself.        *)
LEMMA TimerRemembers ==
  ASSUME IInv, UnansweredNonceRemembered, NEW k \in Keys, TimerFires(k)
  PROVE  UnansweredNonceRemembered'
<1>1. /\ k \in DOMAIN pit /\ DOMAIN pit' = DOMAIN pit \ {k}
      /\ \A j \in DOMAIN pit \ {k} : pit'[j] = pit[j]
  BY TimerRecords
<1>2. PICK isSatisfied \in BOOLEAN, freshness \in Int :
        /\ dnl' = dnl \cup insertDeadNonceList(k, pit[k], isSatisfied, freshness, Faces)
        /\ forwarded' = IF needDnl(k, isSatisfied, freshness) THEN forwarded
                        ELSE forwarded \ ({k} \X Nonces)
  BY TimerRecords
<1>3. ASSUME NEW x \in forwarded'
      PROVE  Remembered(x)'
  <2>1. x \in forwarded /\ Remembered(x) /\ x \in Keys \X Nonces
    BY <1>2 DEF UnansweredNonceRemembered, Remembered, IInv, BaseOK
  <2>2. CASE x[1] = k /\ x[2] \in OutNonces(pit[k])
    <3>1. needDnl(k, isSatisfied, freshness)
      BY <2>1, <2>2, <1>2
    <3>2. PICK g \in DOMAIN pit[k].outRecords : x[2] = pit[k].outRecords[g].nonce
      BY <2>2 DEF OutNonces
    <3>3. g \in Faces
      BY <1>1 DEF IInv, BaseOK, IsPitEntry, IsRecordCollection
    <3>4. <<k.name, x[2]>> \in insertDeadNonceList(k, pit[k], isSatisfied, freshness, Faces)
      BY <3>1, <3>2, <3>3 DEF insertDeadNonceList
    <3> QED
      BY <2>2, <3>4, <1>2 DEF Remembered
  <2>3. CASE x[1] # k /\ x[1] \in DOMAIN pit /\ x[2] \in OutNonces(pit[x[1]])
    BY <2>3, <1>1 DEF Remembered
  <2> QED
    BY <2>1, <2>2, <2>3, <1>2 DEF Remembered
<1> QED
  BY <1>3 DEF UnansweredNonceRemembered, Remembered

(* onIncomingData deletes the out-record of the face the Data came from. *)
LEMMA DataRemembers ==
  ASSUME IInv, UnansweredNonceRemembered, NEW f \in Faces, NEW d \in Datas, DataSatisfies(f, d)
  PROVE  UnansweredNonceRemembered'
<1> DEFINE matches == findAllDataMatches(d)
           dead(k) == insertDeadNonceList(k, pit[k], TRUE, d.freshness, {f})
<1>1. /\ DOMAIN pit' = DOMAIN pit
      /\ \A k \in DOMAIN pit \ matches : pit'[k] = pit[k]
      /\ \A k \in matches :
           /\ DOMAIN pit'[k].outRecords = DOMAIN pit[k].outRecords \ {f}
           /\ \A g \in DOMAIN pit[k].outRecords \ {f} :
                pit'[k].outRecords[g] = pit[k].outRecords[g]
  BY DataRecords DEF RecordsAnswered
<1>2. /\ dnl' = dnl \cup UNION {dead(k) : k \in matches}
      /\ forwarded' = forwarded \ ({k \in matches : ~needDnl(k, TRUE, d.freshness)} \X Nonces)
  BY Zenon DEF DataSatisfies
<1> HIDE DEF matches
<1>3. ASSUME NEW x \in forwarded'
      PROVE  Remembered(x)'
  <2>1. x \in forwarded /\ Remembered(x) /\ x \in Keys \X Nonces
    BY <1>2 DEF UnansweredNonceRemembered, Remembered, IInv, BaseOK
  <2>2. CASE x[1] \in matches /\ x[1] \in DOMAIN pit /\ x[2] \in OutNonces(pit[x[1]])
    <3>1. needDnl(x[1], TRUE, d.freshness)
      BY <2>1, <2>2, <1>2
    <3>2. PICK g \in DOMAIN pit[x[1]].outRecords : x[2] = pit[x[1]].outRecords[g].nonce
      BY <2>2 DEF OutNonces
    <3>3. CASE g = f
      <4>1. <<x[1].name, x[2]>> \in dead(x[1])
        BY <3>1, <3>2, <3>3 DEF insertDeadNonceList
      <4> HIDE DEF dead
      <4> QED
        BY <2>2, <4>1, <1>2 DEF Remembered
    <3>4. CASE g # f
      BY <2>2, <3>2, <3>4, <1>1 DEF Remembered, OutNonces
    <3> QED
      BY <3>3, <3>4
  <2>3. CASE x[1] \notin matches /\ x[1] \in DOMAIN pit /\ x[2] \in OutNonces(pit[x[1]])
    BY <2>3, <1>1 DEF Remembered
  <2>4. CASE <<x[1].name, x[2]>> \in dnl
    BY <2>4, <1>2 DEF Remembered
  <2> QED
    BY <2>1, <2>2, <2>3, <2>4 DEF Remembered
<1> QED
  BY <1>3 DEF UnansweredNonceRemembered, Remembered

(* Every step keeps the Nonces that are sent upstream and not answered. *)
LEMMA RememberedStep ==
  ASSUME IInv, UnansweredNonceRemembered, [Next]_vars
  PROVE  UnansweredNonceRemembered'
<1>1. CASE UNCHANGED <<pit, dnl, forwarded>>
  BY <1>1, RememberedKept
<1>2. ASSUME NEW f \in Faces, NEW i \in Interests, InterestStep(f, i)
      PROVE  UnansweredNonceRemembered'
  <2>1. CASE DropLocalhostInterest(f, i)
    BY <2>1, <1>1 DEF DropLocalhostInterest
  <2>2. CASE InterestLoop(f, i)
    <3>1. dnl' = dnl /\ forwarded' = forwarded
      BY <2>2 DEF InterestLoop
    <3> QED
      BY <2>2, <3>1, LoopRecords, RememberedKept
  <2>3. ASSUME NEW d \in DOMAIN cs, ContentStoreHit(f, i, d)
        PROVE  UnansweredNonceRemembered'
    <3>1. dnl' = dnl /\ forwarded' = forwarded
      BY <2>3 DEF ContentStoreHit
    <3>2. \A k \in DOMAIN pit : k \in DOMAIN pit' /\ pit'[k].outRecords = pit[k].outRecords
      BY <2>3, HitRecords
    <3>3. \A k \in DOMAIN pit : OutNonces(pit[k]) \subseteq OutNonces(pit'[k])
      BY <3>2 DEF OutNonces
    <3> QED
      BY <3>1, <3>2, <3>3, RememberedKept
  <2> QED
    BY <1>2, <2>1, <2>2, <2>3, MissRemembers DEF InterestStep
<1>3. ASSUME NEW f \in Faces, NEW d \in Datas, DataStep(f, d)
      PROVE  UnansweredNonceRemembered'
  BY <1>3, <1>1, DataRemembers DEF DataStep, DropLocalhostData, onDataUnsolicited
<1>4. ASSUME NEW p \in dnl, DnlEvict(p)
      PROVE  UnansweredNonceRemembered'
  BY <1>4 DEF DnlEvict, UnansweredNonceRemembered
<1> QED
  BY <1>1, <1>2, <1>3, <1>4, TimerRemembers
     DEF Next, Tick, FaceAdd, FaceRemove, FibAddNextHop, FibRemoveNextHop, CsEvict, vars

(* Loop detection is complete but for eviction and retransmission: whatever    *)
(* pipelines and timers ran since, a Nonce that went upstream and was not      *)
(* answered is found by onIncomingInterest, in the PIT or in the Dead Nonce    *)
(* List.                                                                       *)
THEOREM UnansweredNoncesRemembered == Spec => []UnansweredNonceRemembered
<1>1. Init => UnansweredNonceRemembered
  BY DEF Init, UnansweredNonceRemembered
<1> QED
  BY <1>1, Invariance, RememberedStep, PTL DEF Spec

-----------------------------------------------------------------------------
(***************************************************************************)
(* Scope.                                                                  *)
(***************************************************************************)
(* The faces of the records of an entry. *)
RecordFaces(e) == DOMAIN e.inRecords \cup DOMAIN e.outRecords

(* Records appear only on faces that the scope of the key allows. *)
RecordsConfined ==
  \A k \in DOMAIN pit : IsPrefix(LOCALHOST_NAME, k.name) => RecordFaces(pit[k]) \subseteq LocalFaces

(* What onOutgoingData sends is within scope, whatever faces it is given. *)
SentConfined ==
  \A m \in sent : m.type = "Data" /\ IsPrefix(LOCALHOST_NAME, m.data.name) =>
    m.face \in LocalFaces

LEMMA OutgoingDataConfined ==
  ASSUME NEW d, NEW faces, sent' = {DataPacket(d, g) : g \in OutgoingDataFaces(d, faces)}
  PROVE  SentConfined'
<1> SUFFICES ASSUME NEW g \in OutgoingDataFaces(d, faces),
                    IsPrefix(LOCALHOST_NAME, DataPacket(d, g).data.name)
             PROVE  DataPacket(d, g).face \in LocalFaces
  BY DEF SentConfined
<1>1. DataPacket(d, g).face = g /\ DataPacket(d, g).data = d
  BY DEF DataPacket
<1> QED
  BY <1>1 DEF OutgoingDataFaces

(* Steps that give entries no record they did not have. *)
LEMMA ConfinedKept ==
  ASSUME RecordsConfined,
         \A k \in DOMAIN pit' :
           IF k \in DOMAIN pit THEN RecordFaces(pit'[k]) \subseteq RecordFaces(pit[k])
           ELSE RecordFaces(pit'[k]) = {}
  PROVE  RecordsConfined'
BY DEF RecordsConfined

(* onContentStoreMiss: the incoming face passed the scope check of             *)
(* onIncomingInterest, and the outgoing ones that of onOutgoingInterest.       *)
LEMMA MissConfined ==
  ASSUME IInv, RecordsConfined, NEW f \in Faces, NEW i \in Interests, ContentStoreMiss(f, i)
  PROVE  RecordsConfined' /\ SentConfined'
<1> DEFINE k == i.key
           e == PendingCell(f, i).entry
<1>1. /\ DOMAIN pit' = DOMAIN pit \cup {k}
      /\ \A j \in DOMAIN pit \ {k} : pit'[j] = pit[j]
      /\ pit'[k].inRecords = e.inRecords
      /\ DOMAIN e.inRecords = DOMAIN PitCell(k).entry.inRecords \cup {f}
      /\ e.outRecords = PitCell(k).entry.outRecords
  BY MissRecords
<1>2. PICK S, pick : S \in SUBSET {g \in Faces : ~violatesScope(k, e, g)} /\ InterestsSent(k, e, S, pick)
  BY MissRecords
<1>3. /\ DOMAIN pit'[k].outRecords = DOMAIN e.outRecords \cup S
      /\ sent' = {InterestPacket(k, g, e.inRecords[pick[g]].nonce) : g \in S}
  BY <1>2 DEF InterestsSent
<1>4. IsPrefix(LOCALHOST_NAME, k.name) => f \in LocalFaces /\ S \subseteq LocalFaces
  BY <1>2 DEF ContentStoreMiss, ViolatesLocalhost, violatesScope
<1>5. IsPrefix(LOCALHOST_NAME, k.name) => RecordFaces(PitCell(k).entry) \subseteq LocalFaces
  BY PitCellRecords DEF RecordsConfined, RecordFaces
<1> HIDE DEF e
<1>6. RecordFaces(pit'[k]) = RecordFaces(PitCell(k).entry) \cup {f} \cup S
  BY <1>1, <1>3 DEF RecordFaces
<1>7. RecordsConfined'
  BY <1>1, <1>4, <1>5, <1>6 DEF RecordsConfined
<1>8. \A m \in sent' : m.type = "Interest"
  BY <1>3 DEF InterestPacket
<1>9. SentConfined'
  BY <1>8 DEF SentConfined
<1> QED
  BY <1>7, <1>9

(* Every step confines records and packets. *)
LEMMA ConfinedStep ==
  ASSUME IInv, RecordsConfined, SentConfined, [Next]_vars
  PROVE  RecordsConfined' /\ SentConfined'
<1>1. pit' = pit => RecordsConfined'
  BY DEF RecordsConfined
<1>2. sent' = {} => SentConfined'
  BY DEF SentConfined
<1>3. ASSUME NEW f \in Faces, NEW i \in Interests, InterestStep(f, i)
      PROVE  RecordsConfined' /\ SentConfined'
  <2>1. CASE DropLocalhostInterest(f, i)
    BY <2>1, <1>1, <1>2 DEF DropLocalhostInterest
  <2>2. CASE InterestLoop(f, i)
    <3>1. sent' = {}
      BY <2>2 DEF InterestLoop
    <3>2. /\ DOMAIN pit' = DOMAIN pit \cup {i.key}
          /\ \A j \in DOMAIN pit : pit'[j] = pit[j]
          /\ i.key \notin DOMAIN pit => /\ DOMAIN pit'[i.key].inRecords = {}
                                        /\ DOMAIN pit'[i.key].outRecords = {}
      BY <2>2, LoopRecords
    <3>3. RecordsConfined'
      BY <3>2, ConfinedKept DEF RecordFaces
    <3> QED
      BY <1>2, <3>1, <3>3
  <2>3. ASSUME NEW d \in DOMAIN cs, ContentStoreHit(f, i, d)
        PROVE  RecordsConfined' /\ SentConfined'
    <3>1. sent' = {DataPacket(d, g) : g \in OutgoingDataFaces(d, {f})}
      BY <2>3, Zenon DEF ContentStoreHit
    <3> DEFINE k == i.key
    <3>2. /\ DOMAIN pit' = DOMAIN pit \cup {k}
          /\ \A j \in DOMAIN pit \ {k} : pit'[j] = pit[j]
          /\ DOMAIN pit'[k].inRecords = {}
          /\ k \in DOMAIN pit => pit'[k].outRecords = pit[k].outRecords
          /\ k \notin DOMAIN pit => DOMAIN pit'[k].outRecords = {}
      BY <2>3, HitRecords
    <3> HIDE DEF k
    <3>3. RecordsConfined'
      BY <3>2, ConfinedKept DEF RecordFaces
    <3> QED
      BY <3>1, <3>3, OutgoingDataConfined
  <2> QED
    BY <1>3, <2>1, <2>2, <2>3, MissConfined DEF InterestStep
<1>4. ASSUME NEW f \in Faces, NEW d \in Datas, DataSatisfies(f, d)
      PROVE  RecordsConfined' /\ SentConfined'
  <2>1. \E faces : sent' = {DataPacket(d, g) : g \in OutgoingDataFaces(d, faces)}
    BY <1>4, Zenon DEF DataSatisfies
  <2>2. /\ DOMAIN pit' = DOMAIN pit
        /\ \A k \in DOMAIN pit \ findAllDataMatches(d) : pit'[k] = pit[k]
        /\ \A k \in findAllDataMatches(d) :
             /\ DOMAIN pit'[k].inRecords = {}
             /\ DOMAIN pit'[k].outRecords = DOMAIN pit[k].outRecords \ {f}
    BY <1>4, DataRecords DEF RecordsAnswered
  <2>3. RecordsConfined'
    BY <2>2, ConfinedKept DEF RecordFaces
  <2> QED
    BY <2>1, <2>3, OutgoingDataConfined
<1>5. ASSUME NEW f \in Faces, NEW d \in Datas, DataStep(f, d)
      PROVE  RecordsConfined' /\ SentConfined'
  BY <1>5, <1>1, <1>2, <1>4 DEF DataStep, DropLocalhostData, onDataUnsolicited
<1>6. ASSUME NEW k \in Keys, TimerFires(k)
      PROVE  RecordsConfined' /\ SentConfined'
  <2>1. RecordsConfined'
    BY <1>6, TimerRecords, ConfinedKept
  <2> QED
    BY <1>2, <1>6, <2>1, TimerRecords
<1>7. CASE UNCHANGED vars
  BY <1>7 DEF vars, RecordsConfined, SentConfined
<1> QED
  BY <1>1, <1>2, <1>3, <1>5, <1>6, <1>7
     DEF Next, Tick, FaceAdd, FaceRemove, FibAddNextHop, FibRemoveNextHop, CsEvict, DnlEvict

(* /localhost never leaves the node: no pipeline records a non-local face      *)
(* under such a key or sends such Data to one, whichever Data answers which    *)
(* Interest.                                                                   *)
THEOREM LocalhostStaysLocal == Spec => []LocalhostConfined
<1>1. Init => RecordsConfined /\ SentConfined
  BY DEF Init, RecordsConfined, SentConfined
<1>2. RecordsConfined /\ SentConfined => LocalhostConfined
  BY DEF RecordsConfined, SentConfined, RecordFaces, LocalhostConfined
<1> QED
  BY <1>1, <1>2, Invariance, ConfinedStep, PTL DEF Spec

-----------------------------------------------------------------------------
(***************************************************************************)
(* Flow balance.                                                           *)
(***************************************************************************)
(* The keys a face waits for. *)
Awaited(f) == {k \in DOMAIN pit : f \in DOMAIN pit[k].inRecords}

(* The inductive form: a face is owed Data for every key it waits for, and    *)
(* the PIT is finite, so that these keys can be counted.                      *)
Balance ==
  /\ IsFiniteSet(DOMAIN pit)
  /\ \A f \in Faces : credit[f] >= Cardinality(Awaited(f))

(* Counting the keys a face waits for before and after a step. *)
LEMMA AwaitedCount ==
  ASSUME IInv, Balance, NEW f \in Faces
  PROVE  /\ credit[f] \in Int /\ IsFiniteSet(Awaited(f))
         /\ Cardinality(Awaited(f)) \in Nat /\ credit[f] >= Cardinality(Awaited(f))
         /\ \A T \in SUBSET Awaited(f) :
              /\ Cardinality(T) \in Nat /\ credit[f] >= Cardinality(T)
              /\ T # Awaited(f) => credit[f] - 1 >= Cardinality(T)
         /\ \A k : /\ Cardinality(Awaited(f) \cup {k}) \in Nat
                   /\ credit[f] + 1 >= Cardinality(Awaited(f) \cup {k})
<1>1. credit[f] \in Int /\ Awaited(f) \in SUBSET DOMAIN pit
  BY DEF IInv, BaseOK, Awaited
<1>2. IsFiniteSet(Awaited(f))
  BY <1>1, FS_Subset DEF Balance
<1>3. Cardinality(Awaited(f)) \in Nat /\ credit[f] >= Cardinality(Awaited(f))
  BY <1>2, FS_CardinalityType DEF Balance
<1> DEFINE A == Awaited(f)
<1> HIDE DEF A
<1>4. ASSUME NEW T \in SUBSET A
      PROVE  /\ Cardinality(T) \in Nat /\ credit[f] >= Cardinality(T)
             /\ T # A => credit[f] - 1 >= Cardinality(T)
  <2>1. /\ IsFiniteSet(T) /\ Cardinality(T) =< Cardinality(A)
        /\ Cardinality(A) = Cardinality(T) => A = T
    BY <1>2, FS_Subset DEF A
  <2>2. Cardinality(T) \in Nat
    BY <2>1, FS_CardinalityType
  <2> QED
    BY <1>1, <1>3, <2>1, <2>2 DEF A
<1>5. ASSUME NEW k
      PROVE  /\ Cardinality(A \cup {k}) \in Nat
             /\ credit[f] + 1 >= Cardinality(A \cup {k})
  <2>1. Cardinality(A \cup {k}) \in {Cardinality(A), Cardinality(A) + 1}
    BY <1>2, FS_AddElement DEF A
  <2> QED
    BY <1>1, <1>3, <2>1 DEF A
<1> QED
  BY <1>1, <1>2, <1>3, <1>4, <1>5 DEF A

(* The PIT stays finite when at most one key is added. *)
LEMMA FiniteKept ==
  ASSUME Balance, NEW k, DOMAIN pit' \subseteq DOMAIN pit \cup {k}
  PROVE  IsFiniteSet(DOMAIN pit')
<1>1. IsFiniteSet(DOMAIN pit \cup {k})
  BY FS_AddElement DEF Balance
<1> QED
  BY <1>1, FS_Subset

(* Steps after which no face waits for more, or has less credit. *)
LEMMA BalanceKept ==
  ASSUME IInv, Balance, NEW k, DOMAIN pit' \subseteq DOMAIN pit \cup {k},
         \A f \in Faces : Awaited(f)' \subseteq Awaited(f) /\ credit'[f] \in Int /\ credit'[f] >= credit[f]
  PROVE  Balance'
<1>1. IsFiniteSet(DOMAIN pit')
  BY FiniteKept
<1>2. ASSUME NEW f \in Faces
      PROVE  credit'[f] >= Cardinality(Awaited(f)')
  <2>1. Cardinality(Awaited(f)') \in Nat /\ credit[f] >= Cardinality(Awaited(f)') /\ credit[f] \in Int
    BY AwaitedCount
  <2> QED
    BY <2>1
<1> QED
  BY <1>1, <1>2 DEF Balance

(* An Interest is charged to the face it came from. *)
LEMMA ChargedCredit ==
  ASSUME IInv, NEW f \in Faces
  PROVE  /\ Charged(f) \in [Faces -> Int]
         /\ \A g \in Faces : Charged(f)[g] = IF g = f THEN credit[g] + 1 ELSE credit[g]
BY DEF Charged, IInv, BaseOK

(* onIncomingInterest: every way through it is paid for. *)
LEMMA InterestBalance ==
  ASSUME IInv, Balance, NEW f \in Faces, NEW i \in Interests, InterestStep(f, i)
  PROVE  Balance'
<1> DEFINE k == i.key
<1>1. CASE DropLocalhostInterest(f, i)
  <2>1. pit' = pit /\ credit' = Charged(f)
    BY <1>1 DEF DropLocalhostInterest
  <2>2. \A g \in Faces : credit'[g] \in Int /\ credit'[g] >= credit[g]
    BY <2>1, ChargedCredit DEF IInv, BaseOK
  <2> QED
    BY <2>1, <2>2, BalanceKept DEF Awaited
<1>2. CASE InterestLoop(f, i)
  <2>1. credit' = Charged(f)
    BY <1>2 DEF InterestLoop
  <2>2. \A g \in Faces : credit'[g] \in Int /\ credit'[g] >= credit[g]
    BY <2>1, ChargedCredit DEF IInv, BaseOK
  <2>3. /\ DOMAIN pit' = DOMAIN pit \cup {k}
        /\ \A j \in DOMAIN pit : pit'[j] = pit[j]
        /\ k \notin DOMAIN pit => DOMAIN pit'[k].inRecords = {}
    BY <1>2, LoopRecords
  <2> HIDE DEF k
  <2>4. \A g \in Faces : Awaited(g)' \subseteq Awaited(g)
    BY <2>3 DEF Awaited
  <2> QED
    BY <2>2, <2>3, <2>4, BalanceKept
<1>3. ASSUME NEW d \in DOMAIN cs, ContentStoreHit(f, i, d)
      PROVE  Balance'
  <2>1. credit' = Paid(Charged(f), OutgoingDataFaces(d, {f}))
    BY <1>3, Zenon DEF ContentStoreHit
  <2>2. \A g \in Faces : credit'[g] \in Int /\ credit'[g] >= credit[g]
    BY <2>1, ChargedCredit DEF Paid, OutgoingDataFaces, IInv, BaseOK
  <2>3. /\ DOMAIN pit' = DOMAIN pit \cup {k}
        /\ \A j \in DOMAIN pit \ {k} : pit'[j] = pit[j]
        /\ DOMAIN pit'[k].inRecords = {}
    BY <1>3, HitRecords
  <2> HIDE DEF k
  <2>4. \A g \in Faces : Awaited(g)' \subseteq Awaited(g)
    BY <2>3 DEF Awaited
  <2> QED
    BY <2>2, <2>3, <2>4, BalanceKept
<1>4. CASE ContentStoreMiss(f, i)
  <2>1. credit' = Charged(f)
    BY <1>4 DEF ContentStoreMiss
  <2>2. /\ DOMAIN pit' = DOMAIN pit \cup {k}
        /\ \A j \in DOMAIN pit \ {k} : pit'[j] = pit[j]
        /\ DOMAIN pit'[k].inRecords = DOMAIN PitCell(k).entry.inRecords \cup {f}
    BY <1>4, MissRecords
  <2>3. k \notin DOMAIN pit => DOMAIN PitCell(k).entry.inRecords = {}
    BY PitCellRecords
  <2>4. k \in DOMAIN pit => PitCell(k).entry = pit[k]
    BY PitCellRecords
  <2> HIDE DEF k
  <2>5. /\ Awaited(f)' = Awaited(f) \cup {k}
        /\ \A g \in Faces \ {f} : Awaited(g)' = Awaited(g)
    BY <2>2, <2>3, <2>4 DEF Awaited
  <2>6. ASSUME NEW g \in Faces
        PROVE  credit'[g] >= Cardinality(Awaited(g)')
    <3>1. CASE g = f
      BY <2>1, <2>5, <3>1, AwaitedCount, ChargedCredit
    <3>2. CASE g # f
      BY <2>1, <2>5, <3>2, AwaitedCount, ChargedCredit
    <3> QED
      BY <3>1, <3>2
  <2>7. IsFiniteSet(DOMAIN pit')
    BY <2>2, FiniteKept
  <2> QED
    BY <2>6, <2>7 DEF Balance
<1> QED
  BY <1>1, <1>2, <1>3, <1>4 DEF InterestStep

(* onIncomingData sends Data to a face once, and answers at least one key it   *)
(* was waiting for.                                                            *)
LEMMA DataBalance ==
  ASSUME IInv, Balance, NEW f \in Faces, NEW d \in Datas, DataSatisfies(f, d)
  PROVE  Balance'
<1> DEFINE matches == findAllDataMatches(d)
           waiting == UNION {PendingDownstreams(pit[k]) : k \in matches}
           to == OutgoingDataFaces(d, waiting \ {f})
<1>1. credit' = Paid(credit, to)
  BY Zenon DEF DataSatisfies
<1>2. /\ DOMAIN pit' = DOMAIN pit /\ matches \subseteq DOMAIN pit
      /\ \A k \in DOMAIN pit \ matches : pit'[k] = pit[k]
      /\ \A k \in matches : DOMAIN pit'[k].inRecords = {}
  BY DataRecords DEF RecordsAnswered
<1>3. to \subseteq waiting
  BY DEF OutgoingDataFaces
<1> HIDE DEF matches, to
<1>4. \A g \in Faces : Awaited(g)' = Awaited(g) \ matches
  BY <1>2 DEF Awaited
<1>5. ASSUME NEW g \in to
      PROVE  Awaited(g) \ matches # Awaited(g)
  <2>1. PICK k \in matches : g \in PendingDownstreams(pit[k])
    BY <1>3
  <2> QED
    BY <2>1, <1>2 DEF PendingDownstreams, Awaited
<1>6. ASSUME NEW g \in Faces
      PROVE  credit'[g] >= Cardinality(Awaited(g)')
  <2>1. credit'[g] = IF g \in to THEN credit[g] - 1 ELSE credit[g]
    BY <1>1 DEF Paid
  <2>2. Awaited(g) \ matches \in SUBSET Awaited(g)
    OBVIOUS
  <2> QED
    BY <2>1, <2>2, <1>4, <1>5, AwaitedCount
<1>7. IsFiniteSet(DOMAIN pit')
  BY <1>2 DEF Balance
<1> QED
  BY <1>6, <1>7 DEF Balance

(* Every step keeps the balance. *)
LEMMA BalanceStep ==
  ASSUME IInv, Balance, [Next]_vars
  PROVE  Balance'
<1>1. CASE UNCHANGED <<pit, credit>>
  BY <1>1 DEF Balance, Awaited
<1>2. ASSUME NEW k \in Keys, TimerFires(k)
      PROVE  Balance'
  <2>1. /\ credit' = credit /\ DOMAIN pit' = DOMAIN pit \ {k}
        /\ \A j \in DOMAIN pit \ {k} : pit'[j] = pit[j]
    BY <1>2, TimerRecords
  <2>2. \A f \in Faces :
          Awaited(f)' \subseteq Awaited(f) /\ credit'[f] \in Int /\ credit'[f] >= credit[f]
    BY <2>1 DEF Awaited, IInv, BaseOK
  <2> QED
    BY <2>1, <2>2, BalanceKept
<1>3. ASSUME NEW f \in Faces, NEW d \in Datas, DataStep(f, d)
      PROVE  Balance'
  BY <1>1, <1>3, DataBalance DEF DataStep, DropLocalhostData, onDataUnsolicited
<1> QED
  BY <1>1, <1>2, <1>3, InterestBalance
     DEF Next, Tick, FaceAdd, FaceRemove, FibAddNextHop, FibRemoveNextHop, CsEvict, DnlEvict, vars

(* Flow balance: over any run, no face is sent more Data than it sent          *)
(* Interests, and what it is owed covers the Interests it has pending.         *)
THEOREM FlowBalanced == Spec => []FlowBalance
<1>1. Init => Balance
  <2> SUFFICES ASSUME Init
               PROVE  Balance
    OBVIOUS
  <2>1. DOMAIN pit = {} /\ \A f \in Faces : credit[f] = 0 /\ Awaited(f) = {}
    BY DEF Init, Awaited
  <2> QED
    BY <2>1, FS_EmptySet DEF Balance
<1>2. Balance => FlowBalance
  BY DEF Balance, FlowBalance, Awaited
<1> QED
  BY <1>1, <1>2, Invariance, BalanceStep, PTL DEF Spec

-----------------------------------------------------------------------------
(***************************************************************************)
(* Refinement: a step of the forwarder is a step of PendingInterests, or   *)
(* changes neither the requests nor the deliveries.                        *)
(***************************************************************************)
(* A request is an in-record. *)
LEMMA RequestIsRecord ==
  ASSUME BaseOK
  PROVE  \A f, k : <<f, k>> \in Requests <=> k \in DOMAIN pit /\ f \in DOMAIN pit[k].inRecords
BY DEF Requests, BaseOK, IsPitEntry, IsRecordCollection

(* Requests are pairs, determined by the in-records of every key. *)
LEMMA SameRequests ==
  ASSUME NEW k, DOMAIN pit' = DOMAIN pit \cup {k},
         \A j \in DOMAIN pit \ {k} : pit'[j].inRecords = pit[j].inRecords,
         k \in DOMAIN pit => DOMAIN pit'[k].inRecords = DOMAIN pit[k].inRecords,
         k \notin DOMAIN pit => DOMAIN pit'[k].inRecords = {}
  PROVE  Requests' = Requests
BY DEF Requests

(* No Data is delivered by a step that sends none. *)
LEMMA NoDelivery ==
  ASSUME \A m \in sent' : m.type = "Interest"
  PROVE  Deliveries' = {}
BY DEF Deliveries

(* Data goes to the faces it was handed to by onOutgoingData. *)
LEMMA DataDelivery ==
  ASSUME NEW d, NEW faces, sent' = {DataPacket(d, g) : g \in faces}
  PROVE  Deliveries' = {<<g, d>> : g \in faces}
<1>1. \A g : /\ DataPacket(d, g).type = "Data" /\ DataPacket(d, g).face = g
             /\ DataPacket(d, g).data = d
  BY DEF DataPacket
<1> QED
  BY <1>1 DEF Deliveries

(* onIncomingInterest: a request is recorded, answered from the Content Store *)
(* or dropped.                                                                *)
LEMMA InterestRefines ==
  ASSUME IInv, CsOK, NEW f \in Faces, NEW i \in Interests, InterestStep(f, i)
  PROVE  Promise!Next
<1> DEFINE k == i.key
<1>0. k \in Keys
  BY DEF Keys
<1>1. CASE DropLocalhostInterest(f, i)
  <2>1. pit' = pit /\ sent' = {}
    BY <1>1 DEF DropLocalhostInterest
  <2>2. Requests' = Requests /\ Deliveries' = {}
    BY <2>1, NoDelivery DEF Requests
  <2> QED
    BY <2>2 DEF Promise!Next, Promise!Idle
<1>2. CASE InterestLoop(f, i)
  <2>1. sent' = {}
    BY <1>2 DEF InterestLoop
  <2>2. /\ DOMAIN pit' = DOMAIN pit \cup {k}
        /\ \A j \in DOMAIN pit : pit'[j] = pit[j]
        /\ k \notin DOMAIN pit => DOMAIN pit'[k].inRecords = {}
    BY <1>2, LoopRecords
  <2> HIDE DEF k
  <2>3. Requests' = Requests
    BY <2>2, SameRequests
  <2> QED
    BY <2>1, <2>3, NoDelivery DEF Promise!Next, Promise!Idle
<1>3. ASSUME NEW d \in DOMAIN cs, ContentStoreHit(f, i, d)
      PROVE  Promise!Next
  <2> DEFINE to == OutgoingDataFaces(d, {f})
  <2>1. sent' = {DataPacket(d, g) : g \in to} /\ to \subseteq {f}
    BY <1>3 DEF ContentStoreHit, OutgoingDataFaces
  <2> HIDE DEF to
  <2>2. Deliveries' \subseteq {<<f, d>>}
    <3>1. Deliveries' = {<<g, d>> : g \in to}
      BY <2>1, DataDelivery
    <3> QED
      BY <2>1, <3>1
  <2>3. matchesData(k, d) /\ d \in Datas
    BY <1>3 DEF ContentStoreHit, CsFind, canSatisfy, CsOK
  <2>4. /\ DOMAIN pit' = DOMAIN pit \cup {k}
        /\ \A j \in DOMAIN pit \ {k} : pit'[j] = pit[j]
        /\ DOMAIN pit'[k].inRecords = {}
        /\ k \in DOMAIN pit => DOMAIN pit[k].inRecords = {}
    BY <1>3, HitRecords
  <2> HIDE DEF k
  <2>5. Requests' = Requests
    BY <2>4, SameRequests
  <2>6. \A g \in Faces : <<g, k>> \notin Requests
    BY <2>4 DEF Requests
  <2>7. Promise!AnswerAtOnce(f, k, d)
    BY <2>2, <2>3, <2>5, <2>6 DEF Promise!AnswerAtOnce
  <2> QED
    BY <1>0, <2>3, <2>7 DEF Promise!Next
<1>4. CASE ContentStoreMiss(f, i)
  <2> DEFINE e == PendingCell(f, i).entry
  <2>1. /\ DOMAIN pit' = DOMAIN pit \cup {k}
        /\ \A j \in DOMAIN pit \ {k} : pit'[j] = pit[j]
        /\ DOMAIN pit'[k].inRecords = DOMAIN PitCell(k).entry.inRecords \cup {f}
    BY <1>4, MissRecords
  <2>2. PICK S, pick : S \in SUBSET Faces /\ InterestsSent(k, e, S, pick)
    BY <1>4, MissRecords
  <2>3. \A m \in sent' : m.type = "Interest"
    BY <2>2 DEF InterestsSent, InterestPacket
  <2>4. /\ k \notin DOMAIN pit => DOMAIN PitCell(k).entry.inRecords = {}
        /\ k \in DOMAIN pit => PitCell(k).entry = pit[k]
    BY PitCellRecords
  <2> HIDE DEF k
  <2>5. Requests' = Requests \cup {<<f, k>>}
    BY <1>0, <2>1, <2>4 DEF Requests
  <2>6. Promise!Ask(f, k)
    BY <2>3, <2>5, NoDelivery DEF Promise!Ask
  <2> QED
    BY <1>0, <2>6 DEF Promise!Next
<1> QED
  BY <1>1, <1>2, <1>3, <1>4 DEF InterestStep

(* onIncomingData answers every request of a matching key, and nobody else. *)
LEMMA DataRefines ==
  ASSUME IInv, NEW f \in Faces, NEW d \in Datas, DataSatisfies(f, d)
  PROVE  Promise!Answer(d)
<1> DEFINE matches == findAllDataMatches(d)
           waiting == UNION {PendingDownstreams(pit[k]) : k \in matches}
           to == OutgoingDataFaces(d, waiting \ {f})
<1>1. sent' = {DataPacket(d, g) : g \in to}
  BY Zenon DEF DataSatisfies
<1>2. /\ DOMAIN pit' = DOMAIN pit
      /\ \A k \in DOMAIN pit \ matches : pit'[k] = pit[k]
      /\ \A k \in matches : DOMAIN pit'[k].inRecords = {}
  BY DataRecords DEF RecordsAnswered
<1>3. \A k : k \in matches <=> k \in DOMAIN pit /\ matchesData(k, d)
  BY DEF findAllDataMatches
<1>4. Requests' = {r \in Requests : ~matchesData(r[2], d)}
  BY <1>2, <1>3 DEF Requests
<1>5. ASSUME NEW g \in to
      PROVE  \E k : <<g, k>> \in Requests /\ matchesData(k, d)
  <2>1. PICK k \in matches : g \in PendingDownstreams(pit[k])
    BY DEF OutgoingDataFaces
  <2>2. k \in DOMAIN pit /\ g \in DOMAIN pit[k].inRecords
    BY <1>3, <2>1 DEF PendingDownstreams
  <2> QED
    BY <1>3, <2>1, <2>2, RequestIsRecord DEF IInv
<1> HIDE DEF to, matches
<1>6. Deliveries' = {<<g, d>> : g \in to}
  BY <1>1, DataDelivery
<1>7. Deliveries' \subseteq {<<r[1], d>> : r \in Requests \ Requests'}
  <2> SUFFICES ASSUME NEW g \in to
               PROVE  <<g, d>> \in {<<r[1], d>> : r \in Requests \ Requests'}
    BY <1>6
  <2>1. PICK k : <<g, k>> \in Requests /\ matchesData(k, d)
    BY <1>5
  <2>2. <<g, k>> \in Requests \ Requests' /\ <<g, k>>[1] = g
    BY <1>4, <2>1
  <2> QED
    BY <2>2
<1> QED
  BY <1>4, <1>7 DEF Promise!Answer

(* A timer gives up the requests of its key. *)
LEMMA TimerRefines ==
  ASSUME IInv, NEW k \in Keys, TimerFires(k)
  PROVE  Promise!GiveUp(k)
<1>1. /\ sent' = {} /\ DOMAIN pit' = DOMAIN pit \ {k}
      /\ \A j \in DOMAIN pit \ {k} : pit'[j] = pit[j]
  BY TimerRecords
<1>2. Requests' = {r \in Requests : r[2] # k}
  BY <1>1 DEF Requests
<1> QED
  BY <1>1, <1>2, NoDelivery DEF Promise!GiveUp

(* Every step of the forwarder is one of PendingInterests. *)
LEMMA StepRefines ==
  ASSUME IInv, CsOK, [Next]_vars
  PROVE  [Promise!Next]_(Promise!vars)
<1>1. CASE pit' = pit /\ sent' = {}
  <2>1. Requests' = Requests /\ Deliveries' = {}
    BY <1>1, NoDelivery DEF Requests
  <2> QED
    BY <2>1 DEF Promise!Next, Promise!Idle
<1>2. CASE UNCHANGED vars
  <2>1. Requests' = Requests /\ Deliveries' = Deliveries
    BY <1>2 DEF vars, Requests, Deliveries
  <2> QED
    BY <2>1 DEF Promise!vars
<1>3. ASSUME NEW f \in Faces, NEW d \in Datas, DataStep(f, d)
      PROVE  Promise!Next \/ (pit' = pit /\ sent' = {})
  BY <1>3, DataRefines DEF DataStep, DropLocalhostData, onDataUnsolicited, Promise!Next
<1>4. ASSUME NEW k \in Keys, TimerFires(k)
      PROVE  Promise!Next
  BY <1>4, TimerRefines DEF Promise!Next
<1> QED
  BY <1>1, <1>2, <1>3, <1>4, InterestRefines
     DEF Next, Tick, FaceAdd, FaceRemove, FibAddNextHop, FibRemoveNextHop, CsEvict, DnlEvict

(* The forwarder keeps its promise to downstreams: Data reaches a face only as *)
(* the answer to a request of its own that is pending, and one Data answers    *)
(* all the requests it matches.                                                *)
THEOREM PromiseImplemented == Spec => ImplementsPromise
<1>1. Init => Promise!Init
  BY DEF Init, Promise!Init, Requests, Deliveries
<1> QED
  BY <1>1, Invariance, StepRefines, PTL DEF Spec, ImplementsPromise, Promise!Spec

=============================================================================

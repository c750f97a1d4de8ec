---------------------------- MODULE DeadNonceList ----------------------------
(***************************************************************************)
(* The Dead Nonce List (daemon/table/dead-nonce-list.cpp): a queue of      *)
(* hashes without timestamps, whose capacity follows the rate of           *)
(* insertions so that an entry is kept for about the lifetime.  The rate   *)
(* changes now and then; between the changes it is constant.               *)
(*                                                                         *)
(* Which Nonce an entry is of does not matter to the capacity: an entry is *)
(* Dead, a mark is Mark.  One interval of the model is m_markInterval.     *)
(***************************************************************************)
EXTENDS Integers, SequencesExt, FiniteSetsExt

CONSTANTS INITIAL_CAPACITY, MIN_CAPACITY, MAX_CAPACITY, EXPECTED_MARK_COUNT, EVICT_LIMIT,
          Rates,           \* insertions per interval
          MaxRateChanges

ASSUME DeadNonceListAssumption ==
  /\ {INITIAL_CAPACITY, MIN_CAPACITY, MAX_CAPACITY, EXPECTED_MARK_COUNT, EVICT_LIMIT} \subseteq Nat \ {0}
  /\ MIN_CAPACITY =< INITIAL_CAPACITY /\ INITIAL_CAPACITY =< MAX_CAPACITY
  /\ (MIN_CAPACITY * 12) \div 10 > MIN_CAPACITY /\ (MAX_CAPACITY * 9) \div 10 < MAX_CAPACITY
  /\ Rates \subseteq Nat /\ MaxRateChanges \in Nat

Mark == "mark"
Dead == "dead"

VARIABLES
  queue,     \* m_queue
  capacity,  \* m_capacity
  counts,    \* m_actualMarkCounts, of which the values matter
  interval,  \* intervals since the capacity was last adjusted
  inserted,  \* insertions in the current interval
  due,       \* events that are due
  rate, rateChanges

dnlVars == <<queue, capacity, counts, interval, inserted, due, rate, rateChanges>>

DnlInit ==
  /\ queue = [i \in 1 .. EXPECTED_MARK_COUNT |-> Mark]
  /\ capacity = INITIAL_CAPACITY
  /\ counts = {} /\ interval = 0 /\ inserted = 0 /\ due = {}
  /\ rate \in Rates /\ rateChanges = 0

countMarks(q) == Cardinality({i \in DOMAIN q : q[i] = Mark})

(* evictEntries: the oldest, at most EVICT_LIMIT of them. *)
evictOldest(q, c) ==
  IF Len(q) =< c THEN q ELSE SubSeq(q, 1 + Min({Len(q) - c, EVICT_LIMIT}), Len(q))

add ==
  /\ due = {} /\ inserted < rate
  /\ inserted' = inserted + 1
  /\ queue' = evictOldest(Append(queue, Dead), capacity)
  /\ UNCHANGED <<capacity, counts, interval, due, rate, rateChanges>>

(* The clock comes to the end of an interval, and of a lifetime. *)
IntervalEnds ==
  /\ due = {} /\ inserted >= rate
  /\ inserted' = 0
  /\ interval' = (interval + 1) % EXPECTED_MARK_COUNT
  /\ due' = IF interval' = 0 THEN {"mark", "adjust"} ELSE {"mark"}
  /\ UNCHANGED <<queue, capacity, counts, rate, rateChanges>>

mark ==
  /\ "mark" \in due
  /\ queue' = Append(queue, Mark)
  /\ counts' = counts \cup {countMarks(queue')}
  /\ due' = due \ {"mark"}
  /\ UNCHANGED <<capacity, interval, inserted, rate, rateChanges>>

(* CAPACITY_DOWN and CAPACITY_UP; without counts the first case applies. *)
adjusted ==
  CASE \A n \in counts : n > EXPECTED_MARK_COUNT -> Max({MIN_CAPACITY, (capacity * 9) \div 10})
    [] counts # {} /\ \A n \in counts : n < EXPECTED_MARK_COUNT -> Min({MAX_CAPACITY, (capacity * 12) \div 10})
    [] OTHER -> capacity

(* Mutant: the counts of earlier lifetimes stay. *)
adjustUncleared ==
  /\ "adjust" \in due
  /\ capacity' = adjusted
  /\ queue' = evictOldest(queue, capacity')
  /\ due' = due \ {"adjust"}
  /\ UNCHANGED <<counts, interval, inserted, rate, rateChanges>>

adjustCapacity ==
  /\ "adjust" \in due
  /\ capacity' = adjusted
  /\ counts' = {}
  /\ queue' = evictOldest(queue, capacity')
  /\ due' = due \ {"adjust"}
  /\ UNCHANGED <<interval, inserted, rate, rateChanges>>

(* The traffic of the forwarder changes. *)
RateChanges(r) ==
  /\ due = {} /\ rateChanges < MaxRateChanges /\ r # rate
  /\ rate' = r /\ rateChanges' = rateChanges + 1
  /\ UNCHANGED <<queue, capacity, counts, interval, inserted, due>>

DnlStep == add \/ IntervalEnds \/ mark \/ adjustCapacity
DnlNext == DnlStep \/ \E r \in Rates : RateChanges(r)

(* Time passes and the events that are due run. *)
DnlSpec == DnlInit /\ [][DnlNext]_dnlVars /\ WF_dnlVars(DnlStep)

-----------------------------------------------------------------------------
(* "The capacity is adjusted so that every Entry is expected to be kept for   *)
(* m_lifetime" (dead-nonce-list.hpp:155): under any constant rate the         *)
(* capacity settles, after which an entry leaves no earlier than one interval *)
(* before the lifetime, and no later than one after unless the capacity is at *)
(* its minimum.                                                               *)
LifetimeSettles ==
  <>[](/\ countMarks(queue) >= EXPECTED_MARK_COUNT - 1
       /\ countMarks(queue) > EXPECTED_MARK_COUNT + 1 => capacity = MIN_CAPACITY)

=============================================================================

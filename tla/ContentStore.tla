---------------------------- MODULE ContentStore ----------------------------
(***************************************************************************)
(* The Content Store as it is built: the ordered table and its lookup      *)
(* (daemon/table/cs.cpp, cs-entry-impl.cpp) and the two replacement        *)
(* policies (cs-policy-priority-fifo.cpp, cs-policy-lru.cpp).  Cs is the   *)
(* abstract store of the forwarder's modules, which may lose entries at    *)
(* any time.                                                               *)
(*                                                                         *)
(* A name is a sequence of numbers, components in canonical order; the     *)
(* implicit digest is a negative one, as it sorts before every component.  *)
(* A Data packet is its full name; the order of the table is then the      *)
(* lexicographic one.  Times are what is left until then.                  *)
(***************************************************************************)
EXTENDS Integers, SequencesExt, FiniteSetsExt

CONSTANTS Packets,      \* full names
          Freshness,    \* full name |-> FreshnessPeriod, or Forever
          Lookups,      \* Interests: [name, rightmost, mustBeFresh, excluded]
          Limits,       \* arguments of setLimit
          Policies      \* subset of {"fifo", "lru"}

Forever == 1000
Wild == <<>>     \* an iterator outside of the table

ASSUME ContentStoreAssumption ==
  /\ Limits \subseteq Nat \ {0} /\ Limits # {} /\ Policies \subseteq {"fifo", "lru"}
  /\ \A p \in Packets : Last(p) < 0 /\ Freshness[p] \in 0 .. Forever

VARIABLES
  policy,   \* m_policy
  limit,    \* Policy::m_limit
  table,    \* m_table: full name |-> [unsolicited, staleIn]
  queues,   \* the queues of the policy
  moves,    \* scheduled moveToStaleQueue events: [packet, left]
  found     \* the last lookup: the Interest and the answer of find

csVars == <<policy, limit, table, queues, moves, found>>

QueueTypes == {"unsolicited", "stale", "fifo", "lru"}

CsInit ==
  /\ policy \in Policies /\ limit \in Limits
  /\ table = [p \in {} |-> 0] /\ moves = {} /\ found = <<>>
  /\ queues = [q \in QueueTypes |-> <<>>]

-----------------------------------------------------------------------------
(* What insertion changes, as one value: the policies work on it. *)
Stored(t, q, m) == [table |-> t, queues |-> q, moves |-> m]

Store == Stored(table, queues, moves)

isStale(entry) == entry.staleIn < 0

canStale(p) == Freshness[p] # Forever

(* The queues are lists: push_back, and erase at the iterator of the entry.   *)
Enqueued(qs, q, p) == [qs EXCEPT ![q] = Append(qs[q], p)]

Erase(queue, p) == RemoveAt(queue, CHOOSE i \in 1 .. Len(queue) : queue[i] = p)

Dequeued(qs, q, p) == [qs EXCEPT ![q] = Erase(qs[q], p)]

(* EntryInfo::queueType *)
QueueOf(qs, p) == CHOOSE q \in QueueTypes : Contains(qs[q], p)

attachQueue(s, p) ==
  LET q == CASE s.table[p].unsolicited -> "unsolicited"
             [] ~ s.table[p].unsolicited /\ isStale(s.table[p]) -> "stale"
             [] OTHER -> "fifo"
  IN  Stored(s.table, Enqueued(s.queues, q, p),
             IF q = "fifo" /\ canStale(p)
             THEN s.moves \cup {[packet |-> p, left |-> Freshness[p]]} ELSE s.moves)

(* Mutant: the event of the packet stays scheduled. *)
detachUncancelled(s, p) ==
  Stored(s.table, Dequeued(s.queues, QueueOf(s.queues, p), p), s.moves)

detachQueue(s, p) ==
  LET q == QueueOf(s.queues, p)
  IN  Stored(s.table, Dequeued(s.queues, q, p),
             IF q = "fifo" THEN {e \in s.moves : e.packet # p} ELSE s.moves)

(* beforeEvict: the table erases the entry. *)
erased(s, p) == Stored([x \in DOMAIN s.table \ {p} |-> s.table[x]], s.queues, s.moves)

(* Mutant: pure first in, first out among the solicited. *)
evictOneFifo(s) ==
  LET q == CHOOSE q \in {"unsolicited", "fifo", "stale"} :
             /\ s.queues[q] # <<>>
             /\ q # "unsolicited" => s.queues["unsolicited"] = <<>>
             /\ q = "stale" => s.queues["fifo"] = <<>>
      p == Head(s.queues[q])
  IN  erased(detachQueue(s, p), p)

evictOne(s) ==
  LET q == CHOOSE q \in {"unsolicited", "stale", "fifo"} :
             /\ s.queues[q] # <<>>
             /\ q # "unsolicited" => s.queues["unsolicited"] = <<>>
             /\ q = "fifo" => s.queues["stale"] = <<>>
      p == Head(s.queues[q])
  IN  erased(detachQueue(s, p), p)

lruEvictOne(s) ==
  LET queue == s.queues["lru"]
  IN  erased(Stored(s.table, [s.queues EXCEPT !["lru"] = Tail(queue)], s.moves), Head(queue))

(* evictEntries of either policy: one after the other while the table is over *)
(* the limit.                                                                 *)
evictEntries(s, max) ==
  LET n == Max({0, Cardinality(DOMAIN s.table) - max})
      after[i \in 0 .. n] ==
        IF i = 0 THEN s
        ELSE IF policy = "fifo" THEN evictOne(after[i - 1]) ELSE lruEvictOne(after[i - 1])
  IN  after[n]

(* insertToQueue of LRU: push_back, or relocate to the end what was there. *)
insertToQueue(s, p) ==
  LET rest == IF Contains(s.queues["lru"], p) THEN Dequeued(s.queues, "lru", p) ELSE s.queues
  IN  Stored(s.table, Enqueued(rest, "lru", p), s.moves)

afterInsert(s, p) ==
  evictEntries(IF policy = "fifo" THEN attachQueue(s, p) ELSE insertToQueue(s, p), limit)

afterRefresh(s, p) ==
  IF policy = "fifo" THEN attachQueue(detachQueue(s, p), p) ELSE insertToQueue(s, p)

-----------------------------------------------------------------------------
(* Cs::insert of Data that is not marked NO_CACHE. *)
Insert(p, isUnsolicited) ==
  LET isNewEntry == p \notin DOMAIN table
      entry == [unsolicited |-> isUnsolicited /\ (isNewEntry \/ table[p].unsolicited),
                staleIn |-> Freshness[p]]
      put == [x \in DOMAIN table \cup {p} |-> IF x = p THEN entry ELSE table[x]]
      s == Stored(put, queues, moves)
      after == IF isNewEntry THEN afterInsert(s, p) ELSE afterRefresh(s, p)
  IN  /\ table' = after.table /\ queues' = after.queues /\ moves' = after.moves
      /\ found' = <<>>
      /\ UNCHANGED <<policy, limit>>

(* moveToStaleQueue; an event runs when it is due, or later. *)
MoveToStaleQueue(e) ==
  /\ e.left = 0
  /\ moves' = moves \ {e}
  /\ queues' = Enqueued(Dequeued(queues, "fifo", e.packet), "stale", e.packet)
  /\ found' = <<>>
  /\ UNCHANGED <<policy, limit, table>>

SetLimit(n) ==
  /\ limit' = n
  /\ LET s == evictEntries(Store, n)
     IN  table' = s.table /\ queues' = s.queues /\ moves' = s.moves
  /\ found' = <<>>
  /\ UNCHANGED policy

(* Time passes, until a stale entry is known to be stale. *)
Later(left) == IF left \in 0 .. Forever - 1 THEN left - 1 ELSE left

Tick ==
  /\ \E p \in DOMAIN table : table[p].staleIn \in 0 .. Forever - 1
  /\ table' = [p \in DOMAIN table |-> [unsolicited |-> table[p].unsolicited,
                                       staleIn |-> Later(table[p].staleIn)]]
  /\ moves' = {[packet |-> e.packet, left |-> Max({0, e.left - 1})] : e \in moves}
  /\ found' = <<>>
  /\ UNCHANGED <<policy, limit, queues>>

-----------------------------------------------------------------------------
(* The canonical order of names. *)
Less(a, b) ==
  \/ IsStrictPrefix(a, b)
  \/ \E i \in 1 .. Len(a) : i =< Len(b) /\ a[i] < b[i] /\ SubSeq(a, 1, i - 1) = SubSeq(b, 1, i - 1)

(* m_table from first to last; positions stand for iterators. *)
Ordered == SetToSortSeq(DOMAIN table, Less)

dataName(p) == Front(p)

(* m_table.lower_bound: a query that is not a full name is less than the Data *)
(* with the same name.                                                        *)
lower_bound(order, query) == 1 + Cardinality({i \in DOMAIN order : Less(order[i], query)})

getSuccessor(name) == ReplaceAt(name, Len(name), Last(name) + 1)

(* Interest::matchesData and the freshness test of canSatisfy. *)
canSatisfy(p, interest) ==
  /\ IsPrefix(interest.name, p)
  /\ Len(p) > Len(interest.name) => p[Len(interest.name) + 1] \notin interest.excluded
  /\ ~ (interest.mustBeFresh /\ isStale(table[p]))

(* The first match of [from, to), or to. *)
findLeftmost(order, interest, from, to) ==
  LET hits == {i \in from .. to - 1 : canSatisfy(order[i], interest)}
  IN  IF hits = {} THEN to ELSE Min(hits)

findRightmostAmongExact(order, interest, from, to) ==
  LET hits == {i \in from .. to - 1 : canSatisfy(order[i], interest)}
  IN  IF hits = {} THEN to ELSE Max(hits)

(* Mutant: the last match in the whole range. *)
findRightmostOfAll(order, interest, first, last) ==
  findRightmostAmongExact(order, interest, first, last)

(* findRightmost: from the right, one sub-namespace after the other.  Before  *)
(* the first entry there is none to look at: position 0 stands for that.      *)
findRightmost(order, interest, first, last) ==
  LET n == Len(interest.name)
      from[right \in 0 .. last] ==
        LET prev == dataName(order[right - 1])
            left == lower_bound(order, SubSeq(prev, 1, Min({n + 1, Len(prev)})))
            match == findLeftmost(order, interest, left, right)
            exact == findRightmostAmongExact(order, interest, first, right)
        IN  CASE right = first -> last
              [] right # first /\ right =< 1 -> 0
              [] right # first /\ right > 1 /\ Len(prev) = n -> IF exact = right THEN last ELSE exact
              [] right # first /\ right > 1 /\ Len(prev) # n /\ match # right -> match
              [] OTHER -> from[left]
  IN  from[last]

(* Cs::find: Wild when the search leaves the table, else the set of the match. *)
FindIn(interest) ==
  LET order == Ordered
      first == lower_bound(order, interest.name)
      last == IF interest.name = <<>> THEN Len(order) + 1
              ELSE lower_bound(order, getSuccessor(interest.name))
      match == IF interest.rightmost THEN findRightmost(order, interest, first, last)
               ELSE findLeftmost(order, interest, first, last)
  IN  CASE match = last -> {} [] match = 0 -> {Wild} [] OTHER -> {order[match]}

Find(interest) ==
  LET match == FindIn(interest)
  IN  /\ found' = <<interest, match>>
      /\ LET used == IF policy = "lru" /\ match # {} /\ match \subseteq DOMAIN table
                     THEN insertToQueue(Store, CHOOSE p \in match : TRUE) ELSE Store
         IN  queues' = used.queues
      /\ UNCHANGED <<policy, limit, table, moves>>

CsNext ==
  \/ \E p \in Packets, u \in BOOLEAN : Insert(p, u)
  \/ \E e \in moves : MoveToStaleQueue(e)
  \/ \E n \in Limits : SetLimit(n)
  \/ \E i \in Lookups : Find(i)
  \/ Tick

CsSpec == CsInit /\ [][CsNext]_csVars

-----------------------------------------------------------------------------
(* The policy and the table agree: every entry is in exactly one queue of the *)
(* policy and once, what the iterators in the queues and in the map of        *)
(* EntryInfo need not to dangle, the limit holds, and a move is scheduled     *)
(* exactly for the entries of the FIFO queue that can become stale, for the   *)
(* time they do, whatever refreshed them: what moveToStaleQueue asserts.      *)
QueuesMatchTable ==
  /\ Cardinality(DOMAIN table) =< limit
  /\ LET all == queues["unsolicited"] \o queues["stale"] \o queues["fifo"] \o queues["lru"]
     IN  IsInjective(all) /\ ToSet(all) = DOMAIN table
  /\ moves = {[packet |-> p, left |-> Max({0, table[p].staleIn})] :
                p \in {p \in ToSet(queues["fifo"]) : canStale(p)}}

(* Unsolicited Data goes first, then Data that is no longer fresh, and only   *)
(* then fresh Data that was asked for (cs-policy-priority-fifo.hpp:67): what  *)
(* survives an eviction of fresh Data is fresh too, but for entries whose     *)
(* move is just due.                                                          *)
FreshDataLast ==
  [][policy = "fifo" =>
       \A p \in DOMAIN table \ DOMAIN table' :
         ~ table[p].unsolicited /\ table[p].staleIn > 0 =>
           \A x \in DOMAIN table' :
             /\ ~ table'[x].unsolicited
             /\ isStale(table'[x]) => \E e \in moves' : e.packet = x /\ e.left = 0]_csVars

(* The selectors mean what they say: among the entries that satisfy the       *)
(* Interest, the answer is the leftmost, or the leftmost under the rightmost  *)
(* child of the Interest's name, and there is one whenever there is a match   *)
(* ("Each loop visits a sub-namespace under a prefix one component longer     *)
(* than Interest Name", cs.cpp:164).                                          *)
LookupIsSelective ==
  found # <<>> =>
    LET interest == found[1]
        child(p) == IF Len(p) > Len(interest.name) THEN p[Len(interest.name) + 1] ELSE 0
        matches == {p \in DOMAIN table : canSatisfy(p, interest)}
        right == {p \in matches : interest.rightmost => \A q \in matches : child(q) =< child(p)}
    IN  found[2] = {p \in right : \A q \in right \ {p} : Less(p, q)}

=============================================================================

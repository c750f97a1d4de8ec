----------------------------- MODULE NameTables -----------------------------
(***************************************************************************)
(* The tables that live on the Name Tree: FIB, PIT, Strategy Choice        *)
(* (daemon/table/strategy-choice.cpp) and Measurements (measurements.cpp,  *)
(* measurements-accessor.cpp).  What is in a FIB or PIT entry is left to   *)
(* the forwarder's modules; here a PIT entry and a measurements entry      *)
(* carry the set of strategies that left StrategyInfo on them.             *)
(***************************************************************************)
EXTENDS NameTree

CONSTANTS FibNames, PitNames, ChoiceNames,  \* names that operations are called with
          QueryNames,       \* names that are looked up
          Strategies,       \* installed strategies: <<name, version>>
          Requested,        \* strategy names that commands ask for
          DefaultStrategy, InitialLifetime, Lifetimes

ASSUME NameTablesAssumption ==
  /\ DefaultStrategy \in Strategies /\ InitialLifetime \in Nat \ {0}
  /\ Lifetimes \subseteq Nat \ {0}

VARIABLES
  tree,      \* m_nameTree
  fib,       \* names with a FIB entry
  pit,       \* name |-> strategies with info on its PIT entry
  choices,   \* name |-> strategy of its strategy choice entry
  measured,  \* name |-> [expiry, info] of its measurements entry; expiry is time left
  cleanups   \* scheduled Measurements::cleanup events: [name, left]

tableVars == <<tree, fib, pit, choices, measured, cleanups>>

Put(f, x, v) == [y \in DOMAIN f \cup {x} |-> IF y = x THEN v ELSE f[y]]
Drop(f, x) == [y \in DOMAIN f \ {x} |-> f[y]]

Occupied == fib \cup DOMAIN pit \cup DOMAIN choices \cup DOMAIN measured

(* StrategyChoice's constructor gives the root an entry (setDefaultStrategy). *)
NtInit ==
  /\ tree = lookup(EmptyTree, <<>>)
  /\ fib = {} /\ cleanups = {}
  /\ pit = [n \in {} |-> {}]
  /\ choices = [n \in {<<>>} |-> DefaultStrategy]
  /\ measured = [n \in {} |-> 0]

-----------------------------------------------------------------------------
(* FIB and PIT entries come and go on their names. *)
FibInsert(n) ==
  /\ n \notin fib
  /\ tree' = lookup(tree, n)
  /\ fib' = fib \cup {n}
  /\ UNCHANGED <<pit, choices, measured, cleanups>>

(* removeNextHopFromAllEntries: the entries that lose their last next hop are *)
(* erased one by one after the enumeration; gone is the set of them.          *)
FibEraseEntries(gone) ==
  /\ gone # {}
  /\ fib' = fib \ gone
  /\ LET order == fullEnumerate(tree, gone)
         still(k) == (fib \ ToSet(SubSeq(order, 1, k))) \cup DOMAIN pit
                     \cup DOMAIN choices \cup DOMAIN measured
     IN  tree' = FoldLeftDomain(LAMBDA t, k : eraseEntryIfEmpty(t, still(k), order[k]), tree, order)
  /\ UNCHANGED <<pit, choices, measured, cleanups>>

PitInsert(n) ==
  /\ n \notin DOMAIN pit
  /\ tree' = lookup(tree, n)
  /\ pit' = Put(pit, n, {})
  /\ UNCHANGED <<fib, choices, measured, cleanups>>

PitErase(n) ==
  /\ pit' = Drop(pit, n)
  /\ tree' = eraseEntryIfEmpty(tree, fib \cup DOMAIN pit' \cup DOMAIN choices \cup DOMAIN measured, n)
  /\ UNCHANGED <<fib, choices, measured, cleanups>>

-----------------------------------------------------------------------------
(* getStrategy: the strategy of that name or, for a name without version, the *)
(* last of its versions; None if there is none.                               *)
getStrategy(name) ==
  LET versions == {s \in Strategies : Len(s) = Len(name) + 1 /\ IsPrefix(name, s)}
  IN  CASE name \in Strategies -> name
        [] name \notin Strategies /\ versions # {} ->
             CHOOSE s \in versions : \A t \in versions : Last(t) =< Last(s)
        [] OTHER -> None

(* findEffectiveStrategy of a name, through the hash table. *)
effectiveOfName(nt, name) == choices[findLongest(nt, name, DOMAIN choices)]

(* findEffectiveStrategy of a PIT or measurements entry, along the parents. *)
effectiveOfEntry(name) == choices[findLongestOfEntry(tree, name, DOMAIN choices)]

(* The entries whose StrategyInfo changeStrategy clears: the subtree of the   *)
(* prefix without the subtrees of other strategy choice entries.              *)
ChangedEntries(nt, prefix, old, new) ==
  IF old = new THEN {}
  ELSE LET open == Entries(nt) \ (DOMAIN choices \ {prefix})
       IN  ToSet(partialEnumerate(nt, prefix, open, open))

(* clearStrategyInfo of the PIT and measurements entries of these names. *)
clearStrategyInfo(cleared) ==
  /\ pit' = [n \in DOMAIN pit |-> IF n \in cleared THEN {} ELSE pit[n]]
  /\ measured' = [n \in DOMAIN measured |->
                    IF n \in cleared THEN [measured[n] EXCEPT !.info = {}] ELSE measured[n]]

(* StrategyChoice::insert of an installed strategy. *)
ChoiceInsert(prefix, name) ==
  LET strategy == getStrategy(name)
      nt == lookup(tree, prefix)
      old == IF prefix \in DOMAIN choices THEN choices[prefix] ELSE effectiveOfName(nt, prefix)
  IN  /\ strategy # None
      /\ tree' = nt
      /\ clearStrategyInfo(ChangedEntries(nt, prefix, old, strategy))
      /\ choices' = Put(choices, prefix, strategy)
      /\ UNCHANGED <<fib, cleanups>>

(* StrategyChoice::erase, never of the root (BOOST_ASSERT). *)
ChoiceErase(prefix) ==
  /\ prefix # <<>> /\ prefix \in DOMAIN choices
  /\ clearStrategyInfo(ChangedEntries(tree, prefix, choices[prefix],
                                      effectiveOfName(tree, Front(prefix))))
  /\ choices' = Drop(choices, prefix)
  /\ tree' = eraseEntryIfEmpty(tree, fib \cup DOMAIN pit \cup DOMAIN choices' \cup DOMAIN measured, prefix)
  /\ UNCHANGED <<fib, cleanups>>

-----------------------------------------------------------------------------
(* Measurements::get: find or insert; a new entry has the initial lifetime. *)
getMeasurements(state, n) ==
  IF n \in DOMAIN state.measured THEN state
  ELSE [measured |-> Put(state.measured, n, [expiry |-> InitialLifetime, info |-> {}]),
        cleanups |-> state.cleanups \cup {[name |-> n, left |-> InitialLifetime]}]

(* extendLifetime: only ever later; the scheduled cleanup moves. *)
extendLifetime(state, n, lifetime) ==
  IF state.measured[n].expiry >= lifetime THEN state
  ELSE [measured |-> [state.measured EXCEPT ![n].expiry = lifetime],
        cleanups |-> {e \in state.cleanups : e.name # n} \cup {[name |-> n, left |-> lifetime]}]

(* MeasurementsAccessor::filter: only entries in the strategy's namespace. *)
mayAccess(strategy, n) == effectiveOfEntry(n) = strategy

(* A strategy touches the measurements of a name and of its parent, as NCC    *)
(* does: getParent creates the parent's entry before filter hides it.         *)
Touch(state, strategy, n, lifetime) ==
  LET got == getMeasurements(state, n)
      kept == extendLifetime(got, n, lifetime)
  IN  IF ~ mayAccess(strategy, n) THEN got
      ELSE [kept EXCEPT !.measured[n].info = @ \cup {strategy}]

(* A trigger of the effective strategy of a PIT entry. *)
StrategyTrigger(n, lifetime) ==
  LET s == effectiveOfEntry(n)
      own == Touch([measured |-> measured, cleanups |-> cleanups], s, n, lifetime)
      after == IF n = <<>> THEN own ELSE Touch(own, s, Front(n), lifetime)
  IN  /\ pit' = [pit EXCEPT ![n] = @ \cup {s}]
      /\ measured' = after.measured
      /\ cleanups' = after.cleanups
      /\ UNCHANGED <<tree, fib, choices>>

Cleanup(e) ==
  /\ e.left = 0
  /\ cleanups' = cleanups \ {e}
  /\ measured' = Drop(measured, e.name)
  /\ tree' = eraseEntryIfEmpty(tree, fib \cup DOMAIN pit \cup DOMAIN choices \cup DOMAIN measured', e.name)
  /\ UNCHANGED <<fib, pit, choices>>

(* The steady clock; events run when due or later. *)
Pred(t) == IF t > 0 THEN t - 1 ELSE 0
TablesTick ==
  /\ \E e \in cleanups : e.left > 0
  /\ cleanups' = {[e EXCEPT !.left = Pred(@)] : e \in cleanups}
  /\ measured' = [n \in DOMAIN measured |-> [measured[n] EXCEPT !.expiry = Pred(@)]]
  /\ UNCHANGED <<tree, fib, pit, choices>>

NtNext ==
  \/ \E n \in FibNames : FibInsert(n)
  \/ \E gone \in SUBSET fib : FibEraseEntries(gone)
  \/ \E n \in PitNames : PitInsert(n)
  \/ \E n \in DOMAIN pit : PitErase(n)
  \/ \E n \in ChoiceNames, r \in Requested : ChoiceInsert(n, r)
  \/ \E n \in ChoiceNames : ChoiceErase(n)
  \/ \E n \in DOMAIN pit, l \in Lifetimes : StrategyTrigger(n, l)
  \/ \E e \in cleanups : Cleanup(e)
  \/ TablesTick

NtSpec == NtInit /\ [][NtNext]_tableVars

-----------------------------------------------------------------------------
HashFindsEntries ==
  /\ IsNameTree(tree)
  /\ \A e \in Entries(tree) : findExact(tree, e) = e
  /\ tree.nItems = Cardinality(Entries(tree))
  /\ Len(fullEnumerate(tree, Entries(tree))) = tree.nItems

TreeIsTight == Entries(tree) = UNION {Prefixes(n) : n \in Occupied}

CleanupsFollowExpiry == cleanups = {[name |-> n, left |-> measured[n].expiry] : n \in DOMAIN measured}

(* The hash table and the tree agree: every entry, and nothing else, is in    *)
(* exactly one chain, the one where findExactMatch looks for it, also after   *)
(* the table was enlarged or shrunk, and m_nItems counts them (the assertion  *)
(* of resize, name-tree.cpp:519).  The tree holds the names that have a table *)
(* entry and their prefixes, and no other: no entry is erased under a table   *)
(* (its parent and node would be dangling), and none is left behind by the    *)
(* last table that goes, measurements entries among them, whose one cleanup   *)
(* comes when the lifetime that was last promised has passed.                 *)
NameTreeSound == HashFindsEntries /\ TreeIsTight /\ CleanupsFollowExpiry

(* Lookups by hash return the longest match: findLongestPrefixMatch for the   *)
(* FIB and the strategy choices, findAllMatches for the PIT entries that a    *)
(* Data satisfies.                                                            *)
MatchesAreLongest ==
  \A n \in QueryNames :
    /\ LET up == fib \cap Prefixes(n)
       IN  findLongest(tree, n, fib) =
             IF up = {} THEN None ELSE CHOOSE p \in up : \A q \in up : Len(q) =< Len(p)
    /\ findAllMatches(tree, n, DOMAIN pit) = DOMAIN pit \cap Prefixes(n)

(* StrategyInfo on a PIT or measurements entry is that of its effective       *)
(* strategy: whatever the order of strategy changes at several levels, a      *)
(* strategy never meets what another one left behind.                         *)
InfoIsOfEffectiveStrategy ==
  /\ \A n \in DOMAIN pit : pit[n] \subseteq {effectiveOfEntry(n)}
  /\ \A n \in DOMAIN measured : measured[n].info \subseteq {effectiveOfEntry(n)}

=============================================================================

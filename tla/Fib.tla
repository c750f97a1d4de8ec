-------------------------------- MODULE Fib --------------------------------
(***************************************************************************)
(* The Forwarding Information Base (daemon/table/fib.cpp, fib-entry.cpp).  *)
(* A FIB is a function from prefixes to entries, an entry a function from  *)
(* faces to costs.  std::sort by cost is not stable: among next hops of    *)
(* equal cost the order of a NextHopList is left open.                     *)
(***************************************************************************)
EXTENDS Integers, SequencesExt

(* s_emptyEntry, and the FIB before the first insertion. *)
NoNextHops == [f \in {} |-> 0]

(* findLongestPrefixMatch: the next hops of the longest matching prefix. *)
findLongestPrefixMatch(fib, name) ==
  LET matching == {p \in DOMAIN fib : IsPrefix(p, name)}
  IN  IF matching = {} THEN NoNextHops
      ELSE fib[CHOOSE p \in matching : \A q \in matching : Len(q) =< Len(p)]

findExactMatch(fib, prefix) ==
  IF prefix \in DOMAIN fib THEN fib[prefix] ELSE NoNextHops

(* Fib::insert followed by Entry::addNextHop, which sorts by cost. *)
addNextHop(fib, prefix, f, cost) ==
  LET hops == findExactMatch(fib, prefix)
      added == [g \in DOMAIN hops \cup {f} |-> IF g = f THEN cost ELSE hops[g]]
  IN  [p \in DOMAIN fib \cup {prefix} |-> IF p = prefix THEN added ELSE fib[p]]

WithoutFace(hops, f) == [g \in DOMAIN hops \ {f} |-> hops[g]]

(* Entries left without next hops are erased once the enumeration ends. *)
removeNextHopFromEntries(fib, prefixes, f) ==
  [p \in {q \in DOMAIN fib : q \in prefixes => DOMAIN fib[q] \ {f} # {}} |->
     IF p \in prefixes THEN WithoutFace(fib[p], f) ELSE fib[p]]

(* Mutant: entries left without next hops stay. *)
removeNextHopKeepingEntries(fib, f) == [p \in DOMAIN fib |-> WithoutFace(fib[p], f)]

removeNextHopFromAllEntries(fib, f) == removeNextHopFromEntries(fib, DOMAIN fib, f)

(* Next hops of S that no other next hop of S precedes in cost order. *)
FirstAmong(hops, S) == {f \in S : \A g \in S : hops[f] =< hops[g]}

(* Mutant: the incoming face is a next hop like the others. *)
firstNextHop(hops, inFace) ==
  IF DOMAIN hops = {} THEN {{}} ELSE {{f} : f \in FirstAmong(hops, DOMAIN hops)}

(* predicate_canForwardTo_NextHop of the strategies without a PIT entry: the  *)
(* first next hop other than the incoming face.  A set of alternatives, each  *)
(* the set of the faces the packet is sent to.                                *)
firstNextHopExcept(hops, inFace) ==
  LET others == DOMAIN hops \ {inFace}
  IN  IF others = {} THEN {{}} ELSE {{f} : f \in FirstAmong(hops, others)}

=============================================================================

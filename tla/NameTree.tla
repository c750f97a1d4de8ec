------------------------------ MODULE NameTree ------------------------------
(***************************************************************************)
(* The Name Tree (daemon/table/name-tree.cpp): a prefix tree whose entries *)
(* are found through a hash table with chaining that grows and shrinks.    *)
(*                                                                         *)
(* A tree is a record of the bucket array (each bucket the sequence of the *)
(* names of its chain of Nodes), of the children of every Entry, in the    *)
(* order of the vector m_children, and of the counter m_nItems.  Which     *)
(* tables have an entry attached to a name is the caller's: "occupied" is  *)
(* the set of names with an attached FIB, PIT, measurements or strategy    *)
(* choice entry.                                                           *)
(***************************************************************************)
EXTENDS Integers, SequencesExt, FiniteSetsExt, Bitwise

CONSTANTS ComponentHash,   \* CityHash of a name component
          Hash32Bits,      \* width of the uint32_t that resize computes with
          MinBuckets,      \* m_minNBuckets, the size the table starts with
          EnlargePercent,  \* m_enlargeLoadFactor
          ShrinkPercent    \* m_shrinkLoadFactor

ASSUME NameTreeAssumption ==
  /\ MinBuckets \in Nat \ {0} /\ Hash32Bits \in Nat
  /\ {EnlargePercent, ShrinkPercent} \subseteq 1 .. 100

None == <<"none">>   \* a null shared_ptr<Entry>

(* computeHash: the exclusive or of the hashes of the components. *)
computeHash(name) == FoldSeq(LAMBDA c, h : ComponentHash[c] ^^ h, 0, name)

(* Mutant: the component that ends the prefix is left out. *)
computeHashSetShort(name) == [i \in 0 .. Len(name) |-> computeHash(SubSeq(name, 1, i - 1))]

(* computeHashSet: the hashes of the prefixes, the root's first. *)
computeHashSet(name) == [i \in 0 .. Len(name) |-> computeHash(SubSeq(name, 1, i))]

EmptyTree ==
  [buckets |-> [i \in 0 .. MinBuckets - 1 |-> <<>>], children |-> [n \in {} |-> <<>>], nItems |-> 0]

nBuckets(nt) == Cardinality(DOMAIN nt.buckets)

Entries(nt) == DOMAIN nt.children

Loc(nt, hash) == hash % nBuckets(nt)

(* The nodes, bucket after bucket, chain after chain (operator++). *)
Nodes(nt) == FlattenSeq([i \in 1 .. nBuckets(nt) |-> nt.buckets[i - 1]])

(* The record has the members of the class: an entry is in the tree with its *)
(* parent, of which it is a child once.                                      *)
IsNameTree(nt) ==
  /\ nBuckets(nt) >= MinBuckets /\ nt.nItems \in Nat
  /\ \A e \in Entries(nt) :
       /\ e # <<>> => Front(e) \in Entries(nt) /\ Contains(nt.children[Front(e)], e)
       /\ IsInjective(nt.children[e]) /\ ToSet(nt.children[e]) \subseteq Entries(nt)

(* Mutant: chains move as they are to the bucket of the same index. *)
resizeInPlace(nt, newNBuckets) ==
  [nt EXCEPT !.buckets = [i \in 0 .. newNBuckets - 1 |->
                            IF i \in DOMAIN nt.buckets THEN nt.buckets[i] ELSE <<>>]]

(* resize: nodes move, bucket by bucket, to the end of their new chain.  The *)
(* hash passes through a uint32_t.                                           *)
resize(nt, newNBuckets) ==
  LET Rehash(bs, n) == LET b == (computeHash(n) % 2 ^ Hash32Bits) % newNBuckets
                       IN  [bs EXCEPT ![b] = Append(@, n)]
  IN  [nt EXCEPT !.buckets = FoldLeft(Rehash, [i \in 0 .. newNBuckets - 1 |-> <<>>], Nodes(nt))]

(* One round of lookup: insert finds or creates the entry of a prefix, lookup *)
(* then links a new one to its parent and enlarges the table if need be.      *)
insertPrefix(nt, prefix) ==
  LET loc == Loc(nt, computeHash(prefix))
      linked == [e \in Entries(nt) \cup {prefix} |->
                   CASE e = prefix -> <<>>
                     [] prefix # <<>> /\ e = Front(prefix) -> Append(nt.children[e], prefix)
                     [] OTHER -> nt.children[e]]
      found == IF Contains(nt.buckets[loc], prefix) THEN nt
               ELSE [buckets |-> [nt.buckets EXCEPT ![loc] = Append(@, prefix)],
                     children |-> linked, nItems |-> nt.nItems + 1]
  IN  IF found.nItems > (EnlargePercent * nBuckets(found)) \div 100
      THEN resize(found, 2 * nBuckets(found)) ELSE found

lookup(nt, name) == FoldLeftDomain(LAMBDA t, i : insertPrefix(t, SubSeq(name, 1, i)),
                                   insertPrefix(nt, <<>>), name)

(* The first node of a chain with that hash and one of these names. *)
FirstNode(chain, h, names) ==
  LET i == SelectInSeq(chain, LAMBDA e : computeHash(e) = h /\ e \in names)
  IN  IF i = 0 THEN None ELSE chain[i]

findExact(nt, name) ==
  LET h == computeHash(name)
  IN  FirstNode(nt.buckets[Loc(nt, h)], h, {name})

(* findLongestPrefixMatch of a name: from the longest prefix down, the first *)
(* node of the bucket with the hash of the prefix that is any prefix of the  *)
(* name (isPrefixOf) and is among those selected.                            *)
findLongest(nt, name, selected) ==
  LET hashes == computeHashSet(name)
      At(i) == FirstNode(nt.buckets[Loc(nt, hashes[i])], hashes[i], Prefixes(name) \cap selected)
      hits == {i \in 0 .. Len(name) : At(i) # None}
  IN  IF hits = {} THEN None ELSE At(Max(hits))

(* findLongestPrefixMatch of an entry: along the parent pointers. *)
findLongestOfEntry(nt, entry, selected) ==
  LET up == Prefixes(entry) \cap selected
  IN  IF up = {} THEN None ELSE CHOOSE p \in up : \A q \in up : Len(q) =< Len(p)

(* operator++ of findAllMatches: the selected ancestors of a match. *)
AncestorMatches(match, selected) == Prefixes(match) \cap selected

findAllMatches(nt, name, selected) ==
  LET first == findLongest(nt, name, selected)
  IN  IF first = None THEN {} ELSE AncestorMatches(first, selected)

fullEnumerate(nt, selected) == SelectSeq(Nodes(nt), LAMBDA e : e \in selected)

-----------------------------------------------------------------------------
(* partialEnumerate: a pre-order walk of the subtree of root.  Accepted is    *)
(* what the first, Descended what the second part of the answer of the        *)
(* EntrySubTreeSelector lets through.  An iterator is at an entry and knows   *)
(* whether to visit its children.                                             *)
RECURSIVE WalkFrom(_, _, _, _, _, _)
WalkFrom(nt, root, entry, visit, accepted, descended) ==
  LET siblings == nt.children[Front(entry)]
      i == SelectInSeq(siblings, LAMBDA e : e = entry)
      Enter(e) == (IF e \in accepted THEN <<e>> ELSE <<>>)
                  \o WalkFrom(nt, root, e, e \in descended /\ nt.children[e] # <<>>, accepted, descended)
  IN  CASE visit -> Enter(Head(nt.children[entry]))
        [] ~ visit /\ entry = root -> <<>>
        [] ~ visit /\ entry # root /\ i < Len(siblings) -> Enter(siblings[i + 1])
        [] OTHER -> WalkFrom(nt, root, Front(entry), FALSE, accepted, descended)

(* Mutant: the walk ends with the children of the root of the subtree. *)
partialEnumerateShallow(nt, prefix, accepted, descended) ==
  IF findExact(nt, prefix) = None THEN <<>>
  ELSE <<prefix>> \o SelectSeq(nt.children[prefix], LAMBDA e : e \in accepted)

partialEnumerate(nt, prefix, accepted, descended) ==
  IF findExact(nt, prefix) = None THEN <<>>
  ELSE (IF prefix \in accepted THEN <<prefix>> ELSE <<>>)
       \o WalkFrom(nt, prefix, prefix, prefix \in descended /\ nt.children[prefix] # <<>>,
                   accepted, descended)

-----------------------------------------------------------------------------
(* The vector of children of the parent: the last child takes the place. *)
withoutChild(siblings, e) ==
  Front(ReplaceAt(siblings, SelectInSeq(siblings, LAMBDA s : s = e), Last(siblings)))

(* The node leaves its chain: a node without predecessor is the head of the  *)
(* bucket that the hash names.                                               *)
unlink(nt, name) ==
  LET b == CHOOSE i \in DOMAIN nt.buckets : Contains(nt.buckets[i], name)
      rest == Remove(nt.buckets[b], name)
      at == IF Head(nt.buckets[b]) = name THEN Loc(nt, computeHash(name)) ELSE b
      others == [e \in Entries(nt) \ {name} |->
                   IF name # <<>> /\ e = Front(name) THEN withoutChild(nt.children[e], name)
                   ELSE nt.children[e]]
  IN  [buckets |-> [nt.buckets EXCEPT ![at] = rest], children |-> others, nItems |-> nt.nItems - 1]

isEmpty(nt, occupied, name) == nt.children[name] = <<>> /\ name \notin occupied

(* eraseEntryIfEmpty: an empty entry goes, then its ancestors as far as they *)
(* are empty; the table shrinks on the way back from the ancestors.          *)
RECURSIVE eraseEntryIfEmpty(_, _, _)
eraseEntryIfEmpty(nt, occupied, name) ==
  IF ~ isEmpty(nt, occupied, name) THEN nt
  ELSE LET gone == unlink(nt, name)
           up == IF name = <<>> THEN gone ELSE eraseEntryIfEmpty(gone, occupied, Front(name))
           half == nBuckets(up) \div 2
       IN  IF half >= MinBuckets /\ up.nItems < (ShrinkPercent * nBuckets(up)) \div 100
           THEN resize(up, half) ELSE up

=============================================================================

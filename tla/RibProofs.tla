------------------------------ MODULE RibProofs ------------------------------
(***************************************************************************)
(* Proofs about RibManager, for any faces, any set of requests and any     *)
(* number of commands, timeouts and lost notifications.                    *)
(*                                                                         *)
(* TreeStaysPrefixTree: Rib::insert and Rib::erase keep the parents and    *)
(* children of the RIB those of the prefix tree of its names.  The         *)
(* invariant StateOK adds what the queue, the commands and the scheduled   *)
(* events hold.                                                            *)
(*                                                                         *)
(* ExpiryStaysCovered: a route that expires has its event, as long as a    *)
(* batch has no command left when another starts.  ExpiryInv says where a  *)
(* route with an event can be, in the RIB, in the queue or in the batch,   *)
(* that it is in one of these only, and what covers it there.              *)
(***************************************************************************)
EXTENDS RibManager, SequenceTheorems, FiniteSetTheorems, WellFoundedInduction, TLAPS

-----------------------------------------------------------------------------
(***************************************************************************)
(* Prefixes.                                                               *)
(***************************************************************************)
Names == Seq(STRING)

(* A prefix agrees with the name on its own components. *)
LEMMA PrefixByComponents ==
  ASSUME NEW s \in Names, NEW t \in Names
  PROVE  IsPrefix(s, t) <=> Len(s) =< Len(t) /\ \A i \in 1 .. Len(s) : s[i] = t[i]
<1>1. Len(s) \in Nat /\ Len(t) \in Nat
  BY DEF Names
<1>2. SubSeq(s, 1, Len(s)) = [i \in 1 .. Len(s) |-> s[i]]
  BY <1>1 DEF Names
<1>3. ASSUME Len(s) =< Len(t)
      PROVE  SubSeq(t, 1, Len(s)) = [i \in 1 .. Len(s) |-> t[i]]
  BY <1>1, <1>3 DEF Names
<1>4. QED BY <1>1, <1>2, <1>3 DEF IsPrefix

LEMMA SamePrefix ==
  ASSUME NEW s \in Names, NEW t \in Names, NEW n \in Names,
         IsPrefix(s, n), IsPrefix(t, n), Len(s) = Len(t)
  PROVE  s = t
<1>1. /\ Len(s) \in Nat
      /\ s = [i \in 1 .. Len(s) |-> s[i]]
      /\ t = [i \in 1 .. Len(t) |-> t[i]]
  BY DEF Names
<1>2. \A i \in 1 .. Len(s) : s[i] = t[i]
  BY PrefixByComponents
<1>3. QED BY <1>1, <1>2

(* Prefixes of one name are prefixes of each other. *)
LEMMA PrefixesOfOneName ==
  ASSUME NEW s \in Names, NEW t \in Names, NEW n \in Names,
         IsPrefix(s, n), IsPrefix(t, n), Len(s) < Len(t)
  PROVE  IsStrictPrefix(s, t)
<1>1. Len(s) \in Nat /\ Len(t) \in Nat /\ Len(n) \in Nat
  BY DEF Names
<1>2. \A i \in 1 .. Len(s) : s[i] = t[i]
  BY <1>1, PrefixByComponents
<1>3. IsPrefix(s, t)
  BY <1>1, <1>2, PrefixByComponents
<1>4. QED BY <1>1, <1>3 DEF IsStrictPrefix

LEMMA StrictPrefixShorter ==
  ASSUME NEW s \in Names, NEW n \in Names, IsStrictPrefix(s, n)
  PROVE  Len(s) < Len(n) /\ IsPrefix(s, n)
<1>1. Len(s) \in Nat /\ Len(n) \in Nat
  BY DEF Names
<1>2. IsPrefix(s, n) /\ s # n /\ Len(s) =< Len(n)
  BY DEF IsStrictPrefix, IsPrefix
<1>3. IsPrefix(n, n)
  BY <1>1, PrefixByComponents
<1>4. QED BY <1>1, <1>2, <1>3, SamePrefix

LEMMA PrefixTransitive ==
  ASSUME NEW s \in Names, NEW t \in Names, NEW n \in Names,
         IsStrictPrefix(s, t), IsPrefix(t, n)
  PROVE  IsStrictPrefix(s, n)
<1>1. Len(s) \in Nat /\ Len(t) \in Nat /\ Len(n) \in Nat
  BY DEF Names
<1>2. Len(s) < Len(t) /\ IsPrefix(s, t)
  BY StrictPrefixShorter
<1>3. Len(t) =< Len(n)
  BY DEF IsPrefix
<1>4. IsPrefix(s, n)
  BY <1>1, <1>2, <1>3, PrefixByComponents
<1>5. QED BY <1>1, <1>2, <1>3, <1>4 DEF IsStrictPrefix

LEMMA LeastNatural ==
  ASSUME NEW S \in SUBSET Nat, S # {}
  PROVE  \E x \in S : \A y \in S : x =< y
<1> DEFINE R == OpToRel(<, Nat)
<1>1. IsWellFoundedOn(R, Nat)
  BY NatLessThanWellFounded
<1>2. \A x, y \in Nat : x < y => <<x, y>> \in R
  BY DEF OpToRel
<1> HIDE DEF R
<1>3. \E x \in S : \A y \in S : ~ (<<y, x>> \in R)
  BY <1>1, WFMin
<1>4. PICK x \in S : \A y \in S : ~ (<<y, x>> \in R)
  BY <1>3
<1>5. x \in Nat /\ \A y \in S : y \in Nat /\ ~ (y < x)
  BY <1>2, <1>4
<1>6. QED BY <1>5

-----------------------------------------------------------------------------
(***************************************************************************)
(* The parent of a name among a set of names.                              *)
(***************************************************************************)
IsParent(names, n, x) ==
  \/ x = NoName /\ \A q \in names : ~ IsStrictPrefix(q, n)
  \/ /\ x \in names /\ IsStrictPrefix(x, n)
     /\ \A q \in names : IsStrictPrefix(q, n) => Len(q) =< Len(x)

LEMMA LongestExists ==
  ASSUME NEW S \in SUBSET Names, S # {}, NEW n \in Names, \A p \in S : IsStrictPrefix(p, n)
  PROVE  \E p \in S : \A q \in S : Len(q) =< Len(p)
<1> DEFINE gaps == {k \in Nat : \E p \in S : k = Len(n) - Len(p)}
<1>1. \A p \in S : p \in Names /\ Len(p) \in Nat /\ Len(n) \in Nat /\ Len(p) < Len(n)
  BY StrictPrefixShorter DEF Names
<1>2. \A p \in S : Len(n) - Len(p) \in gaps
  BY <1>1
<1>3. gaps \in SUBSET Nat /\ gaps # {}
  BY <1>2
<1>4. PICK k \in gaps : \A y \in gaps : k =< y
  <2> HIDE DEF gaps
  <2> QED BY <1>3, LeastNatural
<1>5. PICK p \in S : k = Len(n) - Len(p)
  OBVIOUS
<1>6. ASSUME NEW q \in S
      PROVE  Len(q) =< Len(p)
  <2>1. k =< Len(n) - Len(q)
    BY <1>2, <1>4
  <2>2. QED BY <1>1, <1>5, <2>1
<1>7. QED BY <1>6

(* findParent finds the one parent that there is. *)
LEMMA ParentFound ==
  ASSUME NEW m, DOMAIN m \subseteq Names, NEW n \in Names
  PROVE  \A x : x = findParent(m, n) <=> IsParent(DOMAIN m, n, x)
<1> USE RibManagerAssumption DEF Names
<1> DEFINE shorter == {p \in DOMAIN m : IsStrictPrefix(p, n)}
<1>1. CASE shorter = {}
  BY <1>1 DEF findParent, IsParent
<1>2. CASE shorter # {}
  <2> DEFINE best == CHOOSE p \in shorter : \A q \in shorter : Len(q) =< Len(p)
  <2>1. findParent(m, n) = best
    BY <1>2 DEF findParent
  <2>2. \E p \in shorter : \A q \in shorter : Len(q) =< Len(p)
    BY <1>2, LongestExists
  <2>3. best \in shorter /\ \A q \in shorter : Len(q) =< Len(best)
    BY <2>2
  <2> HIDE DEF best
  <2>4. IsParent(DOMAIN m, n, best)
    BY <2>3 DEF IsParent
  <2>5. ASSUME NEW x, IsParent(DOMAIN m, n, x)
        PROVE  x = best
    <3>1. x \in shorter /\ \A q \in shorter : Len(q) =< Len(x)
      BY <2>5, <2>3 DEF IsParent
    <3>2. Len(x) = Len(best) /\ IsPrefix(x, n) /\ IsPrefix(best, n)
      <4>1. Len(x) \in Nat /\ Len(best) \in Nat
        BY <3>1, <2>3
      <4>2. Len(x) =< Len(best) /\ Len(best) =< Len(x)
        BY <3>1, <2>3
      <4>3. QED BY <3>1, <2>3, <4>1, <4>2 DEF IsStrictPrefix
    <3>3. QED BY <3>1, <3>2, <2>3, SamePrefix
  <2>6. QED BY <2>1, <2>4, <2>5
<1>3. QED BY <1>1, <1>2

(* A new name takes over the names below it that had its own parent. *)
LEMMA ParentAfterInsert ==
  ASSUME NEW names \in SUBSET Names, NEW n \in Names, n \notin names, NEW p \in names,
         NEW x, IsParent(names, p, x), NEW y, IsParent(names, n, y)
  PROVE  IsParent(names \cup {n}, p, IF IsPrefix(n, p) /\ x = y THEN n ELSE x)
<1>1. NoName \notin Names
  BY RibManagerAssumption DEF Names
<1>2. p \in Names /\ \A q \in Names : Len(q) \in Nat
  BY DEF Names
<1>3. CASE ~ IsPrefix(n, p)
  BY <1>3 DEF IsParent, IsStrictPrefix
<1>4. CASE IsPrefix(n, p) /\ x = y
  <2>1. IsStrictPrefix(n, p)
    BY <1>4 DEF IsStrictPrefix
  <2>2. ASSUME NEW q \in names, IsStrictPrefix(q, p), Len(n) < Len(q)
        PROVE  FALSE
    <3>1. x \in names /\ Len(q) =< Len(x)
      BY <1>1, <2>2 DEF IsParent
    <3>2. IsStrictPrefix(x, n)
      BY <1>1, <1>4, <3>1 DEF IsParent
    <3>3. Len(x) < Len(n)
      BY <3>1, <3>2, StrictPrefixShorter
    <3>4. QED BY <1>2, <2>2, <3>1, <3>3
  <2>3. \A q \in names \cup {n} : IsStrictPrefix(q, p) => Len(q) =< Len(n)
    BY <1>2, <2>2
  <2>4. IsParent(names \cup {n}, p, n)
    BY <2>1, <2>3 DEF IsParent
  <2>5. QED BY <1>4, <2>4
<1>5. CASE IsPrefix(n, p) /\ x # y
  <2>1. \A q \in names : IsStrictPrefix(q, n) => IsStrictPrefix(q, p)
    BY <1>2, <1>5, PrefixTransitive
  <2>2. x \in names /\ IsStrictPrefix(x, p)
        /\ \A q \in names : IsStrictPrefix(q, p) => Len(q) =< Len(x)
    BY <1>5, <2>1 DEF IsParent
  <2>3. Len(n) =< Len(x)
    <3>1. SUFFICES ASSUME Len(x) < Len(n) PROVE FALSE
      BY <1>2, <2>2
    <3>2. IsStrictPrefix(x, n)
      BY <1>2, <1>5, <2>2, <3>1, PrefixesOfOneName DEF IsStrictPrefix
    <3>3. y \in names /\ IsStrictPrefix(y, n) /\ Len(x) =< Len(y)
      BY <2>2, <3>2 DEF IsParent
    <3>4. Len(y) =< Len(x)
      BY <2>1, <2>2, <3>3
    <3>5. x = y
      BY <1>2, <2>2, <3>2, <3>3, <3>4, SamePrefix DEF IsStrictPrefix
    <3>6. QED BY <1>5, <3>5
  <2>4. IsParent(names \cup {n}, p, x)
    BY <2>2, <2>3 DEF IsParent
  <2>5. QED BY <1>5, <2>4
<1>6. QED BY <1>3, <1>4, <1>5

LEMMA ParentOfNewName ==
  ASSUME NEW names \in SUBSET Names, NEW n \in Names, NEW y, IsParent(names, n, y)
  PROVE  IsParent(names \cup {n}, n, y)
  BY DEF IsParent, IsStrictPrefix

(* The names below an erased one go to its parent. *)
LEMMA ParentAfterErase ==
  ASSUME NEW names \in SUBSET Names, NEW n \in names, NEW p \in names \ {n},
         NEW x, IsParent(names, p, x), NEW y, IsParent(names, n, y)
  PROVE  IsParent(names \ {n}, p, IF x = n THEN y ELSE x)
<1>1. NoName \notin Names
  BY RibManagerAssumption DEF Names
<1>2. p \in Names /\ n \in Names /\ \A q \in Names : Len(q) \in Nat
  BY DEF Names
<1>3. CASE x # n
  <2>1. IsParent(names \ {n}, p, x)
    BY <1>3 DEF IsParent
  <2>2. QED BY <1>3, <2>1
<1>4. CASE x = n
  <2>1. IsStrictPrefix(n, p) /\ IsPrefix(n, p)
        /\ \A q \in names : IsStrictPrefix(q, p) => Len(q) =< Len(n)
    BY <1>1, <1>2, <1>4 DEF IsParent, IsStrictPrefix
  <2>2. ASSUME NEW q \in names \ {n}
        PROVE  IsStrictPrefix(q, p) <=> IsStrictPrefix(q, n)
    <3>1. ASSUME IsStrictPrefix(q, p) PROVE IsStrictPrefix(q, n)
      <4>1. IsPrefix(q, p) /\ Len(q) =< Len(n)
        BY <2>1, <3>1 DEF IsStrictPrefix
      <4>2. Len(q) # Len(n)
        BY <1>2, <2>1, <4>1, SamePrefix
      <4>3. Len(q) < Len(n)
        BY <1>2, <4>1, <4>2
      <4>4. QED BY <1>2, <2>1, <4>1, <4>3, PrefixesOfOneName
    <3>2. QED BY <1>2, <2>1, <3>1, PrefixTransitive
  <2>3. ~ IsStrictPrefix(n, n)
    BY DEF IsStrictPrefix
  <2>4. IsParent(names \ {n}, p, y)
    BY <2>2, <2>3 DEF IsParent
  <2>5. QED BY <1>4, <2>4
<1>5. QED BY <1>3, <1>4

-----------------------------------------------------------------------------
(***************************************************************************)
(* The RIB.  Its entries have at most one route per face and origin.       *)
(***************************************************************************)
Routes == [face : RibFaces, origin : Nat, cost : Nat, childInherit : BOOLEAN,
           capture : BOOLEAN, event : Nat \cup {NoEvent}]

UniqueRoutes(s) ==
  \A i, j \in DOMAIN s : compareFaceIdAndOrigin(s[i], s[j]) => i = j

IsEntry(e) ==
  /\ DOMAIN e = {"routes", "inherited", "nCapture", "parent"}
  /\ e.routes \in Seq(Routes) /\ UniqueRoutes(e.routes)

IsRib(m) ==
  /\ DOMAIN m \subseteq Names /\ IsFiniteSet(DOMAIN m)
  /\ \A p \in DOMAIN m : IsEntry(m[p])

IsTree(m) == \A p \in DOMAIN m : IsParent(DOMAIN m, p, m[p].parent)

(* The routes of m2 are those of m but for the one that the route is about,   *)
(* and the route itself if it was added.                                      *)
OnlyChanged(m, m2, name, route, added) ==
  \A p \in DOMAIN m2 : \A r \in ToSet(m2[p].routes) :
    \/ added /\ p = name /\ r = route
    \/ /\ p \in DOMAIN m /\ r \in ToSet(m[p].routes)
       /\ ~ (p = name /\ compareFaceIdAndOrigin(route, r))

LEMMA TreeByParents ==
  ASSUME NEW m, DOMAIN m \subseteq Names
  PROVE  IsTree(m) <=> \A p \in DOMAIN m : m[p].parent = findParent(m, p)
  BY ParentFound DEF IsTree

LEMMA InheritedChange ==
  ASSUME NEW m, IsRib(m), IsTree(m), NEW x, NEW name, NEW route, NEW added, NEW before,
         OnlyChanged(before, m, name, route, added)
  PROVE  /\ IsRib(modifyInheritedRoutes(m, x)) /\ IsTree(modifyInheritedRoutes(m, x))
         /\ OnlyChanged(before, modifyInheritedRoutes(m, x), name, route, added)
<1> DEFINE m2 == modifyInheritedRoutes(m, x)
<1>1. DOMAIN m2 = DOMAIN m
  BY DEF modifyInheritedRoutes
<1>2. ASSUME NEW p \in DOMAIN m
      PROVE  /\ DOMAIN m2[p] = DOMAIN m[p] /\ m2[p].routes = m[p].routes
             /\ m2[p].parent = m[p].parent
  BY DEF modifyInheritedRoutes, IsRib, IsEntry
<1> HIDE DEF m2
<1>3. IsRib(m2)
  BY <1>1, <1>2 DEF IsRib, IsEntry
<1>4. IsTree(m2)
  BY <1>1, <1>2 DEF IsTree
<1>5. OnlyChanged(before, m2, name, route, added)
  BY <1>1, <1>2 DEF OnlyChanged
<1>6. QED BY <1>3, <1>4, <1>5 DEF m2

(* The routes of one entry after a route was added or erased. *)
EntryAfter(e, e2, route, added) ==
  /\ IsEntry(e2) /\ e2.parent = e.parent
  /\ \A r \in ToSet(e2.routes) :
       \/ added /\ r = route
       \/ r \in ToSet(e.routes) /\ ~ compareFaceIdAndOrigin(route, r)

LEMMA RouteFound ==
  ASSUME NEW e, IsEntry(e), NEW route, hasRoute(e, route)
  PROVE  /\ findRoute(e, route) \in DOMAIN e.routes
         /\ compareFaceIdAndOrigin(e.routes[findRoute(e, route)], route)
         /\ \A j \in DOMAIN e.routes :
              compareFaceIdAndOrigin(e.routes[j], route) => j = findRoute(e, route)
<1>1. /\ findRoute(e, route) \in DOMAIN e.routes
      /\ compareFaceIdAndOrigin(e.routes[findRoute(e, route)], route)
  BY DEF findRoute, hasRoute
<1>2. QED BY <1>1 DEF IsEntry, UniqueRoutes, compareFaceIdAndOrigin

LEMMA RouteInserted ==
  ASSUME NEW e, IsEntry(e), NEW route \in Routes, ~ hasRoute(e, route)
  PROVE  EntryAfter(e, insertRoute(e, route), route, TRUE)
<1> DEFINE e2 == insertRoute(e, route)
           s == e.routes
<1>1. /\ DOMAIN e2 = DOMAIN e /\ e2.parent = e.parent
      /\ e2.routes = Append(s, route)
  BY DEF insertRoute, IsEntry
<1>2. s \in Seq(Routes) /\ UniqueRoutes(s)
      /\ \A i \in DOMAIN s : ~ compareFaceIdAndOrigin(s[i], route)
  BY DEF IsEntry, hasRoute
<1> HIDE DEF e2, s
<1>3. /\ Append(s, route) \in Seq(Routes)
      /\ DOMAIN Append(s, route) = 1 .. Len(s) + 1
      /\ DOMAIN s = 1 .. Len(s) /\ Len(s) \in Nat
      /\ \A i \in 1 .. Len(s) : Append(s, route)[i] = s[i]
      /\ Append(s, route)[Len(s) + 1] = route
  BY <1>2
<1>4. UniqueRoutes(Append(s, route))
  <2>1. SUFFICES ASSUME NEW i \in 1 .. Len(s) + 1, NEW j \in 1 .. Len(s) + 1,
                        compareFaceIdAndOrigin(Append(s, route)[i], Append(s, route)[j]), i # j
                 PROVE  FALSE
    BY <1>3 DEF UniqueRoutes
  <2>2. CASE i \in 1 .. Len(s) /\ j \in 1 .. Len(s)
    BY <1>2, <1>3, <2>1, <2>2 DEF UniqueRoutes
  <2>3. CASE i = Len(s) + 1
    <3>1. j \in 1 .. Len(s)
      BY <1>3, <2>1, <2>3
    <3>2. QED BY <1>2, <1>3, <2>1, <2>3, <3>1 DEF compareFaceIdAndOrigin
  <2>4. CASE j = Len(s) + 1
    <3>1. i \in 1 .. Len(s)
      BY <1>3, <2>1, <2>4
    <3>2. QED BY <1>2, <1>3, <2>1, <2>4, <3>1 DEF compareFaceIdAndOrigin
  <2>5. QED BY <1>3, <2>2, <2>3, <2>4
<1>5. ASSUME NEW r \in ToSet(Append(s, route))
      PROVE  r = route \/ (r \in ToSet(s) /\ ~ compareFaceIdAndOrigin(route, r))
  <2>1. PICK i \in 1 .. Len(s) + 1 : r = Append(s, route)[i]
    BY <1>3 DEF ToSet
  <2>2. CASE i \in 1 .. Len(s)
    BY <1>2, <1>3, <2>1, <2>2 DEF ToSet, compareFaceIdAndOrigin
  <2>3. QED BY <1>3, <2>1, <2>2
<1>6. QED BY <1>1, <1>3, <1>4, <1>5 DEF EntryAfter, IsEntry, e2, s

LEMMA RouteUpdated ==
  ASSUME NEW e, IsEntry(e), NEW route \in Routes, hasRoute(e, route)
  PROVE  EntryAfter(e, updateRoute(e, route), route, TRUE)
<1> DEFINE e2 == updateRoute(e, route)
           s == e.routes
           k == findRoute(e, route)
           t == [s EXCEPT ![k] = route]
<1>1. /\ DOMAIN e2 = DOMAIN e /\ e2.parent = e.parent /\ e2.routes = t
  BY DEF updateRoute, IsEntry
<1>2. /\ s \in Seq(Routes) /\ UniqueRoutes(s) /\ k \in DOMAIN s
      /\ compareFaceIdAndOrigin(s[k], route)
      /\ \A i \in DOMAIN s : compareFaceIdAndOrigin(s[i], route) => i = k
  BY RouteFound DEF IsEntry
<1> HIDE DEF e2, s, k
<1>3. t \in Seq(Routes) /\ DOMAIN t = DOMAIN s /\ t[k] = route
      /\ \A i \in DOMAIN s : i # k => t[i] = s[i]
  BY <1>2
<1> HIDE DEF t
<1>4. UniqueRoutes(t)
  <2>1. \A i, j \in DOMAIN s : compareFaceIdAndOrigin(t[i], t[j]) => compareFaceIdAndOrigin(s[i], s[j])
    BY <1>2, <1>3 DEF compareFaceIdAndOrigin
  <2>2. QED BY <1>2, <1>3, <2>1 DEF UniqueRoutes
<1>5. ASSUME NEW r \in ToSet(t)
      PROVE  r = route \/ (r \in ToSet(s) /\ ~ compareFaceIdAndOrigin(route, r))
  BY <1>2, <1>3 DEF ToSet, compareFaceIdAndOrigin
<1>6. QED BY <1>1, <1>3, <1>4, <1>5 DEF EntryAfter, IsEntry, e2, s, t

LEMMA RouteErased ==
  ASSUME NEW e, IsEntry(e), NEW route, hasRoute(e, route)
  PROVE  EntryAfter(e, eraseRoute(e, route), route, FALSE)
<1> DEFINE e2 == eraseRoute(e, route)
           s == e.routes
           k == findRoute(e, route)
           t == RemoveAt(s, k)
           old(i) == IF i < k THEN i ELSE i + 1
<1>1. /\ DOMAIN e2 = DOMAIN e /\ e2.parent = e.parent /\ e2.routes = t
  BY DEF eraseRoute, IsEntry
<1>2. /\ s \in Seq(Routes) /\ UniqueRoutes(s) /\ k \in DOMAIN s
      /\ compareFaceIdAndOrigin(s[k], route)
      /\ \A i \in DOMAIN s : compareFaceIdAndOrigin(s[i], route) => i = k
  BY RouteFound DEF IsEntry
<1> HIDE DEF e2, s, k
<1>3. DOMAIN s = 1 .. Len(s) /\ Len(s) \in Nat /\ k \in 1 .. Len(s)
  BY <1>2
<1>4. /\ t \in Seq(Routes) /\ DOMAIN t = 1 .. Len(s) - 1
      /\ \A i \in DOMAIN t : t[i] = s[old(i)]
  <2> DEFINE a == SubSeq(s, 1, k - 1)
             b == SubSeq(s, k + 1, Len(s))
  <2>1. a \in Seq(Routes) /\ Len(a) = k - 1 /\ \A i \in 1 .. k - 1 : a[i] = s[i]
    BY <1>2, <1>3
  <2>2. b \in Seq(Routes) /\ Len(b) = Len(s) - k /\ \A i \in 1 .. Len(s) - k : b[i] = s[k + i]
    BY <1>2, <1>3
  <2>3. t = a \o b
    BY DEF RemoveAt
  <2> HIDE DEF a, b, t
  <2>4. /\ a \o b \in Seq(Routes) /\ Len(a \o b) = Len(a) + Len(b)
        /\ \A i \in 1 .. Len(a) + Len(b) : (a \o b)[i] = IF i =< Len(a) THEN a[i] ELSE b[i - Len(a)]
    BY <2>1, <2>2, ConcatProperties
  <2>5. Len(a) + Len(b) = Len(s) - 1
    BY <1>3, <2>1, <2>2
  <2>6. t \in Seq(Routes) /\ Len(t) = Len(s) - 1 /\ DOMAIN t = 1 .. Len(s) - 1
    BY <2>3, <2>4, <2>5
  <2>7. ASSUME NEW i \in DOMAIN t
        PROVE  t[i] = s[old(i)]
    <3>1. CASE i < k
      <4>1. i \in 1 .. k - 1 /\ i \in 1 .. Len(a) + Len(b) /\ i =< Len(a)
        BY <1>3, <2>1, <2>6, <2>5, <3>1
      <4>2. t[i] = a[i]
        BY <2>3, <2>4, <4>1
      <4>3. QED BY <2>1, <3>1, <4>1, <4>2
    <3>2. CASE ~ (i < k)
      <4>1. i - (k - 1) \in 1 .. Len(s) - k /\ i \in 1 .. Len(a) + Len(b) /\ i > Len(a)
        BY <1>3, <2>1, <2>2, <2>6, <3>2
      <4>2. t[i] = b[i - (k - 1)]
        BY <1>3, <2>1, <2>3, <2>4, <4>1
      <4>3. b[i - (k - 1)] = s[k + (i - (k - 1))]
        BY <2>2, <4>1
      <4>4. k + (i - (k - 1)) = i + 1
        BY <1>3, <2>6
      <4>5. QED BY <3>2, <4>2, <4>3, <4>4
    <3>3. QED BY <3>1, <3>2
  <2>8. QED BY <2>6, <2>7
<1>5. /\ \A i \in DOMAIN t : old(i) \in DOMAIN s /\ old(i) # k
      /\ \A i, j \in DOMAIN t : old(i) = old(j) => i = j
  BY <1>3, <1>4
<1> HIDE DEF t, old
<1>6. UniqueRoutes(t)
  BY <1>2, <1>4, <1>5 DEF UniqueRoutes
<1>7. ASSUME NEW r \in ToSet(t)
      PROVE  r \in ToSet(s) /\ ~ compareFaceIdAndOrigin(route, r)
  BY <1>2, <1>4, <1>5 DEF ToSet, compareFaceIdAndOrigin
<1>8. QED BY <1>1, <1>4, <1>6, <1>7 DEF EntryAfter, IsEntry, e2, s, t

(* Rib::insert keeps the tree. *)
LEMMA InsertKeepsTree ==
  ASSUME NEW m, IsRib(m), IsTree(m), NEW n \in Names, NEW route \in Routes
  PROVE  /\ IsRib(RibInsert(m, n, route)) /\ IsTree(RibInsert(m, n, route))
         /\ OnlyChanged(m, RibInsert(m, n, route), n, route, TRUE)
<1> DEFINE m2 == RibInsert(m, n, route)
<1>1. DOMAIN m \in SUBSET Names /\ IsFiniteSet(DOMAIN m) /\ \A p \in DOMAIN m : IsEntry(m[p])
  BY DEF IsRib
<1>2. CASE n \in DOMAIN m
  <2> DEFINE e2 == IF hasRoute(m[n], route) THEN updateRoute(m[n], route)
                   ELSE insertRoute(m[n], route)
  <2>1. EntryAfter(m[n], e2, route, TRUE)
    BY <1>1, <1>2, RouteInserted, RouteUpdated
  <2>2. m2 = [m EXCEPT ![n] = e2]
    BY <1>2 DEF RibInsert
  <2> HIDE DEF e2, m2
  <2>3. DOMAIN m2 = DOMAIN m /\ m2[n] = e2 /\ \A p \in DOMAIN m : p # n => m2[p] = m[p]
    BY <1>2, <2>2
  <2>4. IsRib(m2)
    BY <1>1, <2>1, <2>3 DEF IsRib, EntryAfter
  <2>5. IsTree(m2)
    BY <2>1, <2>3 DEF IsTree, EntryAfter
  <2>6. OnlyChanged(m, m2, n, route, TRUE)
    BY <1>2, <2>1, <2>3 DEF OnlyChanged, EntryAfter
  <2>7. QED BY <2>4, <2>5, <2>6 DEF m2
<1>3. CASE n \notin DOMAIN m
  <2> DEFINE parent == findParent(m, n)
             entry == [routes |-> <<route>>, inherited |-> [f \in RibFaces |-> 0],
                       nCapture |-> IF route.capture THEN 1 ELSE 0, parent |-> parent]
  <2>1. /\ DOMAIN m2 = DOMAIN m \cup {n} /\ m2[n] = entry
        /\ \A p \in DOMAIN m :
             m2[p] = IF IsPrefix(n, p) /\ m[p].parent = parent THEN [m[p] EXCEPT !.parent = n] ELSE m[p]
    BY <1>3 DEF RibInsert, ChildrenOfNewName
  <2>2. IsEntry(entry) /\ entry.parent = parent /\ ToSet(entry.routes) = {route}
    BY DEF IsEntry, UniqueRoutes, ToSet
  <2>3. IsParent(DOMAIN m, n, parent)
    BY <1>1, ParentFound
  <2> HIDE DEF m2, entry, parent
  <2>4. ASSUME NEW p \in DOMAIN m
        PROVE  /\ DOMAIN m2[p] = DOMAIN m[p] /\ m2[p].routes = m[p].routes
               /\ m2[p].parent = IF IsPrefix(n, p) /\ m[p].parent = parent THEN n ELSE m[p].parent
    BY <1>1, <2>1 DEF IsEntry
  <2>5. IsRib(m2)
    <3>1. IsFiniteSet(DOMAIN m2)
      BY <1>1, <2>1, FS_AddElement
    <3>2. QED BY <1>1, <2>1, <2>2, <2>4, <3>1 DEF IsRib, IsEntry
  <2>6. IsTree(m2)
    <3>1. IsParent(DOMAIN m2, n, m2[n].parent)
      BY <1>1, <2>1, <2>2, <2>3, ParentOfNewName
    <3>2. ASSUME NEW p \in DOMAIN m
          PROVE  IsParent(DOMAIN m2, p, m2[p].parent)
      <4>1. IsParent(DOMAIN m, p, m[p].parent)
        BY DEF IsTree
      <4>2. IsParent(DOMAIN m \cup {n}, p,
                     IF IsPrefix(n, p) /\ m[p].parent = parent THEN n ELSE m[p].parent)
        BY <1>1, <1>3, <2>3, <4>1, ParentAfterInsert
      <4>3. QED BY <2>1, <2>4, <4>2
    <3>3. QED BY <2>1, <3>1, <3>2 DEF IsTree
  <2>7. OnlyChanged(m, m2, n, route, TRUE)
    BY <1>3, <2>1, <2>2, <2>4 DEF OnlyChanged
  <2>8. QED BY <2>5, <2>6, <2>7 DEF m2
<1>4. QED BY <1>2, <1>3

(* Rib::erase keeps the tree. *)
LEMMA EraseKeepsTree ==
  ASSUME NEW m, IsRib(m), IsTree(m), NEW n, NEW route
  PROVE  /\ IsRib(RibErase(m, n, route)) /\ IsTree(RibErase(m, n, route))
         /\ OnlyChanged(m, RibErase(m, n, route), n, route, FALSE)
<1> DEFINE m2 == RibErase(m, n, route)
           e2 == eraseRoute(m[n], route)
<1>1. DOMAIN m \in SUBSET Names /\ IsFiniteSet(DOMAIN m) /\ \A p \in DOMAIN m : IsEntry(m[p])
  BY DEF IsRib
<1>2. CASE ~ (n \in DOMAIN m /\ hasRoute(m[n], route))
  <2>1. m2 = m
    BY <1>2 DEF RibErase
  <2>2. ASSUME NEW p \in DOMAIN m, NEW r \in ToSet(m[p].routes), p = n
        PROVE  ~ compareFaceIdAndOrigin(route, r)
    BY <1>2, <2>2 DEF hasRoute, ToSet, compareFaceIdAndOrigin
  <2>3. OnlyChanged(m, m, n, route, FALSE)
    BY <2>2 DEF OnlyChanged
  <2>4. QED BY <2>1, <2>3
<1>3. CASE n \in DOMAIN m /\ hasRoute(m[n], route)
  <2>1. EntryAfter(m[n], e2, route, FALSE)
    BY <1>1, <1>3, RouteErased
  <2>2. CASE e2.routes # <<>>
    <3>1. m2 = [m EXCEPT ![n] = e2]
      BY <1>3, <2>2 DEF RibErase
    <3> HIDE DEF e2, m2
    <3>2. DOMAIN m2 = DOMAIN m /\ m2[n] = e2 /\ \A p \in DOMAIN m : p # n => m2[p] = m[p]
      BY <1>3, <3>1
    <3>3. IsRib(m2)
      BY <1>1, <2>1, <3>2 DEF IsRib, EntryAfter
    <3>4. IsTree(m2)
      BY <2>1, <3>2 DEF IsTree, EntryAfter
    <3>5. OnlyChanged(m, m2, n, route, FALSE)
      BY <1>3, <2>1, <3>2 DEF OnlyChanged, EntryAfter
    <3>6. QED BY <3>3, <3>4, <3>5 DEF m2
  <2>3. CASE e2.routes = <<>>
    <3>1. /\ DOMAIN m2 = DOMAIN m \ {n}
          /\ \A p \in DOMAIN m2 :
               m2[p] = IF m[p].parent = n THEN [m[p] EXCEPT !.parent = m[n].parent] ELSE m[p]
      BY <1>3, <2>3 DEF RibErase, eraseEntry
    <3> HIDE DEF e2, m2
    <3>2. ASSUME NEW p \in DOMAIN m \ {n}
          PROVE  /\ DOMAIN m2[p] = DOMAIN m[p] /\ m2[p].routes = m[p].routes
                 /\ m2[p].parent = IF m[p].parent = n THEN m[n].parent ELSE m[p].parent
      BY <1>1, <3>1 DEF IsEntry
    <3>3. IsRib(m2)
      <4>1. IsFiniteSet(DOMAIN m2)
        BY <1>1, <3>1, FS_RemoveElement
      <4>2. QED BY <1>1, <3>1, <3>2, <4>1 DEF IsRib, IsEntry
    <3>4. IsTree(m2)
      <4>1. ASSUME NEW p \in DOMAIN m \ {n}
            PROVE  IsParent(DOMAIN m \ {n}, p, IF m[p].parent = n THEN m[n].parent ELSE m[p].parent)
        <5>1. IsParent(DOMAIN m, p, m[p].parent) /\ IsParent(DOMAIN m, n, m[n].parent)
          BY <1>3 DEF IsTree
        <5>2. QED BY <1>1, <1>3, <5>1, ParentAfterErase
      <4>2. QED BY <3>1, <3>2, <4>1 DEF IsTree
    <3>5. OnlyChanged(m, m2, n, route, FALSE)
      BY <3>1, <3>2 DEF OnlyChanged
    <3>6. QED BY <3>3, <3>4, <3>5 DEF m2
  <2>4. QED BY <2>2, <2>3
<1>4. QED BY <1>2, <1>3

(* The routes of a face are finitely many. *)
LEMMA RoutesOfFaceFinite ==
  ASSUME NEW m, IsRib(m), NEW f
  PROVE  IsFiniteSet(findRoutesWithFaceId(m, f))
<1> DEFINE of(p) == {<<p, m[p].routes[i]>> : i \in OnFace(m[p], f)}
           all == {of(p) : p \in DOMAIN m}
           g == [p \in DOMAIN m |-> of(p)]
<1>1. IsFiniteSet(all)
  <2>1. g \in Surjection(DOMAIN m, all)
    BY DEF Surjection
  <2>2. IsFiniteSet(DOMAIN m)
    BY DEF IsRib
  <2> HIDE DEF g, all
  <2>3. QED BY <2>1, <2>2, FS_Surjection
<1>2. ASSUME NEW p \in DOMAIN m
      PROVE  IsFiniteSet(of(p))
  <2> DEFINE on == OnFace(m[p], f)
             h == [i \in on |-> <<p, m[p].routes[i]>>]
             image == of(p)
  <2>1. m[p].routes \in Seq(Routes)
    BY DEF IsRib, IsEntry
  <2>2. on \in SUBSET (1 .. Len(m[p].routes)) /\ Len(m[p].routes) \in Nat
    BY <2>1 DEF OnFace
  <2>3. IsFiniteSet(1 .. Len(m[p].routes))
    BY <2>2, FS_Interval
  <2>4. IsFiniteSet(on)
    BY <2>2, <2>3, FS_Subset
  <2>5. h \in Surjection(on, image)
    BY DEF Surjection
  <2> HIDE DEF on, h, image
  <2>6. IsFiniteSet(image)
    BY <2>4, <2>5, FS_Surjection
  <2>7. QED BY <2>6 DEF image
<1>3. \A S \in all : IsFiniteSet(S)
  BY <1>2
<1>4. IsFiniteSet(UNION all)
  <2> HIDE DEF all
  <2>1. QED BY <1>1, <1>3, FS_UNION
<1>5. QED BY <1>4 DEF findRoutesWithFaceId

-----------------------------------------------------------------------------
(***************************************************************************)
(* The state of the daemon is well formed, and its tree is the prefix tree.*)
(***************************************************************************)
Updates == [id : Int, action : {"REGISTER", "UNREGISTER", "REMOVE_FACE"}, name : Names, route : Routes]

IsCommand(c) ==
  DOMAIN c = {"batch", "update", "sent", "nTimeouts", "answer"} /\ c.batch \in Updates

IsEvent(x) == x.name \in Names /\ x.route \in Routes /\ x.id \in Nat /\ x.id = x.route.event

TreeOK == IsRib(rib) /\ IsTree(rib)
QueueOK == queue \in Seq(Updates)
CommandsOK == \A c \in commands : IsCommand(c)
EventsOK == \A x \in events : IsEvent(x)

StateOK == TreeOK /\ QueueOK /\ CommandsOK /\ EventsOK /\ issued \in Nat

(* What the success of a batch does to the RIB. *)
Applied(update) ==
  /\ TreeOK' /\ OnlyChanged(rib, rib', update.name, update.route, update.action = "REGISTER")
  /\ events' = Cancelled(update) /\ inProgress' = FALSE

LEMMA SuccessApplies ==
  ASSUME TreeOK, NEW update \in Updates, NEW x, onFibUpdateSuccess(update, x)
  PROVE  Applied(update)
<1> DEFINE m2 == RibAfter(update)
           added == update.action = "REGISTER"
<1>1. update.name \in Names /\ update.route \in Routes
  BY DEF Updates
<1>2. IsRib(m2) /\ IsTree(m2) /\ OnlyChanged(rib, m2, update.name, update.route, added)
  <2>1. CASE added
    BY <1>1, <2>1, InsertKeepsTree DEF RibAfter, TreeOK
  <2>2. CASE ~ added
    BY <1>1, <2>2, EraseKeepsTree DEF RibAfter, TreeOK
  <2>3. QED BY <2>1, <2>2
<1>3. rib' = m2 \/ rib' = modifyInheritedRoutes(m2, x)
  BY DEF onFibUpdateSuccess
<1>4. events' = Cancelled(update) /\ inProgress' = FALSE
  BY DEF onFibUpdateSuccess
<1> HIDE DEF m2, added
<1>5. IsRib(rib') /\ IsTree(rib') /\ OnlyChanged(rib, rib', update.name, update.route, added)
  BY <1>2, <1>3, InheritedChange
<1>6. QED BY <1>4, <1>5 DEF Applied, TreeOK, added

(* What an action may leave alone. *)
RibKept == rib' = rib /\ events' \subseteq events
RibMoves == RibKept \/ \E update \in Updates : Applied(update)

LEMMA RibMovesKeep ==
  ASSUME TreeOK, EventsOK, RibMoves
  PROVE  TreeOK' /\ EventsOK'
  BY DEF RibMoves, RibKept, Applied, TreeOK, EventsOK, Cancelled

LEMMA InitStateOK ==
  RibInit => StateOK
<1> SUFFICES ASSUME RibInit PROVE StateOK
  OBVIOUS
<1>1. IsFiniteSet(DOMAIN rib) /\ DOMAIN rib = {}
  BY FS_EmptySet DEF RibInit
<1>2. QED BY <1>1 DEF RibInit, StateOK, TreeOK, IsRib, IsTree, QueueOK, CommandsOK, EventsOK

LEMMA Queued ==
  ASSUME QueueOK, NEW id \in Int, NEW action \in {"REGISTER", "UNREGISTER", "REMOVE_FACE"},
         NEW name \in Names, NEW route \in Routes, addUpdateToQueue(id, action, name, route)
  PROVE  QueueOK'
<1> DEFINE u == [id |-> id, action |-> action, name |-> name, route |-> route]
<1>1. u \in Updates
  BY DEF Updates
<1>2. queue' = Append(queue, u)
  BY DEF addUpdateToQueue
<1> HIDE DEF u
<1>3. QED BY <1>1, <1>2 DEF QueueOK

(* The route of a request gets the event of its expiration, if it has one. *)
LEMMA RouteStamped ==
  ASSUME NEW q \in Requests, NEW e \in Nat \cup {NoEvent}
  PROVE  /\ [q.route EXCEPT !.event = e] \in Routes
         /\ [q.route EXCEPT !.event = e].face = q.route.face
         /\ [q.route EXCEPT !.event = e].event = e
  BY RibManagerAssumption DEF Routes

LEMMA RegisterKeepsState ==
  ASSUME StateOK, NEW q \in Requests, registerEntry(q)
  PROVE  StateOK'
<1> DEFINE route == [q.route EXCEPT !.event = IF q.expires THEN issued + 1 ELSE NoEvent]
           x == [id |-> issued + 1, name |-> q.name, route |-> route]
<1>1. q.name \in Names /\ issued \in Nat /\ issued' = issued + 1 /\ q.expires \in BOOLEAN
  BY RibManagerAssumption DEF Names, StateOK, registerEntry, Arrives
<1>2. route \in Routes /\ (q.expires => route.event = issued + 1)
  <2> DEFINE e == IF q.expires THEN issued + 1 ELSE NoEvent
  <2>0. issued + 1 \in Nat
    BY <1>1
  <2>1. e \in Nat \cup {NoEvent} /\ (q.expires => e = issued + 1)
    BY <2>0, Zenon
  <2> HIDE DEF e
  <2>2. LET r == [q.route EXCEPT !.event = e] IN r \in Routes /\ r.event = e
    BY <2>1, RouteStamped
  <2> QED
    BY <2>1, <2>2, Zenon DEF e
<1>3. /\ events' = events \cup (IF q.expires THEN {x} ELSE {})
      /\ addUpdateToQueue(issued + 1, "REGISTER", q.name, route)
      /\ UNCHANGED <<rib, commands>>
  BY DEF registerEntry
<1> HIDE DEF route
<1>4. q.expires => IsEvent(x)
  BY <1>1, <1>2 DEF IsEvent
<1> HIDE DEF x
<1>5. QueueOK'
  BY <1>1, <1>2, <1>3, Queued DEF StateOK
<1>6. EventsOK'
  BY <1>3, <1>4 DEF StateOK, EventsOK
<1>7. QED BY <1>1, <1>3, <1>5, <1>6 DEF StateOK, TreeOK, CommandsOK

LEMMA UnregisterKeepsState ==
  ASSUME StateOK, NEW q \in Requests, unregisterEntry(q)
  PROVE  StateOK'
<1>1. q.name \in Names /\ issued \in Nat /\ issued' = issued + 1 /\ q.route \in Routes
  BY RibManagerAssumption DEF Names, Routes, StateOK, unregisterEntry, Arrives
<1>2. /\ addUpdateToQueue(issued + 1, "UNREGISTER", q.name, q.route)
      /\ UNCHANGED <<rib, commands, events>>
  BY DEF unregisterEntry
<1>3. QueueOK'
  BY <1>1, <1>2, Queued DEF StateOK
<1>4. QED BY <1>1, <1>2, <1>3 DEF StateOK, TreeOK, CommandsOK, EventsOK

LEMMA ExpirationKeepsState ==
  ASSUME StateOK, NEW x \in events, onRouteExpiration(x)
  PROVE  StateOK'
<1>1. x.name \in Names /\ x.route \in Routes /\ 0 - x.id \in Int
  BY DEF StateOK, EventsOK, IsEvent
<1>2. /\ addUpdateToQueue(0 - x.id, "UNREGISTER", x.name, x.route)
      /\ events' = events \ {x} /\ UNCHANGED <<rib, commands, issued>>
  BY DEF onRouteExpiration
<1>3. QueueOK'
  BY <1>1, <1>2, Queued DEF StateOK
<1>4. QED BY <1>2, <1>3 DEF StateOK, TreeOK, CommandsOK, EventsOK

LEMMA SentCommands ==
  ASSUME NEW S, NEW u \in Updates, NEW c \in sendUpdates(S, u)
  PROVE  IsCommand(c) /\ c.batch = u /\ c.update \in S /\ c.answer = "none"
  BY DEF sendUpdates, IsCommand

LEMMA SendBatchKeepsState ==
  ASSUME StateOK, SendBatch
  PROVE  StateOK'
<1> DEFINE update == Head(queue)
<1>1. queue \in Seq(Updates) /\ queue # <<>>
  BY DEF StateOK, QueueOK, SendBatch
<1>2. update \in Updates /\ Tail(queue) \in Seq(Updates)
  BY <1>1
<1>3. /\ queue' = Tail(queue) /\ issued' = issued
      /\ \/ UNCHANGED <<rib, events, commands>>
         \/ \E x : onFibUpdateSuccess(update, x) /\ UNCHANGED commands
         \/ /\ \E S : commands' = commands \cup sendUpdates(S, update)
            /\ events' = (IF update.action = "REGISTER" THEN events ELSE Cancelled(update))
            /\ rib' = rib
  BY Zenon DEF SendBatch
<1> HIDE DEF update
<1>4. RibMoves
  BY <1>2, <1>3, SuccessApplies DEF RibMoves, RibKept, StateOK, Cancelled
<1>5. CommandsOK'
  BY <1>2, <1>3, SentCommands DEF StateOK, CommandsOK
<1>6. QED BY <1>2, <1>3, <1>4, <1>5, RibMovesKeep DEF StateOK, QueueOK

(* What an answer of NFD does: the command is gone, others of its batch may *)
(* be sent, and the batch may be applied to the RIB.                        *)
AnswerTaken(c) ==
  /\ \/ commands' = commands \ {c}
     \/ \E S : commands' = (commands \ {c}) \cup sendUpdates(S, c.batch)
  /\ RibKept \/ Applied(c.batch)
  /\ UNCHANGED <<queue, issued>>

LEMMA AnsweredTaken ==
  ASSUME TreeOK, CommandsOK, NEW c \in commands, Answered(c)
  PROVE  AnswerTaken(c)
<1>1. c.batch \in Updates
  BY DEF CommandsOK, IsCommand
<1>2. \/ commands' = commands \ {c}
      \/ \E S : commands' = (commands \ {c}) \cup sendUpdates(S, c.batch)
  BY DEF Answered, onUpdateSuccess, onUpdateError, AfterBatchFace, AfterOtherFace
<1>3. UNCHANGED <<rib, events>> \/ onFibUpdateSuccess(c.batch, inherited)
  BY DEF Answered, onUpdateSuccess, onUpdateError, AfterBatchFace, AfterOtherFace
<1>4. UNCHANGED <<queue, issued>>
  BY DEF Answered, onUpdateSuccess, onUpdateError
<1>5. RibKept \/ Applied(c.batch)
  BY <1>1, <1>3, SuccessApplies DEF RibKept
<1>6. QED BY <1>2, <1>4, <1>5 DEF AnswerTaken

LEMMA AnsweredKeepsState ==
  ASSUME StateOK, NEW c \in commands, Answered(c)
  PROVE  StateOK'
<1>1. c.batch \in Updates
  BY DEF StateOK, CommandsOK, IsCommand
<1>2. AnswerTaken(c)
  BY AnsweredTaken DEF StateOK
<1>3. RibMoves
  BY <1>1, <1>2 DEF AnswerTaken, RibMoves
<1>4. CommandsOK'
  BY <1>1, <1>2, SentCommands DEF AnswerTaken, StateOK, CommandsOK
<1>5. QED BY <1>2, <1>3, <1>4, RibMovesKeep DEF AnswerTaken, StateOK, QueueOK

(* A command is replaced by one of the same batch and update. *)
ReplacedBy(c, d) ==
  /\ commands' = (commands \ {c}) \cup {d} \/ (commands' = commands \ {c} /\ fault' # "none")
  /\ IsCommand(d) /\ d.batch = c.batch /\ d.update = c.update
  /\ d.answer \in {"none", "200"} \/ (d.answer = "410" /\ c.update.face \notin UpFaces)
  /\ UNCHANGED <<rib, queue, events, issued, inProgress, batchFace, batchUpdates, otherUpdates,
                 registered, notices, faceState>>

Replaced(c) == \E d : ReplacedBy(c, d)

LEMMA TimeoutReplaces ==
  ASSUME CommandsOK, NEW c \in commands, onUpdateTimeout(c)
  PROVE  Replaced(c)
<1> DEFINE d == Retried(c)
<1>1. IsCommand(c)
  BY DEF CommandsOK
<1>2. IsCommand(d) /\ d.batch = c.batch /\ d.update = c.update /\ d.answer = "none"
  BY <1>1 DEF Retried, IsCommand
<1>3. /\ commands' = (commands \ {c}) \cup {d} \/ (commands' = commands \ {c} /\ fault' # "none")
      /\ UNCHANGED <<rib, queue, events, issued, inProgress, batchFace, batchUpdates, otherUpdates,
                     registered, notices, faceState>>
  BY DEF onUpdateTimeout, nfdVars
<1> HIDE DEF d
<1>4. ReplacedBy(c, d)
  BY <1>2, <1>3 DEF ReplacedBy
<1>5. QED BY <1>4 DEF Replaced

LEMMA ExecutionReplaces ==
  ASSUME CommandsOK, NEW c \in commands, NfdExecutes(c)
  PROVE  Replaced(c)
<1> DEFINE ok == c.sent = "REMOVE_NEXTHOP" \/ c.update.face \in UpFaces
           d == [c EXCEPT !.answer = IF ok THEN "200" ELSE "410"]
<1>1. IsCommand(c)
  BY DEF CommandsOK
<1>2. /\ IsCommand(d) /\ d.batch = c.batch /\ d.update = c.update
      /\ d.answer \in {"none", "200"} \/ (d.answer = "410" /\ c.update.face \notin UpFaces)
  BY <1>1 DEF IsCommand
<1>3. /\ commands' = (commands \ {c}) \cup {d}
      /\ UNCHANGED <<rib, queue, events, issued, inProgress, batchFace, batchUpdates, otherUpdates,
                     registered, notices, faceState>>
  BY DEF NfdExecutes, daemonVars
<1> HIDE DEF d
<1>4. ReplacedBy(c, d)
  BY <1>2, <1>3 DEF ReplacedBy
<1>5. QED BY <1>4 DEF Replaced

LEMMA ReplacedKeepsState ==
  ASSUME StateOK, NEW c \in commands, Replaced(c)
  PROVE  StateOK'
  BY DEF Replaced, ReplacedBy, StateOK, TreeOK, QueueOK, CommandsOK, EventsOK

LEMMA FaceRemovalQueued ==
  ASSUME TreeOK, QueueOK, NEW f, onFaceDestroyedEvent(f)
  PROVE  \E more \in Seq(Updates) :
           /\ queue' = queue \o more
           /\ \A i \in DOMAIN more :
                /\ more[i].action = "REMOVE_FACE"
                /\ more[i].name \in DOMAIN rib /\ more[i].route \in ToSet(rib[more[i].name].routes)
<1> DEFINE S == findRoutesWithFaceId(rib, f)
<1>1. PICK routes \in SetToSeqs(S) :
        queue' = queue \o [i \in DOMAIN routes |->
          [id |-> 0, action |-> "REMOVE_FACE", name |-> routes[i][1], route |-> routes[i][2]]]
  BY DEF onFaceDestroyedEvent
<1> DEFINE more == [i \in DOMAIN routes |->
          [id |-> 0, action |-> "REMOVE_FACE", name |-> routes[i][1], route |-> routes[i][2]]]
<1>2. IsFiniteSet(S)
  BY RoutesOfFaceFinite DEF TreeOK
<1>3. \A z \in S : /\ z[1] \in DOMAIN rib /\ z[1] \in Names
                   /\ z[2] \in ToSet(rib[z[1]].routes) /\ z[2] \in Routes
  <2>1. SUFFICES ASSUME NEW p \in DOMAIN rib, NEW i \in OnFace(rib[p], f)
                 PROVE  p \in Names /\ rib[p].routes[i] \in ToSet(rib[p].routes)
                        /\ rib[p].routes[i] \in Routes
    BY DEF findRoutesWithFaceId
  <2>2. rib[p].routes \in Seq(Routes) /\ i \in DOMAIN rib[p].routes /\ p \in Names
    BY DEF OnFace, TreeOK, IsRib, IsEntry
  <2>3. QED BY <2>2 DEF ToSet
<1> HIDE DEF S
<1>4. Cardinality(S) \in Nat
  BY <1>2, FS_CardinalityType
<1>5. DOMAIN routes = 1 .. Cardinality(S) /\ \A i \in DOMAIN routes : routes[i] \in S
  BY DEF SetToSeqs
<1>6. \A i \in DOMAIN routes : /\ more[i] \in Updates /\ more[i].action = "REMOVE_FACE"
                               /\ more[i].name \in DOMAIN rib
                               /\ more[i].route \in ToSet(rib[more[i].name].routes)
  BY <1>3, <1>5 DEF Updates
<1>7. DOMAIN more = 1 .. Cardinality(S)
  BY <1>5
<1>8. queue' = queue \o more
  BY <1>1
<1> HIDE DEF more
<1>9. more \in Seq(Updates)
  BY <1>1, <1>4, <1>5, <1>6, <1>7 DEF more
<1>10. QED BY <1>5, <1>6, <1>7, <1>8, <1>9

LEMMA FaceRemovalKeepsState ==
  ASSUME StateOK, NEW f, onFaceDestroyedEvent(f)
  PROVE  StateOK'
<1>1. QueueOK'
  BY FaceRemovalQueued, ConcatProperties DEF StateOK, QueueOK
<1>2. UNCHANGED <<rib, commands, events, issued>>
  BY DEF onFaceDestroyedEvent
<1>3. QED BY <1>1, <1>2 DEF StateOK, TreeOK, CommandsOK, EventsOK

(* What is left of the actions: faces, notices and the dataset. *)
OnlyFaces ==
  UNCHANGED <<rib, queue, inProgress, batchFace, batchUpdates, otherUpdates, events, commands, issued>>

FaceSteps ==
  \/ \E f \in RibFaces : FaceCreated(f) \/ FaceDestroyed(f)
  \/ fetchActiveFaces \/ removeInvalidFaces \/ onFetchFaceStatusTimeout

LEMMA FaceStepsOnlyFaces ==
  ASSUME FaceSteps \/ UNCHANGED ribVars
  PROVE  OnlyFaces
  BY DEF FaceSteps, FaceCreated, FaceDestroyed, fetchActiveFaces, removeInvalidFaces,
         onFetchFaceStatusTimeout, OnlyFaces, ribVars, daemonVars

LEMMA StepKeepsState ==
  ASSUME StateOK, [RibNext]_ribVars
  PROVE  StateOK'
<1>1. ASSUME OnlyFaces PROVE StateOK'
  BY <1>1 DEF OnlyFaces, StateOK, TreeOK, QueueOK, CommandsOK, EventsOK
<1>2. CASE FaceSteps \/ UNCHANGED ribVars
  BY <1>1, <1>2, FaceStepsOnlyFaces
<1>3. ASSUME NEW q \in Requests, registerEntry(q) \/ unregisterEntry(q) PROVE StateOK'
  BY <1>3, RegisterKeepsState, UnregisterKeepsState
<1>4. ASSUME NEW x \in events, onRouteExpiration(x) PROVE StateOK'
  BY <1>4, ExpirationKeepsState
<1>5. CASE SendBatch
  BY <1>5, SendBatchKeepsState
<1>6. ASSUME NEW c \in commands, NfdExecutes(c) \/ Answered(c) \/ onUpdateTimeout(c) PROVE StateOK'
  BY <1>6, ExecutionReplaces, TimeoutReplaces, ReplacedKeepsState, AnsweredKeepsState DEF StateOK
<1>7. ASSUME NEW f \in RibFaces, onFaceDestroyedEvent(f) PROVE StateOK'
  BY <1>7, FaceRemovalKeepsState
<1>8. QED BY <1>2, <1>3, <1>4, <1>5, <1>6, <1>7 DEF RibNext, FaceSteps

(* The entries of the RIB form the prefix tree of their names at all times,   *)
(* however insertions, erasures and the answers they wait for overlap         *)
(* (Rib::insert, Rib::erase, Rib::eraseEntry).                                *)
THEOREM TreeStaysPrefixTree == RibSpec => []TreeIsPrefixTree
<1>1. StateOK => TreeIsPrefixTree
  BY TreeByParents DEF StateOK, TreeOK, IsRib, TreeIsPrefixTree
<1>2. QED BY <1>1, InitStateOK, StepKeepsState, PTL DEF RibSpec

-----------------------------------------------------------------------------
(***************************************************************************)
(* The expiration of routes, while batches end before others start.  An    *)
(* update, a command, an event and a route of the RIB carry a name and a   *)
(* route; an event of expiration belongs to one name and route.            *)
(***************************************************************************)
RibCarriers == UNION {{<<p, r>> : r \in ToSet(rib[p].routes)} : p \in DOMAIN rib}

Carriers ==
  RibCarriers \cup {<<queue[i].name, queue[i].route>> : i \in DOMAIN queue}
    \cup {<<c.batch.name, c.batch.route>> : c \in commands} \cup {<<x.name, x.route>> : x \in events}

OneCarrier ==
  \A a, b \in Carriers : a[2].event = b[2].event /\ a[2].event # NoEvent => a = b

Issued == \A a \in Carriers : a[2].event = NoEvent \/ a[2].event =< issued

FacesKnown == \A a \in Carriers : faceState[a[2].face] # "new"

InRib(e) == \E a \in RibCarriers : a[2].event = e
Scheduled(e) == \E x \in events : x.id = e
Erased(from, name, route) == \E j \in DOMAIN queue : j > from /\ Erases(queue[j], name, route)

Expiring(u) == u.action = "REGISTER" /\ u.route.event # NoEvent

(* A queued registration is new to the RIB and to the commands, and a covered *)
(* one: its event is scheduled, or what erases it is queued behind it.        *)
QueuedCovered ==
  \A i \in DOMAIN queue : Expiring(queue[i]) =>
    LET u == queue[i]
    IN  /\ ~ InRib(u.route.event)
        /\ \A c \in commands : Expiring(c.batch) => c.batch.route.event # u.route.event
        /\ \A j \in DOMAIN queue : Expiring(queue[j]) /\ queue[j].route.event = u.route.event => i = j
        /\ Scheduled(u.route.event) \/ Erased(i, u.name, u.route)

Live(c) == c.batch.route.face \in UpFaces

SentCovered ==
  \A c \in commands : Live(c) /\ Expiring(c.batch) =>
    /\ ~ InRib(c.batch.route.event)
    /\ Scheduled(c.batch.route.event) \/ Erased(0, c.batch.name, c.batch.route)

(* The commands on account of faces that are up are of one batch, and what is *)
(* recorded of the batch waits for one of its commands.                       *)
OneBatch ==
  \A c, d \in commands : Live(c) /\ Live(d) => c.batch = d.batch

BatchHere(c) ==
  /\ batchFace = c.batch.route.face
  /\ c.answer = "410" => c.update.face # batchFace

UpdatesSent(c) ==
  /\ \A x \in batchUpdates :
       x.face = batchFace /\ \E d \in commands : d.batch = c.batch /\ d.update = x
  /\ \/ \E d \in commands : d.batch = c.batch /\ d.update.face = batchFace
     \/ \A x \in otherUpdates : \E d \in commands : d.batch = c.batch /\ d.update = x

BatchOK == OneBatch /\ \A c \in commands : Live(c) => BatchHere(c) /\ UpdatesSent(c)

FacesOK == faceState \in [RibFaces -> {"new", "up", "down"}]

CarriersOK == OneCarrier /\ Issued /\ FacesKnown
RunningOK == CarriersOK /\ QueuedCovered /\ SentCovered /\ BatchOK /\ Covered

ExpiryInv == StateOK /\ FacesOK /\ (fault = "none" => RunningOK)

LEMMA InitExpiryInv ==
  RibInit => ExpiryInv
<1> SUFFICES ASSUME RibInit PROVE ExpiryInv
  OBVIOUS
<1>1. queue = <<>> /\ commands = {} /\ events = {} /\ DOMAIN rib = {}
  BY DEF RibInit
<1>2. DOMAIN queue = {}
  BY <1>1
<1>3. RibCarriers = {} /\ Carriers = {}
  BY <1>1, <1>2 DEF RibCarriers, Carriers
<1>4. CarriersOK /\ QueuedCovered /\ SentCovered /\ BatchOK /\ Covered
  BY <1>1, <1>2, <1>3 DEF CarriersOK, OneCarrier, Issued, FacesKnown, QueuedCovered, SentCovered,
                          BatchOK, OneBatch, Covered
<1>5. FacesOK
  BY DEF RibInit, FacesOK
<1>6. QED BY <1>4, <1>5, InitStateOK DEF ExpiryInv, RunningOK

(* A face that is destroyed does not come back. *)
FacesMove ==
  \A f \in RibFaces :
    /\ faceState[f] # "new" => faceState'[f] # "new"
    /\ faceState[f] # "new" /\ faceState'[f] = "up" => faceState[f] = "up"

LEMMA StepMovesFaces ==
  ASSUME FacesOK, [RibNext]_ribVars
  PROVE  FacesOK' /\ FacesMove
<1>1. ASSUME faceState' = faceState PROVE FacesOK' /\ FacesMove
  BY <1>1 DEF FacesOK, FacesMove
<1>2. ASSUME NEW f \in RibFaces, FaceCreated(f) PROVE FacesOK' /\ FacesMove
  BY <1>2 DEF FaceCreated, FacesOK, FacesMove
<1>3. ASSUME NEW f \in RibFaces, FaceDestroyed(f) PROVE FacesOK' /\ FacesMove
  BY <1>3 DEF FaceDestroyed, FacesOK, FacesMove
<1>4. ASSUME NEW q \in Requests, registerEntry(q) \/ unregisterEntry(q) PROVE faceState' = faceState
  BY <1>4 DEF registerEntry, unregisterEntry, nfdVars
<1>5. ASSUME NEW x \in events, onRouteExpiration(x) PROVE faceState' = faceState
  BY <1>5 DEF onRouteExpiration, nfdVars
<1>6. ASSUME SendBatch PROVE faceState' = faceState
  BY <1>6 DEF SendBatch, nfdVars
<1>7. ASSUME NEW c \in commands, NfdExecutes(c) \/ Answered(c) \/ onUpdateTimeout(c)
      PROVE  faceState' = faceState
  BY <1>7 DEF NfdExecutes, Answered, onUpdateSuccess, onUpdateError, onUpdateTimeout, nfdVars
<1>8. ASSUME NEW f \in RibFaces, onFaceDestroyedEvent(f) PROVE faceState' = faceState
  BY <1>8 DEF onFaceDestroyedEvent, nfdVars
<1>9. ASSUME fetchActiveFaces \/ removeInvalidFaces \/ onFetchFaceStatusTimeout \/ UNCHANGED ribVars
      PROVE  faceState' = faceState
  BY <1>9 DEF fetchActiveFaces, removeInvalidFaces, onFetchFaceStatusTimeout, nfdVars, ribVars
<1>10. QED BY <1>1, <1>2, <1>3, <1>4, <1>5, <1>6, <1>7, <1>8, <1>9 DEF RibNext

(* Carriers are known ones, but for a registration with a new event. *)
LEMMA CarriersKept ==
  ASSUME CarriersOK, Carriers' \subseteq Carriers, issued' = issued,
         \A a \in Carriers : a[2].face \in RibFaces, FacesMove
  PROVE  CarriersOK'
<1>1. OneCarrier'
  BY DEF CarriersOK, OneCarrier
<1>2. Issued'
  BY DEF CarriersOK, Issued
<1>3. FacesKnown'
  BY DEF CarriersOK, FacesKnown, FacesMove
<1>4. QED BY <1>1, <1>2, <1>3 DEF CarriersOK

LEMMA CarriersTyped ==
  ASSUME StateOK, NEW a \in Carriers
  PROVE  /\ a = <<a[1], a[2]>> /\ a[1] \in Names /\ a[2] \in Routes /\ a[2].face \in RibFaces
         /\ a[2].event \in Nat \cup {NoEvent}
<1>1. a = <<a[1], a[2]>> /\ a[1] \in Names /\ a[2] \in Routes
  <2>1. CASE a \in RibCarriers
    <3>1. PICK p \in DOMAIN rib : \E r \in ToSet(rib[p].routes) : a = <<p, r>>
      BY <2>1 DEF RibCarriers
    <3>2. PICK r \in ToSet(rib[p].routes) : a = <<p, r>>
      BY <3>1
    <3>3. p \in Names /\ rib[p].routes \in Seq(Routes)
      BY DEF StateOK, TreeOK, IsRib, IsEntry
    <3>4. QED BY <3>2, <3>3 DEF ToSet
  <2>2. ASSUME NEW i \in DOMAIN queue, a = <<queue[i].name, queue[i].route>>
        PROVE  a = <<a[1], a[2]>> /\ a[1] \in Names /\ a[2] \in Routes
    <3>1. queue[i] \in Updates
      BY DEF StateOK, QueueOK
    <3>2. QED BY <2>2, <3>1 DEF Updates
  <2>3. ASSUME NEW c \in commands, a = <<c.batch.name, c.batch.route>>
        PROVE  a = <<a[1], a[2]>> /\ a[1] \in Names /\ a[2] \in Routes
    <3>1. c.batch \in Updates
      BY DEF StateOK, CommandsOK, IsCommand
    <3>2. QED BY <2>3, <3>1 DEF Updates
  <2>4. ASSUME NEW x \in events, a = <<x.name, x.route>>
        PROVE  a = <<a[1], a[2]>> /\ a[1] \in Names /\ a[2] \in Routes
    BY <2>4 DEF StateOK, EventsOK, IsEvent
  <2>5. QED BY <2>1, <2>2, <2>3, <2>4 DEF Carriers
<1>2. QED BY <1>1 DEF Routes

LEMMA CarrierKinds ==
  /\ \A p, r : <<p, r>> \in RibCarriers <=> p \in DOMAIN rib /\ r \in ToSet(rib[p].routes)
  /\ RibCarriers \subseteq Carriers
  /\ \A i \in DOMAIN queue : <<queue[i].name, queue[i].route>> \in Carriers
  /\ \A c \in commands : <<c.batch.name, c.batch.route>> \in Carriers
  /\ \A x \in events : <<x.name, x.route>> \in Carriers
<1>1. ASSUME NEW p, NEW r
      PROVE  <<p, r>> \in RibCarriers <=> p \in DOMAIN rib /\ r \in ToSet(rib[p].routes)
  <2>1. ASSUME <<p, r>> \in RibCarriers PROVE p \in DOMAIN rib /\ r \in ToSet(rib[p].routes)
    <3>1. PICK q \in DOMAIN rib : <<p, r>> \in {<<q, z>> : z \in ToSet(rib[q].routes)}
      BY <2>1 DEF RibCarriers
    <3>2. QED BY <3>1
  <2>2. QED BY <2>1 DEF RibCarriers
<1>2. QED BY <1>1 DEF Carriers

(* A step that changes faces only, and sets none of those in use up again. *)
LEMMA FaceStepCovers ==
  ASSUME StateOK, RunningOK, fault = "none", OnlyFaces, FacesMove
  PROVE  RunningOK'
<1>1. UNCHANGED <<rib, queue, inProgress, batchFace, batchUpdates, otherUpdates, events, commands, issued>>
  BY DEF OnlyFaces
<1>2. Carriers' = Carriers /\ RibCarriers' = RibCarriers
  BY <1>1 DEF Carriers, RibCarriers
<1>3. \A a \in Carriers : a[2].face \in RibFaces /\ (a[2].face \in UpFaces' => a[2].face \in UpFaces)
  BY CarriersTyped DEF RunningOK, CarriersOK, FacesKnown, FacesMove, UpFaces
<1>4. CarriersOK'
  BY <1>1, <1>2, <1>3, CarriersKept DEF RunningOK
<1>5. \A c \in commands : Live(c)' => Live(c)
  <2>1. ASSUME NEW c \in commands, Live(c)' PROVE Live(c)
    <3>1. <<c.batch.name, c.batch.route>> \in Carriers
      BY CarrierKinds
    <3>2. c.batch.route.face \in UpFaces'
      BY <2>1 DEF Live
    <3>3. QED BY <1>3, <3>1, <3>2 DEF Live
  <2>2. QED BY <2>1
<1>6. QueuedCovered'
  BY <1>1, <1>2 DEF RunningOK, QueuedCovered, InRib, Scheduled, Erased, Erases, Expiring
<1>7. SentCovered'
  BY <1>1, <1>2, <1>5 DEF RunningOK, SentCovered, InRib, Scheduled, Erased, Erases, Expiring
<1>8. BatchOK'
  BY <1>1, <1>5 DEF RunningOK, BatchOK, OneBatch, BatchHere, UpdatesSent
<1>9. Covered'
  <2>1. SUFFICES ASSUME NEW p \in DOMAIN rib, NEW r \in ToSet(rib[p].routes), r.face \in UpFaces',
                        r.event # NoEvent, ~ \E x \in events : x.id = r.event
                 PROVE  \E u \in ToSet(queue) \cup {c.batch : c \in commands} : Erases(u, p, r)
    BY <1>1 DEF Covered, Erases
  <2>2. <<p, r>> \in Carriers
    BY CarrierKinds
  <2>3. r.face \in UpFaces
    BY <1>3, <2>1, <2>2
  <2>4. QED BY <2>1, <2>3 DEF RunningOK, Covered
<1>10. QED BY <1>4, <1>6, <1>7, <1>8, <1>9 DEF RunningOK

(* A step that changes commands only, and leaves one of every batch that is   *)
(* on account of a face that is up.                                           *)
OnlyCommands == UNCHANGED <<rib, queue, events, issued, faceState>>

LEMMA CommandStepCovers ==
  ASSUME StateOK, RunningOK, fault = "none", OnlyCommands,
         \A d \in commands' : \E c \in commands : d.batch = c.batch,
         \A c \in commands : Live(c) => \E d \in commands' : d.batch = c.batch
  PROVE  CarriersOK' /\ QueuedCovered' /\ SentCovered' /\ Covered'
<1>1. UNCHANGED <<rib, queue, events, issued, faceState>>
  BY DEF OnlyCommands
<1>2. RibCarriers' = RibCarriers /\ Carriers' \subseteq Carriers
  <2>1. RibCarriers' = RibCarriers
    BY <1>1 DEF RibCarriers
  <2>2. {<<d.batch.name, d.batch.route>> : d \in commands'} \subseteq {<<c.batch.name, c.batch.route>> : c \in commands}
    OBVIOUS
  <2>3. QED BY <1>1, <2>1, <2>2 DEF Carriers
<1>3. CarriersOK'
  BY <1>1, <1>2, CarriersTyped, CarriersKept DEF RunningOK, FacesMove
<1>4. UpFaces' = UpFaces
  BY <1>1 DEF UpFaces
<1>5. QueuedCovered'
  BY <1>1, <1>2 DEF RunningOK, QueuedCovered, InRib, Scheduled, Erased, Erases, Expiring
<1>6. SentCovered'
  BY <1>1, <1>2, <1>4 DEF RunningOK, SentCovered, InRib, Scheduled, Erased, Erases, Expiring, Live
<1>7. Covered'
  <2>1. SUFFICES ASSUME NEW p \in DOMAIN rib, NEW r \in ToSet(rib[p].routes), r.face \in UpFaces,
                        r.event # NoEvent, ~ \E x \in events : x.id = r.event
                 PROVE  \E u \in ToSet(queue) \cup {c.batch : c \in commands'} : Erases(u, p, r)
    BY <1>1, <1>4 DEF Covered, Erases
  <2>2. PICK u \in ToSet(queue) \cup {c.batch : c \in commands} : Erases(u, p, r)
    BY <2>1 DEF RunningOK, Covered
  <2>3. ASSUME NEW c \in commands, u = c.batch PROVE \E d \in commands' : u = d.batch
    <3>1. Live(c)
      BY <2>1, <2>2, <2>3 DEF Live, Erases, compareFaceIdAndOrigin
    <3>2. QED BY <2>3, <3>1
  <2>4. QED BY <2>2, <2>3
<1>8. QED BY <1>3, <1>5, <1>6, <1>7

(* A step that adds updates to the queue. *)
Grown(k) ==
  /\ queue' \in Seq(Updates) /\ k \in Nat /\ DOMAIN queue = 1 .. k
  /\ DOMAIN queue \subseteq DOMAIN queue' /\ \A i \in DOMAIN queue : queue'[i] = queue[i]

OnlyQueue == UNCHANGED <<rib, commands, inProgress, batchFace, batchUpdates, otherUpdates, faceState>>

(* The same after the step. *)
WillBeScheduled(e) == \E x \in events' : x.id = e
WillBeErased(from, name, route) == \E j \in DOMAIN queue' : j > from /\ Erases(queue'[j], name, route)

LEMMA QueueStepCovers ==
  ASSUME StateOK, RunningOK, fault = "none", OnlyQueue, CarriersOK', NEW k, Grown(k),
         \A x \in events \ events' :
           \E j \in DOMAIN queue' \ DOMAIN queue : Erases(queue'[j], x.name, x.route),
         \A j \in DOMAIN queue' \ DOMAIN queue : Expiring(queue'[j]) =>
           /\ j = k + 1 /\ queue'[j].route.event = issued + 1
           /\ \E x \in events' : x.id = issued + 1
  PROVE  RunningOK'
<1>1. UNCHANGED <<rib, commands, inProgress, batchFace, batchUpdates, otherUpdates, faceState>>
  BY DEF OnlyQueue
<1>2. RibCarriers' = RibCarriers /\ UpFaces' = UpFaces
  BY <1>1 DEF RibCarriers, UpFaces
<1>3. /\ queue' \in Seq(Updates) /\ k \in Nat /\ DOMAIN queue = 1 .. k /\ issued \in Nat
      /\ DOMAIN queue \subseteq DOMAIN queue' /\ \A i \in DOMAIN queue : queue'[i] = queue[i]
      /\ DOMAIN queue' \subseteq Nat
  BY DEF Grown, StateOK
<1>4. \A j \in DOMAIN queue' \ DOMAIN queue : j > k
  BY <1>3
<1>5. \A a \in Carriers : a[2].event # issued + 1
  BY <1>3, CarriersTyped, RibManagerAssumption DEF RunningOK, CarriersOK, Issued
(* A name and a route that carry an event stay covered. *)
<1>6. ASSUME NEW a \in Carriers, a[2].event # NoEvent, NEW i \in 0 .. k,
             Scheduled(a[2].event) \/ Erased(i, a[1], a[2])
      PROVE  WillBeScheduled(a[2].event) \/ WillBeErased(i, a[1], a[2])
  <2>1. CASE Erased(i, a[1], a[2])
    <3>1. PICK j \in DOMAIN queue : j > i /\ Erases(queue[j], a[1], a[2])
      BY <2>1 DEF Erased
    <3>2. j \in DOMAIN queue' /\ queue'[j] = queue[j]
      BY <1>3
    <3>3. QED BY <3>1, <3>2 DEF WillBeErased
  <2>2. CASE Scheduled(a[2].event)
    <3>1. PICK x \in events : x.id = a[2].event
      BY <2>2 DEF Scheduled
    <3>2. CASE x \in events'
      BY <3>1, <3>2 DEF WillBeScheduled
    <3>3. CASE x \notin events'
      <4>1. PICK j \in DOMAIN queue' \ DOMAIN queue : Erases(queue'[j], x.name, x.route)
        BY <3>3
      <4>2. <<x.name, x.route>> \in Carriers /\ x.route.event = x.id
        BY CarrierKinds DEF StateOK, EventsOK, IsEvent
      <4>3. <<x.name, x.route>>[2].event = a[2].event
        BY <3>1, <4>2
      <4>4. <<x.name, x.route>> = a
        BY <1>6, <4>2, <4>3 DEF RunningOK, CarriersOK, OneCarrier
      <4>5. j > i
        BY <1>3, <1>4
      <4>6. QED BY <4>1, <4>4, <4>5 DEF WillBeErased
    <3>4. QED BY <3>2, <3>3
  <2>3. QED BY <1>6, <2>1, <2>2
<1>7. QueuedCovered'
  <2>1. SUFFICES ASSUME NEW i \in DOMAIN queue', Expiring(queue'[i])
                 PROVE  /\ ~ InRib(queue'[i].route.event)
                        /\ \A c \in commands : Expiring(c.batch) => c.batch.route.event # queue'[i].route.event
                        /\ \A j \in DOMAIN queue' :
                             Expiring(queue'[j]) /\ queue'[j].route.event = queue'[i].route.event => i = j
                        /\ \/ WillBeScheduled(queue'[i].route.event)
                           \/ WillBeErased(i, queue'[i].name, queue'[i].route)
    BY <1>1, <1>2 DEF QueuedCovered, InRib, Expiring, Scheduled, Erased, Erases, WillBeScheduled, WillBeErased
  <2>2. CASE i \in DOMAIN queue
    <3> DEFINE u == queue[i]
    <3>1. /\ queue'[i] = u /\ Expiring(u) /\ <<u.name, u.route>> \in Carriers /\ i \in 0 .. k
          /\ u.route.event # NoEvent
      BY <1>3, <2>1, <2>2, CarrierKinds DEF Expiring
    <3>2. /\ ~ InRib(u.route.event)
          /\ \A c \in commands : Expiring(c.batch) => c.batch.route.event # u.route.event
          /\ \A j \in DOMAIN queue : Expiring(queue[j]) /\ queue[j].route.event = u.route.event => i = j
          /\ Scheduled(u.route.event) \/ Erased(i, u.name, u.route)
      BY <2>2, <3>1 DEF RunningOK, QueuedCovered
    <3> HIDE DEF u
    <3>3. WillBeScheduled(u.route.event) \/ WillBeErased(i, u.name, u.route)
      BY <1>6, <3>1, <3>2
    <3>4. u.route.event # issued + 1
      BY <1>5, <3>1
    <3>5. ASSUME NEW j \in DOMAIN queue', Expiring(queue'[j]), queue'[j].route.event = u.route.event
          PROVE  i = j
      BY <1>3, <3>2, <3>4, <3>5
    <3>6. QED BY <3>1, <3>2, <3>3, <3>5
  <2>3. CASE i \notin DOMAIN queue
    <3>1. i = k + 1 /\ queue'[i].route.event = issued + 1 /\ \E x \in events' : x.id = issued + 1
      BY <2>1, <2>3
    <3>2. ~ InRib(issued + 1)
      BY <1>5, CarrierKinds DEF InRib
    <3>3. \A c \in commands : c.batch.route.event # issued + 1
      BY <1>5, CarrierKinds
    <3>4. \A j \in DOMAIN queue : queue'[j].route.event # issued + 1
      BY <1>3, <1>5, CarrierKinds
    <3>5. \A j \in DOMAIN queue' :
            Expiring(queue'[j]) /\ queue'[j].route.event = queue'[i].route.event => i = j
      BY <3>1, <3>4
    <3>6. QED BY <3>1, <3>2, <3>3, <3>5 DEF WillBeScheduled
  <2>4. QED BY <2>2, <2>3
<1>8. SentCovered'
  <2>1. SUFFICES ASSUME NEW c \in commands, Live(c), Expiring(c.batch)
                 PROVE  /\ ~ InRib(c.batch.route.event)
                        /\ \/ WillBeScheduled(c.batch.route.event)
                           \/ WillBeErased(0, c.batch.name, c.batch.route)
    BY <1>1, <1>2 DEF SentCovered, InRib, Expiring, Scheduled, Erased, Erases, Live,
                            WillBeScheduled, WillBeErased
  <2>2. /\ ~ InRib(c.batch.route.event) /\ c.batch.route.event # NoEvent
        /\ Scheduled(c.batch.route.event) \/ Erased(0, c.batch.name, c.batch.route)
        /\ <<c.batch.name, c.batch.route>> \in Carriers
    BY <2>1, CarrierKinds DEF RunningOK, SentCovered, Expiring
  <2>3. QED BY <1>3, <1>6, <2>2
<1>9. BatchOK'
  BY <1>1, <1>2 DEF RunningOK, BatchOK, OneBatch, BatchHere, UpdatesSent, Live
<1>10. Covered'
  <2>1. SUFFICES ASSUME NEW p \in DOMAIN rib, NEW r \in ToSet(rib[p].routes), r.face \in UpFaces,
                        r.event # NoEvent
                 PROVE  \/ WillBeScheduled(r.event) \/ WillBeErased(0, p, r)
                        \/ \E c \in commands : Erases(c.batch, p, r)
    <3>1. \A p, r : WillBeErased(0, p, r) => \E u \in ToSet(queue') : Erases(u, p, r)
      BY DEF WillBeErased, ToSet
    <3>2. QED BY <1>1, <1>2, <3>1 DEF Covered, Erases, WillBeScheduled
  <2>2. Scheduled(r.event) \/ Erased(0, p, r) \/ \E c \in commands : Erases(c.batch, p, r)
    <3>1. \A u \in ToSet(queue) : Erases(u, p, r) => Erased(0, p, r)
      BY <1>3 DEF Erased, ToSet
    <3>2. QED BY <2>1, <3>1 DEF RunningOK, Covered, Scheduled
  <2>3. <<p, r>> \in Carriers
    BY CarrierKinds
  <2>4. QED BY <1>3, <1>6, <2>1, <2>2, <2>3
<1>11. QED BY <1>7, <1>8, <1>9, <1>10 DEF RunningOK

(* The queue after k updates were taken from its head. *)
Shifted(k) ==
  /\ k \in {0, 1} /\ queue' \in Seq(Updates)
  /\ \A i \in DOMAIN queue' : i + k \in DOMAIN queue /\ queue'[i] = queue[i + k] /\ i \in Nat \ {0}
  /\ \A j \in DOMAIN queue : j > k => j - k \in DOMAIN queue'

LEMMA ShiftedErased ==
  ASSUME NEW k, Shifted(k), StateOK, NEW i \in Nat, NEW n, NEW r, Erased(i + k, n, r)
  PROVE  WillBeErased(i, n, r)
<1>1. PICK j \in DOMAIN queue : j > i + k /\ Erases(queue[j], n, r)
  BY DEF Erased
<1>2. k \in {0, 1} /\ j \in Nat
  BY DEF Shifted, StateOK, QueueOK
<1>3. j - k \in DOMAIN queue' /\ j - k > i /\ (j - k) + k = j
  BY <1>1, <1>2 DEF Shifted
<1>4. queue'[j - k] = queue[j]
  BY <1>3 DEF Shifted
<1>5. QED BY <1>1, <1>3, <1>4 DEF WillBeErased

LEMMA CancelledOnly ==
  ASSUME StateOK, NEW update, NEW x \in events, x \notin Cancelled(update)
  PROVE  \E r : /\ <<update.name, r>> \in RibCarriers /\ r.event = x.id
                /\ compareFaceIdAndOrigin(update.route, r)
<1>1. PICK r \in Existing(update) : x.id = r.event
  BY DEF Cancelled
<1>2. update.name \in DOMAIN rib /\ hasRoute(rib[update.name], update.route)
      /\ r = rib[update.name].routes[findRoute(rib[update.name], update.route)]
  BY <1>1 DEF Existing
<1>3. IsEntry(rib[update.name])
  BY <1>2 DEF StateOK, TreeOK, IsRib
<1>4. r \in ToSet(rib[update.name].routes) /\ compareFaceIdAndOrigin(r, update.route)
  BY <1>2, <1>3, RouteFound DEF ToSet
<1>5. <<update.name, r>> \in RibCarriers
  BY <1>2, <1>4, CarrierKinds
<1>6. QED BY <1>1, <1>4, <1>5 DEF compareFaceIdAndOrigin

(* The success of a batch, when no other batch is on its way. *)
LEMMA SuccessCovers ==
  ASSUME StateOK, RunningOK, fault = "none", NEW update \in Updates, Applied(update),
         <<update.name, update.route>> \in Carriers,
         NEW k, Shifted(k), \A j \in DOMAIN queue : j =< k => queue[j] = update,
         commands' \subseteq commands, UNCHANGED <<faceState, issued>>,
         \A c \in commands' : ~ Live(c)',
         \A c \in commands : Live(c) => c.batch = update,
         Expiring(update) => \A i \in DOMAIN queue' :
            Expiring(queue'[i]) => queue'[i].route.event # update.route.event,
         Expiring(update) /\ update.route.face \in UpFaces =>
            /\ ~ InRib(update.route.event)
            /\ Scheduled(update.route.event) \/ WillBeErased(0, update.name, update.route)
  PROVE  RunningOK'
<1>1. /\ OnlyChanged(rib, rib', update.name, update.route, update.action = "REGISTER")
      /\ events' = Cancelled(update) /\ events' \subseteq events
  BY DEF Applied, Cancelled
<1>2. UpFaces' = UpFaces
  BY DEF UpFaces
<1>3. ASSUME NEW p \in DOMAIN rib', NEW r \in ToSet(rib'[p].routes)
      PROVE  \/ update.action = "REGISTER" /\ p = update.name /\ r = update.route
             \/ <<p, r>> \in RibCarriers /\ ~ (p = update.name /\ compareFaceIdAndOrigin(update.route, r))
  BY <1>1, CarrierKinds DEF OnlyChanged
<1>4. RibCarriers' \subseteq RibCarriers \cup {<<update.name, update.route>>}
  BY <1>3 DEF RibCarriers
<1>5. Carriers' \subseteq Carriers
  <2>1. ASSUME NEW i \in DOMAIN queue' PROVE <<queue'[i].name, queue'[i].route>> \in Carriers
    BY CarrierKinds DEF Shifted
  <2>2. \A c \in commands' : <<c.batch.name, c.batch.route>> \in Carriers
    BY CarrierKinds
  <2>3. \A x \in events' : <<x.name, x.route>> \in Carriers
    BY <1>1, CarrierKinds
  <2>4. RibCarriers' \subseteq Carriers
    BY <1>4, CarrierKinds
  <2>5. Carriers' = RibCarriers' \cup {<<queue'[i].name, queue'[i].route>> : i \in DOMAIN queue'}
          \cup {<<c.batch.name, c.batch.route>> : c \in commands'} \cup {<<x.name, x.route>> : x \in events'}
    BY DEF Carriers
  <2>6. QED BY <2>1, <2>2, <2>3, <2>4, <2>5
<1>6. CarriersOK'
  BY <1>5, CarriersTyped, CarriersKept DEF RunningOK, FacesMove
<1>7. ASSUME NEW e, ~ InRib(e), Scheduled(e) PROVE WillBeScheduled(e)
  <2>1. PICK x \in events : x.id = e
    BY <1>7 DEF Scheduled
  <2>2. x \in Cancelled(update)
    <3>1. SUFFICES ASSUME x \notin Cancelled(update) PROVE FALSE
      OBVIOUS
    <3>2. PICK r : <<update.name, r>> \in RibCarriers /\ r.event = x.id
      BY <3>1, CancelledOnly
    <3>3. <<update.name, r>>[2].event = e
      BY <2>1, <3>2
    <3>4. QED BY <1>7, <3>2, <3>3 DEF InRib
  <2>3. QED BY <1>1, <2>1, <2>2 DEF WillBeScheduled
<1>8. QueuedCovered'
  <2>1. SUFFICES ASSUME NEW i \in DOMAIN queue', Expiring(queue'[i])
                 PROVE  /\ \A a \in RibCarriers' : a[2].event # queue'[i].route.event
                        /\ \A c \in commands' : Expiring(c.batch) => c.batch.route.event # queue'[i].route.event
                        /\ \A j \in DOMAIN queue' :
                             Expiring(queue'[j]) /\ queue'[j].route.event = queue'[i].route.event => i = j
                        /\ \/ WillBeScheduled(queue'[i].route.event)
                           \/ WillBeErased(i, queue'[i].name, queue'[i].route)
    BY DEF QueuedCovered, InRib, Expiring, Scheduled, Erased, Erases, WillBeScheduled, WillBeErased
  <2> DEFINE u == queue[i + k]
  <2>2. i + k \in DOMAIN queue /\ queue'[i] = u /\ Expiring(u) /\ i \in Nat
    BY <2>1 DEF Shifted
  <2>3. /\ ~ InRib(u.route.event)
        /\ \A c \in commands : Expiring(c.batch) => c.batch.route.event # u.route.event
        /\ \A j \in DOMAIN queue : Expiring(queue[j]) /\ queue[j].route.event = u.route.event => i + k = j
        /\ Scheduled(u.route.event) \/ Erased(i + k, u.name, u.route)
    BY <2>2 DEF RunningOK, QueuedCovered
  <2> HIDE DEF u
  <2>4. \A a \in RibCarriers' : a[2].event # u.route.event
    <3>1. SUFFICES ASSUME NEW a \in RibCarriers', a[2].event = u.route.event PROVE FALSE
      OBVIOUS
    <3>2. a = <<update.name, update.route>>
      BY <1>4, <2>3, <3>1 DEF InRib
    <3>3. a \notin RibCarriers
      BY <2>3, <3>1 DEF InRib
    <3>4. update.action = "REGISTER"
      <4>1. PICK p \in DOMAIN rib' : \E r \in ToSet(rib'[p].routes) : a = <<p, r>>
        BY DEF RibCarriers
      <4>2. PICK r \in ToSet(rib'[p].routes) : a = <<p, r>>
        BY <4>1
      <4>3. QED BY <1>3, <3>3, <4>2
    <3>5. Expiring(update) /\ update.route.event = u.route.event
      BY <2>2, <3>1, <3>2, <3>4 DEF Expiring
    <3>6. QED BY <2>1, <2>2, <3>5
  <2>5. \A j \in DOMAIN queue' :
          Expiring(queue'[j]) /\ queue'[j].route.event = u.route.event => i = j
    <3>1. SUFFICES ASSUME NEW j \in DOMAIN queue', Expiring(queue'[j]),
                          queue'[j].route.event = u.route.event
                   PROVE  i = j
      OBVIOUS
    <3>2. j + k \in DOMAIN queue /\ queue'[j] = queue[j + k] /\ j \in Nat /\ k \in {0, 1}
      BY DEF Shifted
    <3>3. i + k = j + k
      BY <2>3, <3>1, <3>2
    <3>4. QED BY <2>2, <3>2, <3>3
  <2>6. WillBeScheduled(u.route.event) \/ WillBeErased(i, u.name, u.route)
    BY <1>7, <2>2, <2>3, ShiftedErased
  <2>7. QED BY <2>2, <2>3, <2>4, <2>5, <2>6
<1>9. SentCovered' /\ BatchOK'
  BY DEF SentCovered, BatchOK, OneBatch
<1>10. Covered'
  <2>1. SUFFICES ASSUME NEW p \in DOMAIN rib', NEW r \in ToSet(rib'[p].routes), r.face \in UpFaces,
                        r.event # NoEvent
                 PROVE  WillBeScheduled(r.event) \/ WillBeErased(0, p, r)
    <3>1. \A p, r : WillBeErased(0, p, r) => \E u \in ToSet(queue') : Erases(u, p, r)
      BY DEF WillBeErased, ToSet
    <3>2. QED BY <1>2, <3>1 DEF Covered, Erases, WillBeScheduled
  <2>2. CASE update.action = "REGISTER" /\ p = update.name /\ r = update.route
    <3>1. Expiring(update)
      BY <2>1, <2>2 DEF Expiring
    <3>2. QED BY <1>7, <2>1, <2>2, <3>1
  <2>3. CASE <<p, r>> \in RibCarriers /\ ~ (p = update.name /\ compareFaceIdAndOrigin(update.route, r))
    <3>1. p \in DOMAIN rib /\ r \in ToSet(rib[p].routes) /\ <<p, r>> \in Carriers
      BY <2>3, CarrierKinds
    <3>2. ~ Erases(update, p, r)
      BY <2>3 DEF Erases
    <3>3. ASSUME NEW x \in events, x.id = r.event PROVE x \in events'
      <4>1. SUFFICES ASSUME x \notin Cancelled(update) PROVE FALSE
        BY <1>1
      <4>2. PICK r2 : /\ <<update.name, r2>> \in RibCarriers /\ r2.event = x.id
                      /\ compareFaceIdAndOrigin(update.route, r2)
        BY <4>1, CancelledOnly
      <4>3. <<update.name, r2>> \in Carriers
        BY <4>2, CarrierKinds
      <4>4. <<update.name, r2>>[2].event = <<p, r>>[2].event /\ <<p, r>>[2].event # NoEvent
        BY <2>1, <3>3, <4>2
      <4>5. <<update.name, r2>> = <<p, r>>
        BY <3>1, <4>3, <4>4 DEF RunningOK, CarriersOK, OneCarrier
      <4>6. QED BY <2>3, <4>2, <4>5
    <3>4. ASSUME NEW j \in DOMAIN queue, Erases(queue[j], p, r) PROVE WillBeErased(0, p, r)
      <4>1. j \in Nat /\ k \in {0, 1} /\ ~ (j =< k)
        BY <3>2, <3>4 DEF StateOK, QueueOK, Shifted
      <4>2. j > 0 + k
        BY <4>1
      <4>3. Erased(0 + k, p, r)
        BY <3>4, <4>2 DEF Erased
      <4>4. QED BY <4>3, ShiftedErased
    <3>5. ASSUME NEW c \in commands, Erases(c.batch, p, r) PROVE FALSE
      <4>1. Live(c)
        BY <2>1, <3>5 DEF Live, Erases, compareFaceIdAndOrigin
      <4>2. QED BY <3>2, <3>5, <4>1
    <3>6. \/ \E x \in events : x.id = r.event
          \/ \E j \in DOMAIN queue : Erases(queue[j], p, r)
          \/ \E c \in commands : Erases(c.batch, p, r)
      BY <2>1, <3>1 DEF RunningOK, Covered, ToSet
    <3>7. QED BY <3>3, <3>4, <3>5, <3>6 DEF WillBeScheduled
  <2>4. QED BY <1>3, <2>2, <2>3
<1>11. QED BY <1>6, <1>8, <1>9, <1>10 DEF RunningOK

LEMMA TailShifted ==
  ASSUME StateOK, queue # <<>>, queue' = Tail(queue)
  PROVE  /\ Shifted(1) /\ Head(queue) = queue[1] /\ Head(queue) \in Updates
         /\ 1 \in DOMAIN queue /\ \A j \in DOMAIN queue : j =< 1 => queue[j] = Head(queue)
<1>1. queue \in Seq(Updates) /\ Len(queue) \in Nat \ {0} /\ DOMAIN queue = 1 .. Len(queue)
  BY DEF StateOK, QueueOK
<1>2. /\ queue' \in Seq(Updates) /\ DOMAIN queue' = 1 .. Len(queue) - 1
      /\ \A i \in 1 .. Len(queue) - 1 : queue'[i] = queue[i + 1]
  BY <1>1
<1>3. Shifted(1)
  BY <1>1, <1>2 DEF Shifted
<1>4. QED BY <1>1, <1>3

(* A batch whose commands are sent, when none is on its way. *)
LEMMA SendingCovers ==
  ASSUME StateOK, RunningOK, fault = "none", NEW update \in Updates, NEW S, S # {},
         \A c \in commands : ~ Live(c),
         Shifted(1), update = queue[1], 1 \in DOMAIN queue, UNCHANGED <<rib, faceState, issued>>,
         commands' = commands \cup sendUpdates(S, update),
         batchFace' = update.route.face, \A x \in batchUpdates' : x.face = batchFace',
         batchUpdates' # {} => S = batchUpdates', batchUpdates' = {} => S = otherUpdates',
         events' = (IF update.action = "REGISTER" THEN events ELSE Cancelled(update))
  PROVE  RunningOK'
<1>1. UpFaces' = UpFaces /\ RibCarriers' = RibCarriers /\ events' \subseteq events
  BY DEF UpFaces, RibCarriers, Cancelled
<1>2. \A c \in commands' : c \in commands \/ (c \in sendUpdates(S, update) /\ c.batch = update)
  BY SentCommands
<1>3. \A y \in S : \E c \in commands' : c.batch = update /\ c.update = y
  <2>1. SUFFICES ASSUME NEW y \in S PROVE \E c \in commands' : c.batch = update /\ c.update = y
    OBVIOUS
  <2> DEFINE d == [batch |-> update, update |-> y, sent |-> y.action, nTimeouts |-> 0, answer |-> "none"]
  <2>2. d \in commands'
    BY DEF sendUpdates
  <2>3. d.batch = update /\ d.update = y
    OBVIOUS
  <2> HIDE DEF d
  <2>4. QED BY <2>2, <2>3
<1>4. Carriers' \subseteq Carriers
  <2>1. ASSUME NEW i \in DOMAIN queue' PROVE <<queue'[i].name, queue'[i].route>> \in Carriers
    BY CarrierKinds DEF Shifted
  <2>2. \A c \in commands' : <<c.batch.name, c.batch.route>> \in Carriers
    BY <1>2, CarrierKinds
  <2>3. \A x \in events' : <<x.name, x.route>> \in Carriers
    BY <1>1, CarrierKinds
  <2>4. RibCarriers' \subseteq Carriers
    BY <1>1, CarrierKinds
  <2>5. Carriers' = RibCarriers' \cup {<<queue'[i].name, queue'[i].route>> : i \in DOMAIN queue'}
          \cup {<<c.batch.name, c.batch.route>> : c \in commands'} \cup {<<x.name, x.route>> : x \in events'}
    BY DEF Carriers
  <2>6. QED BY <2>1, <2>2, <2>3, <2>4, <2>5
<1>5. CarriersOK'
  BY <1>4, CarriersTyped, CarriersKept DEF RunningOK, FacesMove
<1>6. ASSUME NEW e, ~ InRib(e), Scheduled(e) PROVE WillBeScheduled(e)
  <2>1. PICK x \in events : x.id = e
    BY <1>6 DEF Scheduled
  <2>2. x \in Cancelled(update)
    <3>1. SUFFICES ASSUME x \notin Cancelled(update) PROVE FALSE
      OBVIOUS
    <3>2. PICK r : <<update.name, r>> \in RibCarriers /\ r.event = x.id
      BY <3>1, CancelledOnly
    <3>3. <<update.name, r>>[2].event = e
      BY <2>1, <3>2
    <3>4. QED BY <1>6, <3>2, <3>3 DEF InRib
  <2>3. QED BY <2>1, <2>2 DEF WillBeScheduled
<1>7. Expiring(update) =>
        /\ ~ InRib(update.route.event)
        /\ \A j \in DOMAIN queue : Expiring(queue[j]) /\ queue[j].route.event = update.route.event => 1 = j
        /\ Scheduled(update.route.event) \/ Erased(1, update.name, update.route)
  BY DEF RunningOK, QueuedCovered
<1>8. QueuedCovered'
  <2>1. SUFFICES ASSUME NEW i \in DOMAIN queue', Expiring(queue'[i])
                 PROVE  /\ ~ InRib(queue'[i].route.event)
                        /\ \A c \in commands' : Expiring(c.batch) => c.batch.route.event # queue'[i].route.event
                        /\ \A j \in DOMAIN queue' :
                             Expiring(queue'[j]) /\ queue'[j].route.event = queue'[i].route.event => i = j
                        /\ \/ WillBeScheduled(queue'[i].route.event)
                           \/ WillBeErased(i, queue'[i].name, queue'[i].route)
    BY <1>1 DEF QueuedCovered, InRib, Expiring, Scheduled, Erased, Erases, WillBeScheduled, WillBeErased
  <2> DEFINE u == queue[i + 1]
  <2>2. i + 1 \in DOMAIN queue /\ queue'[i] = u /\ Expiring(u) /\ i \in Nat \ {0}
    BY <2>1 DEF Shifted
  <2>3. /\ ~ InRib(u.route.event)
        /\ \A c \in commands : Expiring(c.batch) => c.batch.route.event # u.route.event
        /\ \A j \in DOMAIN queue : Expiring(queue[j]) /\ queue[j].route.event = u.route.event => i + 1 = j
        /\ Scheduled(u.route.event) \/ Erased(i + 1, u.name, u.route)
    BY <2>2 DEF RunningOK, QueuedCovered
  <2> HIDE DEF u
  <2>4. \A c \in commands' : Expiring(c.batch) => c.batch.route.event # u.route.event
    BY <1>2, <2>2, <2>3
  <2>5. \A j \in DOMAIN queue' :
          Expiring(queue'[j]) /\ queue'[j].route.event = u.route.event => i = j
    <3>1. SUFFICES ASSUME NEW j \in DOMAIN queue', Expiring(queue'[j]),
                          queue'[j].route.event = u.route.event
                   PROVE  i = j
      OBVIOUS
    <3>2. j + 1 \in DOMAIN queue /\ queue'[j] = queue[j + 1] /\ j \in Nat
      BY DEF Shifted
    <3>3. i + 1 = j + 1
      BY <2>3, <3>1, <3>2
    <3>4. QED BY <2>2, <3>2, <3>3
  <2>6. WillBeScheduled(u.route.event) \/ WillBeErased(i, u.name, u.route)
    BY <1>6, <2>2, <2>3, ShiftedErased
  <2>7. QED BY <2>2, <2>3, <2>4, <2>5, <2>6
<1>9. \A c \in commands' : Live(c)' => c \in sendUpdates(S, update)
  BY <1>1, <1>2 DEF Live
<1>10. SentCovered'
  <2>1. SUFFICES ASSUME Expiring(update)
                 PROVE  /\ ~ InRib(update.route.event)
                        /\ WillBeScheduled(update.route.event) \/ WillBeErased(0, update.name, update.route)
    BY <1>1, <1>2, <1>9, SentCommands
       DEF SentCovered, InRib, Expiring, Scheduled, Erased, Erases, WillBeScheduled, WillBeErased
  <2>2. 0 \in Nat /\ 0 + 1 = 1
    OBVIOUS
  <2>3. QED BY <1>6, <1>7, <2>1, <2>2, ShiftedErased
<1>11. BatchOK'
  <2>1. OneBatch'
    BY <1>9, SentCommands DEF OneBatch
  <2>2. SUFFICES ASSUME NEW c \in sendUpdates(S, update)
                 PROVE  BatchHere(c)' /\ UpdatesSent(c)'
    BY <1>9, <2>1 DEF BatchOK
  <2>3. c.batch = update /\ c.answer = "none"
    BY SentCommands
  <2>4. BatchHere(c)'
    BY <2>3 DEF BatchHere
  <2>5. \A x \in batchUpdates' :
          x.face = batchFace' /\ \E d \in commands' : d.batch = c.batch /\ d.update = x
    BY <1>3, <2>3
  <2>6. \/ \E d \in commands' : d.batch = c.batch /\ d.update.face = batchFace'
        \/ \A x \in otherUpdates' : \E d \in commands' : d.batch = c.batch /\ d.update = x
    BY <1>3, <2>3, <2>5
  <2>7. UpdatesSent(c)'
    BY <2>5, <2>6 DEF UpdatesSent
  <2>8. QED BY <2>4, <2>7
<1>12. Covered'
  <2>1. SUFFICES ASSUME NEW p \in DOMAIN rib, NEW r \in ToSet(rib[p].routes), r.face \in UpFaces,
                        r.event # NoEvent
                 PROVE  \/ WillBeScheduled(r.event) \/ WillBeErased(0, p, r)
                        \/ \E c \in commands' : Erases(c.batch, p, r)
    <3>1. \A p, r : WillBeErased(0, p, r) => \E u \in ToSet(queue') : Erases(u, p, r)
      BY DEF WillBeErased, ToSet
    <3>2. QED BY <1>1, <3>1 DEF Covered, Erases, WillBeScheduled
  <2>2. <<p, r>> \in Carriers
    BY CarrierKinds
  <2>3. Erases(update, p, r) => \E c \in commands' : Erases(c.batch, p, r)
    BY <1>3
  <2>4. ASSUME NEW x \in events, x.id = r.event PROVE WillBeScheduled(r.event) \/ Erases(update, p, r)
    <3>1. CASE x \in events'
      BY <2>4, <3>1 DEF WillBeScheduled
    <3>2. CASE x \notin events'
      <4>1. update.action # "REGISTER" /\ x \notin Cancelled(update)
        BY <3>2
      <4>2. PICK r2 : /\ <<update.name, r2>> \in RibCarriers /\ r2.event = x.id
                      /\ compareFaceIdAndOrigin(update.route, r2)
        BY <4>1, CancelledOnly
      <4>3. <<update.name, r2>> \in Carriers
        BY <4>2, CarrierKinds
      <4>4. <<update.name, r2>>[2].event = <<p, r>>[2].event /\ <<p, r>>[2].event # NoEvent
        BY <2>1, <2>4, <4>2
      <4>5. <<update.name, r2>> = <<p, r>>
        BY <2>2, <4>3, <4>4 DEF RunningOK, CarriersOK, OneCarrier
      <4>6. QED BY <4>1, <4>2, <4>5 DEF Erases
    <3>3. QED BY <3>1, <3>2
  <2>5. ASSUME NEW j \in DOMAIN queue, Erases(queue[j], p, r)
        PROVE  WillBeErased(0, p, r) \/ Erases(update, p, r)
    <3>1. j \in Nat \ {0}
      BY DEF StateOK, QueueOK
    <3>2. CASE j = 1
      BY <2>5, <3>2
    <3>3. CASE j # 1
      <4>1. j > 0 + 1 /\ 0 \in Nat
        BY <3>1, <3>3
      <4>2. Erased(0 + 1, p, r)
        BY <2>5, <4>1 DEF Erased
      <4>3. QED BY <4>1, <4>2, ShiftedErased
    <3>4. QED BY <3>2, <3>3
  <2>6. \/ \E x \in events : x.id = r.event
        \/ \E j \in DOMAIN queue : Erases(queue[j], p, r)
        \/ \E c \in commands : Erases(c.batch, p, r)
    BY <2>1 DEF RunningOK, Covered, ToSet
  <2>7. QED BY <2>3, <2>4, <2>5, <2>6
<1>13. QED BY <1>5, <1>8, <1>10, <1>11, <1>12 DEF RunningOK

LEMMA SendBatchCovers ==
  ASSUME StateOK, RunningOK, BatchEnded, BatchEnded', SendBatch, fault' = "none"
  PROVE  RunningOK'
<1> DEFINE update == Head(queue)
           mine(u) == {x \in FibUpdates(u) : x.face = update.route.face}
           others(u) == FibUpdates(u) \ mine(u)
<1>1. fault = "none" /\ ~ inProgress /\ queue # <<>> /\ UNCHANGED <<faceState, issued>>
  BY DEF SendBatch, nfdVars
<1>2. PICK u \in computeUpdates(rib, update) :
        /\ queue' = Tail(queue) /\ batchFace' = update.route.face
        /\ batchUpdates' = mine(u) /\ otherUpdates' = others(u)
        /\ IF u.null
           THEN fault' = "null" /\ UNCHANGED <<rib, inProgress, events, commands>>
           ELSE IF FibUpdates(u) = {}
           THEN onFibUpdateSuccess(update, u.inherited) /\ UNCHANGED commands
           ELSE /\ inProgress' = TRUE
                /\ commands' = commands \cup sendUpdates(IF mine(u) # {} THEN mine(u) ELSE others(u), update)
                /\ events' = IF update.action = "REGISTER" THEN events ELSE Cancelled(update)
                /\ UNCHANGED <<rib, fault>>
  BY Zenon DEF SendBatch
<1>3. /\ Shifted(1) /\ update = queue[1] /\ update \in Updates
      /\ 1 \in DOMAIN queue /\ \A j \in DOMAIN queue : j =< 1 => queue[j] = update
  BY <1>1, <1>2, TailShifted
<1>4. \A c \in commands : ~ Live(c)
  BY <1>1 DEF BatchEnded, Live
<1>5. CASE onFibUpdateSuccess(update, u.inherited) /\ UNCHANGED commands
  <2> HIDE DEF update
  <2>1. Applied(update)
    BY <1>3, <1>5, SuccessApplies DEF StateOK
  <2>2. inProgress' = FALSE /\ \A c \in commands' : ~ Live(c)'
    BY <1>1, <1>4, <1>5, <2>1 DEF Applied, Live, UpFaces
  <2>3. <<update.name, update.route>> \in Carriers
    BY <1>3, CarrierKinds
  <2>4. Expiring(update) => \A i \in DOMAIN queue' :
          Expiring(queue'[i]) => queue'[i].route.event # update.route.event
    <3>1. SUFFICES ASSUME Expiring(update), NEW i \in DOMAIN queue', Expiring(queue'[i]),
                          queue'[i].route.event = update.route.event
                   PROVE  FALSE
      OBVIOUS
    <3>2. i + 1 \in DOMAIN queue /\ queue'[i] = queue[i + 1] /\ i \in Nat \ {0}
      BY <1>3 DEF Shifted
    <3>3. 1 = i + 1
      BY <1>3, <3>1, <3>2 DEF RunningOK, QueuedCovered
    <3>4. QED BY <3>2, <3>3
  <2>5. Expiring(update) =>
          /\ ~ InRib(update.route.event)
          /\ Scheduled(update.route.event) \/ WillBeErased(0, update.name, update.route)
    <3>1. Expiring(update) =>
            /\ ~ InRib(update.route.event)
            /\ Scheduled(update.route.event) \/ Erased(1, update.name, update.route)
      BY <1>3 DEF RunningOK, QueuedCovered
    <3>2. 0 \in Nat /\ 0 + 1 = 1
      OBVIOUS
    <3>3. QED BY <1>3, <3>1, <3>2, ShiftedErased
  <2>6. commands' \subseteq commands /\ \A c \in commands : Live(c) => c.batch = update
    BY <1>4, <1>5
  <2>7. QED BY <1>1, <1>3, <2>1, <2>2, <2>3, <2>4, <2>5, <2>6, SuccessCovers
<1>6. CASE /\ FibUpdates(u) # {}
           /\ commands' = commands \cup sendUpdates(IF mine(u) # {} THEN mine(u) ELSE others(u), update)
           /\ events' = IF update.action = "REGISTER" THEN events ELSE Cancelled(update)
           /\ UNCHANGED <<rib, fault>>
  <2> DEFINE S == IF mine(u) # {} THEN mine(u) ELSE others(u)
  <2>1. /\ S # {} /\ \A x \in batchUpdates' : x.face = batchFace'
        /\ batchUpdates' # {} => S = batchUpdates'
        /\ batchUpdates' = {} => S = otherUpdates'
    BY <1>2, <1>6
  <2>2. /\ commands' = commands \cup sendUpdates(S, update) /\ batchFace' = update.route.face
        /\ events' = (IF update.action = "REGISTER" THEN events ELSE Cancelled(update))
        /\ UNCHANGED <<rib, faceState, issued>>
    BY <1>1, <1>2, <1>6
  <2> HIDE DEF S, update
  <2>3. QED BY <1>1, <1>3, <1>4, <2>1, <2>2, SendingCovers
<1>7. QED BY <1>2, <1>5, <1>6

(* An answer that leaves the batch under way, or ends it in failure. *)
LEMMA AnswerCovers ==
  ASSUME StateOK, RunningOK, BatchEnded', NEW c \in commands, Answered(c), fault' = "none"
  PROVE  RunningOK'
<1>1. /\ fault = "none" /\ UNCHANGED <<queue, batchFace, issued, faceState>>
      /\ c.batch \in Updates
  BY DEF Answered, onUpdateSuccess, onUpdateError, Waiting, nfdVars, StateOK, CommandsOK, IsCommand
<1>2. UpFaces' = UpFaces /\ \A d : Live(d)' <=> Live(d)
  BY <1>1 DEF UpFaces, Live
<1>3. Live(c) => BatchHere(c) /\ UpdatesSent(c) /\ \A d \in commands : Live(d) => d.batch = c.batch
  BY DEF RunningOK, BatchOK, OneBatch
(* The batch is applied. *)
<1>4. CASE onFibUpdateSuccess(c.batch, inherited) /\ commands' = commands \ {c}
  <2>1. Applied(c.batch)
    BY <1>1, <1>4, SuccessApplies DEF StateOK
  <2>2. \A d \in commands' : ~ Live(d)'
    BY <1>2, <2>1 DEF Applied, BatchEnded, Live
  <2>3. \A d \in commands : Live(d) => d.batch = c.batch
    BY <1>2, <1>4, <2>2
  <2>4. Shifted(0)
    <3>1. queue \in Seq(Updates) /\ DOMAIN queue \subseteq Nat \ {0}
      BY DEF StateOK, QueueOK
    <3>2. QED BY <1>1, <3>1 DEF Shifted
  <2>5. \A j \in DOMAIN queue : j =< 0 => queue[j] = c.batch
    BY DEF StateOK, QueueOK
  <2>6. <<c.batch.name, c.batch.route>> \in Carriers
    BY CarrierKinds
  <2>7. Expiring(c.batch) => \A i \in DOMAIN queue' :
          Expiring(queue'[i]) => queue'[i].route.event # c.batch.route.event
    BY <1>1 DEF RunningOK, QueuedCovered
  <2>8. Expiring(c.batch) /\ c.batch.route.face \in UpFaces =>
          /\ ~ InRib(c.batch.route.event)
          /\ Scheduled(c.batch.route.event) \/ WillBeErased(0, c.batch.name, c.batch.route)
    BY <1>1 DEF RunningOK, SentCovered, Live, Erased, WillBeErased
  <2> DEFINE update == c.batch
  <2> HIDE DEF update
  <2>9. commands' \subseteq commands
    BY <1>4
  <2>10. QED BY <1>1, <2>1, <2>2, <2>3, <2>4, <2>5, <2>6, <2>7, <2>8, <2>9, SuccessCovers
(* No more than the commands change. *)
<1>5. ASSUME UNCHANGED <<rib, events>>, BatchOK',
             \A d \in commands' : \E b \in commands : d.batch = b.batch,
             \A d \in commands : Live(d) => \E b \in commands' : b.batch = d.batch
      PROVE  RunningOK'
  BY <1>1, <1>5, CommandStepCovers DEF OnlyCommands, RunningOK
(* The batch fails. *)
<1>6. CASE /\ c.answer = "410" /\ c.update.face = batchFace /\ commands' = commands \ {c}
           /\ inProgress' = FALSE /\ UNCHANGED <<rib, events, otherUpdates, batchUpdates>>
  <2>1. ~ Live(c)
    BY <1>3, <1>6 DEF BatchHere
  <2>2. \A d \in commands' : ~ Live(d)'
    BY <1>2, <1>6 DEF BatchEnded, Live
  <2>3. \A d \in commands : ~ Live(d)
    BY <1>2, <1>6, <2>1, <2>2
  <2>4. BatchOK'
    BY <2>2 DEF BatchOK, OneBatch
  <2>5. QED BY <1>5, <1>6, <2>3, <2>4
(* The batch goes on with the other faces. *)
<1>7. CASE /\ c.update.face = batchFace /\ batchUpdates' = {} /\ otherUpdates # {}
           /\ commands' = (commands \ {c}) \cup sendUpdates(otherUpdates, c.batch)
           /\ UNCHANGED <<rib, events, otherUpdates>>
  <2>1. \A y \in otherUpdates : \E d \in commands' : d.batch = c.batch /\ d.update = y
    <3>1. SUFFICES ASSUME NEW y \in otherUpdates PROVE \E d \in commands' : d.batch = c.batch /\ d.update = y
      OBVIOUS
    <3> DEFINE d == [batch |-> c.batch, update |-> y, sent |-> y.action, nTimeouts |-> 0, answer |-> "none"]
    <3>2. d \in commands'
      BY <1>7 DEF sendUpdates
    <3>3. d.batch = c.batch /\ d.update = y
      OBVIOUS
    <3> HIDE DEF d
    <3>4. QED BY <3>2, <3>3
  <2>2. \A d \in commands' : (d \in commands /\ d # c) \/ (d \in sendUpdates(otherUpdates, c.batch) /\ d.batch = c.batch)
    BY <1>1, <1>7, SentCommands
  <2>3. \A d \in commands' : \E b \in commands : d.batch = b.batch
    BY <2>2
  <2>4. \A d \in commands : Live(d) => \E b \in commands' : b.batch = d.batch
    BY <1>7, <2>1
  <2>5. OneBatch'
    BY <1>2, <2>3 DEF OneBatch, RunningOK, BatchOK, Live
  <2>6. ASSUME NEW d \in commands', Live(d)' PROVE BatchHere(d)' /\ UpdatesSent(d)'
    <3>1. Live(d)
      BY <1>2, <2>6
    <3>2. BatchHere(d)'
      <4>1. CASE d \in commands
        <5>1. BatchHere(d)
          BY <3>1, <4>1 DEF RunningOK, BatchOK
        <5>2. QED BY <1>1, <5>1 DEF BatchHere
      <4>2. CASE d \in sendUpdates(otherUpdates, c.batch)
        <5>1. d.batch = c.batch /\ d.answer = "none"
          BY <1>1, <4>2, SentCommands
        <5>2. Live(c)
          BY <3>1, <5>1 DEF Live
        <5>3. QED BY <1>1, <1>3, <5>1, <5>2 DEF BatchHere
      <4>3. QED BY <2>2, <4>1, <4>2
    <3>3. \/ \E b \in commands' : b.batch = d.batch /\ b.update.face = batchFace
          \/ \A y \in otherUpdates : \E b \in commands' : b.batch = d.batch /\ b.update = y
      <4>1. CASE d.batch = c.batch
        BY <2>1, <4>1
      <4>2. CASE d.batch # c.batch
        <5>1. d \in commands /\ UpdatesSent(d)
          BY <1>1, <2>2, <3>1, <4>2 DEF RunningOK, BatchOK
        <5>2. \A b \in commands : b.batch = d.batch => b \in commands'
          BY <1>7, <4>2
        <5>3. QED BY <5>1, <5>2 DEF UpdatesSent
      <4>3. QED BY <4>1, <4>2
    <3>4. UpdatesSent(d)'
      BY <1>1, <1>7, <3>3 DEF UpdatesSent
    <3>5. QED BY <3>2, <3>4
  <2>7. BatchOK'
    BY <2>5, <2>6 DEF BatchOK
  <2>8. QED BY <1>5, <1>7, <2>3, <2>4, <2>7
(* Other commands of the batch are still to be answered. *)
<1>8. CASE /\ commands' = commands \ {c} /\ UNCHANGED <<rib, events>>
           /\ \/ /\ c.update.face = batchFace /\ batchUpdates' = batchUpdates \ {c.update}
                 /\ batchUpdates' # {} /\ UNCHANGED otherUpdates
              \/ /\ c.update.face # batchFace /\ otherUpdates' = otherUpdates \ {c.update}
                 /\ otherUpdates' # {} /\ UNCHANGED batchUpdates
  <2>1. \A d \in commands' : d \in commands /\ \E b \in commands : d.batch = b.batch
    BY <1>8
  <2>2. ASSUME NEW d \in commands, Live(d)
        PROVE  (\E b \in commands' : b.batch = d.batch) /\ UpdatesSent(d)'
    <3>1. UpdatesSent(d)
      BY <2>2 DEF RunningOK, BatchOK
    <3>2. \A x \in batchUpdates' :
            x.face = batchFace /\ \E b \in commands' : b.batch = d.batch /\ b.update = x
      <4>1. \A x \in batchUpdates' : x \in batchUpdates /\ x # c.update
        <5>1. CASE c.update.face = batchFace
          BY <1>8, <5>1
        <5>2. CASE c.update.face # batchFace
          BY <1>8, <3>1, <5>2 DEF UpdatesSent
        <5>3. QED BY <5>1, <5>2
      <4>2. QED BY <1>8, <3>1, <4>1 DEF UpdatesSent
    <3>3. \/ \E b \in commands' : b.batch = d.batch /\ b.update.face = batchFace
          \/ \A y \in otherUpdates' : \E b \in commands' : b.batch = d.batch /\ b.update = y
      <4>1. CASE c.update.face = batchFace
        BY <1>8, <3>2, <4>1
      <4>2. CASE c.update.face # batchFace
        BY <1>8, <3>1, <4>2 DEF UpdatesSent
      <4>3. QED BY <4>1, <4>2
    <3>4. \E b \in commands' : b.batch = d.batch
      BY <1>8, <3>2, <3>3
    <3>5. QED BY <1>1, <3>2, <3>3, <3>4 DEF UpdatesSent
  <2>3. \A d \in commands' : Live(d)' => BatchHere(d)'
    BY <1>1, <1>2, <2>1 DEF RunningOK, BatchOK, BatchHere
  <2>4. OneBatch'
    BY <1>2, <2>1 DEF OneBatch, RunningOK, BatchOK, Live
  <2>5. BatchOK'
    BY <1>2, <2>1, <2>2, <2>3, <2>4 DEF BatchOK
  <2>6. QED BY <1>5, <1>8, <2>1, <2>2, <2>5
<1>9. QED
  BY <1>4, <1>6, <1>7, <1>8 DEF Answered, onUpdateSuccess, onUpdateError, AfterBatchFace, AfterOtherFace

LEMMA ReplacementCovers ==
  ASSUME StateOK, RunningOK, fault = "none", NEW c \in commands, Replaced(c), fault' = "none"
  PROVE  RunningOK'
<1>1. PICK d : ReplacedBy(c, d)
  BY DEF Replaced
<1>2. /\ commands' = (commands \ {c}) \cup {d} /\ d.batch = c.batch /\ d.update = c.update
      /\ UNCHANGED <<rib, queue, events, issued, inProgress, batchFace, batchUpdates, otherUpdates, faceState>>
      /\ d.answer = "410" => c.update.face \notin UpFaces
  BY <1>1 DEF ReplacedBy
<1>3. UpFaces' = UpFaces /\ \A b : Live(b)' <=> Live(b)
  BY <1>2 DEF UpFaces, Live
<1>4. \A b \in commands' : \E a \in commands : b.batch = a.batch /\ b.update = a.update
  BY <1>2
<1>5. \A a \in commands : \E b \in commands' : b.batch = a.batch /\ b.update = a.update
  BY <1>2
<1>6. OneBatch'
  BY <1>3, <1>4 DEF OneBatch, RunningOK, BatchOK, Live
<1>7. ASSUME NEW b \in commands', Live(b)' PROVE BatchHere(b)' /\ UpdatesSent(b)'
  <2>1. PICK a \in commands : b.batch = a.batch /\ b.update = a.update /\ (b = a \/ (a = c /\ b = d))
    BY <1>2
  <2>2. Live(a) /\ BatchHere(a) /\ UpdatesSent(a)
    BY <1>3, <1>7, <2>1 DEF Live, RunningOK, BatchOK
  <2>3. BatchHere(b)'
    <3>1. CASE b = a
      BY <1>2, <2>2, <3>1 DEF BatchHere
    <3>2. CASE a = c /\ b = d
      <4>1. c.batch.route.face \in UpFaces /\ batchFace = c.batch.route.face
        BY <2>2, <3>2 DEF Live, BatchHere
      <4>2. d.answer = "410" => c.update.face # batchFace
        BY <1>2, <4>1
      <4>3. QED BY <1>2, <3>2, <4>1, <4>2 DEF BatchHere
    <3>3. QED BY <2>1, <3>1, <3>2
  <2>4. UpdatesSent(b)'
    BY <1>2, <1>5, <2>1, <2>2 DEF UpdatesSent
  <2>5. QED BY <2>3, <2>4
<1>8. BatchOK'
  BY <1>6, <1>7 DEF BatchOK
<1>9. CarriersOK' /\ QueuedCovered' /\ SentCovered' /\ Covered'
  BY <1>2, <1>4, <1>5, CommandStepCovers DEF OnlyCommands
<1>10. QED BY <1>8, <1>9 DEF RunningOK

LEMMA AppendGrows ==
  ASSUME StateOK, NEW u \in Updates, queue' = Append(queue, u)
  PROVE  /\ Grown(Len(queue)) /\ DOMAIN queue' \ DOMAIN queue = {Len(queue) + 1}
         /\ queue'[Len(queue) + 1] = u
<1>1. queue \in Seq(Updates) /\ Len(queue) \in Nat /\ DOMAIN queue = 1 .. Len(queue)
  BY DEF StateOK, QueueOK
<1>2. /\ queue' \in Seq(Updates) /\ DOMAIN queue' = 1 .. Len(queue) + 1
      /\ \A i \in 1 .. Len(queue) : queue'[i] = queue[i]
      /\ queue'[Len(queue) + 1] = u
  BY <1>1
<1>3. QED BY <1>1, <1>2 DEF Grown

LEMMA CarriersGrown ==
  ASSUME StateOK, CarriersOK, NEW n, NEW r, Carriers' \subseteq Carriers \cup {<<n, r>>},
         r.event = NoEvent \/ r.event = issued + 1, faceState[r.face] # "new",
         issued' = issued + 1, UNCHANGED faceState
  PROVE  CarriersOK'
<1>1. issued \in Nat /\ NoEvent \notin Nat
  BY RibManagerAssumption DEF StateOK
<1>2. \A a \in Carriers : a[2].event = NoEvent \/ (a[2].event \in Nat /\ a[2].event =< issued)
  BY CarriersTyped DEF CarriersOK, Issued
<1>3. OneCarrier'
  BY <1>1, <1>2 DEF CarriersOK, OneCarrier
<1>4. Issued'
  BY <1>1, <1>2 DEF Issued
<1>5. FacesKnown'
  BY DEF CarriersOK, FacesKnown
<1>6. QED BY <1>3, <1>4, <1>5 DEF CarriersOK

(* One more update in the queue, and perhaps an event of it. *)
LEMMA CarriersOfAppend ==
  ASSUME StateOK, NEW u \in Updates, queue' = Append(queue, u), UNCHANGED <<rib, commands>>,
         \A x \in events' : x \in events \/ (x.name = u.name /\ x.route = u.route)
  PROVE  Carriers' \subseteq Carriers \cup {<<u.name, u.route>>}
<1>1. RibCarriers' = RibCarriers
  BY DEF RibCarriers
<1>2. \A i \in DOMAIN queue' : queue'[i] = u \/ (i \in DOMAIN queue /\ queue'[i] = queue[i])
  BY AppendGrows DEF Grown
<1>3. Carriers' = RibCarriers' \cup {<<queue'[i].name, queue'[i].route>> : i \in DOMAIN queue'}
        \cup {<<c.batch.name, c.batch.route>> : c \in commands'} \cup {<<x.name, x.route>> : x \in events'}
  BY DEF Carriers
<1>4. \A i \in DOMAIN queue' : <<queue'[i].name, queue'[i].route>> \in Carriers \cup {<<u.name, u.route>>}
  BY <1>2, CarrierKinds
<1>5. \A x \in events' : <<x.name, x.route>> \in Carriers \cup {<<u.name, u.route>>}
  BY CarrierKinds
<1>6. QED BY <1>1, <1>3, <1>4, <1>5, CarrierKinds

LEMMA RegisterCovers ==
  ASSUME StateOK, RunningOK, NEW q \in Requests, registerEntry(q)
  PROVE  RunningOK'
<1> DEFINE route == [q.route EXCEPT !.event = IF q.expires THEN issued + 1 ELSE NoEvent]
           x == [id |-> issued + 1, name |-> q.name, route |-> route]
           u == [id |-> issued + 1, action |-> "REGISTER", name |-> q.name, route |-> route]
<1>1. /\ q.name \in Names /\ issued \in Nat /\ issued' = issued + 1 /\ q.expires \in BOOLEAN
      /\ fault = "none" /\ faceState[q.route.face] # "new"
  BY RibManagerAssumption DEF Names, StateOK, registerEntry, Arrives, Waiting
<1>2. /\ route \in Routes /\ route.face = q.route.face
      /\ route.event = (IF q.expires THEN issued + 1 ELSE NoEvent)
  <2> DEFINE e == IF q.expires THEN issued + 1 ELSE NoEvent
  <2>0. issued + 1 \in Nat
    BY <1>1
  <2>1. e \in Nat \cup {NoEvent}
    BY <2>0, Zenon
  <2> HIDE DEF e
  <2>2. LET r == [q.route EXCEPT !.event = e] IN r \in Routes /\ r.face = q.route.face /\ r.event = e
    BY <2>1, RouteStamped
  <2> QED
    BY <2>2, Zenon DEF e
<1>3. /\ events' = events \cup (IF q.expires THEN {x} ELSE {})
      /\ queue' = Append(queue, u)
      /\ UNCHANGED <<rib, commands, inProgress, batchFace, batchUpdates, otherUpdates, faceState>>
  BY DEF registerEntry, addUpdateToQueue, nfdVars
<1> HIDE DEF route
<1>4. x.id = issued + 1 /\ x.name = q.name /\ x.route = route
  OBVIOUS
<1>5. u \in Updates /\ u.name = q.name /\ u.route = route
  BY <1>1, <1>2 DEF Updates
<1> HIDE DEF x, u
<1>6. Carriers' \subseteq Carriers \cup {<<u.name, u.route>>}
  BY <1>3, <1>4, <1>5, CarriersOfAppend
<1>7. CarriersOK'
  BY <1>1, <1>2, <1>3, <1>5, <1>6, CarriersGrown DEF RunningOK
<1>8. /\ Grown(Len(queue)) /\ DOMAIN queue' \ DOMAIN queue = {Len(queue) + 1}
      /\ queue'[Len(queue) + 1] = u
  BY <1>3, <1>5, AppendGrows
<1>9. Expiring(u) => u.route.event = issued + 1 /\ \E z \in events' : z.id = issued + 1
  BY <1>2, <1>3, <1>4, <1>5 DEF Expiring
<1>10. events \ events' = {}
  BY <1>3
<1>11. QED BY <1>1, <1>3, <1>7, <1>8, <1>9, <1>10, QueueStepCovers DEF OnlyQueue

LEMMA UnregisterCovers ==
  ASSUME StateOK, RunningOK, NEW q \in Requests, unregisterEntry(q)
  PROVE  RunningOK'
<1> DEFINE u == [id |-> issued + 1, action |-> "UNREGISTER", name |-> q.name, route |-> q.route]
<1>1. /\ q.name \in Names /\ issued \in Nat /\ issued' = issued + 1
      /\ fault = "none" /\ faceState[q.route.face] # "new"
  BY RibManagerAssumption DEF Names, StateOK, unregisterEntry, Arrives, Waiting
<1>2. q.route \in Routes /\ q.route.event = NoEvent
  BY RibManagerAssumption DEF Routes
<1>3. /\ events' = events /\ queue' = Append(queue, u)
      /\ UNCHANGED <<rib, commands, inProgress, batchFace, batchUpdates, otherUpdates, faceState>>
  BY DEF unregisterEntry, addUpdateToQueue, nfdVars
<1>4. u \in Updates /\ u.name = q.name /\ u.route = q.route /\ ~ Expiring(u)
  BY <1>1, <1>2 DEF Updates, Expiring
<1> HIDE DEF u
<1>5. Carriers' \subseteq Carriers \cup {<<u.name, u.route>>}
  BY <1>3, <1>4, CarriersOfAppend
<1>6. CarriersOK'
  BY <1>1, <1>2, <1>3, <1>4, <1>5, CarriersGrown DEF RunningOK
<1>7. /\ Grown(Len(queue)) /\ DOMAIN queue' \ DOMAIN queue = {Len(queue) + 1}
      /\ queue'[Len(queue) + 1] = u
  BY <1>3, <1>4, AppendGrows
<1>8. QED BY <1>1, <1>3, <1>4, <1>6, <1>7, QueueStepCovers DEF OnlyQueue

LEMMA ExpirationCovers ==
  ASSUME StateOK, RunningOK, NEW x \in events, onRouteExpiration(x)
  PROVE  RunningOK'
<1> DEFINE u == [id |-> 0 - x.id, action |-> "UNREGISTER", name |-> x.name, route |-> x.route]
<1>1. x.name \in Names /\ x.route \in Routes /\ 0 - x.id \in Int /\ fault = "none"
  BY DEF StateOK, EventsOK, IsEvent, onRouteExpiration, Waiting
<1>2. /\ events' = events \ {x} /\ queue' = Append(queue, u) /\ issued' = issued
      /\ UNCHANGED <<rib, commands, inProgress, batchFace, batchUpdates, otherUpdates, faceState>>
  BY DEF onRouteExpiration, addUpdateToQueue, nfdVars
<1>3. /\ u \in Updates /\ u.name = x.name /\ u.route = x.route /\ ~ Expiring(u)
      /\ Erases(u, x.name, x.route)
  BY <1>1 DEF Updates, Expiring, Erases, compareFaceIdAndOrigin
<1> HIDE DEF u
<1>4. Carriers' \subseteq Carriers
  <2>1. Carriers' \subseteq Carriers \cup {<<u.name, u.route>>}
    BY <1>2, <1>3, CarriersOfAppend
  <2>2. QED BY <1>3, <2>1, CarrierKinds
<1>5. CarriersOK'
  BY <1>2, <1>4, CarriersTyped, CarriersKept DEF RunningOK, FacesMove
<1>6. /\ Grown(Len(queue)) /\ DOMAIN queue' \ DOMAIN queue = {Len(queue) + 1}
      /\ queue'[Len(queue) + 1] = u
  BY <1>2, <1>3, AppendGrows
<1>7. events \ events' = {x}
  BY <1>2
<1>8. QED BY <1>1, <1>2, <1>3, <1>5, <1>6, <1>7, QueueStepCovers DEF OnlyQueue

LEMMA FaceRemovalCovers ==
  ASSUME StateOK, RunningOK, NEW f, onFaceDestroyedEvent(f)
  PROVE  RunningOK'
<1>1. PICK more \in Seq(Updates) :
        /\ queue' = queue \o more
        /\ \A i \in DOMAIN more :
             /\ more[i].action = "REMOVE_FACE"
             /\ more[i].name \in DOMAIN rib /\ more[i].route \in ToSet(rib[more[i].name].routes)
  BY FaceRemovalQueued DEF StateOK
<1>2. /\ fault = "none" /\ issued' = issued /\ events' = events
      /\ UNCHANGED <<rib, commands, inProgress, batchFace, batchUpdates, otherUpdates, faceState>>
  BY DEF onFaceDestroyedEvent, Waiting, nfdVars
<1>3. /\ queue \in Seq(Updates) /\ Len(queue) \in Nat /\ DOMAIN queue = 1 .. Len(queue)
      /\ Len(more) \in Nat /\ DOMAIN more = 1 .. Len(more)
  BY DEF StateOK, QueueOK
<1>4. /\ queue' \in Seq(Updates) /\ DOMAIN queue' = 1 .. Len(queue) + Len(more)
      /\ \A i \in DOMAIN queue' : queue'[i] = IF i =< Len(queue) THEN queue[i] ELSE more[i - Len(queue)]
  BY <1>1, <1>3, ConcatProperties
<1>5. Grown(Len(queue))
  BY <1>3, <1>4 DEF Grown
<1>6. \A i \in DOMAIN queue' \ DOMAIN queue :
        i - Len(queue) \in DOMAIN more /\ queue'[i] = more[i - Len(queue)]
  BY <1>3, <1>4
<1>7. \A i \in DOMAIN queue' \ DOMAIN queue :
        ~ Expiring(queue'[i]) /\ <<queue'[i].name, queue'[i].route>> \in Carriers
  BY <1>1, <1>6, CarrierKinds DEF Expiring
<1>8. Carriers' \subseteq Carriers
  <2>1. RibCarriers' = RibCarriers
    BY <1>2 DEF RibCarriers
  <2>2. Carriers' = RibCarriers' \cup {<<queue'[i].name, queue'[i].route>> : i \in DOMAIN queue'}
          \cup {<<c.batch.name, c.batch.route>> : c \in commands'} \cup {<<x.name, x.route>> : x \in events'}
    BY DEF Carriers
  <2>3. \A i \in DOMAIN queue' : <<queue'[i].name, queue'[i].route>> \in Carriers
    BY <1>5, <1>7, CarrierKinds DEF Grown
  <2>4. QED BY <1>2, <2>1, <2>2, <2>3, CarrierKinds
<1>9. CarriersOK'
  BY <1>2, <1>8, CarriersTyped, CarriersKept DEF RunningOK, FacesMove
<1>10. QED BY <1>2, <1>5, <1>7, <1>9, QueueStepCovers DEF OnlyQueue

LEMMA StepKeepsExpiryInv ==
  ASSUME ExpiryInv, BatchEnded, BatchEnded', [RibNext]_ribVars
  PROVE  ExpiryInv'
<1>1. StateOK' /\ FacesOK' /\ FacesMove
  BY StepKeepsState, StepMovesFaces DEF ExpiryInv
<1>2. SUFFICES ASSUME fault' = "none" PROVE RunningOK'
  BY <1>1 DEF ExpiryInv
<1>3. StateOK /\ (fault = "none" => RunningOK)
  BY DEF ExpiryInv
<1>4. CASE FaceSteps \/ UNCHANGED ribVars
  <2>1. fault = "none"
    BY <1>2, <1>4 DEF FaceSteps, FaceCreated, FaceDestroyed, fetchActiveFaces, removeInvalidFaces,
                      onFetchFaceStatusTimeout, Waiting, ribVars, daemonVars
  <2>2. QED BY <1>1, <1>3, <1>4, <2>1, FaceStepsOnlyFaces, FaceStepCovers
<1>5. ASSUME NEW q \in Requests, registerEntry(q) \/ unregisterEntry(q) PROVE RunningOK'
  <2>1. fault = "none"
    BY <1>5 DEF registerEntry, unregisterEntry, Arrives, Waiting
  <2>2. QED BY <1>3, <1>5, <2>1, RegisterCovers, UnregisterCovers
<1>6. ASSUME NEW x \in events, onRouteExpiration(x) PROVE RunningOK'
  <2>1. fault = "none"
    BY <1>6 DEF onRouteExpiration, Waiting
  <2>2. QED BY <1>3, <1>6, <2>1, ExpirationCovers
<1>7. CASE SendBatch
  <2>1. fault = "none"
    BY <1>7 DEF SendBatch
  <2>2. QED BY <1>2, <1>3, <1>7, <2>1, SendBatchCovers
<1>8. ASSUME NEW c \in commands, NfdExecutes(c) \/ Answered(c) \/ onUpdateTimeout(c) PROVE RunningOK'
  <2>1. fault = "none"
    BY <1>8 DEF NfdExecutes, Answered, onUpdateSuccess, onUpdateError, onUpdateTimeout, Waiting
  <2>2. CASE Answered(c)
    BY <1>2, <1>3, <2>1, <2>2, AnswerCovers
  <2>3. CASE NfdExecutes(c) \/ onUpdateTimeout(c)
    <3>1. Replaced(c)
      BY <1>3, <2>3, ExecutionReplaces, TimeoutReplaces DEF StateOK
    <3>2. QED BY <1>2, <1>3, <2>1, <3>1, ReplacementCovers
  <2>4. QED BY <1>8, <2>2, <2>3
<1>9. ASSUME NEW f \in RibFaces, onFaceDestroyedEvent(f) PROVE RunningOK'
  <2>1. fault = "none"
    BY <1>9 DEF onFaceDestroyedEvent, Waiting
  <2>2. QED BY <1>3, <1>9, <2>1, FaceRemovalCovers
<1>10. QED BY <1>4, <1>5, <1>6, <1>7, <1>8, <1>9 DEF RibNext, FaceSteps

(* As long as batches end before others start, every route with an expiration *)
(* that is in the RIB on a face that exists will be erased: its event is      *)
(* scheduled, or an update that erases it is queued or under way              *)
(* (RibManager::registerEntry, Rib::insert, Rib::erase, onRouteExpiration).   *)
THEOREM ExpiryStaysCovered == RibSpec => ExpiryCovered
<1>1. ExpiryInv => Covered
  BY DEF ExpiryInv, RunningOK, Covered
<1>2. QED BY <1>1, InitExpiryInv, StepKeepsExpiryInv, PTL DEF RibSpec, ExpiryCovered

=============================================================================

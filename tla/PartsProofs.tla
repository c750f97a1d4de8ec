----------------------------- MODULE PartsProofs -----------------------------
(***************************************************************************)
(* Proofs about parts that stand by themselves: the remote registrator     *)
(* (RemoteRegistrator), fragmentation and reassembly (Ndnlp), one stream   *)
(* face (StreamFace), and the configuration and the threads of the daemon  *)
(* (Daemon).                                                               *)
(***************************************************************************)
EXTENDS RemoteRegistrator, Ndnlp, Daemon, StreamFace,
        SequenceTheorems, FiniteSetTheorems, WellFoundedInduction, TLAPS

(***************************************************************************)
(* The remote registrator.                                                 *)
(*                                                                         *)
(* OneRefresh is not inductive as it stands: to schedule an event for an   *)
(* entry whose event is marked as past must not make a second one.  The    *)
(* events are exactly those that the entries know of.                      *)
(***************************************************************************)
Scheduled(entries) == {n \in DOMAIN entries : entries[n] = TRUE}

RefreshesKnown ==
  /\ regEntries \in [DOMAIN regEntries -> BOOLEAN]
  /\ refreshes = SetToBag(Scheduled(regEntries))

RrInv == RefreshesKnown /\ ribEntries \subseteq RibNames

(* Bags that are sets. *)
LEMMA BagWithout ==
  ASSUME NEW S, NEW x
  PROVE  SetToBag(S) (-) SetToBag({x}) = SetToBag(S \ {x})
<1> DEFINE B == [e \in S |-> IF e \in {x} THEN 1 - 1 ELSE 1]
<1>1. SetToBag(S) (-) SetToBag({x}) = [e \in {d \in S : B[d] > 0} |-> B[e]]
  BY DEF SetToBag, (-)
<1>2. {d \in S : B[d] > 0} = S \ {x}
  OBVIOUS
<1>3. \A e \in S \ {x} : B[e] = 1
  OBVIOUS
<1> HIDE DEF B
<1> QED
  BY <1>1, <1>2, <1>3 DEF SetToBag

LEMMA BagWith ==
  ASSUME NEW S, NEW x, x \notin S
  PROVE  SetToBag(S) (+) SetToBag({x}) = SetToBag(S \cup {x})
  BY DEF SetToBag, (+)

(* Cancelling the event of a name, if it has one, leaves those of the others. *)
LEMMA CancelledLeaves ==
  ASSUME RefreshesKnown, NEW n \in DOMAIN regEntries
  PROVE  cancelled(n) = SetToBag(Scheduled(regEntries) \ {n})
<1>1. regEntries[n] \in BOOLEAN
  BY DEF RefreshesKnown
<1>2. CASE regEntries[n] = TRUE
  BY <1>2, BagWithout DEF cancelled, RefreshesKnown
<1>3. CASE regEntries[n] = FALSE
  <2>1. Scheduled(regEntries) \ {n} = Scheduled(regEntries)
    BY <1>3 DEF Scheduled
  <2> QED
    BY <1>3, <2>1 DEF cancelled, RefreshesKnown
<1> QED
  BY <1>1, <1>2, <1>3

(* onRegSuccess leaves the entry with one event, whether it had one or none,  *)
(* or was not there.                                                          *)
LEMMA SuccessKeeps ==
  ASSUME RefreshesKnown, NEW c, onRegSuccess(c)
  PROVE  RefreshesKnown'
<1> DEFINE n == c.name
           before == IF n \in DOMAIN regEntries THEN cancelled(n) ELSE refreshes
<1>1. /\ regEntries' = [m \in DOMAIN regEntries \cup {n} |-> IF m = n THEN TRUE ELSE regEntries[m]]
      /\ refreshes' = before (+) SetToBag({n})
  BY DEF onRegSuccess
<1>2. before = SetToBag(Scheduled(regEntries) \ {n})
  <2>1. CASE n \in DOMAIN regEntries
    BY <2>1, CancelledLeaves
  <2>2. CASE n \notin DOMAIN regEntries
    <3>1. Scheduled(regEntries) \ {n} = Scheduled(regEntries)
      BY <2>2 DEF Scheduled
    <3> QED
      BY <2>2, <3>1 DEF RefreshesKnown
  <2> QED
    BY <2>1, <2>2
<1> HIDE DEF before, n
<1>3. refreshes' = SetToBag((Scheduled(regEntries) \ {n}) \cup {n})
  BY <1>1, <1>2, BagWith
<1>4. /\ regEntries' \in [DOMAIN regEntries' -> BOOLEAN]
      /\ Scheduled(regEntries') = (Scheduled(regEntries) \ {n}) \cup {n}
  BY <1>1 DEF Scheduled, RefreshesKnown
<1> QED
  BY <1>3, <1>4 DEF RefreshesKnown

LEMMA RefreshKeeps ==
  ASSUME RefreshesKnown, NEW n, Refresh(n)
  PROVE  RefreshesKnown'
<1>1. /\ regEntries' = [m \in DOMAIN regEntries |-> m # n /\ regEntries[m]]
      /\ refreshes' = SetToBag(Scheduled(regEntries)) (-) SetToBag({n})
  BY DEF Refresh, RefreshesKnown
<1>2. refreshes' = SetToBag(Scheduled(regEntries) \ {n})
  BY <1>1, BagWithout
<1>3. /\ regEntries' \in [DOMAIN regEntries' -> BOOLEAN]
      /\ Scheduled(regEntries') = Scheduled(regEntries) \ {n}
  BY <1>1 DEF Scheduled, RefreshesKnown
<1> QED
  BY <1>2, <1>3 DEF RefreshesKnown

LEMMA UnregisterKeeps ==
  ASSUME RefreshesKnown, NEW i, NEW entries, unregisterIdentity(i, entries)
  PROVE  RefreshesKnown'
<1> DEFINE n == prefixForRegistration(i)
<1>1. CASE n \in DOMAIN regEntries /\ ~ keptForOthers(i, entries)
  <2>1. /\ regEntries' = [m \in DOMAIN regEntries \ {n} |-> regEntries[m]]
        /\ refreshes' = cancelled(n)
    BY <1>1 DEF unregisterIdentity
  <2> HIDE DEF n
  <2>2. refreshes' = SetToBag(Scheduled(regEntries) \ {n})
    BY <1>1, <2>1, CancelledLeaves
  <2>3. /\ regEntries' \in [DOMAIN regEntries' -> BOOLEAN]
        /\ Scheduled(regEntries') = Scheduled(regEntries) \ {n}
    BY <2>1 DEF Scheduled, RefreshesKnown
  <2> QED
    BY <2>2, <2>3 DEF RefreshesKnown
<1>2. CASE ~ (n \in DOMAIN regEntries /\ ~ keptForOthers(i, entries))
  <2>1. UNCHANGED <<regEntries, refreshes>>
    BY <1>2 DEF unregisterIdentity
  <2> QED
    BY <2>1 DEF RefreshesKnown
<1> QED
  BY <1>1, <1>2

LEMMA RrInitially == RrInit => RrInv
<1> SUFFICES ASSUME RrInit PROVE RrInv
  OBVIOUS
<1>1. regEntries = [n \in {} |-> TRUE] /\ refreshes = SetToBag({}) /\ ribEntries = {}
  BY DEF RrInit, EmptyBag
<1>2. Scheduled(regEntries) = {} /\ regEntries \in [DOMAIN regEntries -> BOOLEAN]
  BY <1>1 DEF Scheduled
<1> QED
  BY <1>1, <1>2 DEF RrInv, RefreshesKnown

LEMMA RrStep == RrInv /\ [RrNext]_rrVars => RrInv'
<1> SUFFICES ASSUME RrInv, [RrNext]_rrVars PROVE RrInv'
  OBVIOUS
<1>0. RefreshesKnown /\ ribEntries \subseteq RibNames
  BY DEF RrInv
<1>1. ASSUME UNCHANGED <<regEntries, refreshes, ribEntries>> PROVE RrInv'
  BY <1>0, <1>1 DEF RrInv, RefreshesKnown
<1>2. CASE UNCHANGED rrVars
  BY <1>1, <1>2 DEF rrVars
<1>3. CASE RibChanges
  <2>1. ASSUME NEW p \in RibNames \ ribEntries, registerPrefix(p) PROVE RrInv'
    <3>1. UNCHANGED <<regEntries, refreshes>> /\ ribEntries' = ribEntries \cup {p}
      BY <2>1 DEF registerPrefix
    <3> QED
      BY <1>0, <2>1, <3>1 DEF RrInv, RefreshesKnown
  <2>2. ASSUME NEW p \in ribEntries, unregisterPrefix(p) PROVE RrInv'
    <3>1. ribEntries' \subseteq RibNames
      BY <1>0, <2>2 DEF unregisterPrefix
    <3>2. CASE p = REMOTE_HUB_PREFIX
      <4>1. regEntries' = [n \in DOMAIN regEntries |-> FALSE] /\ refreshes' = SetToBag({})
        BY <2>2, <3>2 DEF unregisterPrefix, EmptyBag
      <4>2. Scheduled(regEntries') = {} /\ regEntries' \in [DOMAIN regEntries' -> BOOLEAN]
        BY <4>1 DEF Scheduled
      <4> QED
        BY <3>1, <4>1, <4>2 DEF RrInv, RefreshesKnown
    <3>3. CASE p # REMOTE_HUB_PREFIX
      <4>1. \/ UNCHANGED <<regEntries, refreshes>>
            \/ \E i \in findIdentityForRegistration(p) : unregisterIdentity(i, ribEntries')
        BY <2>2, <3>3 DEF unregisterPrefix
      <4>2. RefreshesKnown'
        BY <1>0, <4>1, UnregisterKeeps DEF RefreshesKnown
      <4> QED
        BY <3>1, <4>2 DEF RrInv
    <3> QED
      BY <3>2, <3>3
  <2> QED
    BY <1>3, <2>1, <2>2 DEF RibChanges
<1>4. ASSUME NEW c \in BagToSet(commands), HubHandles(c) \/ Succeeds(c) \/ Fails(c) PROVE RrInv'
  <2>1. CASE HubHandles(c)
    BY <1>1, <2>1 DEF HubHandles
  <2>2. CASE Succeeds(c)
    <3>1. ribEntries' = ribEntries /\ (onRegSuccess(c) \/ UNCHANGED <<regEntries, refreshes>>)
      BY <2>2 DEF Succeeds
    <3>2. CASE onRegSuccess(c)
      BY <1>0, <3>1, <3>2, SuccessKeeps DEF RrInv
    <3> QED
      BY <1>1, <3>1, <3>2
  <2>3. CASE Fails(c)
    BY <1>1, <2>3 DEF Fails
  <2> QED
    BY <1>4, <2>1, <2>2, <2>3
<1>5. ASSUME NEW n \in RegisteredNames, RefreshStep(n) PROVE RrInv'
  <2>1. Refresh(n) /\ ribEntries' = ribEntries
    BY <1>5 DEF RefreshStep, Refresh
  <2> QED
    BY <1>0, <2>1, RefreshKeeps DEF RrInv
<1> QED
  BY <1>2, <1>3, <1>4, <1>5 DEF RrNext

LEMMA RrInvariance == RrSpec => []RrInv
  BY RrInitially, RrStep, PTL DEF RrSpec

(* Every entry has at most the one refresh event that it knows of, however    *)
(* answers of registrations, refreshes, unregistrations and the loss of the   *)
(* hub overlap, for any identities, names and number of commands.             *)
THEOREM RefreshedOnce == RrSpec => []OneRefresh
<1>1. RrInv => OneRefresh
  BY DEF RrInv, RefreshesKnown, OneRefresh, Scheduled, SetToBag, BagToSet
<1> QED
  BY <1>1, RrInvariance, PTL

-----------------------------------------------------------------------------
(* A name is given up only when no entry needs it.  An entry may need the     *)
(* name for another identity than the one that is unregistered only if two    *)
(* identities stand for one name; but then the same one is found for both.    *)
Names == Seq(STRING)

Fit(p) ==
  {k \in DOMAIN Identities : Covers(Identities[k]) # <<>> /\ IsPrefix(Covers(Identities[k]), p)}
Longest(p) == {k \in Fit(p) : \A l \in Fit(p) : Len(Covers(Identities[l])) =< Len(Covers(Identities[k]))}

LEMMA CoversTyped ==
  ASSUME NEW k \in DOMAIN Identities
  PROVE  k \in Nat /\ Covers(Identities[k]) \in Names /\ Len(Covers(Identities[k])) \in Nat
<1>1. Identities[k] \in Names /\ k \in Nat
  BY RegistratorAssumption DEF Names
<1> DEFINE i == Identities[k]
<1> HIDE DEF i
<1>2. i # <<>> => Front(i) \in Names
  BY <1>1 DEF i, Front, Names
<1>3. Covers(i) \in Names
  BY <1>1, <1>2 DEF Covers, i
<1> QED
  BY <1>1, <1>3 DEF i, Names

LEMMA SamePrefix ==
  ASSUME NEW s \in Names, NEW t \in Names, NEW n \in Names,
         IsPrefix(s, n), IsPrefix(t, n), Len(s) = Len(t)
  PROVE  s = t
<1>1. Len(s) \in Nat /\ Len(s) =< Len(n)
  BY DEF Names, IsPrefix
<1>2. SubSeq(s, 1, Len(s)) = s /\ SubSeq(t, 1, Len(t)) = t
  BY DEF Names
<1> QED
  BY <1>1, <1>2 DEF IsPrefix

LEMMA LeastNatural ==
  ASSUME NEW S \in SUBSET Nat, S # {}
  PROVE  \E x \in S : \A y \in S : x =< y
<1> DEFINE R == OpToRel(<, Nat)
<1>1. IsWellFoundedOn(R, Nat)
  BY NatLessThanWellFounded
<1>2. \A x, y \in Nat : x < y => <<x, y>> \in R
  BY DEF OpToRel
<1> HIDE DEF R
<1>3. \E x \in S : \A y \in S : ~ (<<y, x>> \in R)
  BY <1>1, WFMin
<1>4. PICK x \in S : \A y \in S : ~ (<<y, x>> \in R)
  BY <1>3
<1>5. x \in Nat /\ \A y \in S : y \in Nat /\ ~ (y < x)
  BY <1>2, <1>4
<1> QED
  BY <1>5

LEMMA MinOfTwo ==
  ASSUME NEW a \in Int, NEW b \in Int
  PROVE  Min({a, b}) = IF a =< b THEN a ELSE b
<1> DEFINE m == IF a =< b THEN a ELSE b
<1>1. m \in {a, b} /\ \A y \in {a, b} : m =< y
  OBVIOUS
<1>2. \A x \in {a, b} : (\A y \in {a, b} : x =< y) => x = m
  OBVIOUS
<1> HIDE DEF m
<1>3. Min({a, b}) \in {a, b} /\ \A y \in {a, b} : Min({a, b}) =< y
  BY <1>1, Zenon DEF Min
<1>4. Min({a, b}) = m
  BY <1>2, <1>3, Zenon
<1> QED
  BY <1>4 DEF m

LEMMA LongestExists ==
  ASSUME NEW p \in Names, Fit(p) # {}
  PROVE  Longest(p) # {}
<1> DEFINE length(k) == Len(Covers(Identities[k]))
           gaps == {g \in Nat : \E k \in Fit(p) : g = Len(p) - length(k)}
<1>1. \A k \in Fit(p) : length(k) \in Nat /\ length(k) =< Len(p) /\ Len(p) \in Nat
  BY CoversTyped DEF Fit, IsPrefix, Names
<1> HIDE DEF length
<1>2. \A k \in Fit(p) : Len(p) - length(k) \in gaps
  BY <1>1
<1>3. gaps \in SUBSET Nat /\ gaps # {}
  BY <1>2
<1>4. PICK g \in gaps : \A h \in gaps : g =< h
  <2> HIDE DEF gaps
  <2> QED BY <1>3, LeastNatural
<1>5. PICK k \in Fit(p) : g = Len(p) - length(k)
  OBVIOUS
<1>6. ASSUME NEW l \in Fit(p) PROVE length(l) =< length(k)
  <2>1. g =< Len(p) - length(l)
    BY <1>2, <1>4
  <2>2. length(l) \in Nat /\ length(k) \in Nat /\ Len(p) \in Nat
    BY <1>1
  <2> QED
    BY <1>5, <2>1, <2>2
<1> QED
  BY <1>6 DEF Longest, length

(* The identities of the longest names are those of one name. *)
LEMMA LongestOfOneName ==
  ASSUME NEW p \in Names, NEW k \in Longest(p)
  PROVE  Longest(p) = {l \in DOMAIN Identities : Covers(Identities[l]) = Covers(Identities[k])}
<1> DEFINE name(l) == Covers(Identities[l])
<1>1. k \in Fit(p) /\ \A l \in Fit(p) : Len(name(l)) =< Len(name(k))
  BY DEF Longest
<1>2. \A l \in DOMAIN Identities : name(l) \in Names /\ Len(name(l)) \in Nat
  BY CoversTyped
<1>3. \A l \in Fit(p) : l \in DOMAIN Identities /\ IsPrefix(name(l), p)
  BY DEF Fit
<1>4. ASSUME NEW l \in Longest(p) PROVE l \in DOMAIN Identities /\ name(l) = name(k)
  <2>1. l \in Fit(p) /\ Len(name(k)) =< Len(name(l))
    BY <1>1 DEF Longest
  <2>2. Len(name(l)) = Len(name(k))
    BY <1>1, <1>2, <1>3, <2>1
  <2> HIDE DEF name
  <2> QED
    BY <1>1, <1>2, <1>3, <2>1, <2>2, SamePrefix
<1>5. ASSUME NEW l \in DOMAIN Identities, name(l) = name(k) PROVE l \in Longest(p)
  BY <1>1, <1>5 DEF Longest, Fit
<1> QED
  BY <1>4, <1>5

LEMMA IdentityFound ==
  ASSUME NEW p \in Names, NEW i \in findIdentityForRegistration(p)
  PROVE  /\ findIdentityForRegistration(p) = {i}
         /\ Min(Longest(p)) \in Longest(p) /\ i = Identities[Min(Longest(p))]
         /\ IsPrefix(prefixForRegistration(i), p)
<1>1. findIdentityForRegistration(p) = IF Fit(p) = {} THEN {} ELSE {Identities[Min(Longest(p))]}
  BY DEF findIdentityForRegistration, Fit, Longest
<1>2. Fit(p) # {} /\ i = Identities[Min(Longest(p))]
  BY <1>1
<1>3. Longest(p) \in SUBSET Nat /\ Longest(p) # {}
  BY <1>2, LongestExists, CoversTyped DEF Longest, Fit
<1>4. Min(Longest(p)) \in Longest(p)
  BY <1>3, LeastNatural DEF Min
<1> QED
  BY <1>1, <1>2, <1>4 DEF Longest, Fit, prefixForRegistration

(* Where the longest name is the same, so is the identity. *)
LEMMA OneIdentity ==
  ASSUME NEW p \in Names, NEW q \in Names,
         NEW i \in findIdentityForRegistration(p), NEW j \in findIdentityForRegistration(q),
         prefixForRegistration(i) = prefixForRegistration(j)
  PROVE  i = j
<1> DEFINE k == Min(Longest(p))
           l == Min(Longest(q))
<1>1. k \in Longest(p) /\ l \in Longest(q) /\ i = Identities[k] /\ j = Identities[l]
  BY IdentityFound
<1>2. Covers(Identities[k]) = Covers(Identities[l])
  BY <1>1 DEF prefixForRegistration
<1>3. Longest(p) = Longest(q)
  <2> HIDE DEF k, l
  <2> QED BY <1>1, <1>2, LongestOfOneName
<1> QED
  BY <1>1, <1>3

LEMMA UnregisterGivesUp ==
  ASSUME NEW p \in Names, NEW i \in findIdentityForRegistration(p),
         NEW entries \in SUBSET Names, ~ keptForOthers(i, entries)
  PROVE  prefixForRegistration(i) \notin Needed(entries)
<1> SUFFICES ASSUME prefixForRegistration(i) \in Needed(entries) PROVE FALSE
  OBVIOUS
<1>1. PICK q \in entries : \E j \in findIdentityForRegistration(q) :
        prefixForRegistration(i) = prefixForRegistration(j)
  BY DEF Needed
<1>2. PICK j \in findIdentityForRegistration(q) : prefixForRegistration(i) = prefixForRegistration(j)
  BY <1>1
<1>3. i = j
  BY <1>2, OneIdentity
<1>4. findIdentityForRegistration(q) = {i} /\ IsPrefix(prefixForRegistration(i), q)
  BY <1>2, <1>3, IdentityFound
<1> QED
  BY <1>4 DEF keptForOthers

LEMMA GivingUpStep == RrInv /\ [RrNext]_rrVars => [GivenUpUnneeded]_rrVars
<1> SUFFICES ASSUME RrInv, RrNext PROVE GivenUpUnneeded
  OBVIOUS
<1>1. ASSUME DOMAIN regEntries \subseteq DOMAIN regEntries' PROVE GivenUpUnneeded
  BY <1>1 DEF GivenUpUnneeded
<1>2. ASSUME NEW p \in RibNames \ ribEntries, registerPrefix(p) PROVE GivenUpUnneeded
  BY <1>1, <1>2 DEF registerPrefix
<1>3. ASSUME NEW p \in ribEntries, unregisterPrefix(p) PROVE GivenUpUnneeded
  <2>1. p \in Names /\ ribEntries' \in SUBSET Names
    BY <1>3, RegistratorAssumption DEF RrInv, Names, unregisterPrefix
  <2>2. CASE p = REMOTE_HUB_PREFIX
    <3>1. regEntries' = [n \in DOMAIN regEntries |-> FALSE]
      BY <1>3, <2>2 DEF unregisterPrefix
    <3> QED
      BY <1>1, <3>1
  <2>3. ASSUME NEW i \in findIdentityForRegistration(p), unregisterIdentity(i, ribEntries')
        PROVE  GivenUpUnneeded
    <3> DEFINE n == prefixForRegistration(i)
    <3>1. CASE n \in DOMAIN regEntries /\ ~ keptForOthers(i, ribEntries')
      <4>1. regEntries' = [m \in DOMAIN regEntries \ {n} |-> regEntries[m]]
        BY <2>3, <3>1 DEF unregisterIdentity
      <4>2. n \notin Needed(ribEntries')
        BY <2>1, <3>1, UnregisterGivesUp
      <4> HIDE DEF n
      <4> QED
        BY <4>1, <4>2 DEF GivenUpUnneeded
    <3>2. CASE ~ (n \in DOMAIN regEntries /\ ~ keptForOthers(i, ribEntries'))
      <4>1. UNCHANGED regEntries
        BY <2>3, <3>2 DEF unregisterIdentity
      <4> QED
        BY <1>1, <4>1
    <3> QED
      BY <3>1, <3>2
  <2>4. CASE p # REMOTE_HUB_PREFIX
    <3>1. \/ UNCHANGED regEntries
          \/ \E i \in findIdentityForRegistration(p) : unregisterIdentity(i, ribEntries')
      BY <1>3, <2>4 DEF unregisterPrefix
    <3> QED
      BY <1>1, <2>3, <3>1
  <2> QED
    BY <2>2, <2>4
<1>4. ASSUME NEW c \in BagToSet(commands), HubHandles(c) \/ Succeeds(c) \/ Fails(c)
      PROVE  GivenUpUnneeded
  <2>1. \/ UNCHANGED regEntries
        \/ regEntries' = [n \in DOMAIN regEntries \cup {c.name} |->
                            IF n = c.name THEN TRUE ELSE regEntries[n]]
    BY <1>4 DEF HubHandles, Succeeds, Fails, onRegSuccess
  <2> QED
    BY <1>1, <2>1
<1>5. ASSUME NEW n \in RegisteredNames, RefreshStep(n) PROVE GivenUpUnneeded
  <2>1. regEntries' = [m \in DOMAIN regEntries |-> m # n /\ regEntries[m]]
    BY <1>5 DEF RefreshStep, Refresh
  <2> QED
    BY <1>1, <2>1
<1> QED
  BY <1>2, <1>3, <1>4, <1>5 DEF RrNext, RibChanges

(* The safety part of RegistrationHeals: unregisterPrefix gives a name up     *)
(* only when no entry of the RIB is left that it was registered for, also     *)
(* where two identities stand for one name.                                   *)
THEOREM GivenUpOnlyUnneeded == RrSpec => [][GivenUpUnneeded]_rrVars
  BY RrInvariance, GivingUpStep, PTL DEF RrSpec

-----------------------------------------------------------------------------
(***************************************************************************)
(* Fragmentation.                                                          *)
(*                                                                         *)
(* What a fragment takes beside its payload grows with the payload and     *)
(* with the index and the count.  estimateOverhead takes it for a payload  *)
(* of a whole MTU and the largest numbers, so that it bounds the overhead  *)
(* of every fragment, at every point where a length takes more octets.     *)
(***************************************************************************)
(* What a frame on the link says: a count that a uint16_t holds, and no more  *)
(* payload than the estimate leaves room for.                                 *)
IsUint16(n) == n \in Nat /\ n < 65536
FieldsOK(fields) == fields = <<>> \/ \E n, i : IsUint16(n) /\ IsUint16(i) /\ fields = <<i, n>>
SizeOK(size, mtu) == size \in Int /\ size =< maxPayload(mtu)
FrameOK(f, mtu) == FieldsOK(f.fields) /\ SizeOK(f.payload.size, mtu)

LpInv == link \in Links /\ \A f \in frames : FrameOK(f, link.mtu)

(* The overhead of a TLV grows with its length. *)
LEMMA TlvGrows ==
  ASSUME NEW a \in Int, NEW b \in Int, a =< b
  PROVE  /\ Tlv(a) \in Int /\ Tlv(b) \in Int
         /\ Tlv(a) - a =< Tlv(b) - b /\ Tlv(a) =< Tlv(b) /\ Tlv(a) > a
  BY DEF Tlv, VarNumber

LEMMA NumbersAreShort ==
  ASSUME NEW n, IsUint16(n)
  PROVE  Tlv(NonNegativeInteger(n)) \in Int /\ Tlv(NonNegativeInteger(n)) =< 4
  BY DEF Tlv, VarNumber, NonNegativeInteger, IsUint16

LEMMA OverheadBounds ==
  ASSUME NEW mtu \in Int, NEW size \in Int, size =< mtu,
         NEW n, IsUint16(n), NEW i, IsUint16(i)
  PROVE  /\ encodeFragment(i, n, size) \in Int /\ encodeFragment(65534, 65535, mtu) \in Int
         /\ encodeFragment(i, n, size) - size =< encodeFragment(65534, 65535, mtu) - mtu
         /\ encodeFragment(65534, 65535, mtu) > mtu
<1> DEFINE numbers == IF n > 1 THEN Tlv(NonNegativeInteger(n)) + Tlv(NonNegativeInteger(i)) ELSE 0
           inner == Tlv(size) + Tlv(8) + numbers
           largest == Tlv(mtu) + Tlv(8) + 8
<1>1. Tlv(8) = 10
  BY DEF Tlv, VarNumber
<1>2. numbers \in Int /\ numbers =< 8
  <2>1. n \in Nat
    BY DEF IsUint16
  <2> QED
    BY <2>1, NumbersAreShort
<1>3. encodeFragment(i, n, size) = Tlv(inner)
  BY DEF encodeFragment
<1>4. encodeFragment(65534, 65535, mtu) = Tlv(largest)
  <2>1. Tlv(NonNegativeInteger(65535)) = 4 /\ Tlv(NonNegativeInteger(65534)) = 4
    BY DEF Tlv, VarNumber, NonNegativeInteger
  <2>2. encodeFragment(65534, 65535, mtu) = Tlv(Tlv(mtu) + Tlv(8) + (4 + 4))
    BY <2>1 DEF encodeFragment
  <2> QED
    BY <2>2
<1>5. /\ Tlv(size) \in Int /\ Tlv(mtu) \in Int
      /\ Tlv(size) - size =< Tlv(mtu) - mtu /\ Tlv(mtu) > mtu /\ Tlv(size) =< Tlv(mtu)
  BY TlvGrows
<1> HIDE DEF numbers
<1>6. /\ inner \in Int /\ largest \in Int /\ inner =< largest
      /\ inner - size =< largest - mtu /\ largest > mtu
  BY <1>1, <1>2, <1>5
<1> HIDE DEF inner, largest
<1>7. /\ Tlv(inner) \in Int /\ Tlv(largest) \in Int
      /\ Tlv(inner) - inner =< Tlv(largest) - largest /\ Tlv(largest) > largest
  BY <1>6, TlvGrows
<1> QED
  BY <1>3, <1>4, <1>6, <1>7

LEMMA EncodedFits ==
  ASSUME NEW mtu \in Nat, NEW size, SizeOK(size, mtu), NEW n, IsUint16(n), NEW i, IsUint16(i)
  PROVE  encodeFragment(i, n, size) =< mtu
<1> DEFINE largest == encodeFragment(65534, 65535, mtu)
           encoded == encodeFragment(i, n, size)
<1>1. size \in Int /\ size =< mtu - (largest - mtu)
  BY DEF maxPayload, SizeOK
<1>2. largest \in Int /\ largest > mtu
  <2>1. IsUint16(0) /\ mtu \in Int /\ mtu =< mtu
    BY DEF IsUint16
  <2> QED
    BY <2>1, OverheadBounds
<1>3. size =< mtu
  <2> HIDE DEF largest
  <2> QED BY <1>1, <1>2
<1>4. encoded \in Int /\ encoded - size =< largest - mtu
  <2>1. size \in Int /\ mtu \in Int
    BY <1>1
  <2> QED
    BY <1>3, <2>1, OverheadBounds
<1> HIDE DEF largest, encoded
<1>5. encoded =< mtu
  BY <1>1, <1>2, <1>4
<1> QED
  BY <1>5 DEF encoded

LEMMA FramesFit ==
  ASSUME NEW mtu \in Nat, NEW f, FrameOK(f, mtu)
  PROVE  frameSize(f) =< mtu
<1> DEFINE index == IF f.fields = <<>> THEN 0 ELSE f.fields[1]
           count == IF f.fields = <<>> THEN 1 ELSE f.fields[2]
           size == f.payload.size
<1>1. frameSize(f) = encodeFragment(index, count, size)
  BY DEF frameSize, fromBlock
<1>2. IsUint16(index) /\ IsUint16(count)
  <2>1. FieldsOK(f.fields)
    BY DEF FrameOK
  <2>2. CASE f.fields = <<>>
    <3>1. index = 0 /\ count = 1
      BY <2>2
    <3> QED
      BY <3>1 DEF IsUint16
  <2>3. ASSUME NEW n, IsUint16(n), NEW i, IsUint16(i), f.fields = <<i, n>>
        PROVE  index = i /\ count = n
    <3> DEFINE fields == f.fields
    <3>1. fields = <<i, n>> 
      BY <2>3
    <3> HIDE DEF fields
    <3>2. fields # <<>> /\ fields[1] = i /\ fields[2] = n
      BY <3>1
    <3> QED
      BY <3>2 DEF fields
  <2> HIDE DEF index, count
  <2> QED
    BY <2>1, <2>2, <2>3 DEF FieldsOK
<1>3. SizeOK(size, mtu)
  BY DEF FrameOK
<1> HIDE DEF index, count, size
<1> QED
  BY <1>1, <1>2, <1>3, EncodedFits

LEMMA PayloadRoom ==
  ASSUME NEW l \in Links
  PROVE  maxPayload(l.mtu) \in Nat /\ maxPayload(l.mtu) > 0
<1> DEFINE mtu == l.mtu
<1>1. mtu \in Nat /\ maxPayload(mtu) > 0
  BY LinkAssumption
<1> HIDE DEF mtu
<1>2. encodeFragment(65534, 65535, mtu) \in Int
  <2>1. IsUint16(0) /\ mtu \in Int /\ mtu =< mtu
    BY <1>1 DEF IsUint16
  <2> QED
    BY <2>1, OverheadBounds
<1>3. maxPayload(mtu) \in Int
  BY <1>1, <1>2 DEF maxPayload
<1>4. maxPayload(mtu) \in Nat
  BY <1>1, <1>3
<1> QED
  BY <1>1, <1>4 DEF mtu

LEMMA PayloadBounds ==
  ASSUME NEW l \in Links, NEW size \in Nat, NEW k \in Nat
  PROVE  SizeOK(Min({maxPayload(l.mtu), size - (k - 1) * maxPayload(l.mtu)}), l.mtu)
<1> DEFINE mtu == l.mtu
           m == maxPayload(mtu)
           x == size - (k - 1) * m
<1>2. m \in Int
  BY PayloadRoom
<1> HIDE DEF mtu
<1> HIDE DEF m
<1>3. x \in Int
  <2>1. (k - 1) * m \in Int
    BY <1>2
  <2> QED
    BY <2>1
<1> HIDE DEF x
<1>4. \E a \in {m, x} : \A b \in {m, x} : a =< b
  BY <1>2, <1>3
<1>5. Min({m, x}) \in {m, x} /\ Min({m, x}) =< m
  BY <1>4 DEF Min
<1>6. Min({m, x}) \in Int /\ Min({m, x}) =< m
  BY <1>2, <1>3, <1>5
<1>7. SizeOK(Min({m, x}), mtu)
  BY <1>6 DEF SizeOK, m
<1> QED
  BY <1>7 DEF m, x, mtu

LEMMA CountBounds ==
  ASSUME NEW l \in Links, NEW size \in Nat
  PROVE  Pieces(l.mtu, size) \in Nat /\ IsUint16(fragCount(l.mtu, size))
<1> DEFINE m == maxPayload(l.mtu)
           n == Pieces(l.mtu, size)
<1>1. n = size \div m + IF size % m = 0 THEN 0 ELSE 1
  BY DEF Pieces
<1>2. m \in Nat /\ m > 0
  BY PayloadRoom
<1> HIDE DEF m, n
<1>3. size \div m \in Nat
  BY <1>2
<1>4. n \in Nat
  BY <1>1, <1>3
<1>5. IsUint16(Uint16(n))
  BY <1>4 DEF IsUint16, Uint16
<1> QED
  BY <1>4, <1>5 DEF n, fragCount

(* Slicer::slice makes such frames only. *)
FragmentOK(f, mtu) ==
  /\ IsUint16(f.fragIndex) /\ IsUint16(f.fragCount)
  /\ SizeOK(f.payload.size, mtu)

HasSize(packet) == packet.size \in Nat

LEMMA SlicesOK ==
  ASSUME NEW l \in Links, NEW packet, HasSize(packet), NEW start
  PROVE  \A f \in ToSet(slice(l.mtu, packet, start)) : FragmentOK(f, l.mtu)
<1> DEFINE mtu == l.mtu
           size == packet.size
           n == fragCount(mtu, size)
<1>1. slice(mtu, packet, start) =
        [k \in 1 .. n |->
          [seq |-> (start + k - 1) % 2 ^ SeqBits, fragIndex |-> k - 1, fragCount |-> n,
           payload |-> payloadOf(mtu, packet, k - 1)]]
  BY Zenon DEF slice
<1>2. size \in Nat
  BY Zenon DEF HasSize
<1> HIDE DEF size
<1>3. IsUint16(n)
  BY <1>2, CountBounds, Zenon
<1> HIDE DEF n
<1> SUFFICES ASSUME NEW k \in 1 .. n PROVE FragmentOK(slice(mtu, packet, start)[k], mtu)
  <2>1. DOMAIN slice(mtu, packet, start) = 1 .. n
    BY <1>1, Zenon
  <2> QED
    BY <2>1, Zenon DEF ToSet
<1>4. k \in Nat /\ IsUint16(k - 1)
  BY <1>3 DEF IsUint16
<1> DEFINE m == maxPayload(mtu)
           least == Min({m, size - (k - 1) * m})
           p == payloadOf(mtu, packet, k - 1)
           f == slice(mtu, packet, start)[k]
<1>5. SizeOK(least, mtu)
  BY <1>2, <1>4, PayloadBounds, Zenon
<1>6. f = [seq |-> (start + k - 1) % 2 ^ SeqBits, fragIndex |-> k - 1, fragCount |-> n,
           payload |-> p]
  BY <1>1, Zenon
<1>7. p = [packet |-> packet, from |-> (k - 1) * m, size |-> least]
  BY Zenon DEF payloadOf, size
<1>8. p.size = least
  <2> HIDE DEF p, least, m
  <2> QED BY <1>7, Zenon
<1> HIDE DEF least, p
<1>9. f.fragIndex = k - 1 /\ f.fragCount = n /\ f.payload = p
  <2> HIDE DEF f
  <2> QED BY <1>6, Zenon
<1> HIDE DEF f
<1>10. FragmentOK(f, mtu)
  BY <1>3, <1>4, <1>5, <1>8, <1>9, Zenon DEF FragmentOK
<1> QED
  BY <1>10 DEF f

LEMMA FragmentsAreFrames ==
  ASSUME NEW s, NEW f, NEW mtu, FragmentOK(f, mtu)
  PROVE  FrameOK(sendPacket(s, f), mtu)
<1> DEFINE index == f.fragIndex
           count == f.fragCount
           fields == IF f.fragCount > 1 THEN <<index, count>> ELSE <<>>
<1>1. sendPacket(s, f).payload = f.payload /\ sendPacket(s, f).fields = fields
  BY DEF sendPacket
<1>2. IsUint16(index) /\ IsUint16(count) /\ SizeOK(f.payload.size, mtu)
  BY Zenon DEF FragmentOK
<1> HIDE DEF index, count
<1>3. FieldsOK(<<index, count>>) /\ FieldsOK(<<>>)
  BY <1>2, Zenon DEF FieldsOK
<1>4. FieldsOK(fields)
  BY <1>3, Zenon
<1> HIDE DEF fields
<1> QED
  BY <1>1, <1>2, <1>4, Zenon DEF FrameOK

LEMMA LpInvariance == LpSpec => []LpInv
<1>1. LpInit => LpInv
  BY DEF LpInit, LpInv
<1>2. LpInv /\ [LpNext]_lpVars => LpInv'
  <2> SUFFICES ASSUME LpInv, [LpNext]_lpVars PROVE LpInv'
    OBVIOUS
  <2>1. ASSUME link' = link, frames' \subseteq frames PROVE LpInv'
    BY <2>1 DEF LpInv
  <2>2. ASSUME NEW s \in Senders, NEW size \in link.sizes, Send(s, size) PROVE LpInv'
    <3> DEFINE packet == [sender |-> s, id |-> nSent, size |-> size]
               pa == slice(link.mtu, packet, next[s])
    <3>1. link' = link /\ frames' = frames \cup {sendPacket(s, f) : f \in ToSet(pa)}
      BY <2>2, Zenon DEF Send
    <3>2. link \in Links /\ HasSize(packet)
      BY LinkAssumption DEF LpInv, HasSize
    <3> HIDE DEF packet
    <3>3. \A f \in ToSet(pa) : FrameOK(sendPacket(s, f), link.mtu)
      BY <3>2, SlicesOK, FragmentsAreFrames, Zenon
    <3> HIDE DEF pa
    <3> QED
      BY <3>1, <3>3, Zenon DEF LpInv
  <2>3. ASSUME NEW f \in frames, Lose(f) \/ Duplicate(f) \/ Receive(f) PROVE LpInv'
    <3>1. CASE Lose(f)
      BY <2>1, <3>1 DEF Lose
    <3>2. CASE Duplicate(f)
      <4> DEFINE g == [f EXCEPT !.copy = copies + 1]
      <4>1. link' = link /\ frames' = frames \cup {g}
        BY <3>2, Zenon DEF Duplicate
      <4>2. g.fields = f.fields /\ g.payload = f.payload
        OBVIOUS
      <4> HIDE DEF g
      <4>3. FrameOK(g, link.mtu)
        BY <2>3, <4>2, Zenon DEF LpInv, FrameOK
      <4> QED
        BY <4>1, <4>3, Zenon DEF LpInv
    <3>3. CASE Receive(f)
      BY <2>1, <3>3 DEF Receive
    <3> QED
      BY <2>3, <3>1, <3>2, <3>3
  <2>4. ASSUME NEW e \in cleanupTimers, cleanup(e) PROVE LpInv'
    BY <2>1, <2>4 DEF cleanup
  <2>5. ASSUME NEW s, ReassemblerExpires(s) \/ SenderRestarts(s) PROVE LpInv'
    BY <2>1, <2>5 DEF ReassemblerExpires, SenderRestarts
  <2>6. CASE UNCHANGED lpVars
    BY <2>1, <2>6 DEF lpVars
  <2> QED
    BY <2>2, <2>3, <2>4, <2>5, <2>6 DEF LpNext
<1> QED
  BY <1>1, <1>2, PTL DEF LpSpec

(* The BOOST_VERIFY of Slicer::slice holds: for every MTU that leaves room    *)
(* for a payload, and every packet, no fragment is larger than the MTU.       *)
THEOREM FragmentsFit == LpSpec => []SlicesFit
<1>1. LpInv => SlicesFit
  BY FramesFit, LinkAssumption DEF LpInv, SlicesFit
<1> QED
  BY <1>1, LpInvariance, PTL

(***************************************************************************)
(* Reassembly.                                                             *)
(*                                                                         *)
(* DeliveredWhole rests on the sequence numbers: of the packets that have  *)
(* a frame on the link or a part in a store, no two of one sender begin    *)
(* with the same number.  The invariant keeps the first number of every    *)
(* packet that was sent; a context c holds these numbers (c.start), the    *)
(* packets (c.packets) and the MTU.                                        *)
(***************************************************************************)
Count(c, pk) == fragCount(c.mtu, pk.size)
Piece(c, pk, k) == payloadOf(c.mtu, pk, k - 1)
AllPieces(c, pk) == [k \in 1 .. Count(c, pk) |-> Piece(c, pk, k)]

Context(c) ==
  /\ \E l \in Links : c.mtu = l.mtu /\ c.packets \subseteq [sender : Senders, id : Nat, size : l.sizes]
  /\ \A pk \in c.packets : c.start[pk] \in Nat

(* What a frame is. *)
IsFragment(f, c, pk, k) ==
  /\ f.sender = pk.sender /\ f.payload = Piece(c, pk, k)
  /\ f.fields = IF Count(c, pk) > 1 THEN <<k - 1, Count(c, pk)>> ELSE <<>>
  /\ (f.seq - (k - 1)) % 2 ^ SeqBits = c.start[pk]

FramesOf(c, fs) == \A f \in fs : \E pk \in c.packets : \E k \in 1 .. Count(c, pk) : IsFragment(f, c, pk, k)

(* What a partial message is. *)
Filled(pm) == {k \in DOMAIN pm.payloads : pm.payloads[k] # NoPayload}

Partial(pm, c, pk) ==
  /\ Count(c, pk) > 1 /\ pm.fragCount = Count(c, pk)
  /\ DOMAIN pm.payloads = 1 .. Count(c, pk)
  /\ \A k \in 1 .. Count(c, pk) : pm.payloads[k] \in {NoPayload, Piece(c, pk, k)}
  /\ pm.received = Cardinality(Filled(pm)) /\ pm.received # 0 /\ pm.received # Count(c, pk)

IsEntry(ss, s, i) == s \in DOMAIN ss /\ i \in DOMAIN ss[s]

StoresOf(c, ss) ==
  \A s, i : IsEntry(ss, s, i) =>
    \E pk \in c.packets : pk.sender = s /\ c.start[pk] = i /\ Partial(ss[s][i], c, pk)

(* The packets of which there is a frame or a part, and their numbers. *)
Live(c, fs, ss, pk) ==
  \/ \E f \in fs : f.payload.packet = pk
  \/ IsEntry(ss, pk.sender, c.start[pk]) /\ Partial(ss[pk.sender][c.start[pk]], c, pk)

Apart(c, fs, ss) ==
  \A pk, qk \in c.packets :
    Live(c, fs, ss, pk) /\ Live(c, fs, ss, qk) /\ pk.sender = qk.sender /\ c.start[pk] = c.start[qk] => pk = qk

Past(c, fs, ss, numbers) ==
  \A pk \in c.packets : Live(c, fs, ss, pk) => c.start[pk] < numbers[pk.sender]

(* Every fragment of a packet arrived as often as the packet was delivered,   *)
(* and once more where it waits in a store.                                   *)
Times(count, x) == IF x \in DOMAIN count THEN count[x] ELSE 0
Counted(count) == \A x \in DOMAIN count : count[x] \in Nat /\ count[x] > 0

Held(c, ss, pk, k) ==
  /\ IsEntry(ss, pk.sender, c.start[pk])
  /\ Partial(ss[pk.sender][c.start[pk]], c, pk)
  /\ ss[pk.sender][c.start[pk]].payloads[k] = Piece(c, pk, k)

Accounts(c, ss, arr, del) ==
  \A pk \in c.packets : \A k \in 1 .. Count(c, pk) :
    Times(del, AllPieces(c, pk)) + (IF Held(c, ss, pk, k) THEN 1 ELSE 0) =< Times(arr, Piece(c, pk, k))

DeliveredOf(c, del) ==
  \A x \in DOMAIN del : \E pk \in c.packets : Count(c, pk) > 0 /\ x = AllPieces(c, pk)

(* How a packet is cut. *)
LEMMA PacketCut ==
  ASSUME NEW l \in Links, NEW size \in l.sizes
  PROVE  LET m == maxPayload(l.mtu)
             n == fragCount(l.mtu, size)
         IN  /\ size \in Nat /\ m \in Nat /\ m > 0 /\ n \in Nat /\ n =< MaxFragments
             /\ size =< n * m /\ (n > 0 => (n - 1) * m < size)
<1> DEFINE m == maxPayload(l.mtu)
           p == Pieces(l.mtu, size)
           q == size \div m
           r == size % m
<1>1. m \in Nat /\ m > 0 /\ size \in Nat
  BY PayloadRoom, LinkAssumption
<1>2. p \in Nat /\ p =< MaxFragments
  BY <1>1, CountBounds, TransferAssumption
<1>3. p = q + IF r = 0 THEN 0 ELSE 1
  BY DEF Pieces
<1>4. fragCount(l.mtu, size) = p
  <2> HIDE DEF p
  <2>1. p % 65536 = p
    BY <1>2 DEF MaxFragments
  <2> QED
    BY <2>1 DEF fragCount, Uint16, p
<1> HIDE DEF m
<1>5. q \in Nat /\ r \in Nat /\ r < m /\ size = m * q + r
  BY <1>1
<1> HIDE DEF p, q, r
<1>6. (q + 1) * m = m * q + m /\ q * m = m * q
  BY <1>1, <1>5
<1>7. CASE r = 0
  <2>1. p = q /\ size = q * m
    <3>1. m * q \in Int
      BY <1>1, <1>5
    <3>2. size = m * q
      BY <1>5, <1>7, <3>1
    <3> QED
      BY <1>3, <1>5, <1>6, <1>7, <3>2
  <2>2. p > 0 => (p - 1) * m < size
    <3>1. (p - 1) * m = p * m - m
      BY <1>1, <1>2
    <3> QED
      BY <1>1, <1>5, <2>1, <3>1
  <2> QED
    BY <1>1, <1>2, <1>4, <2>1, <2>2 DEF m
<1>8. CASE r # 0
  <2>1. p = q + 1 /\ p - 1 = q
    BY <1>3, <1>5, <1>8
  <2>2. size =< p * m /\ (p - 1) * m < size
    BY <1>1, <1>5, <1>6, <1>8, <2>1
  <2> QED
    BY <1>1, <1>2, <1>4, <2>2 DEF m
<1> QED
  BY <1>7, <1>8

LEMMA PieceIs ==
  ASSUME NEW l \in Links, NEW pk, pk.size \in l.sizes,
         pk \in [sender : Senders, id : Nat, size : Nat],
         NEW k \in 1 .. fragCount(l.mtu, pk.size)
  PROVE  LET m == maxPayload(l.mtu)
             n == fragCount(l.mtu, pk.size)
             p == payloadOf(l.mtu, pk, k - 1)
         IN  /\ p # NoPayload /\ p.packet = pk /\ p.from = (k - 1) * m
             /\ p.from + p.size = IF k = n THEN pk.size ELSE k * m
<1> DEFINE m == maxPayload(l.mtu)
           size == pk.size
           n == fragCount(l.mtu, size)
           from == (k - 1) * m
           least == Min({m, size - from})
           p == payloadOf(l.mtu, pk, k - 1)
<1>1. /\ size \in Nat /\ m \in Nat /\ m > 0 /\ n \in Nat
      /\ size =< n * m /\ (n > 0 => (n - 1) * m < size)
  BY PacketCut
<1>2. p = [packet |-> pk, from |-> from, size |-> least]
  BY Zenon DEF payloadOf
<1>3. NoPayload \notin [packet : [sender : Senders, id : Nat, size : Nat], from : Nat, size : Nat]
  BY TransferAssumption
<1> HIDE DEF p, m, n, size
<1>4. k \in 1 .. n
  BY DEF n, size
<1>5. from \in Nat /\ k * m \in Nat /\ k * m = from + m /\ n * m \in Nat /\ (n - 1) * m = n * m - m
  BY <1>1, <1>4
<1>6. k # n => k * m =< (n - 1) * m
  <2>1. k # n => k =< n - 1 /\ n - 1 \in Nat /\ k \in Nat
    BY <1>1, <1>4
  <2>2. \A a, b \in Nat : a =< b => a * m =< b * m
    BY <1>1
  <2> QED
    BY <2>1, <2>2
<1>7. from < size
  <2>1. k \in Nat /\ n \in Nat /\ k - 1 \in Nat /\ n - 1 \in Nat /\ k - 1 =< n - 1
    BY <1>1, <1>4
  <2>2. \A a, b \in Nat : a =< b => a * m =< b * m
    BY <1>1
  <2>3. from =< (n - 1) * m
    BY <2>1, <2>2
  <2> QED
    BY <1>1, <1>4, <1>5, <2>3
<1>8. least = IF m =< size - from THEN m ELSE size - from
  <2>1. size - from \in Int /\ m \in Int
    BY <1>1, <1>5
  <2> HIDE DEF from
  <2> QED
    BY <2>1, MinOfTwo
<1> HIDE DEF from, least
<1>9. least \in Nat /\ from + least = IF k = n THEN size ELSE k * m
  BY <1>1, <1>5, <1>6, <1>7, <1>8
<1>10. p.packet = pk /\ p.from = from /\ p.size = least
  BY <1>2
<1>11. p # NoPayload
  BY <1>2, <1>3, <1>5, <1>9
<1> QED
  BY <1>9, <1>10, <1>11 DEF p, m, n, size, from

LEMMA ContextFacts ==
  ASSUME NEW c, Context(c), NEW pk \in c.packets
  PROVE  /\ Count(c, pk) \in Nat /\ pk.sender \in Senders /\ c.start[pk] \in Nat
         /\ \A k \in 1 .. Count(c, pk) : Piece(c, pk, k) # NoPayload /\ Piece(c, pk, k).packet = pk
         /\ Count(c, pk) > 0 => Whole(AllPieces(c, pk))
<1>1. PICK l \in Links : c.mtu = l.mtu /\ c.packets \subseteq [sender : Senders, id : Nat, size : l.sizes]
  BY Zenon DEF Context
<1>2. c.start[pk] \in Nat
  BY Zenon DEF Context
<1>3. pk.size \in l.sizes /\ pk.sender \in Senders
  BY <1>1
<1>4. pk \in [sender : Senders, id : Nat, size : Nat]
  BY <1>1, LinkAssumption
<1> DEFINE N == Count(c, pk)
           m == maxPayload(l.mtu)
           ps == AllPieces(c, pk)
<1>5. N = fragCount(l.mtu, pk.size)
  BY <1>1 DEF Count
<1>6. N \in Nat /\ pk.size \in Nat /\ m \in Nat
  BY <1>3, <1>5, PacketCut
<1> HIDE DEF N
<1>7. \A k \in 1 .. N :
        /\ Piece(c, pk, k) # NoPayload /\ Piece(c, pk, k).packet = pk
        /\ Piece(c, pk, k).from = (k - 1) * m
        /\ Piece(c, pk, k).from + Piece(c, pk, k).size = IF k = N THEN pk.size ELSE k * m
  BY <1>1, <1>3, <1>4, <1>5, PieceIs DEF Piece
<1>8. ps = [k \in 1 .. N |-> Piece(c, pk, k)]
  BY DEF AllPieces, N
<1> HIDE DEF ps
<1>9. DOMAIN ps = 1 .. N /\ \A k \in 1 .. N : ps[k] = Piece(c, pk, k)
  BY <1>8
<1>10. ASSUME N > 0 PROVE Whole(ps)
  <2>1. Len(ps) = N
    <3> DEFINE P(k) == Piece(c, pk, k)
    <3>1. ps = [k \in 1 .. N |-> P(k)]
      BY <1>8
    <3> HIDE DEF P
    <3> QED
      BY <1>6, <3>1
  <2>2. 1 \in 1 .. N /\ N \in 1 .. N
    BY <1>6, <1>10
  <2>3. ps[1].packet = pk
    BY <1>7, <1>9, <2>2
  <2>4. Last(ps).from + Last(ps).size = pk.size
    BY <1>7, <1>9, <2>1, <2>2 DEF Last
  <2>5. ASSUME NEW k \in 1 .. N
        PROVE  ps[k] # NoPayload /\ ps[k].packet = pk
               /\ ps[k].from = IF k = 1 THEN 0 ELSE ps[k - 1].from + ps[k - 1].size
    <3>1. ps[k] # NoPayload /\ ps[k].packet = pk /\ ps[k].from = (k - 1) * m
      BY <1>7, <1>9
    <3>2. CASE k = 1
      <4>1. (k - 1) * m = 0
        BY <1>6, <3>2
      <4> QED
        BY <3>1, <3>2, <4>1
    <3>3. CASE k # 1
      <4>1. k - 1 \in 1 .. N /\ k - 1 # N
        BY <1>6, <3>3
      <4> QED
        BY <1>7, <1>9, <3>1, <3>3, <4>1
    <3> QED
      BY <3>2, <3>3
  <2> QED
    BY <1>9, <2>3, <2>4, <2>5 DEF Whole
<1> QED
  BY <1>2, <1>3, <1>6, <1>7, <1>10 DEF N, ps


LEMMA FragmentRead ==
  ASSUME NEW c, Context(c), NEW pk \in c.packets, NEW k \in 1 .. Count(c, pk),
         NEW f, IsFragment(f, c, pk, k)
  PROVE  LET g == fromBlock(f)
         IN  /\ g.fragIndex = k - 1 /\ g.fragCount = Count(c, pk) /\ g.payload = Piece(c, pk, k)
             /\ messageIdentifier(g) = c.start[pk]
<1> DEFINE N == Count(c, pk)
           index == IF f.fields = <<>> THEN 0 ELSE f.fields[1]
           count == IF f.fields = <<>> THEN 1 ELSE f.fields[2]
           g == fromBlock(f)
<1>1. /\ f.payload = Piece(c, pk, k)
      /\ f.fields = IF N > 1 THEN <<k - 1, N>> ELSE <<>>
      /\ (f.seq - (k - 1)) % 2 ^ SeqBits = c.start[pk]
  BY Zenon DEF IsFragment
<1>2. N \in Nat
  BY ContextFacts
<1>3. g.seq = f.seq /\ g.payload = f.payload /\ g.fragIndex = index /\ g.fragCount = count
  BY DEF fromBlock
<1> HIDE DEF N, g
<1>4. k \in 1 .. N
  BY DEF N
<1>5. index = k - 1 /\ count = N
  <2>1. CASE N > 1
    <3> DEFINE fields == f.fields
    <3>1. fields = <<k - 1, N>>
      BY <1>1, <2>1
    <3> HIDE DEF fields
    <3>2. fields # <<>> /\ fields[1] = k - 1 /\ fields[2] = N
      BY <3>1
    <3> QED
      BY <3>2 DEF fields
  <2>2. CASE ~ (N > 1)
    <3>1. f.fields = <<>> /\ k = 1 /\ N = 1
      BY <1>1, <1>2, <1>4, <2>2
    <3> QED
      BY <3>1
  <2> QED
    BY <2>1, <2>2
<1> HIDE DEF index, count
<1>6. messageIdentifier(g) = (f.seq - (k - 1)) % 2 ^ SeqBits
  BY <1>3, <1>5, Zenon DEF messageIdentifier
<1> QED
  BY <1>1, <1>3, <1>5, <1>6 DEF g, N

(* PartialMessage::add: the message is complete with the last piece that was  *)
(* missing, and no piece is counted twice.                                    *)
Added(q, pm, c, pk, k) ==
  \/ /\ isComplete(q) /\ q.payloads = AllPieces(c, pk) /\ Partial(pm, c, pk)
     /\ \A j \in 1 .. Count(c, pk) : j # k => pm.payloads[j] = Piece(c, pk, j)
  \/ /\ ~ isComplete(q) /\ Partial(q, c, pk)
     /\ \A j \in 1 .. Count(c, pk) :
          j # k /\ q.payloads[j] = Piece(c, pk, j) => Partial(pm, c, pk) /\ pm.payloads[j] = Piece(c, pk, j)

LEMMA MessageFields ==
  \A count, received, payloads :
    LET pm == PartialMessage(count, received, payloads)
    IN  pm.fragCount = count /\ pm.received = received /\ pm.payloads = payloads
BY DEF PartialMessage

FilledOneMore(N, v, k, x) ==
  LET F == {j \in 1 .. N : v[j] # NoPayload}
      w == [v EXCEPT ![k] = x]
      G == {j \in DOMAIN w : w[j] # NoPayload}
  IN  /\ DOMAIN w = 1 .. N /\ w[k] = x /\ \A j \in 1 .. N : j # k => w[j] = v[j]
      /\ Cardinality(F) \in Nat /\ Cardinality(G) = Cardinality(F) + 1
      /\ Cardinality(G) = N => G = 1 .. N

LEMMA FilledMore ==
  ASSUME NEW N \in Nat, NEW v, DOMAIN v = 1 .. N, NEW k \in 1 .. N, v[k] = NoPayload,
         NEW x, x # NoPayload
  PROVE  FilledOneMore(N, v, k, x)
<1> DEFINE F == {j \in 1 .. N : v[j] # NoPayload}
           w == [v EXCEPT ![k] = x]
           G == {j \in DOMAIN w : w[j] # NoPayload}
<1>1. DOMAIN w = 1 .. N /\ w[k] = x /\ \A j \in 1 .. N : j # k => w[j] = v[j]
  OBVIOUS
<1> HIDE DEF w
<1>2. G = F \cup {k} /\ k \notin F /\ G \subseteq 1 .. N /\ F \subseteq 1 .. N
  BY <1>1
<1> HIDE DEF F, G
<1>3. IsFiniteSet(1 .. N) /\ Cardinality(1 .. N) = N
  <2>1. 1 \in Int /\ N \in Int
    OBVIOUS
  <2>2. IsFiniteSet(1 .. N) /\ Cardinality(1 .. N) = IF 1 > N THEN 0 ELSE N - 1 + 1
    BY <2>1, FS_Interval
  <2> QED
    BY <2>2
<1>4. IsFiniteSet(F)
  BY <1>2, <1>3, FS_Subset
<1>5. Cardinality(F) \in Nat /\ Cardinality(G) = Cardinality(F) + 1
  BY <1>2, <1>4, FS_CardinalityType, FS_AddElement
<1>6. Cardinality(G) = N => G = 1 .. N
  BY <1>2, <1>3, FS_Subset
<1> QED
  BY <1>1, <1>5, <1>6, Zenon DEF F, G, w, FilledOneMore

LEMMA AddFragmentAdds ==
  ASSUME NEW c, Context(c), NEW pk \in c.packets, NEW k \in 1 .. Count(c, pk), Count(c, pk) > 1,
         NEW g, g.fragIndex = k - 1, g.fragCount = Count(c, pk), g.payload = Piece(c, pk, k),
         NEW pm, pm = NewPartialMessage \/ Partial(pm, c, pk)
  PROVE  Added(addFragment(pm, g), pm, c, pk, k)
<1> DEFINE N == Count(c, pk)
           P(j) == Piece(c, pk, j)
           p == Sized(pm, g)
           q == addFragment(pm, g)
<1>1. N \in Nat /\ N > 1 /\ k \in 1 .. N /\ \A j \in 1 .. N : P(j) # NoPayload
  BY ContextFacts
<1>2. /\ p.fragCount = N /\ DOMAIN p.payloads = 1 .. N
      /\ \A j \in 1 .. N : p.payloads[j] \in {NoPayload, P(j)}
      /\ p.received = Cardinality(Filled(p))
      /\ \/ pm = p /\ Partial(pm, c, pk)
         \/ Filled(p) = {}
  <2>1. CASE pm = NewPartialMessage
    <3>1. pm.received = 0
      BY <2>1, MessageFields DEF NewPartialMessage
    <3>2. p = PartialMessage(N, 0, [j \in 1 .. N |-> NoPayload])
      BY <3>1 DEF Sized
    <3> HIDE DEF p
    <3>3. p.fragCount = N /\ p.received = 0 /\ p.payloads = [j \in 1 .. N |-> NoPayload]
      BY <3>2, MessageFields
    <3> HIDE DEF N, P
    <3>4. DOMAIN p.payloads = 1 .. N /\ \A j \in 1 .. N : p.payloads[j] = NoPayload
      BY <3>3
    <3>5. Filled(p) = {}
      BY <3>4 DEF Filled
    <3>6. Cardinality(Filled(p)) = 0
      BY <3>5, FS_EmptySet
    <3> QED
      BY <3>3, <3>4, <3>5, <3>6
  <2>2. CASE Partial(pm, c, pk)
    <3>1. pm.received # 0
      BY <2>2 DEF Partial
    <3>2. p = pm
      BY <3>1 DEF Sized
    <3> HIDE DEF p
    <3> QED
      BY <2>2, <3>2 DEF Partial
  <2> QED
    BY <2>1, <2>2
<1>3. q = IF p.fragCount # g.fragCount \/ g.fragIndex >= p.fragCount \/ p.payloads[g.fragIndex + 1] # NoPayload
          THEN p ELSE Stowed(p, g)
  BY Zenon DEF addFragment
<1>4. g.fragIndex + 1 = k /\ ~ (g.fragIndex >= p.fragCount) /\ p.fragCount = g.fragCount
  <2> HIDE DEF p, N
  <2>1. g.fragIndex = k - 1 /\ g.fragCount = N
    BY DEF N
  <2> QED
    BY <1>1, <1>2, <2>1
<1> HIDE DEF p, q
<1>5. q = IF p.payloads[k] # NoPayload THEN p ELSE Stowed(p, g)
  BY <1>3, <1>4
<1>6. CASE p.payloads[k] # NoPayload
  <2>1. q = p /\ pm = p /\ Partial(pm, c, pk)
    BY <1>1, <1>2, <1>5, <1>6 DEF Filled
  <2>2. ~ isComplete(q)
    BY <2>1 DEF isComplete, Partial
  <2> QED
    BY <2>1, <2>2 DEF Added, q
<1>7. CASE p.payloads[k] = NoPayload
  <2> DEFINE v == p.payloads
             x == P(k)
             w == [v EXCEPT ![k] = x]
             F == {j \in 1 .. N : v[j] # NoPayload}
             G == {j \in DOMAIN w : w[j] # NoPayload}
  <2>1. q = PartialMessage(N, p.received + 1, w)
    BY <1>2, <1>4, <1>5, <1>7 DEF Stowed
  <2>2. /\ DOMAIN w = 1 .. N /\ w[k] = x /\ \A j \in 1 .. N : j # k => w[j] = v[j]
        /\ Cardinality(F) \in Nat /\ Cardinality(G) = Cardinality(F) + 1
        /\ Cardinality(G) = N => G = 1 .. N
    <3>1. x # NoPayload /\ v[k] = NoPayload /\ DOMAIN v = 1 .. N
      BY <1>1, <1>2, <1>7
    <3> HIDE DEF v, P, N, x
    <3>2. N \in Nat /\ k \in 1 .. N
      BY <1>1
    <3>3. FilledOneMore(N, v, k, x)
      BY <3>1, <3>2, FilledMore, Zenon
    <3> QED
      BY <3>3, Zenon DEF FilledOneMore
  <2>3. q.fragCount = N /\ q.received = p.received + 1 /\ q.payloads = w
    <3> HIDE DEF w, N
    <3> QED
      BY <2>1, MessageFields
  <2>4. p.received = Cardinality(F)
    BY <1>2 DEF Filled
  <2>5. \A j \in 1 .. N : w[j] \in {NoPayload, P(j)}
    <3> HIDE DEF w, N, P
    <3> QED
      BY <1>1, <1>2, <2>2
  <2>6. Filled(q) = G
    <3> HIDE DEF w
    <3> QED
      BY <2>3 DEF Filled
  <2>7. q.received = Cardinality(Filled(q)) /\ q.received # 0
    <3> HIDE DEF F, G
    <3> QED
      BY <2>2, <2>3, <2>4, <2>6
  <2>8. \A j \in 1 .. N : j # k /\ w[j] = P(j) => Partial(pm, c, pk) /\ pm.payloads[j] = P(j)
    <3> SUFFICES ASSUME NEW j \in 1 .. N, j # k, w[j] = P(j)
                 PROVE  Partial(pm, c, pk) /\ pm.payloads[j] = P(j)
      OBVIOUS
    <3>1. v[j] = P(j) /\ v[j] # NoPayload
      BY <1>1, <2>2
    <3>2. j \in Filled(p)
      BY <1>2, <3>1 DEF Filled
    <3> QED
      BY <1>2, <3>1, <3>2
  <2>9. CASE q.received = N
    <3>1. G = 1 .. N
      BY <2>2, <2>6, <2>7, <2>9
    <3>2. \A j \in 1 .. N : w[j] = P(j)
      BY <2>5, <3>1
    <3>3. w = AllPieces(c, pk)
      <4>1. w = [j \in 1 .. N |-> w[j]]
        BY <2>2
      <4>2. w = [j \in 1 .. N |-> P(j)]
        <5> HIDE DEF w, N, P
        <5> QED
          BY <3>2, <4>1
      <4> QED
        BY <4>2 DEF AllPieces
    <3>4. \E j \in 1 .. N : j # k
      BY <1>1
    <3>5. Partial(pm, c, pk) /\ \A j \in 1 .. N : j # k => pm.payloads[j] = P(j)
      BY <2>8, <3>2, <3>4
    <3>6. isComplete(q)
      BY <2>3, <2>9 DEF isComplete
    <3> QED
      BY <2>3, <3>3, <3>5, <3>6 DEF Added, q
  <2>10. CASE q.received # N
    <3> HIDE DEF w
    <3>1. Partial(q, c, pk)
      BY <1>1, <2>2, <2>3, <2>5, <2>7, <2>10 DEF Partial
    <3>2. ~ isComplete(q)
      BY <2>3, <2>10 DEF isComplete
    <3> QED
      BY <2>3, <2>8, <3>1, <3>2 DEF Added, q
  <2> QED
    BY <2>9, <2>10
<1> QED
  BY <1>6, <1>7

LEMMA OneMoreCounts ==
  ASSUME NEW count, Counted(count), NEW new
  PROVE  /\ Counted(OneMore(count, new)) /\ DOMAIN OneMore(count, new) = DOMAIN count \cup new
         /\ \A x : /\ Times(count, x) \in Nat
                   /\ Times(OneMore(count, new), x) = Times(count, x) + IF x \in new THEN 1 ELSE 0
<1> DEFINE more == OneMore(count, new)
<1>1. DOMAIN more = DOMAIN count \cup new
  BY DEF OneMore
<1>2. \A x \in DOMAIN count \cup new :
        more[x] = (IF x \in DOMAIN count THEN count[x] ELSE 0) + IF x \in new THEN 1 ELSE 0
  BY DEF OneMore
<1> HIDE DEF more
<1>3. \A x \in DOMAIN count : count[x] \in Nat /\ count[x] > 0
  BY DEF Counted
<1>4. \A x \in DOMAIN more : more[x] \in Nat /\ more[x] > 0
  BY <1>1, <1>2, <1>3
<1>5. \A x : Times(count, x) \in Nat
  BY <1>3 DEF Times
<1>6. ASSUME NEW x PROVE Times(more, x) = Times(count, x) + IF x \in new THEN 1 ELSE 0
  <2>1. CASE x \in DOMAIN more
    BY <1>1, <1>2, <2>1 DEF Times
  <2>2. CASE x \notin DOMAIN more
    BY <1>1, <2>2 DEF Times
  <2> QED
    BY <2>1, <2>2
<1> QED
  BY <1>1, <1>4, <1>5, <1>6 DEF Counted, more


(* All of it: with the frames fs, the stores ss, the numbers that the senders *)
(* go on with, and what arrived and was delivered.                            *)
Transfer(c, fs, ss, numbers, arr, del) ==
  /\ Context(c) /\ FramesOf(c, fs) /\ StoresOf(c, ss)
  /\ Apart(c, fs, ss) /\ Past(c, fs, ss, numbers)
  /\ Accounts(c, ss, arr, del) /\ DeliveredOf(c, del) /\ Counted(arr) /\ Counted(del)

LEMMA PartialOfOne ==
  ASSUME NEW c, Context(c), NEW pk \in c.packets, NEW qk \in c.packets,
         NEW pm, Partial(pm, c, pk), Partial(pm, c, qk)
  PROVE  pk = qk
<1>1. Filled(pm) # {}
  <2>1. Cardinality(Filled(pm)) # 0
    BY DEF Partial
  <2> QED
    BY <2>1, FS_EmptySet
<1>2. PICK k \in DOMAIN pm.payloads : pm.payloads[k] # NoPayload
  BY <1>1 DEF Filled
<1>3. /\ k \in 1 .. Count(c, pk) /\ pm.payloads[k] = Piece(c, pk, k)
      /\ k \in 1 .. Count(c, qk) /\ pm.payloads[k] = Piece(c, qk, k)
  BY <1>2 DEF Partial
<1>4. Piece(c, pk, k).packet = pk /\ Piece(c, qk, k).packet = qk
  BY <1>3, ContextFacts
<1> QED
  BY <1>3, <1>4

(* Frames and parts may go at any time, and frames may be duplicated. *)
Within(ss2, ss) == \A s, i : IsEntry(ss2, s, i) => IsEntry(ss, s, i) /\ ss2[s][i] = ss[s][i]

SameFrame(f, g) == f.sender = g.sender /\ f.payload = g.payload /\ f.fields = g.fields /\ f.seq = g.seq
CopiesOf(fs2, fs) == \A f \in fs2 : \E g \in fs : SameFrame(f, g)

LEMMA FramesCopied ==
  ASSUME NEW c, NEW fs, NEW fs2, FramesOf(c, fs), CopiesOf(fs2, fs)
  PROVE  FramesOf(c, fs2)
<1> SUFFICES ASSUME NEW f \in fs2
             PROVE  \E pk \in c.packets : \E k \in 1 .. Count(c, pk) : IsFragment(f, c, pk, k)
  BY DEF FramesOf
<1>1. PICK g \in fs : SameFrame(f, g)
  BY DEF CopiesOf
<1>2. PICK pk \in c.packets : \E k \in 1 .. Count(c, pk) : IsFragment(g, c, pk, k)
  BY DEF FramesOf
<1>3. PICK k \in 1 .. Count(c, pk) : IsFragment(g, c, pk, k)
  BY <1>2
<1>4. IsFragment(f, c, pk, k)
  BY <1>1, <1>3 DEF IsFragment, SameFrame
<1> QED
  BY <1>4

LEMMA LiveFewer ==
  ASSUME NEW c, NEW fs, NEW fs2, NEW ss, NEW ss2, CopiesOf(fs2, fs), Within(ss2, ss), NEW pk,
         Live(c, fs2, ss2, pk)
  PROVE  Live(c, fs, ss, pk)
<1>1. CASE \E f \in fs2 : f.payload.packet = pk
  BY <1>1 DEF Live, CopiesOf, SameFrame
<1>2. CASE IsEntry(ss2, pk.sender, c.start[pk]) /\ Partial(ss2[pk.sender][c.start[pk]], c, pk)
  BY <1>2 DEF Live, Within
<1> QED
  BY <1>1, <1>2 DEF Live

(* Numbers stay apart where no other packet comes to life. *)
LEMMA ApartFewer ==
  ASSUME NEW c, NEW fs, NEW fs2, NEW ss, NEW ss2, NEW numbers,
         Apart(c, fs, ss), Past(c, fs, ss, numbers),
         \A pk \in c.packets : Live(c, fs2, ss2, pk) => Live(c, fs, ss, pk)
  PROVE  Apart(c, fs2, ss2) /\ Past(c, fs2, ss2, numbers)
<1> HIDE DEF Live
<1> QED
  BY DEF Apart, Past

LEMMA HeldFewer ==
  ASSUME NEW c, NEW ss, NEW ss2, Within(ss2, ss), NEW pk, NEW k, Held(c, ss2, pk, k)
  PROVE  Held(c, ss, pk, k)
BY DEF Held, Within

LEMMA TransferShrinks ==
  ASSUME NEW c, NEW fs, NEW ss, NEW numbers, NEW arr, NEW del, Transfer(c, fs, ss, numbers, arr, del),
         NEW fs2, NEW ss2, CopiesOf(fs2, fs), Within(ss2, ss)
  PROVE  Transfer(c, fs2, ss2, numbers, arr, del)
<1>1. FramesOf(c, fs2)
  BY FramesCopied, Zenon DEF Transfer
<1>2. StoresOf(c, ss2)
  BY DEF Transfer, StoresOf, Within
<1>3. Apart(c, fs2, ss2) /\ Past(c, fs2, ss2, numbers)
  <2>1. \A pk \in c.packets : Live(c, fs2, ss2, pk) => Live(c, fs, ss, pk)
    BY LiveFewer, Zenon
  <2>2. Apart(c, fs, ss) /\ Past(c, fs, ss, numbers)
    BY DEF Transfer
  <2> QED
    BY <2>1, <2>2, ApartFewer, Zenon
<1>4. Accounts(c, ss2, arr, del)
  <2> SUFFICES ASSUME NEW pk \in c.packets, NEW k \in 1 .. Count(c, pk)
               PROVE  Times(del, AllPieces(c, pk)) + (IF Held(c, ss2, pk, k) THEN 1 ELSE 0)
                        =< Times(arr, Piece(c, pk, k))
    BY DEF Accounts
  <2> DEFINE d == Times(del, AllPieces(c, pk))
             a == Times(arr, Piece(c, pk, k))
  <2>1. d + (IF Held(c, ss, pk, k) THEN 1 ELSE 0) =< a
    BY DEF Transfer, Accounts
  <2>2. d \in Nat /\ a \in Nat
    BY OneMoreCounts DEF Transfer
  <2>3. Held(c, ss2, pk, k) => Held(c, ss, pk, k)
    BY HeldFewer, Zenon
  <2> HIDE DEF d, a
  <2>4. d + (IF Held(c, ss2, pk, k) THEN 1 ELSE 0) =< a
    BY <2>1, <2>2, <2>3
  <2> QED
    BY <2>4 DEF d, a
<1> QED
  BY <1>1, <1>2, <1>3, <1>4 DEF Transfer

(* What PartialMessageStore::receive does with fragment k of pk: it delivers  *)
(* the packet, all other pieces of which are there, or keeps the piece.       *)
Delivers(c, ss, ss2, pk, k, new) ==
  /\ new = {AllPieces(c, pk)} /\ Within(ss2, ss)
  /\ \A j \in 1 .. Count(c, pk) : j # k => Held(c, ss, pk, j) /\ ~ Held(c, ss2, pk, j)

Keeps(c, ss, ss2, pk, k, new) ==
  /\ new = {}
  /\ \A s, i : IsEntry(ss2, s, i) =>
       \/ IsEntry(ss, s, i) /\ ss2[s][i] = ss[s][i]
       \/ /\ s = pk.sender /\ i = c.start[pk] /\ Partial(ss2[s][i], c, pk)
          /\ \A j \in 1 .. Count(c, pk) :
               j # k /\ ss2[s][i].payloads[j] = Piece(c, pk, j) => Held(c, ss, pk, j)

LEMMA KeepsHeld ==
  ASSUME NEW c, Context(c), NEW ss, NEW ss2, NEW pk \in c.packets, NEW k, NEW new,
         Keeps(c, ss, ss2, pk, k, new),
         NEW qk \in c.packets, NEW j \in 1 .. Count(c, qk), Held(c, ss2, qk, j)
  PROVE  Held(c, ss, qk, j) \/ (qk = pk /\ j = k)
<1> DEFINE s == qk.sender
           i == c.start[qk]
<1>1. IsEntry(ss2, s, i) /\ Partial(ss2[s][i], c, qk) /\ ss2[s][i].payloads[j] = Piece(c, qk, j)
  BY DEF Held
<1>2. CASE IsEntry(ss, s, i) /\ ss2[s][i] = ss[s][i]
  BY <1>1, <1>2 DEF Held
<1>3. CASE /\ s = pk.sender /\ i = c.start[pk] /\ Partial(ss2[s][i], c, pk)
           /\ \A l \in 1 .. Count(c, pk) :
                l # k /\ ss2[s][i].payloads[l] = Piece(c, pk, l) => Held(c, ss, pk, l)
  <2>1. qk = pk
    BY <1>1, <1>3, PartialOfOne
  <2> QED
    BY <1>1, <1>3, <2>1
<1> QED
  BY <1>1, <1>2, <1>3 DEF Keeps

LEMMA KeepsLive ==
  ASSUME NEW c, Context(c), NEW ss, NEW ss2, NEW pk \in c.packets, NEW k, NEW new,
         Keeps(c, ss, ss2, pk, k, new), NEW fs, NEW fs2 \in SUBSET fs, Live(c, fs, ss, pk),
         NEW qk \in c.packets, Live(c, fs2, ss2, qk)
  PROVE  Live(c, fs, ss, qk)
<1> DEFINE s == qk.sender
           i == c.start[qk]
<1>1. CASE \E f \in fs2 : f.payload.packet = qk
  BY <1>1 DEF Live
<1>2. CASE IsEntry(ss2, s, i) /\ Partial(ss2[s][i], c, qk)
  <2>1. CASE IsEntry(ss, s, i) /\ ss2[s][i] = ss[s][i]
    BY <1>2, <2>1 DEF Live
  <2>2. CASE Partial(ss2[s][i], c, pk)
    BY <1>2, <2>2, PartialOfOne
  <2> QED
    BY <1>2, <2>1, <2>2 DEF Keeps
<1> QED
  BY <1>1, <1>2 DEF Live

LEMMA PiecesOfOne ==
  ASSUME NEW c, Context(c), NEW pk \in c.packets, NEW qk \in c.packets,
         Count(c, pk) > 0, AllPieces(c, pk) = AllPieces(c, qk)
  PROVE  pk = qk
<1> DEFINE ps == AllPieces(c, pk)
           qs == AllPieces(c, qk)
<1>1. DOMAIN ps = 1 .. Count(c, pk) /\ DOMAIN qs = 1 .. Count(c, qk)
  BY DEF AllPieces
<1>2. 1 \in DOMAIN ps /\ 1 \in DOMAIN qs
  <2> HIDE DEF ps, qs
  <2>1. ps = qs
    BY DEF ps, qs
  <2> QED
    BY <1>1, <2>1, ContextFacts
<1>3. ps[1] = Piece(c, pk, 1) /\ qs[1] = Piece(c, qk, 1)
  BY <1>1, <1>2 DEF AllPieces
<1>4. Piece(c, pk, 1).packet = pk /\ Piece(c, qk, 1).packet = qk
  BY <1>1, <1>2, ContextFacts
<1> QED
  BY <1>3, <1>4


LEMMA AccountsOfReceive ==
  ASSUME NEW c, Context(c), NEW ss, NEW ss2, NEW arr, NEW del,
         Counted(arr), Counted(del), Accounts(c, ss, arr, del),
         NEW pk \in c.packets, NEW k \in 1 .. Count(c, pk), NEW new,
         Delivers(c, ss, ss2, pk, k, new) \/ Keeps(c, ss, ss2, pk, k, new)
  PROVE  Accounts(c, ss2, OneMore(arr, {Piece(c, pk, k)}), OneMore(del, new))
<1> DEFINE arr2 == OneMore(arr, {Piece(c, pk, k)})
           del2 == OneMore(del, new)
<1>1. \A x : /\ Times(del, x) \in Nat
             /\ Times(del2, x) = Times(del, x) + IF x \in new THEN 1 ELSE 0
  BY OneMoreCounts, Zenon
<1>2. \A x : /\ Times(arr, x) \in Nat
             /\ Times(arr2, x) = Times(arr, x) + IF x \in {Piece(c, pk, k)} THEN 1 ELSE 0
  BY OneMoreCounts, Zenon
<1> HIDE DEF arr2, del2
<1> SUFFICES ASSUME NEW qk \in c.packets, NEW j \in 1 .. Count(c, qk)
             PROVE  Times(del2, AllPieces(c, qk)) + (IF Held(c, ss2, qk, j) THEN 1 ELSE 0)
                      =< Times(arr2, Piece(c, qk, j))
  BY DEF Accounts, arr2, del2
<1> DEFINE x == AllPieces(c, qk)
           y == Piece(c, qk, j)
           d == Times(del, x)
           a == Times(arr, y)
           h == Held(c, ss, qk, j)
           h2 == Held(c, ss2, qk, j)
<1>3. d + (IF h THEN 1 ELSE 0) =< a
  BY DEF Accounts
<1>4. /\ d \in Nat /\ a \in Nat
      /\ Times(del2, x) = d + IF x \in new THEN 1 ELSE 0
      /\ Times(arr2, y) = a + IF y = Piece(c, pk, k) THEN 1 ELSE 0
  BY <1>1, <1>2
<1>5. qk = pk /\ j = k => y = Piece(c, pk, k)
  OBVIOUS
<1>6. CASE Delivers(c, ss, ss2, pk, k, new)
  <2>1. x \in new => qk = pk
    <3> SUFFICES ASSUME x \in new PROVE qk = pk
      OBVIOUS
    <3>1. AllPieces(c, qk) = AllPieces(c, pk)
      BY <1>6 DEF Delivers
    <3>2. Count(c, qk) \in Nat /\ Count(c, qk) > 0
      BY ContextFacts
    <3> QED
      BY <3>1, <3>2, PiecesOfOne
  <2>2. h2 => h
    BY <1>6, HeldFewer, Zenon DEF Delivers
  <2>3. qk = pk /\ j # k => h /\ ~ h2
    BY <1>6 DEF Delivers
  <2> HIDE DEF x, y, d, a, h, h2
  <2>4. Times(del2, x) + (IF h2 THEN 1 ELSE 0) =< Times(arr2, y)
    <3>1. CASE qk # pk
      BY <1>3, <1>4, <2>1, <2>2, <3>1
    <3>2. CASE qk = pk /\ j = k
      BY <1>3, <1>4, <1>5, <2>2, <3>2
    <3>3. CASE qk = pk /\ j # k
      BY <1>3, <1>4, <2>3, <3>3
    <3> QED
      BY <3>1, <3>2, <3>3
  <2> QED
    BY <2>4 DEF x, y, h2
<1>7. CASE Keeps(c, ss, ss2, pk, k, new)
  <2>1. new = {}
    BY <1>7 DEF Keeps
  <2>2. h2 => h \/ (qk = pk /\ j = k)
    BY <1>7, KeepsHeld
  <2> HIDE DEF x, y, d, a, h, h2
  <2>3. Times(del2, x) = d
    BY <1>4, <2>1
  <2>4. Times(del2, x) + (IF h2 THEN 1 ELSE 0) =< Times(arr2, y)
    BY <1>3, <1>4, <1>5, <2>2, <2>3
  <2> QED
    BY <2>4 DEF x, y, h2
<1> QED
  BY <1>6, <1>7

LEMMA TransferReceives ==
  ASSUME NEW c, NEW fs, NEW ss, NEW numbers, NEW arr, NEW del, Transfer(c, fs, ss, numbers, arr, del),
         NEW f \in fs, NEW pk \in c.packets, NEW k \in 1 .. Count(c, pk), IsFragment(f, c, pk, k),
         NEW ss2, NEW new,
         Delivers(c, ss, ss2, pk, k, new) \/ Keeps(c, ss, ss2, pk, k, new)
  PROVE  Transfer(c, fs \ {f}, ss2, numbers, OneMore(arr, {f.payload}), OneMore(del, new))
<1> DEFINE fs2 == fs \ {f}
<1>1. f.payload = Piece(c, pk, k)
  BY DEF IsFragment
<1>2. Context(c) /\ Counted(arr) /\ Counted(del) /\ Accounts(c, ss, arr, del)
  BY DEF Transfer
<1>3. Accounts(c, ss2, OneMore(arr, {f.payload}), OneMore(del, new))
  <2>1. Accounts(c, ss2, OneMore(arr, {Piece(c, pk, k)}), OneMore(del, new))
    BY <1>2, AccountsOfReceive, Zenon
  <2> QED
    BY <1>1, <2>1, Zenon
<1>4. /\ Counted(OneMore(arr, {f.payload})) /\ Counted(OneMore(del, new))
      /\ DOMAIN OneMore(del, new) = DOMAIN del \cup new
  BY <1>2, OneMoreCounts, Zenon
<1>5. DeliveredOf(c, OneMore(del, new))
  <2>1. \A x \in DOMAIN del : \E q \in c.packets : Count(c, q) > 0 /\ x = AllPieces(c, q)
    BY DEF Transfer, DeliveredOf
  <2>2. Count(c, pk) > 0
    BY <1>2, ContextFacts
  <2>3. \A x \in new : x = AllPieces(c, pk)
    BY DEF Delivers, Keeps
  <2> QED
    BY <1>4, <2>1, <2>2, <2>3 DEF DeliveredOf
<1>6. FramesOf(c, fs2)
  BY DEF Transfer, FramesOf
<1>7. StoresOf(c, ss2)
  <2>1. CASE Delivers(c, ss, ss2, pk, k, new)
    BY <2>1 DEF Delivers, Within, Transfer, StoresOf
  <2>2. CASE Keeps(c, ss, ss2, pk, k, new)
    BY <2>2 DEF Keeps, Transfer, StoresOf
  <2> QED
    BY <2>1, <2>2
<1>8. Live(c, fs, ss, pk)
  <2>1. Piece(c, pk, k).packet = pk
    BY <1>2, ContextFacts
  <2> QED
    BY <1>1, <2>1 DEF Live
<1>9. \A qk \in c.packets : Live(c, fs2, ss2, qk) => Live(c, fs, ss, qk)
  <2>1. CASE Delivers(c, ss, ss2, pk, k, new)
    <3>1. Within(ss2, ss)
      BY <2>1 DEF Delivers
    <3>2. CopiesOf(fs2, fs)
      BY DEF CopiesOf, SameFrame
    <3> QED
      BY <3>1, <3>2, LiveFewer, Zenon
  <2>2. CASE Keeps(c, ss, ss2, pk, k, new)
    <3>1. fs2 \in SUBSET fs
      OBVIOUS
    <3> HIDE DEF fs2
    <3> QED
      BY <1>2, <1>8, <2>2, <3>1, KeepsLive, Zenon
  <2> QED
    BY <2>1, <2>2
<1>10. Apart(c, fs2, ss2) /\ Past(c, fs2, ss2, numbers)
  <2>1. Apart(c, fs, ss) /\ Past(c, fs, ss, numbers)
    BY DEF Transfer
  <2> QED
    BY <1>9, <2>1, ApartFewer, Zenon
<1> HIDE DEF fs2
<1>11. Transfer(c, fs2, ss2, numbers, OneMore(arr, {f.payload}), OneMore(del, new))
  BY <1>2, <1>3, <1>4, <1>5, <1>6, <1>7, <1>10, Zenon DEF Transfer
<1> QED
  BY <1>11 DEF fs2

(* PartialMessageStore::receive is one of the two. *)
StoreOf(ss, s) == IF s \in DOMAIN ss THEN ss[s] ELSE [id \in {} |-> 0]
StoreSet(ss, s, store) == [r \in DOMAIN ss \cup {s} |-> IF r = s THEN store ELSE ss[r]]

LEMMA StoreEntries ==
  ASSUME NEW ss, NEW s, NEW store
  PROVE  /\ \A i : IsEntry(StoreSet(ss, s, store), s, i) <=> i \in DOMAIN store
         /\ StoreSet(ss, s, store)[s] = store
         /\ \A r, i : r # s => /\ IsEntry(StoreSet(ss, s, store), r, i) <=> IsEntry(ss, r, i)
                               /\ r \in DOMAIN ss => StoreSet(ss, s, store)[r] = ss[r]
         /\ \A i : i \in DOMAIN StoreOf(ss, s) <=> IsEntry(ss, s, i)
         /\ \A i : IsEntry(ss, s, i) => StoreOf(ss, s)[i] = ss[s][i]
BY DEF IsEntry, StoreSet, StoreOf

LEMMA ReceiveDoes ==
  ASSUME NEW c, NEW fs, NEW ss, NEW numbers, NEW arr, NEW del, Transfer(c, fs, ss, numbers, arr, del),
         NEW f \in fs, NEW pk \in c.packets, NEW k \in 1 .. Count(c, pk), IsFragment(f, c, pk, k)
  PROVE  LET result == receive(StoreOf(ss, f.sender), fromBlock(f))
             ss2 == StoreSet(ss, f.sender, result[1])
         IN  Delivers(c, ss, ss2, pk, k, result[2]) \/ Keeps(c, ss, ss2, pk, k, result[2])
<1> DEFINE N == Count(c, pk)
           s == f.sender
           store == StoreOf(ss, s)
           g == fromBlock(f)
           id == messageIdentifier(g)
           pm == IF id \in DOMAIN store THEN store[id] ELSE NewPartialMessage
           q == addFragment(pm, g)
           result == receive(store, g)
           ss2 == StoreSet(ss, s, result[1])
<1>1. Context(c) /\ StoresOf(c, ss) /\ Apart(c, fs, ss)
  BY DEF Transfer
<1>2. g.fragIndex = k - 1 /\ g.fragCount = N /\ g.payload = Piece(c, pk, k) /\ id = c.start[pk]
  BY <1>1, FragmentRead, Zenon
<1>3. s = pk.sender /\ f.payload = Piece(c, pk, k)
  BY DEF IsFragment
<1>4. N \in Nat /\ N > 0 /\ Piece(c, pk, k).packet = pk
  BY <1>1, ContextFacts
<1>5. Live(c, fs, ss, pk)
  BY <1>3, <1>4 DEF Live
<1>6. receive(store, g) =
        CASE g.fragCount = 1 -> <<store, {<<g.payload>>}>>
          [] g.fragCount # 1 /\ isComplete(q) -> <<[i \in DOMAIN store \ {id} |-> store[i]], {q.payloads}>>
          [] OTHER -> <<[i \in DOMAIN store \cup {id} |-> IF i = id THEN q ELSE store[i]], {}>>
  BY Zenon DEF receive
<1> HIDE DEF g, id, store
<1>7. CASE N = 1
  <2>1. result[1] = store /\ result[2] = {<<Piece(c, pk, k)>>}
    <3> HIDE DEF q
    <3> QED BY <1>2, <1>6, <1>7
  <2>2. <<Piece(c, pk, k)>> = AllPieces(c, pk) /\ k = 1
    <3>1. k = 1
      BY <1>7
    <3>2. AllPieces(c, pk) = [j \in 1 .. 1 |-> Piece(c, pk, j)]
      BY <1>7 DEF AllPieces
    <3> DEFINE P(j) == Piece(c, pk, j)
    <3> HIDE DEF P
    <3>3. [j \in 1 .. 1 |-> P(j)] = <<P(1)>>
      OBVIOUS
    <3> QED
      BY <3>1, <3>2, <3>3 DEF P
  <2> HIDE DEF result
  <2>3. Within(ss2, ss)
    BY <2>1, StoreEntries DEF Within, store, IsEntry
  <2>4. \A j \in 1 .. N : j = k
    BY <1>7, <2>2
  <2>5. Delivers(c, ss, ss2, pk, k, result[2])
    BY <2>1, <2>2, <2>3, <2>4 DEF Delivers
  <2> QED
    BY <2>5 DEF result, ss2, store, g
<1>8. ASSUME N # 1 PROVE Added(q, pm, c, pk, k) /\ (Partial(pm, c, pk) => IsEntry(ss, s, id) /\ ss[s][id] = pm)
  <2>1. pm = NewPartialMessage \/ (Partial(pm, c, pk) /\ IsEntry(ss, s, id) /\ ss[s][id] = pm)
    <3>1. CASE IsEntry(ss, s, id)
      <4>1. pm = ss[s][id]
        BY <3>1, StoreEntries DEF store
      <4>2. PICK qk \in c.packets : qk.sender = s /\ c.start[qk] = id /\ Partial(ss[s][id], c, qk)
        BY <1>1, <3>1 DEF StoresOf
      <4>3. Live(c, fs, ss, qk)
        BY <3>1, <4>2 DEF Live
      <4>4. pk = qk
        BY <1>1, <1>2, <1>3, <1>5, <4>2, <4>3 DEF Apart
      <4> QED
        BY <3>1, <4>1, <4>2, <4>4
    <3>2. CASE ~ IsEntry(ss, s, id)
      BY <3>2, StoreEntries DEF store
    <3> QED
      BY <3>1, <3>2
  <2>2. ~ Partial(NewPartialMessage, c, pk)
    <3>1. NewPartialMessage.received = 0
      BY MessageFields DEF NewPartialMessage
    <3> QED
      BY <3>1 DEF Partial
  <2> HIDE DEF pm
  <2>3. N > 1
    BY <1>4, <1>8
  <2>4. Added(q, pm, c, pk, k)
    BY <1>1, <1>2, <2>1, <2>3, AddFragmentAdds
  <2> QED
    BY <2>1, <2>2, <2>4
<1>9. CASE N # 1 /\ isComplete(q)
  <2>1. result[1] = [i \in DOMAIN store \ {id} |-> store[i]] /\ result[2] = {q.payloads}
    <3> HIDE DEF q
    <3> QED BY <1>2, <1>6, <1>9
  <2> HIDE DEF q, result, pm
  <2>2. /\ q.payloads = AllPieces(c, pk) /\ Partial(pm, c, pk)
        /\ \A j \in 1 .. N : j # k => pm.payloads[j] = Piece(c, pk, j)
    BY <1>8, <1>9 DEF Added
  <2>3. IsEntry(ss, s, id) /\ ss[s][id] = pm
    BY <1>8, <1>9, <2>2
  <2>4. \A j \in 1 .. N : j # k => Held(c, ss, pk, j)
    BY <1>2, <1>3, <2>2, <2>3 DEF Held
  <2>5. DOMAIN result[1] = DOMAIN store \ {id} /\ \A i \in DOMAIN result[1] : result[1][i] = store[i]
    BY <2>1
  <2>6. Within(ss2, ss) /\ ~ IsEntry(ss2, s, id)
    <3>1. ~ IsEntry(ss2, s, id)
      BY <2>5, StoreEntries
    <3>2. \A i : IsEntry(ss2, s, i) => IsEntry(ss, s, i) /\ ss2[s][i] = ss[s][i]
      BY <2>5, StoreEntries DEF store
    <3>3. \A r, i : r # s /\ IsEntry(ss2, r, i) => IsEntry(ss, r, i) /\ ss2[r][i] = ss[r][i]
      BY StoreEntries DEF IsEntry
    <3> QED
      BY <3>1, <3>2, <3>3 DEF Within
  <2>7. \A j : ~ Held(c, ss2, pk, j)
    BY <1>2, <1>3, <2>6 DEF Held
  <2>8. Delivers(c, ss, ss2, pk, k, result[2])
    <3> HIDE DEF ss2
    <3> QED BY <2>1, <2>2, <2>4, <2>6, <2>7 DEF Delivers
  <2> QED
    BY <2>8 DEF result, ss2, store, g
<1>10. CASE N # 1 /\ ~ isComplete(q)
  <2>1. result[1] = [i \in DOMAIN store \cup {id} |-> IF i = id THEN q ELSE store[i]] /\ result[2] = {}
    <3> HIDE DEF q
    <3> QED BY <1>2, <1>6, <1>10
  <2> HIDE DEF q, result, pm
  <2>2. /\ Partial(q, c, pk)
        /\ \A j \in 1 .. N :
             j # k /\ q.payloads[j] = Piece(c, pk, j) => Partial(pm, c, pk) /\ pm.payloads[j] = Piece(c, pk, j)
    BY <1>8, <1>10 DEF Added
  <2>3. \A j \in 1 .. N : j # k /\ q.payloads[j] = Piece(c, pk, j) => Held(c, ss, pk, j)
    BY <1>2, <1>3, <1>8, <1>10, <2>2 DEF Held
  <2>4. /\ DOMAIN result[1] = DOMAIN store \cup {id} /\ result[1][id] = q
        /\ \A i \in DOMAIN store : i # id => result[1][i] = store[i]
    BY <2>1
  <2>5. ASSUME NEW r, NEW i, IsEntry(ss2, r, i)
        PROVE  \/ IsEntry(ss, r, i) /\ ss2[r][i] = ss[r][i]
               \/ r = s /\ i = id /\ ss2[r][i] = q
    <3>1. CASE r # s
      BY <2>5, <3>1, StoreEntries DEF IsEntry
    <3>2. CASE r = s /\ i # id
      BY <2>4, <2>5, <3>2, StoreEntries DEF store
    <3>3. CASE r = s /\ i = id
      BY <2>4, <3>3, StoreEntries
    <3> QED
      BY <3>1, <3>2, <3>3
  <2> HIDE DEF ss2
  <2>6. Keeps(c, ss, ss2, pk, k, result[2])
    BY <1>2, <1>3, <2>1, <2>2, <2>3, <2>5 DEF Keeps
  <2> QED
    BY <2>6 DEF result, ss2, store, g
<1> QED
  BY <1>7, <1>9, <1>10


(* A packet that is sent: c goes on as c2, with the packet p. *)
Extends(c2, c, p) ==
  /\ Context(c2) /\ c2.mtu = c.mtu /\ c2.packets = c.packets \cup {p} /\ p \notin c.packets
  /\ \A q \in c.packets : c2.start[q] = c.start[q]

LEMMA SameCut ==
  ASSUME NEW c, NEW c2, c2.mtu = c.mtu
  PROVE  /\ \A pk : Count(c2, pk) = Count(c, pk) /\ AllPieces(c2, pk) = AllPieces(c, pk)
         /\ \A pk, k : Piece(c2, pk, k) = Piece(c, pk, k)
         /\ \A pm, pk : Partial(pm, c2, pk) <=> Partial(pm, c, pk)
<1>1. /\ \A pk : Count(c2, pk) = Count(c, pk)
      /\ \A pk, k : Piece(c2, pk, k) = Piece(c, pk, k)
  BY DEF Count, Piece
<1>2. \A pk : AllPieces(c2, pk) = AllPieces(c, pk)
  BY <1>1 DEF AllPieces
<1>3. \A pm, pk : Partial(pm, c2, pk) <=> Partial(pm, c, pk)
  BY <1>1 DEF Partial
<1> QED
  BY <1>1, <1>2, <1>3

(* The frames that go out, and the numbers that they take. *)
SendsOut(fs2, fs, c2, p) ==
  \A f \in fs2 : f \in fs \/ \E k \in 1 .. Count(c2, p) : IsFragment(f, c2, p, k)

TakesNumbers(numbers2, numbers, c2, p) ==
  /\ \A r \in Senders : numbers[r] \in Nat /\ numbers2[r] \in Nat /\ numbers[r] =< numbers2[r]
  /\ c2.start[p] = numbers[p.sender]
  /\ Count(c2, p) > 0 => numbers[p.sender] < numbers2[p.sender]

LEMMA LiveOnSend ==
  ASSUME NEW c, NEW fs, NEW ss, Context(c), FramesOf(c, fs), NEW c2, NEW p, Extends(c2, c, p),
         NEW fs2, SendsOut(fs2, fs, c2, p)
  PROVE  /\ \A qk \in c.packets : Live(c2, fs2, ss, qk) => Live(c, fs, ss, qk)
         /\ Live(c2, fs2, ss, p) => Count(c2, p) > 0
<1>1. Context(c2) /\ c2.mtu = c.mtu /\ p \in c2.packets /\ p \notin c.packets
  BY DEF Extends
<1>2. Count(c2, p) \in Nat
  BY <1>1, ContextFacts
<1>3. \A f \in fs : f.payload.packet \in c.packets
  <2> SUFFICES ASSUME NEW f \in fs PROVE f.payload.packet \in c.packets
    OBVIOUS
  <2>1. PICK pk \in c.packets : \E k \in 1 .. Count(c, pk) : IsFragment(f, c, pk, k)
    BY DEF FramesOf
  <2>2. PICK k \in 1 .. Count(c, pk) : IsFragment(f, c, pk, k)
    BY <2>1
  <2>3. f.payload = Piece(c, pk, k) /\ Piece(c, pk, k).packet = pk
    BY <2>2, ContextFacts DEF IsFragment
  <2> QED
    BY <2>3
<1>4. \A f \in fs2 : f \in fs \/ (f.payload.packet = p /\ Count(c2, p) > 0)
  <2> SUFFICES ASSUME NEW f \in fs2, f \notin fs PROVE f.payload.packet = p /\ Count(c2, p) > 0
    OBVIOUS
  <2>1. PICK k \in 1 .. Count(c2, p) : IsFragment(f, c2, p, k)
    BY DEF SendsOut
  <2>2. f.payload = Piece(c2, p, k) /\ Piece(c2, p, k).packet = p
    BY <1>1, <2>1, ContextFacts DEF IsFragment
  <2> QED
    BY <1>2, <2>2
<1>5. ASSUME NEW qk \in c.packets, Live(c2, fs2, ss, qk) PROVE Live(c, fs, ss, qk)
  <2>1. c2.start[qk] = c.start[qk] /\ \A pm : Partial(pm, c2, qk) <=> Partial(pm, c, qk)
    BY <1>1, SameCut DEF Extends
  <2>2. CASE \E f \in fs2 : f.payload.packet = qk
    BY <1>1, <1>4, <2>2 DEF Live
  <2> QED
    BY <1>5, <2>1, <2>2 DEF Live
<1>6. ASSUME Live(c2, fs2, ss, p) PROVE Count(c2, p) > 0
  <2>1. CASE \E f \in fs2 : f.payload.packet = p
    BY <1>1, <1>3, <1>4, <2>1
  <2>2. CASE Partial(ss[p.sender][c2.start[p]], c2, p)
    BY <1>2, <2>2 DEF Partial
  <2> QED
    BY <1>6, <2>1, <2>2 DEF Live
<1> QED
  BY <1>5, <1>6

LEMMA TransferSends ==
  ASSUME NEW c, NEW fs, NEW ss, NEW numbers, NEW arr, NEW del, Transfer(c, fs, ss, numbers, arr, del),
         NEW c2, NEW p, Extends(c2, c, p), NEW fs2, SendsOut(fs2, fs, c2, p),
         NEW numbers2, TakesNumbers(numbers2, numbers, c2, p)
  PROVE  Transfer(c2, fs2, ss, numbers2, arr, del)
<1>1. /\ Context(c) /\ FramesOf(c, fs) /\ StoresOf(c, ss) /\ Apart(c, fs, ss) /\ Past(c, fs, ss, numbers)
      /\ Accounts(c, ss, arr, del) /\ DeliveredOf(c, del) /\ Counted(arr) /\ Counted(del)
  BY DEF Transfer
<1>2. /\ Context(c2) /\ c2.mtu = c.mtu /\ c2.packets = c.packets \cup {p} /\ p \notin c.packets
      /\ \A q \in c.packets : c2.start[q] = c.start[q]
  BY DEF Extends
<1>3. /\ \A pk : Count(c2, pk) = Count(c, pk) /\ AllPieces(c2, pk) = AllPieces(c, pk)
      /\ \A pk, k : Piece(c2, pk, k) = Piece(c, pk, k)
      /\ \A pm, pk : Partial(pm, c2, pk) <=> Partial(pm, c, pk)
  BY <1>2, SameCut
<1>4. \A pk \in c2.packets : pk.sender \in Senders /\ c2.start[pk] \in Nat /\ Count(c2, pk) \in Nat
  BY <1>2, ContextFacts
<1>5. /\ \A qk \in c.packets : Live(c2, fs2, ss, qk) => Live(c, fs, ss, qk)
      /\ Live(c2, fs2, ss, p) => Count(c2, p) > 0
  BY <1>1, LiveOnSend, Zenon
<1>6. FramesOf(c2, fs2)
  <2> SUFFICES ASSUME NEW f \in fs2
               PROVE  \E pk \in c2.packets : \E k \in 1 .. Count(c2, pk) : IsFragment(f, c2, pk, k)
    BY DEF FramesOf
  <2>1. CASE f \in fs
    <3>1. PICK pk \in c.packets : \E k \in 1 .. Count(c, pk) : IsFragment(f, c, pk, k)
      BY <1>1, <2>1 DEF FramesOf
    <3>2. PICK k \in 1 .. Count(c, pk) : IsFragment(f, c, pk, k)
      BY <3>1
    <3>3. IsFragment(f, c2, pk, k)
      BY <1>2, <1>3, <3>2 DEF IsFragment
    <3> QED
      BY <1>2, <1>3, <3>3
  <2>2. CASE f \notin fs
    BY <1>2, <2>2 DEF SendsOut
  <2> QED
    BY <2>1, <2>2
<1>7. StoresOf(c2, ss)
  BY <1>1, <1>2, <1>3 DEF StoresOf
<1>8. /\ \A r \in Senders : numbers[r] \in Nat /\ numbers2[r] \in Nat /\ numbers[r] =< numbers2[r]
      /\ c2.start[p] = numbers[p.sender]
      /\ Count(c2, p) > 0 => numbers[p.sender] < numbers2[p.sender]
  BY DEF TakesNumbers
<1>9. \A qk \in c.packets : Live(c2, fs2, ss, qk) => c2.start[qk] < numbers[qk.sender]
  BY <1>1, <1>2, <1>5 DEF Past
<1>10. Past(c2, fs2, ss, numbers2)
  <2> SUFFICES ASSUME NEW pk \in c2.packets, Live(c2, fs2, ss, pk) PROVE c2.start[pk] < numbers2[pk.sender]
    BY DEF Past
  <2>1. CASE pk \in c.packets
    BY <1>4, <1>8, <1>9, <2>1
  <2>2. CASE pk = p
    BY <1>5, <1>8, <2>2
  <2> QED
    BY <1>2, <2>1, <2>2
<1>11. Apart(c2, fs2, ss)
  <2> SUFFICES ASSUME NEW pk \in c2.packets, NEW qk \in c2.packets,
                      Live(c2, fs2, ss, pk), Live(c2, fs2, ss, qk),
                      pk.sender = qk.sender, c2.start[pk] = c2.start[qk]
               PROVE  pk = qk
    BY DEF Apart
  <2>1. CASE pk \in c.packets /\ qk \in c.packets
    BY <1>1, <1>2, <1>5, <2>1 DEF Apart
  <2>2. CASE pk = p /\ qk \in c.packets
    BY <1>4, <1>8, <1>9, <2>2
  <2>3. CASE pk \in c.packets /\ qk = p
    BY <1>4, <1>8, <1>9, <2>3
  <2> QED
    BY <1>2, <2>1, <2>2, <2>3
<1>12. DeliveredOf(c2, del)
  BY <1>1, <1>2, <1>3 DEF DeliveredOf
<1>13. Accounts(c2, ss, arr, del)
  <2> SUFFICES ASSUME NEW pk \in c2.packets, NEW k \in 1 .. Count(c2, pk)
               PROVE  Times(del, AllPieces(c2, pk)) + (IF Held(c2, ss, pk, k) THEN 1 ELSE 0)
                        =< Times(arr, Piece(c2, pk, k))
    BY DEF Accounts
  <2>1. CASE pk \in c.packets
    <3>1. Held(c2, ss, pk, k) <=> Held(c, ss, pk, k)
      BY <1>2, <1>3, <2>1 DEF Held
    <3>2. Times(del, AllPieces(c, pk)) + (IF Held(c, ss, pk, k) THEN 1 ELSE 0) =< Times(arr, Piece(c, pk, k))
      BY <1>1, <1>3, <2>1 DEF Accounts
    <3> QED
      BY <1>3, <3>1, <3>2
  <2>2. CASE pk = p
    <3>1. AllPieces(c2, p) \notin DOMAIN del
      <4> SUFFICES ASSUME AllPieces(c2, p) \in DOMAIN del PROVE FALSE
        OBVIOUS
      <4>1. PICK qk \in c.packets : Count(c, qk) > 0 /\ AllPieces(c2, p) = AllPieces(c, qk)
        BY <1>1 DEF DeliveredOf
      <4>2. Count(c2, qk) > 0 /\ AllPieces(c2, qk) = AllPieces(c2, p) /\ qk \in c2.packets /\ p \in c2.packets
        BY <1>2, <1>3, <4>1
      <4>3. qk = p
        BY <1>2, <4>2, PiecesOfOne
      <4> QED
        BY <1>2, <4>3
    <3>2. Times(del, AllPieces(c2, p)) = 0
      BY <3>1 DEF Times
    <3>3. ~ Held(c2, ss, p, k)
      <4> SUFFICES ASSUME IsEntry(ss, p.sender, numbers[p.sender]) PROVE FALSE
        BY <1>8 DEF Held
      <4>1. PICK qk \in c.packets : /\ qk.sender = p.sender /\ c.start[qk] = numbers[p.sender]
                                    /\ Partial(ss[p.sender][numbers[p.sender]], c, qk)
        BY <1>1 DEF StoresOf
      <4>2. Live(c, fs, ss, qk)
        BY <4>1 DEF Live
      <4>3. c.start[qk] < numbers[qk.sender]
        BY <1>1, <4>2 DEF Past
      <4>4. numbers[p.sender] \in Nat
        BY <1>2, <1>4, <1>8
      <4> QED
        BY <4>1, <4>3, <4>4
    <3>4. Times(arr, Piece(c2, p, k)) \in Nat
      BY <1>1, OneMoreCounts
    <3> QED
      BY <2>2, <3>2, <3>3, <3>4
  <2> QED
    BY <1>2, <2>1, <2>2
<1> QED
  BY <1>1, <1>2, <1>6, <1>7, <1>10, <1>11, <1>12, <1>13, Zenon DEF Transfer

(* A sender begins with 0 again, when there is nothing of it left. *)
LEMMA TransferRestarts ==
  ASSUME NEW c, NEW fs, NEW ss, NEW numbers, NEW arr, NEW del, Transfer(c, fs, ss, numbers, arr, del),
         NEW s, \A f \in fs : f.sender # s, \A i : ~ IsEntry(ss, s, i),
         NEW numbers2, \A r \in Senders : r # s => numbers2[r] = numbers[r]
  PROVE  Transfer(c, fs, ss, numbers2, arr, del)
<1>1. Context(c) /\ FramesOf(c, fs) /\ Past(c, fs, ss, numbers)
  BY DEF Transfer
<1>2. Past(c, fs, ss, numbers2)
  <2> SUFFICES ASSUME NEW pk \in c.packets, Live(c, fs, ss, pk) PROVE c.start[pk] < numbers2[pk.sender]
    BY DEF Past
  <2>1. pk.sender # s
    <3>1. CASE \E f \in fs : f.payload.packet = pk
      <4>1. PICK f \in fs : f.payload.packet = pk
        BY <3>1
      <4>2. PICK qk \in c.packets : \E k \in 1 .. Count(c, qk) : IsFragment(f, c, qk, k)
        BY <1>1 DEF FramesOf
      <4>3. PICK k \in 1 .. Count(c, qk) : IsFragment(f, c, qk, k)
        BY <4>2
      <4>4. f.sender = qk.sender /\ f.payload = Piece(c, qk, k) /\ Piece(c, qk, k).packet = qk
        BY <1>1, <4>3, ContextFacts DEF IsFragment
      <4> QED
        BY <4>1, <4>4
    <3>2. CASE IsEntry(ss, pk.sender, c.start[pk])
      BY <3>2
    <3> QED
      BY <3>1, <3>2 DEF Live
  <2>2. pk.sender \in Senders
    BY <1>1, ContextFacts
  <2> QED
    BY <1>1, <2>1, <2>2 DEF Past
<1> QED
  BY <1>2, Zenon DEF Transfer


(* The state of the link. *)
Numbered(n, numbers) ==
  /\ n \in Nat /\ n =< MaxPackets /\ DOMAIN numbers = Senders
  /\ \A s \in Senders : numbers[s] \in Nat /\ numbers[s] =< n * MaxFragments

OnLink(c, l, n) ==
  /\ c.mtu = l.mtu /\ c.packets \subseteq [sender : Senders, id : Nat, size : l.sizes]
  /\ \A pk \in c.packets : pk.id < n

TransferInv ==
  /\ link \in Links /\ Numbered(nSent, next)
  /\ \E c : OnLink(c, link, nSent) /\ Transfer(c, frames, stores, next, arrived, delivered)

LEMMA NumbersGrow ==
  ASSUME NEW n \in Nat, n < MaxPackets, NEW a \in Nat, a =< n * MaxFragments,
         NEW count \in Nat, count =< MaxFragments
  PROVE  a + count =< (n + 1) * MaxFragments /\ a + count < 2 ^ SeqBits
<1> DEFINE F == MaxFragments
           W == 2 ^ SeqBits
           most == MaxPackets * F
<1>1. F \in Nat
  BY DEF MaxFragments
<1>2. W \in Nat /\ most < W /\ MaxPackets \in Nat
  BY TransferAssumption, NdnlpAssumption
<1> HIDE DEF F, W
<1>3. a =< n * F /\ count =< F
  BY DEF F
<1>4. n * F \in Nat /\ (n + 1) * F = n * F + F
  BY <1>1
<1>5. most = (n + 1) * F + (MaxPackets - (n + 1)) * F
  BY <1>1, <1>2
<1>6. (MaxPackets - (n + 1)) * F \in Nat
  <2>1. MaxPackets - (n + 1) \in Nat
    BY <1>2
  <2>2. \A b \in Nat : b * F \in Nat
    BY <1>1
  <2> QED
    BY <2>1, <2>2
<1> DEFINE x == n * F
           y == (MaxPackets - (n + 1)) * F
           z == (n + 1) * F
<1>7. x \in Nat /\ y \in Nat /\ a =< x /\ z = x + F /\ most = z + y
  BY <1>3, <1>4, <1>5, <1>6
<1> HIDE DEF most, x, y, z
<1>8. a + count =< z /\ a + count < W
  BY <1>1, <1>2, <1>3, <1>7
<1> QED
  BY <1>8 DEF z, F, W

LEMMA PacketSendStep ==
  ASSUME TransferInv, NEW s \in Senders, NEW size \in link.sizes, Send(s, size)
  PROVE  TransferInv'
<1> DEFINE p == [sender |-> s, id |-> nSent, size |-> size]
           W == 2 ^ SeqBits
           N == fragCount(link.mtu, size)
           pa == slice(link.mtu, p, next[s])
           start == next[s]
<1>1. /\ link' = link /\ stores' = stores /\ arrived' = arrived /\ delivered' = delivered
      /\ nSent' = nSent + 1 /\ nSent < MaxPackets
      /\ next' = [next EXCEPT ![s] = (@ + Len(pa)) % W]
      /\ frames' = frames \cup {sendPacket(s, f) : f \in ToSet(pa)}
  BY Zenon DEF Send
<1>2. link \in Links /\ Numbered(nSent, next)
  BY DEF TransferInv
<1>3. PICK c : OnLink(c, link, nSent) /\ Transfer(c, frames, stores, next, arrived, delivered)
  BY DEF TransferInv
<1>4. size \in Nat /\ N \in Nat /\ N =< MaxFragments
  BY <1>2, PacketCut
<1>5. /\ nSent \in Nat /\ DOMAIN next = Senders
      /\ \A r \in Senders : next[r] \in Nat /\ next[r] =< nSent * MaxFragments
  BY <1>2 DEF Numbered
<1>6. start \in Nat /\ start + N =< (nSent + 1) * MaxFragments /\ start + N < W
  BY <1>1, <1>4, <1>5, NumbersGrow
<1>7. W \in Nat
  BY TransferAssumption
<1>8. p.sender = s /\ p.id = nSent /\ p.size = size
  OBVIOUS
<1> HIDE DEF p, W, N
<1>9. pa = [k \in 1 .. N |->
             [seq |-> (start + k - 1) % W, fragIndex |-> k - 1, fragCount |-> N,
              payload |-> payloadOf(link.mtu, p, k - 1)]]
  BY <1>8, Zenon DEF slice, W, N
<1> HIDE DEF pa, start
<1>10. Len(pa) = N /\ DOMAIN pa = 1 .. N
  <2> DEFINE P(k) == [seq |-> (start + k - 1) % W, fragIndex |-> k - 1, fragCount |-> N,
                      payload |-> payloadOf(link.mtu, p, k - 1)]
  <2>1. pa = [k \in 1 .. N |-> P(k)]
    BY <1>9
  <2> HIDE DEF P
  <2> QED
    BY <1>4, <2>1
<1>11. /\ DOMAIN next' = Senders /\ next'[s] = start + N
       /\ \A r \in Senders : r # s => next'[r] = next[r]
  <2>1. (start + N) % W = start + N
    BY <1>4, <1>6, <1>7
  <2>2. next' = [next EXCEPT ![s] = start + N]
    BY <1>1, <1>10, <2>1 DEF start
  <2> QED
    BY <1>5, <2>2
<1>12. Numbered(nSent', next')
  <2>1. MaxFragments \in Nat /\ MaxPackets \in Nat
    BY NdnlpAssumption DEF MaxFragments
  <2>2. nSent' \in Nat /\ nSent' =< MaxPackets
    BY <1>1, <1>5, <2>1
  <2>3. nSent * MaxFragments =< (nSent + 1) * MaxFragments /\ nSent * MaxFragments \in Int
        /\ (nSent + 1) * MaxFragments \in Int
    <3> DEFINE F == MaxFragments
    <3>1. F \in Nat
      BY <2>1
    <3> HIDE DEF F
    <3>2. nSent * F \in Int /\ (nSent + 1) * F = nSent * F + F
      BY <1>5, <3>1
    <3> QED
      BY <3>1, <3>2 DEF F
  <2> DEFINE x == nSent * MaxFragments
             y == (nSent + 1) * MaxFragments
  <2>4. /\ \A r \in Senders : next[r] \in Nat /\ next[r] =< x
        /\ start + N =< y /\ x =< y /\ x \in Int /\ y \in Int
    BY <1>5, <1>6, <2>3
  <2> HIDE DEF x, y
  <2>5. \A r \in Senders : next'[r] \in Nat /\ next'[r] =< y
    BY <1>4, <1>6, <1>11, <2>4
  <2> QED
    BY <1>1, <1>11, <2>2, <2>5 DEF Numbered, y
<1> DEFINE c2 == [mtu |-> link.mtu, packets |-> c.packets \cup {p},
                  start |-> [q \in c.packets \cup {p} |-> IF q = p THEN start ELSE c.start[q]]]
<1>13. /\ c2.mtu = link.mtu /\ c2.packets = c.packets \cup {p}
       /\ c2.start = [q \in c.packets \cup {p} |-> IF q = p THEN start ELSE c.start[q]]
  OBVIOUS
<1> HIDE DEF c2
<1>14. /\ c.mtu = link.mtu /\ c.packets \subseteq [sender : Senders, id : Nat, size : link.sizes]
       /\ \A pk \in c.packets : pk.id < nSent
  BY <1>3 DEF OnLink
<1>15. p \notin c.packets
  BY <1>5, <1>8, <1>14
<1>16. c2.start[p] = start /\ \A q \in c.packets : c2.start[q] = c.start[q]
  BY <1>13, <1>15
<1>17. p \in [sender : Senders, id : Nat, size : link.sizes]
  BY <1>5 DEF p
<1>18. Extends(c2, c, p)
  <2>1. \A q \in c.packets : c.start[q] \in Nat
    BY <1>3 DEF Transfer, Context
  <2>2. \A q \in c2.packets : c2.start[q] \in Nat
    BY <1>6, <1>13, <1>16, <2>1
  <2>3. Context(c2)
    BY <1>2, <1>13, <1>14, <1>17, <2>2 DEF Context
  <2> QED
    BY <1>13, <1>14, <1>15, <1>16, <2>3 DEF Extends
<1>19. Count(c2, p) = N /\ \A k : Piece(c2, p, k) = payloadOf(link.mtu, p, k - 1)
  BY <1>8, <1>13 DEF Count, Piece, N
<1>20. SendsOut(frames', frames, c2, p)
  <2> SUFFICES ASSUME NEW k \in 1 .. N PROVE IsFragment(sendPacket(s, pa[k]), c2, p, k)
    <3>1. ToSet(pa) = {pa[k] : k \in 1 .. N}
      BY <1>10 DEF ToSet
    <3>2. \A f \in frames' : f \in frames \/ \E k \in 1 .. N : f = sendPacket(s, pa[k])
      BY <1>1, <3>1
    <3> QED
      BY <1>19, <3>2 DEF SendsOut
  <2> DEFINE x == pa[k]
             pay == payloadOf(link.mtu, p, k - 1)
             f == sendPacket(s, x)
             fields == IF N > 1 THEN <<k - 1, N>> ELSE <<>>
  <2>1. x = [seq |-> (start + k - 1) % W, fragIndex |-> k - 1, fragCount |-> N, payload |-> pay]
    BY <1>9
  <2> HIDE DEF x, pay
  <2>2. x.seq = (start + k - 1) % W /\ x.fragIndex = k - 1 /\ x.fragCount = N /\ x.payload = pay
    BY <2>1
  <2>3. f = [sender |-> s, seq |-> x.seq, payload |-> x.payload, copy |-> 0,
             fields |-> IF x.fragCount > 1 THEN <<x.fragIndex, x.fragCount>> ELSE <<>>]
    BY DEF sendPacket
  <2>4. f = [sender |-> s, seq |-> x.seq, payload |-> pay, copy |-> 0, fields |-> fields]
    BY <2>2, <2>3
  <2> HIDE DEF f, fields
  <2>5. f.sender = s /\ f.seq = x.seq /\ f.payload = pay /\ f.fields = fields
    BY <2>4
  <2>6. (f.seq - (k - 1)) % W = start
    <3>1. k \in Nat /\ k >= 1 /\ k =< N
      BY <1>4
    <3>2. start + k - 1 \in Nat /\ start + k - 1 < W /\ start < W
      BY <1>4, <1>6, <1>7, <3>1
    <3>3. (start + k - 1) % W = start + k - 1 /\ start % W = start
      BY <1>6, <1>7, <3>2
    <3>4. f.seq - (k - 1) = start
      BY <1>6, <2>2, <2>5, <3>1, <3>3
    <3> QED
      BY <3>3, <3>4
  <2>7. IsFragment(f, c2, p, k)
    BY <1>8, <1>16, <1>19, <2>5, <2>6 DEF IsFragment, pay, fields, W
  <2> QED
    BY <2>7 DEF f, x
<1>21. TakesNumbers(next', next, c2, p)
  BY <1>4, <1>5, <1>6, <1>8, <1>11, <1>16, <1>19 DEF TakesNumbers, start
<1>22. Transfer(c2, frames', stores, next', arrived, delivered)
  BY <1>3, <1>18, <1>20, <1>21, TransferSends, Zenon
<1>23. OnLink(c2, link, nSent + 1)
  <2>1. \A pk \in c2.packets : pk.id < nSent + 1
    <3>1. \A pk \in c.packets : pk.id \in Nat
      BY <1>14
    <3> QED
      BY <1>5, <1>8, <1>13, <1>14, <3>1
  <2> QED
    BY <1>13, <1>14, <1>17, <2>1 DEF OnLink
<1> QED
  BY <1>1, <1>2, <1>12, <1>22, <1>23, Zenon DEF TransferInv


(* Frames that are lost or duplicated, and parts that are given up. *)
LEMMA ShrinkStep ==
  ASSUME TransferInv, link' = link, nSent' = nSent, next' = next, arrived' = arrived,
         delivered' = delivered, CopiesOf(frames', frames), Within(stores', stores)
  PROVE  TransferInv'
<1>1. PICK c : OnLink(c, link, nSent) /\ Transfer(c, frames, stores, next, arrived, delivered)
  BY DEF TransferInv
<1>2. Transfer(c, frames', stores', next, arrived, delivered)
  BY <1>1, TransferShrinks, Zenon
<1>3. link \in Links /\ Numbered(nSent, next)
  BY DEF TransferInv
<1> QED
  BY <1>1, <1>2, <1>3, Zenon DEF TransferInv

LEMMA FrameReceiveStep ==
  ASSUME TransferInv, NEW f \in frames, Receive(f)
  PROVE  TransferInv'
<1> DEFINE result == receive(StoreOf(stores, f.sender), fromBlock(f))
           ss2 == StoreSet(stores, f.sender, result[1])
<1>1. /\ frames' = frames \ {f} /\ arrived' = OneMore(arrived, {f.payload})
      /\ stores' = ss2 /\ delivered' = OneMore(delivered, result[2])
      /\ link' = link /\ next' = next /\ nSent' = nSent
  BY Zenon DEF Receive, StoreOf, StoreSet
<1>2. PICK c : OnLink(c, link, nSent) /\ Transfer(c, frames, stores, next, arrived, delivered)
  BY DEF TransferInv
<1>3. PICK pk \in c.packets : \E k \in 1 .. Count(c, pk) : IsFragment(f, c, pk, k)
  BY <1>2 DEF Transfer, FramesOf
<1>4. PICK k \in 1 .. Count(c, pk) : IsFragment(f, c, pk, k)
  BY <1>3
<1>5. Delivers(c, stores, ss2, pk, k, result[2]) \/ Keeps(c, stores, ss2, pk, k, result[2])
  BY <1>2, <1>4, ReceiveDoes, Zenon
<1> HIDE DEF result, ss2
<1>6. Transfer(c, frames \ {f}, ss2, next, OneMore(arrived, {f.payload}), OneMore(delivered, result[2]))
  BY <1>2, <1>4, <1>5, TransferReceives, Zenon
<1>7. link \in Links /\ Numbered(nSent, next)
  BY DEF TransferInv
<1> QED
  BY <1>1, <1>2, <1>6, <1>7, Zenon DEF TransferInv

LEMMA RestartStep ==
  ASSUME TransferInv, ~ RestartsQuickly, NEW s \in Senders, SenderRestarts(s)
  PROVE  TransferInv'
<1>1. /\ \A f \in frames : f.sender # s
      /\ s \in DOMAIN stores => DOMAIN stores[s] = {}
      /\ next' = [next EXCEPT ![s] = 0]
      /\ link' = link /\ nSent' = nSent /\ frames' = frames /\ stores' = stores
      /\ arrived' = arrived /\ delivered' = delivered
  BY DEF SenderRestarts
<1>2. PICK c : OnLink(c, link, nSent) /\ Transfer(c, frames, stores, next, arrived, delivered)
  BY DEF TransferInv
<1>3. link \in Links /\ Numbered(nSent, next)
  BY DEF TransferInv
<1>4. DOMAIN next' = Senders /\ next'[s] = 0 /\ \A r \in Senders : r # s => next'[r] = next[r]
  BY <1>1, <1>3 DEF Numbered
<1>5. \A i : ~ IsEntry(stores, s, i)
  BY <1>1 DEF IsEntry
<1>6. Transfer(c, frames, stores, next', arrived, delivered)
  BY <1>1, <1>2, <1>4, <1>5, TransferRestarts, Zenon
<1>7. Numbered(nSent, next')
  <2> DEFINE x == nSent * MaxFragments
  <2>1. x \in Nat
    <3>1. MaxFragments \in Nat /\ nSent \in Nat
      BY <1>3 DEF MaxFragments, Numbered
    <3>2. \A a, b \in Nat : a * b \in Nat
      OBVIOUS
    <3> QED
      BY <3>1, <3>2
  <2>2. \A r \in Senders : next[r] \in Nat /\ next[r] =< x
    BY <1>3 DEF Numbered
  <2> HIDE DEF x
  <2>3. \A r \in Senders : next'[r] \in Nat /\ next'[r] =< x
    BY <1>4, <2>1, <2>2
  <2> QED
    BY <1>3, <1>4, <2>3 DEF Numbered, x
<1> QED
  BY <1>1, <1>2, <1>3, <1>6, <1>7, Zenon DEF TransferInv

LEMMA TransferStep ==
  ASSUME ~ RestartsQuickly, TransferInv, [LpNext]_lpVars
  PROVE  TransferInv'
<1>1. CopiesOf(frames, frames) /\ Within(stores, stores)
  BY DEF CopiesOf, SameFrame, Within
<1>2. \A f : CopiesOf(frames \ {f}, frames)
  BY DEF CopiesOf, SameFrame
<1>3. ASSUME NEW f \in frames, Lose(f) PROVE TransferInv'
  BY <1>1, <1>2, <1>3, ShrinkStep DEF Lose
<1>4. ASSUME NEW f \in frames, Duplicate(f) PROVE TransferInv'
  <2> DEFINE g == [f EXCEPT !.copy = copies + 1]
  <2>1. frames' = frames \cup {g}
    BY <1>4, Zenon DEF Duplicate
  <2>2. SameFrame(g, f)
    BY DEF SameFrame
  <2> HIDE DEF g
  <2>3. CopiesOf(frames', frames)
    BY <1>1, <1>4, <2>1, <2>2 DEF CopiesOf
  <2>4. /\ link' = link /\ nSent' = nSent /\ next' = next /\ arrived' = arrived
        /\ delivered' = delivered /\ stores' = stores
    BY <1>4 DEF Duplicate
  <2>5. Within(stores', stores)
    BY <1>1, <2>4
  <2> QED
    BY <2>3, <2>4, <2>5, ShrinkStep
<1>5. ASSUME NEW e, cleanup(e) PROVE TransferInv'
  <2> DEFINE x == e[1]
             y == e[2]
  <2>1. stores' = [stores EXCEPT ![x] = [i \in DOMAIN stores[x] \ {y} |-> stores[x][i]]]
    BY <1>5 DEF cleanup
  <2>2. /\ link' = link /\ nSent' = nSent /\ next' = next /\ arrived' = arrived
        /\ delivered' = delivered /\ frames' = frames
    BY <1>5 DEF cleanup
  <2> HIDE DEF x, y
  <2>3. Within(stores', stores)
    BY <2>1 DEF Within, IsEntry
  <2>4. CopiesOf(frames', frames)
    BY <1>1, <2>2
  <2> QED
    BY <2>2, <2>3, <2>4, ShrinkStep
<1>6. ASSUME NEW s, ReassemblerExpires(s) PROVE TransferInv'
  <2>1. /\ stores' = [r \in DOMAIN stores \ {s} |-> stores[r]]
        /\ link' = link /\ nSent' = nSent /\ next' = next /\ arrived' = arrived
        /\ delivered' = delivered /\ frames' = frames
    BY <1>6 DEF ReassemblerExpires
  <2>2. Within(stores', stores)
    BY <2>1 DEF Within, IsEntry
  <2>3. CopiesOf(frames', frames)
    BY <1>1, <2>1
  <2> QED
    BY <2>1, <2>2, <2>3, ShrinkStep
<1>7. CASE UNCHANGED lpVars
  <2>1. /\ stores' = stores /\ link' = link /\ nSent' = nSent /\ next' = next /\ arrived' = arrived
        /\ delivered' = delivered /\ frames' = frames
    BY <1>7 DEF lpVars
  <2>2. CopiesOf(frames', frames) /\ Within(stores', stores)
    BY <1>1, <2>1
  <2> QED
    BY <2>1, <2>2, ShrinkStep
<1> QED
  BY <1>3, <1>4, <1>5, <1>6, <1>7, PacketSendStep, FrameReceiveStep, RestartStep DEF LpNext

LEMMA TransferInitially == LpInit => TransferInv
<1> SUFFICES ASSUME LpInit PROVE TransferInv
  OBVIOUS
<1>1. /\ link \in Links /\ next = [s \in Senders |-> 0] /\ nSent = 0 /\ frames = {}
      /\ stores = [s \in {} |-> 0] /\ arrived = [p \in {} |-> 0] /\ delivered = [p \in {} |-> 0]
  BY DEF LpInit
<1> DEFINE c == [mtu |-> link.mtu, packets |-> {}, start |-> [q \in {} |-> 0]]
<1>2. c.mtu = link.mtu /\ c.packets = {}
  OBVIOUS
<1> HIDE DEF c
<1>3. Context(c) /\ OnLink(c, link, nSent)
  BY <1>1, <1>2 DEF Context, OnLink
<1>4. FramesOf(c, frames) /\ StoresOf(c, stores)
  BY <1>1 DEF FramesOf, StoresOf, IsEntry
<1>5. Apart(c, frames, stores) /\ Past(c, frames, stores, next) /\ Accounts(c, stores, arrived, delivered)
  BY <1>2 DEF Apart, Past, Accounts
<1>6. DeliveredOf(c, delivered) /\ Counted(arrived) /\ Counted(delivered)
  BY <1>1 DEF DeliveredOf, Counted
<1>7. Numbered(nSent, next)
  <2>1. 0 * MaxFragments = 0 /\ MaxPackets \in Nat
    BY NdnlpAssumption DEF MaxFragments
  <2> QED
    BY <1>1, <2>1 DEF Numbered
<1>8. Transfer(c, frames, stores, next, arrived, delivered)
  BY <1>3, <1>4, <1>5, <1>6 DEF Transfer
<1> QED
  BY <1>1, <1>3, <1>7, <1>8, Zenon DEF TransferInv

(* For every MTU, packet and number of senders, however frames are lost,       *)
(* duplicated and reordered and whenever parts are given up: the receiver      *)
(* delivers whole packets only, none more often than all of its fragments      *)
(* arrived, as long as a sender that restarts, and numbers its fragments from  *)
(* 0 again, does so when its old fragments are gone.                           *)
THEOREM PacketsDeliveredWhole ==
  ASSUME ~ RestartsQuickly
  PROVE  LpSpec => []DeliveredWhole
<1>1. TransferInv => DeliveredWhole
  <2> SUFFICES ASSUME TransferInv, NEW pieces \in DOMAIN delivered
               PROVE  /\ Whole(pieces)
                      /\ \A k \in DOMAIN pieces : delivered[pieces] =< arrived[pieces[k]]
    BY DEF DeliveredWhole
  <2>1. PICK c : OnLink(c, link, nSent) /\ Transfer(c, frames, stores, next, arrived, delivered)
    BY DEF TransferInv
  <2>2. /\ Context(c) /\ Accounts(c, stores, arrived, delivered) /\ DeliveredOf(c, delivered)
        /\ Counted(arrived) /\ Counted(delivered)
    BY <2>1 DEF Transfer
  <2>3. PICK pk \in c.packets : Count(c, pk) > 0 /\ pieces = AllPieces(c, pk)
    BY <2>2 DEF DeliveredOf
  <2>4. Whole(pieces)
    BY <2>2, <2>3, ContextFacts
  <2>5. DOMAIN pieces = 1 .. Count(c, pk) /\ \A k \in 1 .. Count(c, pk) : pieces[k] = Piece(c, pk, k)
    BY <2>3 DEF AllPieces
  <2>6. delivered[pieces] \in Nat /\ delivered[pieces] > 0 /\ Times(delivered, pieces) = delivered[pieces]
    BY <2>2 DEF Counted, Times
  <2>7. ASSUME NEW k \in DOMAIN pieces PROVE delivered[pieces] =< arrived[pieces[k]]
    <3> DEFINE a == Times(arrived, pieces[k])
               h == Held(c, stores, pk, k)
    <3>1. delivered[pieces] + (IF h THEN 1 ELSE 0) =< a
      BY <2>2, <2>3, <2>5, <2>6 DEF Accounts
    <3>2. a \in Nat
      BY <2>2, OneMoreCounts
    <3>3. a = IF pieces[k] \in DOMAIN arrived THEN arrived[pieces[k]] ELSE 0
      BY DEF Times
    <3> HIDE DEF a, h
    <3> QED
      BY <2>6, <3>1, <3>2, <3>3
  <2> QED
    BY <2>4, <2>7
<1>2. TransferInv /\ [LpNext]_lpVars => TransferInv'
  BY TransferStep
<1> QED
  BY <1>1, <1>2, TransferInitially, PTL DEF LpSpec

-----------------------------------------------------------------------------
(***************************************************************************)
(* A stream face: the send queue and the handlers of the io_service.       *)
(* Blocks go out in the order they were sent, and a write that succeeded   *)
(* finds its block at the front of the queue, whatever the errors, the     *)
(* shutdowns and the handlers queued between them.                         *)
(***************************************************************************)
Block == [packet : Nat, part : 1 .. 2]

HandlerRec ==
  [of : {"send", "receive", "deferredClose"},
   result : {"ok", "error", "eof", "aborted"}, octets : Int]

(* What the queue of the io_service holds. *)
NoSend(hs) == \A k \in DOMAIN hs : hs[k].of # "send"
OkQueued(hs) == \E k \in DOMAIN hs : hs[k].of = "send" /\ hs[k].result = "ok"
OpDone(hs) == \E k \in DOMAIN hs : hs[k].of # "deferredClose" /\ hs[k].result = "ok"
Closing(hs) == \E k \in DOMAIN hs : hs[k].of = "deferredClose"

(* There is one handler of a write at most, and the handler of an operation   *)
(* that succeeded is in front of every deferredClose, which clears the queue. *)
Line(hs) ==
  /\ hs \in Seq(HandlerRec)
  /\ \A i, j \in DOMAIN hs : hs[i].of = "send" /\ hs[j].of = "send" => i = j
  /\ \A i, j \in DOMAIN hs :
       hs[i].of # "deferredClose" /\ hs[i].result = "ok" /\ hs[j].of = "deferredClose" => i < j

LEMMA AppendOther ==
  ASSUME NEW hs, Line(hs), NEW h \in HandlerRec, h.of # "send",
         h.of = "receive" /\ h.result = "ok" => ~ Closing(hs)
  PROVE  /\ Line(Append(hs, h))
         /\ NoSend(Append(hs, h)) <=> NoSend(hs)
         /\ OkQueued(Append(hs, h)) <=> OkQueued(hs)
         /\ OpDone(Append(hs, h)) <=> OpDone(hs) \/ (h.of = "receive" /\ h.result = "ok")
         /\ Closing(Append(hs, h)) <=> Closing(hs) \/ h.of = "deferredClose"
<1> DEFINE t == Append(hs, h)
<1>1. /\ hs \in Seq(HandlerRec) /\ t \in Seq(HandlerRec) /\ Len(hs) \in Nat
      /\ DOMAIN hs = 1 .. Len(hs) /\ DOMAIN t = 1 .. Len(hs) + 1
      /\ \A k \in DOMAIN hs : t[k] = hs[k]
      /\ t[Len(hs) + 1] = h
  BY DEF Line
<1> HIDE DEF t
<1>2. Line(t)
  <2>1. \A i, j \in DOMAIN t : t[i].of = "send" /\ t[j].of = "send" => i = j
    BY <1>1 DEF Line
  <2>2. \A i, j \in DOMAIN t :
          t[i].of # "deferredClose" /\ t[i].result = "ok" /\ t[j].of = "deferredClose" => i < j
    <3> SUFFICES ASSUME NEW i \in DOMAIN t, NEW j \in DOMAIN t, t[i].of # "deferredClose",
                        t[i].result = "ok", t[j].of = "deferredClose"
                 PROVE  i < j
      OBVIOUS
    <3>1. CASE i \in DOMAIN hs
      BY <1>1, <3>1 DEF Line
    <3>2. CASE i = Len(hs) + 1
      <4>1. ~ Closing(hs) /\ h.of # "deferredClose"
        BY <1>1, <3>2 DEF HandlerRec
      <4> QED
        BY <1>1, <4>1 DEF Closing
    <3> QED
      BY <1>1, <3>1, <3>2
  <2> QED
    BY <1>1, <2>1, <2>2 DEF Line
<1>3. /\ NoSend(t) <=> NoSend(hs)
      /\ OkQueued(t) <=> OkQueued(hs)
      /\ OpDone(t) <=> OpDone(hs) \/ (h.of = "receive" /\ h.result = "ok")
  <2>1. h.of # "deferredClose" <=> h.of = "receive"
    BY DEF HandlerRec
  <2>2. (NoSend(t) <=> NoSend(hs)) /\ (OkQueued(t) <=> OkQueued(hs))
    BY <1>1 DEF NoSend, OkQueued
  <2>3. OpDone(t) <=> OpDone(hs) \/ (h.of # "deferredClose" /\ h.result = "ok")
    BY <1>1 DEF OpDone
  <2> QED
    BY <2>1, <2>2, <2>3
<1>4. Closing(t) <=> Closing(hs) \/ h.of = "deferredClose"
  BY <1>1 DEF Closing
<1> QED
  BY <1>2, <1>3, <1>4 DEF t

LEMMA AppendSend ==
  ASSUME NEW hs, Line(hs), NoSend(hs), NEW h \in HandlerRec, h.of = "send",
         h.result = "ok" => ~ Closing(hs)
  PROVE  /\ Line(Append(hs, h))
         /\ ~ NoSend(Append(hs, h))
         /\ OkQueued(Append(hs, h)) <=> h.result = "ok"
         /\ OpDone(Append(hs, h)) <=> OpDone(hs) \/ h.result = "ok"
         /\ Closing(Append(hs, h)) <=> Closing(hs)
<1> DEFINE t == Append(hs, h)
<1>1. /\ hs \in Seq(HandlerRec) /\ t \in Seq(HandlerRec) /\ Len(hs) \in Nat
      /\ DOMAIN hs = 1 .. Len(hs) /\ DOMAIN t = 1 .. Len(hs) + 1
      /\ \A k \in DOMAIN hs : t[k] = hs[k]
      /\ t[Len(hs) + 1] = h
  BY DEF Line
<1> HIDE DEF t
<1>2. Line(t)
  <2>1. \A i \in DOMAIN t : t[i].of = "send" => i = Len(hs) + 1
    BY <1>1 DEF NoSend
  <2>2. \A i, j \in DOMAIN t : t[i].of = "send" /\ t[j].of = "send" => i = j
    BY <2>1
  <2>3. \A i, j \in DOMAIN t :
          t[i].of # "deferredClose" /\ t[i].result = "ok" /\ t[j].of = "deferredClose" => i < j
    <3> SUFFICES ASSUME NEW i \in DOMAIN t, NEW j \in DOMAIN t, t[i].of # "deferredClose",
                        t[i].result = "ok", t[j].of = "deferredClose"
                 PROVE  i < j
      OBVIOUS
    <3>1. j \in DOMAIN hs /\ Closing(hs)
      BY <1>1 DEF Closing
    <3>2. i \in DOMAIN hs
      BY <1>1, <3>1
    <3> QED
      BY <1>1, <3>1, <3>2 DEF Line
  <2> QED
    BY <1>1, <2>2, <2>3 DEF Line
<1>3. ~ NoSend(t) /\ (OkQueued(t) <=> h.result = "ok")
  BY <1>1 DEF NoSend, OkQueued
<1>4. (Closing(t) <=> Closing(hs)) /\ (OpDone(t) <=> OpDone(hs) \/ h.result = "ok")
  BY <1>1 DEF Closing, OpDone
<1> QED
  BY <1>2, <1>3, <1>4 DEF t

LEMMA TailLine ==
  ASSUME NEW hs, Line(hs), hs # <<>>
  PROVE  /\ Line(Tail(hs)) /\ Head(hs) \in HandlerRec
         /\ Closing(Tail(hs)) => Closing(hs)
         /\ OpDone(Tail(hs)) => OpDone(hs)
         /\ Head(hs).of # "deferredClose" /\ Head(hs).result = "ok" => OpDone(hs)
         /\ Head(hs).of # "send" => (NoSend(Tail(hs)) <=> NoSend(hs))
         /\ Head(hs).of # "send" => (OkQueued(Tail(hs)) <=> OkQueued(hs))
         /\ Head(hs).of = "send" => ~ NoSend(hs) /\ NoSend(Tail(hs)) /\ ~ OkQueued(Tail(hs))
         /\ Head(hs).of = "send" => (OkQueued(hs) <=> Head(hs).result = "ok")
         /\ Head(hs).of = "deferredClose" => Closing(hs) /\ ~ OpDone(hs)
<1> DEFINE t == Tail(hs)
           h == Head(hs)
<1>1. /\ hs \in Seq(HandlerRec) /\ t \in Seq(HandlerRec) /\ Len(hs) \in Nat /\ Len(hs) > 0
      /\ DOMAIN hs = 1 .. Len(hs) /\ DOMAIN t = 1 .. Len(hs) - 1
      /\ h = hs[1] /\ h \in HandlerRec
  BY DEF Line
<1>2. \A k \in DOMAIN t : t[k] = hs[k + 1] /\ k + 1 \in DOMAIN hs
  BY <1>1
<1>3. \A k \in DOMAIN hs : k = 1 \/ (k - 1 \in DOMAIN t /\ t[k - 1] = hs[k])
  BY <1>1
<1> HIDE DEF t, h
<1>4. Line(t)
  <2>1. \A i, j \in DOMAIN t : t[i].of = "send" /\ t[j].of = "send" => i = j
    BY <1>1, <1>2 DEF Line
  <2>2. \A i, j \in DOMAIN t :
          t[i].of # "deferredClose" /\ t[i].result = "ok" /\ t[j].of = "deferredClose" => i < j
    BY <1>1, <1>2 DEF Line
  <2> QED
    BY <1>1, <2>1, <2>2 DEF Line
<1>5. /\ Closing(t) => Closing(hs)
      /\ OpDone(t) => OpDone(hs)
      /\ h.of # "deferredClose" /\ h.result = "ok" => OpDone(hs)
  BY <1>1, <1>2 DEF Closing, OpDone
<1>6. h.of # "send" => (NoSend(t) <=> NoSend(hs)) /\ (OkQueued(t) <=> OkQueued(hs))
  BY <1>1, <1>2, <1>3 DEF NoSend, OkQueued
<1>7. h.of = "send" =>
        /\ ~ NoSend(hs) /\ NoSend(t) /\ ~ OkQueued(t)
        /\ OkQueued(hs) <=> h.result = "ok"
  <2> SUFFICES ASSUME h.of = "send" PROVE
        /\ ~ NoSend(hs) /\ NoSend(t) /\ ~ OkQueued(t)
        /\ OkQueued(hs) <=> h.result = "ok"
    OBVIOUS
  <2>1. 1 \in DOMAIN hs /\ \A k \in DOMAIN hs : hs[k].of = "send" => k = 1
    BY <1>1 DEF Line
  <2>2. NoSend(t)
    BY <1>1, <1>2, <2>1 DEF NoSend
  <2> QED
    BY <1>1, <2>1, <2>2 DEF NoSend, OkQueued
<1>8. h.of = "deferredClose" => Closing(hs) /\ ~ OpDone(hs)
  BY <1>1 DEF Line, Closing, OpDone
<1> QED
  BY <1>1, <1>4, <1>5, <1>6, <1>7, <1>8 DEF t, h

(* The handlers that shutdownSocket queues. *)
Shut(hs, r, w) ==
  Append(hs \o (IF r THEN <<Handler("receive", "aborted", 0)>> ELSE <<>>)
            \o (IF w THEN <<Handler("send", "aborted", 0)>> ELSE <<>>),
         Handler("deferredClose", "ok", 0))

LEMMA HandlerTypes ==
  ASSUME NEW of \in {"send", "receive", "deferredClose"},
         NEW result \in {"ok", "error", "eof", "aborted"}, NEW octets \in Int
  PROVE  /\ Handler(of, result, octets) \in HandlerRec
         /\ Handler(of, result, octets).of = of
         /\ Handler(of, result, octets).result = result
BY DEF Handler, HandlerRec

LEMMA ShutLine ==
  ASSUME NEW hs, Line(hs), NEW r \in BOOLEAN, NEW w \in BOOLEAN, w => NoSend(hs)
  PROVE  /\ Line(Shut(hs, r, w)) /\ Closing(Shut(hs, r, w))
         /\ OkQueued(Shut(hs, r, w)) <=> OkQueued(hs)
         /\ OpDone(Shut(hs, r, w)) <=> OpDone(hs)
         /\ NoSend(Shut(hs, r, w)) <=> NoSend(hs) /\ ~ w
<1> DEFINE a == IF r THEN Append(hs, Handler("receive", "aborted", 0)) ELSE hs
           b == IF w THEN Append(a, Handler("send", "aborted", 0)) ELSE a
           c == Append(b, Handler("deferredClose", "ok", 0))
<1>0. /\ Handler("receive", "aborted", 0) \in HandlerRec
      /\ Handler("send", "aborted", 0) \in HandlerRec
      /\ Handler("deferredClose", "ok", 0) \in HandlerRec
  BY HandlerTypes
<1>1. /\ Line(a) /\ (NoSend(a) <=> NoSend(hs)) /\ (OkQueued(a) <=> OkQueued(hs))
      /\ OpDone(a) <=> OpDone(hs)
  BY <1>0, HandlerTypes, AppendOther
<1>2. /\ Line(b) /\ (NoSend(b) <=> NoSend(hs) /\ ~ w) /\ (OkQueued(b) <=> OkQueued(hs))
      /\ OpDone(b) <=> OpDone(hs)
  <2> HIDE DEF a
  <2>1. CASE w
    <3>1. Line(b) /\ ~ NoSend(b) /\ ~ OkQueued(b) /\ (OpDone(b) <=> OpDone(a))
      BY <1>0, <1>1, <2>1, HandlerTypes, AppendSend
    <3>2. ~ OkQueued(hs)
      BY <2>1 DEF NoSend, OkQueued
    <3> QED
      BY <1>1, <2>1, <3>1, <3>2
  <2>2. CASE ~ w
    BY <1>1, <2>2
  <2> QED
    BY <2>1, <2>2
<1>3. /\ Line(c) /\ Closing(c) /\ (NoSend(c) <=> NoSend(b)) /\ (OkQueued(c) <=> OkQueued(b))
      /\ OpDone(c) <=> OpDone(b)
  <2> HIDE DEF b
  <2> QED
    BY <1>0, <1>2, HandlerTypes, AppendOther
<1>4. Shut(hs, r, w) = c
  <2>1. hs \in Seq(HandlerRec) /\ a \in Seq(HandlerRec)
    BY <1>1 DEF Line
  <2>2. hs \o (IF r THEN <<Handler("receive", "aborted", 0)>> ELSE <<>>) = a
    <3> DEFINE h == Handler("receive", "aborted", 0)
    <3>1. h \in HandlerRec
      BY <1>0
    <3> HIDE DEF h
    <3> QED
      BY <2>1, <3>1 DEF h
  <2>3. a \o (IF w THEN <<Handler("send", "aborted", 0)>> ELSE <<>>) = b
    <3> DEFINE h == Handler("send", "aborted", 0)
    <3>1. h \in HandlerRec
      BY <1>0
    <3> HIDE DEF h, a
    <3> QED
      BY <2>1, <3>1 DEF h
  <2> QED
    BY <2>2, <2>3 DEF Shut
<1> HIDE DEF a, b, c
<1> QED
  BY <1>1, <1>2, <1>3, <1>4

-----------------------------------------------------------------------------
(* The socket, the queue and the handlers.  shutdownSocket keeps the queue,   *)
(* so that it is emptied only behind the handlers that look at its front.     *)
HandlersOK ==
  /\ socket \in {"open", "shut", "closed"} /\ failed \in BOOLEAN
  /\ writing \in BOOLEAN /\ reading \in BOOLEAN
  /\ failed <=> socket # "open"
  /\ Line(handlers)
  /\ reading => socket = "open"
  /\ writing => socket = "open" /\ NoSend(handlers)
  /\ Closing(handlers) => failed
  /\ socket = "closed" => ~ OpDone(handlers)
  /\ freed => socket = "closed"
  /\ socket # "closed" /\ (writing \/ ~ NoSend(handlers)) => sendQueue # <<>>

(* The blocks before the front of the queue: those written, but for the one   *)
(* whose handler is still to run.                                             *)
Base(w, hs) == Len(w) - (IF OkQueued(hs) THEN 1 ELSE 0)

Queued(q, a, b) ==
  /\ b \in Nat /\ Len(a) = b + Len(q)
  /\ \A k \in 1 .. Len(q) : a[b + k] = q[k]

Written(w, a) ==
  /\ Len(w) =< Len(a)
  /\ \A k \in 1 .. Len(w) : w[k] = a[k]

BlocksOK ==
  /\ sendQueue \in Seq(Block) /\ wire \in Seq(Block) /\ accepted \in Seq(Block)
  /\ Written(wire, accepted)
  /\ socket # "closed" => Queued(sendQueue, accepted, Base(wire, handlers))

(* The inductive invariant. *)
SfInv == HandlersOK /\ BlocksOK

LEMMA SfInitOK == SfInit => SfInv
<1> SUFFICES ASSUME SfInit PROVE SfInv
  OBVIOUS
<1>1. /\ handlers = <<>> /\ sendQueue = <<>> /\ wire = <<>> /\ accepted = <<>>
      /\ socket = "open" /\ ~ failed /\ ~ freed /\ ~ writing /\ reading
      /\ failed \in BOOLEAN /\ writing \in BOOLEAN /\ reading \in BOOLEAN
  BY DEF SfInit
<1>2. /\ Line(handlers) /\ ~ OkQueued(handlers) /\ ~ OpDone(handlers)
      /\ ~ Closing(handlers) /\ NoSend(handlers)
  BY <1>1 DEF Line, OkQueued, OpDone, Closing, NoSend
<1>3. HandlersOK
  BY <1>1, <1>2 DEF HandlersOK
<1>4. BlocksOK
  BY <1>1, <1>2 DEF BlocksOK, Written, Queued, Base
<1> QED
  BY <1>3, <1>4 DEF SfInv

(* A step that leaves the blocks alone, and no handler of a write that        *)
(* succeeded goes or comes.                                                   *)
LEMMA BlocksKept ==
  ASSUME BlocksOK, UNCHANGED <<sendQueue, wire, accepted>>,
         OkQueued(handlers') <=> OkQueued(handlers), socket = "closed" => socket' = "closed"
  PROVE  BlocksOK'
BY DEF BlocksOK, Written, Queued, Base

-----------------------------------------------------------------------------
(* shutdownSocket, after the handlers queued so far. *)
LEMMA Shutdown ==
  ASSUME HandlersOK, NEW hs, Line(hs), shutdownSocket(hs), failed' = TRUE, UNCHANGED freed,
         NoSend(handlers) => NoSend(hs), OkQueued(hs) => OkQueued(handlers),
         socket # "closed"
  PROVE  HandlersOK' /\ (OkQueued(handlers') <=> OkQueued(hs))
<1>1. /\ socket' = "shut" /\ reading' = FALSE /\ writing' = FALSE /\ sendQueue' = sendQueue
      /\ handlers' = Shut(hs, reading, writing)
  BY DEF shutdownSocket, Shut
<1>2. reading \in BOOLEAN /\ writing \in BOOLEAN /\ (writing => NoSend(hs))
  BY DEF HandlersOK
<1>3. /\ Line(handlers') /\ Closing(handlers')
      /\ OkQueued(handlers') <=> OkQueued(hs)
      /\ NoSend(handlers') <=> NoSend(hs) /\ ~ writing
  BY <1>1, <1>2, ShutLine
<1> QED
  BY <1>1, <1>3 DEF HandlersOK

Appended(q, r, t) ==
  /\ Len(t) = Len(q) + Len(r) /\ t \in Seq(Block) /\ Len(q) \in Nat
  /\ \A k \in 1 .. Len(q) : t[k] = q[k]
  /\ \A k \in 1 .. Len(r) : t[Len(q) + k] = r[k]

LEMMA BlocksAppended ==
  ASSUME NEW q \in Seq(Block), NEW r \in Seq(Block)
  PROVE  Appended(q, r, q \o r)
<1> DEFINE t == q \o r
<1>1. Len(q) \in Nat /\ Len(r) \in Nat
  OBVIOUS
<1>2. /\ t \in Seq(Block) /\ Len(t) = Len(q) + Len(r)
      /\ \A i \in 1 .. Len(q) + Len(r) : t[i] = IF i <= Len(q) THEN q[i] ELSE r[i - Len(q)]
  BY ConcatProperties
<1>3. ASSUME NEW k \in 1 .. Len(q) PROVE t[k] = q[k]
  BY <1>1, <1>2
<1>4. ASSUME NEW k \in 1 .. Len(r) PROVE t[Len(q) + k] = r[k]
  <2>1. /\ Len(q) + k \in 1 .. Len(q) + Len(r)
        /\ ~ (Len(q) + k <= Len(q)) /\ Len(q) + k - Len(q) = k
    BY <1>1
  <2> QED
    BY <1>2, <2>1
<1> QED
  BY <1>1, <1>2, <1>3, <1>4 DEF Appended

LEMMA BlocksOfPacket ==
  ASSUME BlocksOK, NEW parts \in 1 .. 2
  PROVE  LET n == Cardinality({b.packet : b \in ToSet(accepted)})
         IN  /\ [k \in 1 .. parts |-> [packet |-> n, part |-> k]] \in Seq(Block)
             /\ Len([k \in 1 .. parts |-> [packet |-> n, part |-> k]]) = parts
<1> DEFINE n == Cardinality({b.packet : b \in ToSet(accepted)})
           blocks == [k \in 1 .. parts |-> [packet |-> n, part |-> k]]
<1>1. n \in Nat
  <2> DEFINE P == {b.packet : b \in ToSet(accepted)}
             D == 1 .. Len(accepted)
             f == [k \in D |-> accepted[k].packet]
  <2>1. accepted \in Seq(Block) /\ DOMAIN accepted = D /\ Len(accepted) \in Nat
    BY DEF BlocksOK
  <2>2. IsFiniteSet(D)
    BY <2>1, FS_Interval
  <2>3. f \in Surjection(D, P)
    <3>1. P = {accepted[k].packet : k \in D}
      BY <2>1 DEF ToSet
    <3> QED
      BY <3>1 DEF Surjection
  <2>4. IsFiniteSet(P)
    BY <2>2, <2>3, FS_Surjection DEF ExistsSurjection
  <2> QED
    BY <2>4, FS_CardinalityType
<1>2. blocks \in [1 .. parts -> Block] /\ parts \in Nat
  BY <1>1 DEF Block
<1>3. blocks \in Seq(Block)
  BY <1>2, SeqDef
<1>4. Len(blocks) = parts
  BY <1>2, <1>3
<1> QED
  BY <1>3, <1>4

LEMMA SendStep ==
  ASSUME SfInv, NEW parts \in 1 .. 2, SfSend(parts)
  PROVE  SfInv'
<1> DEFINE n == Cardinality({b.packet : b \in ToSet(accepted)})
           blocks == [k \in 1 .. parts |-> [packet |-> n, part |-> k]]
<1>1. HandlersOK /\ BlocksOK /\ ~ failed
  BY DEF SfInv, SfSend
<1>2. /\ sendQueue' = sendQueue \o blocks /\ accepted' = accepted \o blocks
      /\ UNCHANGED <<socket, failed, held, freed, reading, wire>>
      /\ IF sendQueue = <<>> THEN sendFromQueue(handlers) ELSE UNCHANGED <<writing, handlers>>
  BY DEF SfSend
<1>3. blocks \in Seq(Block) /\ Len(blocks) = parts /\ parts \in Nat /\ parts > 0
  <2>1. blocks \in Seq(Block) /\ Len(blocks) = parts
    BY <1>1, BlocksOfPacket, Zenon
  <2>2. parts \in Nat /\ parts > 0
    OBVIOUS
  <2> QED
    BY <2>1, <2>2, Zenon
<1> HIDE DEF blocks
<1>4. socket = "open" /\ socket' = "open"
  BY <1>1, <1>2 DEF HandlersOK
<1>5. handlers' = handlers /\ (writing' = writing \/ (sendQueue = <<>> /\ writing' = TRUE))
  BY <1>2, <1>4 DEF sendFromQueue
<1>6. sendQueue \in Seq(Block) /\ sendQueue' # <<>>
  <2>1. Len(sendQueue') = Len(sendQueue) + parts
    BY <1>1, <1>2, <1>3 DEF BlocksOK
  <2> QED
    BY <1>1, <1>3, <2>1 DEF BlocksOK
<1>7. HandlersOK'
  <2>1. handlers' = handlers /\ writing' \in BOOLEAN /\ (writing' => NoSend(handlers))
    <3>1. CASE writing' = writing
      BY <1>1, <1>5, <3>1 DEF HandlersOK
    <3>2. CASE sendQueue = <<>> /\ writing' = TRUE
      BY <1>1, <1>4, <1>5, <3>2 DEF HandlersOK
    <3> QED
      BY <1>5, <3>1, <3>2
  <2> QED
    BY <1>1, <1>2, <1>4, <1>6, <2>1 DEF HandlersOK
<1>8. BlocksOK'
  <2> DEFINE b == Base(wire, handlers)
  <2>1. /\ sendQueue \in Seq(Block) /\ accepted \in Seq(Block) /\ wire \in Seq(Block)
        /\ Written(wire, accepted) /\ Queued(sendQueue, accepted, b) /\ b' = b
    BY <1>1, <1>2, <1>4, <1>5 DEF BlocksOK
  <2> HIDE DEF b
  <2>2. /\ Len(sendQueue') = Len(sendQueue) + Len(blocks)
        /\ Len(accepted') = Len(accepted) + Len(blocks)
        /\ \A k \in 1 .. Len(accepted) : accepted'[k] = accepted[k]
        /\ \A k \in 1 .. Len(sendQueue) : sendQueue'[k] = sendQueue[k]
        /\ \A k \in 1 .. Len(blocks) : sendQueue'[Len(sendQueue) + k] = blocks[k]
        /\ \A k \in 1 .. Len(blocks) : accepted'[Len(accepted) + k] = blocks[k]
        /\ sendQueue' \in Seq(Block) /\ accepted' \in Seq(Block)
        /\ Len(sendQueue) \in Nat /\ Len(accepted) \in Nat
    <3>1. sendQueue' = sendQueue \o blocks /\ accepted' = accepted \o blocks
      BY <1>2
    <3>2. Appended(sendQueue, blocks, sendQueue')
      BY <1>3, <2>1, <3>1, BlocksAppended, Zenon
    <3>3. Appended(accepted, blocks, accepted')
      BY <1>3, <2>1, <3>1, BlocksAppended, Zenon
    <3> QED
      BY <3>2, <3>3, Zenon DEF Appended
  <2>3. Written(wire, accepted')
    BY <2>1, <2>2 DEF Written
  <2>4. Queued(sendQueue', accepted', b)
    <3> SUFFICES ASSUME NEW k \in 1 .. Len(sendQueue')
                 PROVE  accepted'[b + k] = sendQueue'[k]
      <4>1. Len(accepted) = b + Len(sendQueue) /\ b \in Nat
        BY <2>1, Zenon DEF Queued
      <4>2. Len(accepted') = b + Len(sendQueue')
        BY <1>3, <2>2, <4>1
      <4> QED
        BY <4>1, <4>2, Zenon DEF Queued
    <3>1. CASE k \in 1 .. Len(sendQueue)
      BY <2>1, <2>2, <3>1 DEF Queued
    <3>2. CASE k \notin 1 .. Len(sendQueue)
      <4> DEFINE m == k - Len(sendQueue)
      <4>1. m \in 1 .. Len(blocks)
        BY <1>3, <2>2, <3>2
      <4>2. k = Len(sendQueue) + m /\ b + k = Len(accepted) + m
        BY <2>1, <2>2 DEF Queued
      <4> HIDE DEF m
      <4> QED
        BY <2>2, <4>1, <4>2
    <3> QED
      BY <3>1, <3>2
  <2> QED
    BY <1>2, <2>1, <2>2, <2>3, <2>4 DEF BlocksOK, b
<1> QED
  BY <1>7, <1>8 DEF SfInv

LEMMA WriteStep ==
  ASSUME SfInv, WriteCompletes
  PROVE  SfInv'
<1>1. /\ HandlersOK /\ BlocksOK /\ writing /\ writing' = FALSE
      /\ UNCHANGED <<socket, failed, freed, sendQueue, accepted, reading>>
  BY DEF SfInv, WriteCompletes
<1>2. /\ socket = "open" /\ NoSend(handlers) /\ sendQueue # <<>> /\ ~ failed /\ ~ freed
      /\ ~ Closing(handlers) /\ Line(handlers) /\ ~ OkQueued(handlers)
  BY <1>1 DEF HandlersOK, NoSend, OkQueued
<1>3. PICK r \in {"ok", "error"} :
        /\ handlers' = Append(handlers, Handler("send", r, 0))
        /\ wire' = IF r = "ok" THEN Append(wire, Head(sendQueue)) ELSE wire
  BY DEF WriteCompletes
<1>4. /\ Line(handlers') /\ ~ NoSend(handlers') /\ ~ Closing(handlers')
      /\ OkQueued(handlers') <=> r = "ok"
  <2> DEFINE h == Handler("send", r, 0)
  <2>1. h \in HandlerRec /\ h.of = "send" /\ h.result = r /\ handlers' = Append(handlers, h)
    BY <1>3, HandlerTypes
  <2> HIDE DEF h
  <2> QED
    BY <1>2, <2>1, AppendSend
<1>5. HandlersOK'
  BY <1>1, <1>2, <1>4 DEF HandlersOK
<1>6. BlocksOK'
  <2>1. CASE r = "error"
    BY <1>1, <1>2, <1>3, <1>4, <2>1, BlocksKept
  <2>2. CASE r = "ok"
    <3>1. /\ sendQueue \in Seq(Block) /\ accepted \in Seq(Block) /\ wire \in Seq(Block)
          /\ Written(wire, accepted) /\ Queued(sendQueue, accepted, Len(wire))
      BY <1>1, <1>2 DEF BlocksOK, Base
    <3>2. /\ wire' \in Seq(Block) /\ Len(wire') = Len(wire) + 1
          /\ \A k \in 1 .. Len(wire) : wire'[k] = wire[k]
          /\ wire'[Len(wire) + 1] = sendQueue[1]
          /\ Len(sendQueue) > 0 /\ Len(sendQueue) \in Nat /\ Len(wire) \in Nat
      BY <1>2, <1>3, <2>2, <3>1
    <3>3. accepted[Len(wire) + 1] = sendQueue[1] /\ Len(wire) + 1 =< Len(accepted)
      BY <3>1, <3>2 DEF Queued
    <3>4. Written(wire', accepted)
      BY <3>1, <3>2, <3>3 DEF Written
    <3>5. Base(wire, handlers)' = Len(wire)
      BY <1>4, <2>2, <3>2 DEF Base
    <3> QED
      BY <1>1, <3>1, <3>2, <3>4, <3>5 DEF BlocksOK
  <2> QED
    BY <2>1, <2>2
<1> QED
  BY <1>5, <1>6 DEF SfInv

LEMMA ReadStep ==
  ASSUME SfInv, ReadCompletes
  PROVE  SfInv'
<1>1. /\ HandlersOK /\ BlocksOK /\ reading' = FALSE
      /\ UNCHANGED <<socket, failed, freed, sendQueue, writing, wire, accepted>>
  BY DEF SfInv, ReadCompletes, sendVars
<1>2. PICK r \in {"ok", "eof", "error"}, n \in Int : reading /\
        handlers' = Append(handlers, Handler("receive", r, n))
  <2>1. 0 \in Int
    OBVIOUS
  <2> QED
    BY <2>1 DEF ReadCompletes
<1>3. /\ Line(handlers') /\ (NoSend(handlers') <=> NoSend(handlers))
      /\ OkQueued(handlers') <=> OkQueued(handlers)
      /\ Closing(handlers') <=> Closing(handlers)
  <2> DEFINE h == Handler("receive", r, n)
  <2>1. h \in HandlerRec /\ h.of = "receive" /\ handlers' = Append(handlers, h)
    BY <1>2, HandlerTypes
  <2> HIDE DEF h
  <2>2. Line(handlers) /\ ~ Closing(handlers)
    BY <1>1, <1>2 DEF HandlersOK
  <2> QED
    BY <2>1, <2>2, AppendOther
<1>4. HandlersOK'
  <2>1. socket = "open"
    BY <1>1, <1>2 DEF HandlersOK
  <2> QED
    BY <1>1, <1>3, <2>1 DEF HandlersOK
<1>5. BlocksOK'
  BY <1>1, <1>3, BlocksKept
<1> QED
  BY <1>4, <1>5 DEF SfInv

LEMMA CloseStep ==
  ASSUME SfInv, SfClose
  PROVE  SfInv'
<1>1. /\ HandlersOK /\ BlocksOK /\ socket # "closed" /\ failed' = TRUE
      /\ shutdownSocket(handlers) /\ UNCHANGED <<freed, wire, accepted>>
  BY DEF SfInv, SfClose
<1>2. HandlersOK' /\ (OkQueued(handlers') <=> OkQueued(handlers))
  BY <1>1, Shutdown DEF HandlersOK
<1>3. sendQueue' = sendQueue
  BY <1>1 DEF shutdownSocket
<1>4. BlocksOK'
  BY <1>1, <1>2, <1>3, BlocksKept
<1> QED
  BY <1>2, <1>4 DEF SfInv

-----------------------------------------------------------------------------
(* The handlers.  Each is the first of the queue; rest is what is behind it.  *)
LEMMA ErrorStep ==
  ASSUME SfInv, handlers # <<>>, Head(handlers).of # "deferredClose",
         Head(handlers).of = "send" => Head(handlers).result # "ok", NEW result,
         processErrorCode(result, Tail(handlers)), UNCHANGED <<freed, wire, accepted>>
  PROVE  SfInv'
<1> DEFINE rest == Tail(handlers)
<1>1. HandlersOK /\ BlocksOK /\ Line(handlers)
  BY DEF SfInv, HandlersOK
<1>2. /\ Line(rest) /\ (Closing(rest) => Closing(handlers))
      /\ NoSend(handlers) => NoSend(rest)
      /\ OkQueued(rest) <=> OkQueued(handlers)
      /\ OpDone(rest) => OpDone(handlers)
  BY <1>1, TailLine
<1>3. processErrorCode(result, rest)
  OBVIOUS
<1> HIDE DEF rest
<1>4. CASE socket # "closed" /\ result # "aborted"
  <2>1. failed' = TRUE /\ shutdownSocket(rest)
    BY <1>3, <1>4 DEF processErrorCode
  <2>2. HandlersOK' /\ (OkQueued(handlers') <=> OkQueued(rest))
    BY <1>1, <1>2, <1>4, <2>1, Shutdown
  <2>3. sendQueue' = sendQueue
    BY <2>1 DEF shutdownSocket
  <2> QED
    BY <1>1, <1>2, <1>4, <2>2, <2>3, BlocksKept DEF SfInv
<1>5. CASE ~ (socket # "closed" /\ result # "aborted")
  <2>1. /\ handlers' = rest /\ UNCHANGED <<socket, sendQueue, writing, reading>>
        /\ failed' = failed \/ (failed' = TRUE /\ socket = "closed")
    BY <1>3, <1>5 DEF processErrorCode
  <2>2. failed' = failed
    BY <1>1, <2>1 DEF HandlersOK
  <2>3. HandlersOK'
    BY <1>1, <1>2, <2>1, <2>2 DEF HandlersOK
  <2>4. BlocksOK'
    BY <1>1, <1>2, <2>1, BlocksKept
  <2> QED
    BY <2>3, <2>4 DEF SfInv
<1> QED
  BY <1>4, <1>5

LEMMA HandleSendStep ==
  ASSUME SfInv, handlers # <<>>, handleSend(Head(handlers), Tail(handlers))
  PROVE  SfInv'
<1> DEFINE h == Head(handlers)
           rest == Tail(handlers)
<1>1. /\ HandlersOK /\ BlocksOK /\ Line(handlers) /\ h.of = "send" /\ ~ freed
      /\ UNCHANGED <<freed, wire, accepted>>
  BY DEF SfInv, HandlersOK, handleSend
<1>2. CASE h.result # "ok"
  <2>1. processErrorCode(h.result, rest)
    BY <1>2 DEF handleSend
  <2> QED
    BY <1>1, <1>2, <2>1, ErrorStep
<1>3. CASE h.result = "ok"
  <2>1. /\ Line(rest) /\ (Closing(rest) => Closing(handlers))
        /\ NoSend(rest) /\ ~ OkQueued(rest) /\ OkQueued(handlers) /\ ~ NoSend(handlers)
        /\ OpDone(handlers)
    BY <1>1, <1>3, TailLine
  <2>2. /\ sendQueue' = Tail(sendQueue) /\ UNCHANGED <<socket, failed, reading>>
        /\ IF sendQueue' # <<>> THEN sendFromQueue(rest) ELSE writing' = FALSE /\ handlers' = rest
    BY <1>3 DEF handleSend
  <2> HIDE DEF rest, h
  <2>3. socket # "closed" /\ sendQueue # <<>>
    BY <1>1, <2>1 DEF HandlersOK
  <2>4. ~ OkQueued(handlers') /\ HandlersOK'
    <3>1. CASE sendQueue' = <<>>
      <4>1. writing' = FALSE /\ handlers' = rest
        BY <2>2, <3>1
      <4> QED
        BY <1>1, <2>1, <2>2, <2>3, <4>1 DEF HandlersOK
    <3>2. CASE sendQueue' # <<>> /\ socket = "open"
      <4>1. writing' = TRUE /\ handlers' = rest
        BY <2>2, <3>2 DEF sendFromQueue
      <4> QED
        BY <1>1, <2>1, <2>2, <3>2, <4>1 DEF HandlersOK
    <3>3. CASE sendQueue' # <<>> /\ socket # "open"
      <4> DEFINE e == Handler("send", "error", 0)
      <4>1. writing' = FALSE /\ handlers' = Append(rest, e)
        BY <2>2, <3>3 DEF sendFromQueue
      <4>2. e \in HandlerRec /\ e.of = "send" /\ e.result # "ok"
        BY HandlerTypes
      <4> HIDE DEF e
      <4>3. /\ Line(handlers') /\ ~ OkQueued(handlers')
            /\ Closing(handlers') <=> Closing(rest)
        BY <2>1, <4>1, <4>2, AppendSend
      <4> QED
        BY <1>1, <2>1, <2>2, <3>3, <4>1, <4>3 DEF HandlersOK
    <3> QED
      BY <3>1, <3>2, <3>3
  <2>5. BlocksOK'
    <3>1. /\ sendQueue \in Seq(Block) /\ accepted \in Seq(Block) /\ wire \in Seq(Block)
          /\ Written(wire, accepted) /\ Queued(sendQueue, accepted, Len(wire) - 1)
      BY <1>1, <2>1, <2>3 DEF BlocksOK, Base
    <3>2. /\ sendQueue' \in Seq(Block) /\ Len(sendQueue') = Len(sendQueue) - 1
          /\ \A k \in 1 .. Len(sendQueue') : sendQueue'[k] = sendQueue[k + 1]
          /\ Len(sendQueue) \in Nat /\ Len(sendQueue) > 0 /\ Len(wire) \in Nat
      BY <2>2, <2>3, <3>1
    <3>3. Queued(sendQueue', accepted, Len(wire))
      <4> SUFFICES ASSUME NEW k \in 1 .. Len(sendQueue')
                   PROVE  accepted[Len(wire) + k] = sendQueue'[k]
        BY <3>1, <3>2 DEF Queued
      <4>1. k + 1 \in 1 .. Len(sendQueue) /\ (Len(wire) - 1) + (k + 1) = Len(wire) + k
        BY <3>2
      <4>2. accepted[(Len(wire) - 1) + (k + 1)] = sendQueue[k + 1]
        BY <3>1, <4>1 DEF Queued
      <4> QED
        BY <3>2, <4>1, <4>2
    <3>4. Base(wire, handlers)' = Len(wire)
      BY <1>1, <2>4, <3>2 DEF Base
    <3> QED
      BY <1>1, <3>1, <3>2, <3>3, <3>4 DEF BlocksOK
  <2> QED
    BY <2>4, <2>5 DEF SfInv
<1> QED
  BY <1>2, <1>3

LEMMA HandleReceiveStep ==
  ASSUME SfInv, handlers # <<>>, handleReceive(Head(handlers), Tail(handlers))
  PROVE  SfInv'
<1> DEFINE h == Head(handlers)
           rest == Tail(handlers)
<1>1. /\ HandlersOK /\ BlocksOK /\ Line(handlers) /\ h.of = "receive" /\ ~ freed
      /\ UNCHANGED <<freed, wire, accepted>>
  BY DEF SfInv, HandlersOK, handleReceive
<1>2. \/ processErrorCode(h.result, rest)
      \/ h.result = "ok" /\ failed' = TRUE /\ shutdownSocket(rest)
      \/ h.result = "ok" /\ asyncReceive(rest) /\ UNCHANGED <<socket, failed, sendQueue, writing>>
  BY DEF handleReceive
<1>3. /\ Line(rest) /\ (Closing(rest) => Closing(handlers))
      /\ NoSend(rest) <=> NoSend(handlers)
      /\ OkQueued(rest) <=> OkQueued(handlers)
      /\ h.result = "ok" => socket # "closed"
  BY <1>1, TailLine DEF HandlersOK
<1>4. CASE processErrorCode(h.result, rest)
  BY <1>1, <1>4, ErrorStep
<1>5. CASE h.result = "ok" /\ failed' = TRUE /\ shutdownSocket(rest)
  <2>1. HandlersOK' /\ (OkQueued(handlers') <=> OkQueued(rest))
    BY <1>1, <1>3, <1>5, Shutdown
  <2>2. sendQueue' = sendQueue
    BY <1>5 DEF shutdownSocket
  <2> QED
    BY <1>1, <1>3, <1>5, <2>1, <2>2, BlocksKept DEF SfInv
<1>6. CASE h.result = "ok" /\ asyncReceive(rest) /\ UNCHANGED <<socket, failed, sendQueue, writing>>
  <2>1. /\ Line(handlers') /\ (Closing(handlers') => Closing(handlers))
        /\ NoSend(handlers') <=> NoSend(handlers)
        /\ OkQueued(handlers') <=> OkQueued(handlers)
        /\ reading' \in BOOLEAN /\ (reading' => socket = "open")
    <3>1. CASE socket = "open"
      BY <1>3, <1>6, <3>1 DEF asyncReceive
    <3>2. CASE socket # "open"
      <4> DEFINE e == Handler("receive", "eof", 0)
      <4>1. /\ reading' = FALSE /\ handlers' = Append(rest, e)
            /\ e \in HandlerRec /\ e.of = "receive" /\ e.result # "ok"
        BY <1>6, <3>2, HandlerTypes DEF asyncReceive
      <4> HIDE DEF e, rest
      <4> QED
        BY <1>3, <4>1, AppendOther
    <3> QED
      BY <3>1, <3>2
  <2>2. HandlersOK'
    BY <1>1, <1>3, <1>6, <2>1 DEF HandlersOK
  <2> QED
    BY <1>1, <1>6, <2>1, <2>2, BlocksKept DEF SfInv
<1> QED
  BY <1>2, <1>4, <1>5, <1>6

LEMMA DeferredCloseStep ==
  ASSUME SfInv, handlers # <<>>, deferredClose(Head(handlers), Tail(handlers))
  PROVE  SfInv'
<1> DEFINE h == Head(handlers)
           rest == Tail(handlers)
<1>1. /\ HandlersOK /\ BlocksOK /\ Line(handlers) /\ h.of = "deferredClose"
      /\ sendQueue' = <<>> /\ socket' = "closed" /\ handlers' = rest
      /\ UNCHANGED <<failed, writing, wire, accepted, reading>>
  BY DEF SfInv, HandlersOK, deferredClose
<1>2. /\ Line(rest) /\ (Closing(rest) => Closing(handlers)) /\ ~ OpDone(rest)
      /\ Closing(handlers)
  BY <1>1, TailLine
<1> HIDE DEF rest, h
<1>3. HandlersOK'
  BY <1>1, <1>2 DEF HandlersOK
<1>4. BlocksOK'
  BY <1>1 DEF BlocksOK
<1> QED
  BY <1>3, <1>4 DEF SfInv

LEMMA FreedStep ==
  ASSUME SfInv, handlers # <<>>, RunsOnFreed(Head(handlers), Tail(handlers))
  PROVE  SfInv'
<1> DEFINE rest == Tail(handlers)
<1>1. /\ HandlersOK /\ BlocksOK /\ Line(handlers) /\ freed /\ handlers' = rest
      /\ UNCHANGED <<socket, failed, freed, sendQueue, writing, wire, accepted, reading>>
  BY DEF SfInv, HandlersOK, RunsOnFreed, sendVars
<1>2. Line(rest) /\ (Closing(rest) => Closing(handlers)) /\ (OpDone(rest) => OpDone(handlers))
  BY <1>1, TailLine
<1> HIDE DEF rest
<1>3. socket = "closed" /\ socket' = "closed"
  BY <1>1 DEF HandlersOK
<1>4. HandlersOK'
  BY <1>1, <1>2, <1>3 DEF HandlersOK
<1>5. BlocksOK'
  BY <1>1, <1>3 DEF BlocksOK
<1> QED
  BY <1>4, <1>5 DEF SfInv

LEMMA SfStep == SfInv /\ [SfNext]_sfVars => SfInv'
<1> SUFFICES ASSUME SfInv, [SfNext]_sfVars PROVE SfInv'
  OBVIOUS
<1>1. CASE UNCHANGED sfVars
  <2>1. UNCHANGED <<socket, failed, freed, sendQueue, writing, wire, accepted, reading, handlers>>
    BY <1>1 DEF sfVars, sendVars
  <2> QED
    BY <2>1 DEF SfInv, HandlersOK, BlocksOK
<1>2. ASSUME NEW parts \in 1 .. 2, SfSend(parts) PROVE SfInv'
  BY <1>2, SendStep
<1>3. CASE RunHandler
  BY <1>3, HandleSendStep, HandleReceiveStep, DeferredCloseStep, FreedStep DEF RunHandler
<1> QED
  BY <1>1, <1>2, <1>3, WriteStep, ReadStep, CloseStep DEF SfNext

LEMMA SfInvariance == SfSpec => []SfInv
BY SfInitOK, SfStep, PTL DEF SfSpec

LEMMA SfInvImplies == SfInv => SendQueueHeld
<1> SUFFICES ASSUME SfInv PROVE SendQueueHeld
  OBVIOUS
<1> DEFINE done == {k \in DOMAIN handlers : handlers[k].of = "send"}
<1>1. HandlersOK /\ BlocksOK /\ Line(handlers)
  BY DEF SfInv, HandlersOK
<1>2. Cardinality(done) + (IF writing THEN 1 ELSE 0) =< 1
  <2>1. CASE NoSend(handlers)
    <3>1. done = {}
      BY <2>1 DEF NoSend
    <3> QED
      BY <3>1, FS_EmptySet
  <2>2. CASE ~ NoSend(handlers)
    <3>1. PICK k \in DOMAIN handlers : handlers[k].of = "send"
      BY <2>2 DEF NoSend
    <3>2. done = {k}
      BY <1>1, <3>1 DEF Line
    <3>3. ~ writing
      BY <1>1, <2>2 DEF HandlersOK
    <3>4. Cardinality(done) = 1
      BY <3>2, FS_Singleton
    <3> QED
      BY <3>3, <3>4
  <2> QED
    BY <2>1, <2>2
<1>3. ~ freed /\ socket # "closed" /\ (writing \/ \E k \in done : handlers[k].result = "ok")
        => sendQueue # <<>>
  BY <1>1 DEF HandlersOK, NoSend
<1>4. IsPrefix(wire, accepted)
  <2>1. /\ wire \in Seq(Block) /\ accepted \in Seq(Block) /\ Len(wire) =< Len(accepted)
        /\ \A k \in 1 .. Len(wire) : wire[k] = accepted[k]
    BY <1>1 DEF BlocksOK, Written
  <2>2. SubSeq(wire, 1, Len(wire)) = SubSeq(accepted, 1, Len(wire))
    BY <2>1
  <2> QED
    BY <2>1, <2>2 DEF IsPrefix
<1> QED
  BY <1>2, <1>3, <1>4 DEF SendQueueHeld

(* The assertion of StreamFaceSenderImpl::handleSend and the order of blocks,  *)
(* for any sizes of the buffer and of the input and any number of packets: a   *)
(* write that succeeded finds its block at the front of the queue, one write   *)
(* is under way at most, and what is on the wire is a prefix of what was sent. *)
THEOREM SendQueueIsHeld == SfSpec => []SendQueueHeld
BY SfInvariance, SfInvImplies, PTL

-----------------------------------------------------------------------------
(***************************************************************************)
(* The input side of a stream face.  Of a face that has not failed, the    *)
(* octets received are those of the elements dispatched, those buffered    *)
(* and those that a queued handler brings; one read is under way or queued *)
(* at most, and the buffer holds no whole element.                         *)
(***************************************************************************)
NoReceive(hs) == \A k \in DOMAIN hs : hs[k].of # "receive"
OneReceive(hs) == \A i, j \in DOMAIN hs : hs[i].of = "receive" /\ hs[j].of = "receive" => i = j
OkReceive(h) == h.of = "receive" /\ h.result = "ok"
Brings(h, b, t) == h.octets \in Nat /\ h.octets > 0 /\ h.octets =< BufferSize - b /\ b + h.octets = t

(* b octets are buffered of the t octets that were not dispatched. *)
Accounted(hs, b, t) ==
  /\ OneReceive(hs)
  /\ \A k \in DOMAIN hs : OkReceive(hs[k]) => Brings(hs[k], b, t)
  /\ (\A k \in DOMAIN hs : ~ OkReceive(hs[k])) => b = t

LEMMA TailReceives ==
  ASSUME NEW hs \in Seq(HandlerRec), hs # <<>>, NEW b, NEW t, Accounted(hs, b, t)
  PROVE  /\ NoReceive(hs) => NoReceive(Tail(hs))
         /\ Head(hs).of = "receive" => NoReceive(Tail(hs))
         /\ OkReceive(Head(hs)) => Brings(Head(hs), b, t)
         /\ ~ OkReceive(Head(hs)) => Accounted(Tail(hs), b, t)
<1> DEFINE r == Tail(hs)
           h == Head(hs)
<1>1. /\ Len(hs) \in Nat /\ Len(hs) > 0 /\ r \in Seq(HandlerRec)
      /\ DOMAIN hs = 1 .. Len(hs) /\ DOMAIN r = 1 .. Len(hs) - 1 /\ h = hs[1]
  OBVIOUS
<1>2. \A k \in DOMAIN r : r[k] = hs[k + 1] /\ k + 1 \in DOMAIN hs /\ k + 1 # 1
  BY <1>1
<1>3. \A k \in DOMAIN hs : k = 1 \/ (k - 1 \in DOMAIN r /\ r[k - 1] = hs[k])
  BY <1>1
<1>4. \A i, j \in DOMAIN r : i + 1 = j + 1 => i = j
  BY <1>1
<1>5. 1 \in DOMAIN hs
  BY <1>1
<1> HIDE DEF r, h
<1>6. NoReceive(hs) => NoReceive(r)
  BY <1>2 DEF NoReceive
<1>7. h.of = "receive" => NoReceive(r)
  BY <1>1, <1>2, <1>5 DEF NoReceive, Accounted, OneReceive
<1>8. OkReceive(h) => Brings(h, b, t)
  BY <1>1, <1>5 DEF Accounted
<1>9. ASSUME ~ OkReceive(h) PROVE Accounted(r, b, t)
  <2>1. OneReceive(r)
    BY <1>2, <1>4 DEF Accounted, OneReceive
  <2>2. \A k \in DOMAIN r : OkReceive(r[k]) => Brings(r[k], b, t)
    BY <1>2 DEF Accounted
  <2>3. (\A k \in DOMAIN r : ~ OkReceive(r[k])) => b = t
    BY <1>1, <1>3, <1>9 DEF Accounted
  <2> QED
    BY <2>1, <2>2, <2>3 DEF Accounted
<1> QED
  BY <1>6, <1>7, <1>8, <1>9 DEF r, h

LEMMA AppendReceives ==
  ASSUME NEW hs \in Seq(HandlerRec), NEW h \in HandlerRec, NEW b, NEW t, Accounted(hs, b, t)
  PROVE  /\ h.of # "receive" => Accounted(Append(hs, h), b, t)
         /\ h.of # "receive" /\ NoReceive(hs) => NoReceive(Append(hs, h))
         /\ NoReceive(hs) /\ h.of = "receive" /\ h.result # "ok" => Accounted(Append(hs, h), b, t)
         /\ \A n : NoReceive(hs) /\ OkReceive(h) /\ Brings(h, b, n) => Accounted(Append(hs, h), b, n)
<1> DEFINE s == Append(hs, h)
<1>1. /\ DOMAIN hs \subseteq DOMAIN s /\ \A k \in DOMAIN s : k \in DOMAIN hs \/ k = Len(hs) + 1
      /\ Len(hs) + 1 \in DOMAIN s /\ s[Len(hs) + 1] = h
      /\ \A k \in DOMAIN hs : s[k] = hs[k]
  OBVIOUS
<1> DEFINE last == Len(hs) + 1
<1> HIDE DEF s
<1>2. /\ DOMAIN hs \subseteq DOMAIN s /\ (\A k \in DOMAIN s : k \in DOMAIN hs \/ k = last)
      /\ last \in DOMAIN s /\ s[last] = h /\ \A k \in DOMAIN hs : s[k] = hs[k]
  BY <1>1
<1> HIDE DEF last
<1>3. ASSUME h.of # "receive"
      PROVE  Accounted(s, b, t) /\ (NoReceive(hs) => NoReceive(s))
  <2>1. \A k \in DOMAIN s : s[k].of = "receive" => k \in DOMAIN hs /\ s[k] = hs[k]
    BY <1>2, <1>3
  <2> QED
    BY <1>2, <2>1, Zenon DEF Accounted, OneReceive, NoReceive, OkReceive
<1>4. ASSUME NoReceive(hs), h.of = "receive", h.result # "ok" PROVE Accounted(s, b, t)
  <2>1. \A k \in DOMAIN s : s[k].of = "receive" => k = last
    BY <1>2, <1>4 DEF NoReceive
  <2>2. OneReceive(s)
    BY <2>1, Zenon DEF OneReceive
  <2>3. \A k \in DOMAIN s : ~ OkReceive(s[k])
    BY <1>2, <1>4, <2>1 DEF OkReceive
  <2>4. b = t
    BY <1>4, Zenon DEF Accounted, NoReceive, OkReceive
  <2> QED
    BY <2>2, <2>3, <2>4, Zenon DEF Accounted
<1>5. ASSUME NEW n, NoReceive(hs), OkReceive(h), Brings(h, b, n) PROVE Accounted(s, b, n)
  <2>1. \A k \in DOMAIN s : s[k].of = "receive" => k = last
    BY <1>2, <1>5 DEF NoReceive
  <2>2. OneReceive(s)
    BY <2>1, Zenon DEF OneReceive
  <2>3. \A k \in DOMAIN s : OkReceive(s[k]) => Brings(s[k], b, n)
    BY <1>2, <1>5, <2>1, Zenon DEF OkReceive
  <2>4. ~ (\A k \in DOMAIN s : ~ OkReceive(s[k]))
    BY <1>2, <1>5, Zenon
  <2> QED
    BY <2>2, <2>3, <2>4, Zenon DEF Accounted
<1> QED
  BY <1>3, <1>4, <1>5 DEF s

-----------------------------------------------------------------------------
(* The ends of elements increase, and the largest number of elements that the  *)
(* buffer holds exists.                                                        *)
LEMMA EndsIncrease ==
  ASSUME input \in Inputs
  PROVE  /\ Len(input) \in Nat
         /\ \A k \in 0 .. Len(input) : End(k) \in Nat
         /\ \A k, l \in 0 .. Len(input) : k =< l => End(k) =< End(l)
         /\ \A k, l \in 0 .. Len(input) : k < l => End(k) < End(l)
<1>1. /\ input \in Seq(Nat \ {0})
      /\ \A k, l \in DOMAIN input : k < l => input[k] < input[l]
  BY StreamFaceAssumption
<1>2. Len(input) \in Nat /\ DOMAIN input = 1 .. Len(input)
      /\ \A k \in DOMAIN input : input[k] \in Nat /\ input[k] > 0
  BY <1>1
<1>3. \A k \in 0 .. Len(input) : End(k) \in Nat
  BY <1>2 DEF End
<1>4. ASSUME NEW k \in 0 .. Len(input), NEW l \in 0 .. Len(input), k < l
      PROVE  End(k) < End(l)
  <2>1. l \in DOMAIN input /\ l # 0 /\ End(l) = input[l]
    BY <1>2, <1>4 DEF End
  <2>2. CASE k = 0
    BY <1>2, <2>1, <2>2 DEF End
  <2>3. CASE k # 0
    <3>1. k \in DOMAIN input /\ End(k) = input[k]
      BY <1>2, <2>3 DEF End
    <3> QED
      BY <1>1, <1>4, <2>1, <3>1
  <2> QED
    BY <2>2, <2>3
<1>5. ASSUME NEW k \in 0 .. Len(input), NEW l \in 0 .. Len(input), k =< l
      PROVE  End(k) =< End(l)
  BY <1>2, <1>3, <1>4, <1>5
<1> QED
  BY <1>2, <1>3, <1>4, <1>5

LEMMA MaxOfBounded ==
  ASSUME NEW N \in Nat, NEW S \in SUBSET (0 .. N), S # {}
  PROVE  Max(S) \in S /\ \A y \in S : y =< Max(S)
<1> DEFINE T == {N - k : k \in S}
<1>1. T \in SUBSET Nat /\ T # {}
  <2>1. ASSUME NEW k \in S PROVE N - k \in Nat
    <3>1. k \in 0 .. N
      OBVIOUS
    <3> QED
      BY <3>1
  <2>2. PICK k \in S : TRUE
    OBVIOUS
  <2> QED
    BY <2>1, <2>2
<1>2. PICK x \in T : \A y \in T : x =< y
  BY <1>1, LeastNatural
<1>3. PICK k \in S : x = N - k
  BY <1>2
<1>4. ASSUME NEW y \in S PROVE y =< k
  <2>1. x =< N - y
    BY <1>2
  <2> QED
    BY <1>3, <2>1
<1>5. \E z \in S : \A y \in S : z >= y
  <2>1. \A y \in S : k >= y
    BY <1>4
  <2> QED
    BY <1>3, <2>1
<1>6. Max(S) \in S /\ \A y \in S : Max(S) >= y
  BY <1>5, Zenon DEF Max
<1> QED
  BY <1>6

-----------------------------------------------------------------------------
Pending == taken - End(dispatched)

InputLive ==
  /\ dispatched \in 0 .. Len(input) /\ taken \in Nat /\ buffered \in Nat
  /\ taken =< Octets
  /\ reading => NoReceive(handlers)
  /\ Accounted(handlers, buffered, Pending)
  /\ dispatched < Len(input) => buffered < BufferSize /\ buffered < Parsed(1)

(* The inductive invariant of the input side, on top of SfInv. *)
InputOK == input \in Inputs /\ (~ failed => InputLive)

(* A step that leaves the input alone. *)
LEMMA InputKept ==
  ASSUME InputLive, UNCHANGED inputVars, Accounted(handlers', buffered, Pending),
         reading' => NoReceive(handlers')
  PROVE  InputLive'
<1>1. UNCHANGED <<input, taken, buffered, dispatched>>
  BY DEF inputVars
<1>2. Pending' = Pending /\ Octets' = Octets /\ Parsed(1)' = Parsed(1)
  BY <1>1 DEF Pending, Octets, Parsed, End
<1>3. Accounted(handlers, buffered, Pending)'
  BY <1>1, <1>2 DEF Accounted, OneReceive, OkReceive, Brings
<1>4. NoReceive(handlers)' <=> NoReceive(handlers')
  BY DEF NoReceive
<1> QED
  BY <1>1, <1>2, <1>3, <1>4 DEF InputLive

LEMMA ReadAccounted ==
  ASSUME SfInv, InputOK, ~ failed, ReadCompletes
  PROVE  InputLive'
<1>1. /\ InputLive /\ handlers \in Seq(HandlerRec) /\ NoReceive(handlers) /\ input \in Inputs
      /\ reading' = FALSE /\ UNCHANGED <<input, buffered, dispatched, oversize>>
  BY DEF InputOK, SfInv, HandlersOK, Line, ReadCompletes, InputLive
<1>2. /\ buffered = Pending /\ Accounted(handlers, buffered, Pending)
  BY <1>1 DEF InputLive, Accounted, NoReceive, OkReceive
<1>3. Parsed(1)' = Parsed(1) /\ Octets' = Octets /\ End(dispatched)' = End(dispatched)
  BY <1>1 DEF Parsed, Octets, End
<1>4. /\ taken \in Nat /\ buffered \in Nat /\ taken =< Octets /\ Octets \in Nat
      /\ End(dispatched) \in Nat /\ BufferSize \in Nat
  BY <1>1, EndsIncrease, StreamFaceAssumption DEF InputLive, Octets
<1>5. ASSUME NEW n \in 1 .. Min({BufferSize - buffered, Octets - taken}), taken' = taken + n,
             handlers' = Append(handlers, Handler("receive", "ok", n))
      PROVE  InputLive'
  <2> DEFINE h == Handler("receive", "ok", n)
  <2>1. Min({BufferSize - buffered, Octets - taken})
          = IF BufferSize - buffered =< Octets - taken THEN BufferSize - buffered ELSE Octets - taken
    BY <1>4, MinOfTwo
  <2>2. n \in Nat /\ n > 0 /\ n =< BufferSize - buffered /\ n =< Octets - taken
    BY <1>4, <2>1
  <2>3. h \in HandlerRec /\ OkReceive(h) /\ h.octets = n
    BY <2>2 DEF Handler, HandlerRec, OkReceive
  <2>4. Pending' = buffered + n
    BY <1>2, <1>3, <1>4, <1>5, <2>2 DEF Pending
  <2>5. Brings(h, buffered, Pending')
    BY <2>2, <2>3, <2>4 DEF Brings
  <2>6. handlers' = Append(handlers, h)
    BY <1>5
  <2> HIDE DEF h
  <2>7. Accounted(handlers', buffered, Pending')
    BY <1>1, <1>2, <2>3, <2>5, <2>6, AppendReceives
  <2>8. Accounted(handlers, buffered, Pending)'
    BY <1>1, <2>7 DEF Accounted, OneReceive, OkReceive, Brings
  <2>9. taken' \in Nat /\ taken' =< Octets'
    BY <1>3, <1>4, <1>5, <2>2
  <2> QED
    BY <1>1, <1>3, <2>8, <2>9 DEF InputLive
<1>6. ASSUME NEW r \in {"eof", "error"}, taken' = taken,
             handlers' = Append(handlers, Handler("receive", r, 0))
      PROVE  InputLive'
  <2> DEFINE h == Handler("receive", r, 0)
  <2>1. h \in HandlerRec /\ h.of = "receive" /\ h.result # "ok" /\ handlers' = Append(handlers, h)
    BY <1>6, HandlerTypes
  <2> HIDE DEF h
  <2>2. Accounted(handlers', buffered, Pending)
    BY <1>1, <1>2, <2>1, AppendReceives
  <2> QED
    BY <1>1, <1>6, <2>2, InputKept DEF inputVars
<1> QED
  BY <1>5, <1>6, Zenon DEF ReadCompletes

(* The elements found in the buffer are dispatched; what is left over is less  *)
(* than an element and less than the buffer.                                   *)
LEMMA ReceiveDispatches ==
  ASSUME SfInv, InputOK, ~ failed, handlers # <<>>, Head(handlers).result = "ok",
         handleReceive(Head(handlers), Tail(handlers)), ~ failed'
  PROVE  InputLive'
<1> DEFINE h == Head(handlers)
           rest == Tail(handlers)
           size == buffered + h.octets
           S == {k \in 0 .. Len(input) - dispatched : Parsed(k) =< size}
           n == Max(S)
           offset == Parsed(n)
<1>1. /\ InputLive /\ handlers \in Seq(HandlerRec) /\ input \in Inputs /\ socket = "open"
  BY DEF InputOK, SfInv, HandlersOK, Line
<1>2. /\ h.of = "receive" /\ UNCHANGED <<input, taken>> /\ dispatched' = dispatched + n
      /\ ~ (size = BufferSize /\ offset = 0)
      /\ buffered' = size - offset /\ asyncReceive(rest)
  BY Zenon DEF handleReceive, leftover, isTooLarge
<1>3. handlers' = rest
  BY <1>1, <1>2 DEF asyncReceive
<1>4. Brings(h, buffered, Pending) /\ NoReceive(rest)
  BY <1>1, <1>2, TailReceives DEF InputLive, OkReceive
<1>5. /\ Len(input) \in Nat /\ dispatched \in 0 .. Len(input) /\ taken \in Nat /\ buffered \in Nat
      /\ taken =< Octets /\ BufferSize \in Nat
      /\ \A k \in 0 .. Len(input) : End(k) \in Nat
      /\ \A k, l \in 0 .. Len(input) : k =< l => End(k) =< End(l)
  BY <1>1, EndsIncrease, StreamFaceAssumption DEF InputLive
<1>6. h.octets \in Nat /\ size = Pending /\ size \in Nat /\ size =< BufferSize
  BY <1>4, <1>5 DEF Brings
<1> HIDE DEF h, rest, size
<1>7. n \in 0 .. Len(input) - dispatched /\ Parsed(n) =< size
      /\ \A k \in 0 .. Len(input) - dispatched : Parsed(k) =< size => k =< n
  <2>1. Parsed(0) = 0
    BY <1>5 DEF Parsed
  <2>2. 0 \in S /\ S \in SUBSET (0 .. Len(input) - dispatched) /\ Len(input) - dispatched \in Nat
    BY <1>5, <1>6, <2>1
  <2>3. n \in S /\ \A y \in S : y =< n
    <3> HIDE DEF S
    <3> QED
      BY <2>2, MaxOfBounded
  <2> QED
    BY <2>3
<1> HIDE DEF S, n
<1>8. /\ dispatched + n \in 0 .. Len(input) /\ offset \in Nat
      /\ offset = End(dispatched + n) - End(dispatched)
  <2>1. dispatched + n \in 0 .. Len(input) /\ dispatched =< dispatched + n
    BY <1>5, <1>7
  <2>2. End(dispatched + n) \in Nat /\ End(dispatched) \in Nat /\ End(dispatched) =< End(dispatched + n)
    BY <1>5, <2>1
  <2> QED
    BY <2>1, <2>2 DEF Parsed
<1>9. \A k : End(k)' = End(k)
  BY <1>2 DEF End
<1>10. buffered' = taken - End(dispatched + n) /\ buffered' \in Nat
  <2>1. buffered' = size - offset /\ offset =< size /\ size \in Nat
    BY <1>2, <1>6, <1>7
  <2>2. size = taken - End(dispatched)
    BY <1>6 DEF Pending
  <2>3. End(dispatched + n) \in Nat /\ End(dispatched) \in Nat /\ taken \in Nat
    BY <1>5, <1>8
  <2> DEFINE e0 == End(dispatched)
             e1 == End(dispatched + n)
  <2>4. offset = e1 - e0 /\ size = taken - e0 /\ e0 \in Nat /\ e1 \in Nat
    BY <1>8, <2>2, <2>3
  <2> HIDE DEF offset, e0, e1
  <2>5. buffered' = taken - e1 /\ buffered' \in Nat
    BY <2>1, <2>3, <2>4
  <2> QED
    BY <2>5 DEF e1
<1>11. Pending' = buffered'
  BY <1>2, <1>9, <1>10 DEF Pending
<1>12. ASSUME dispatched + n < Len(input)
       PROVE  /\ buffered' < BufferSize
              /\ buffered' < End(dispatched + n + 1) - End(dispatched + n)
  <2>1. n + 1 \in 0 .. Len(input) - dispatched /\ ~ (n + 1 =< n)
    BY <1>5, <1>7, <1>12
  <2>2. ~ (Parsed(n + 1) =< size)
    BY <1>7, <2>1
  <2>3. /\ Parsed(n + 1) = End(dispatched + n + 1) - End(dispatched)
        /\ dispatched + n + 1 \in 0 .. Len(input)
    BY <1>5, <1>7, <2>1 DEF Parsed
  <2>4. End(dispatched + n + 1) \in Nat /\ End(dispatched) \in Nat /\ End(dispatched + n) \in Nat
    BY <1>5, <1>8, <2>3
  <2>5. buffered' < End(dispatched + n + 1) - End(dispatched + n)
    BY <1>5, <1>6, <1>10, <2>2, <2>3, <2>4 DEF Pending
  <2>6. buffered' < BufferSize
    BY <1>2, <1>5, <1>6, <1>8
  <2> QED
    BY <2>5, <2>6
<1>13. dispatched' < Len(input') => buffered' < BufferSize /\ buffered' < Parsed(1)'
  <2>1. Parsed(1)' = End(dispatched + n + 1) - End(dispatched + n)
    BY <1>2, <1>9 DEF Parsed
  <2> QED
    BY <1>2, <1>12, <2>1
<1>14. Accounted(handlers, buffered, Pending)'
  <2>1. NoReceive(handlers')
    BY <1>3, <1>4
  <2> QED
    BY <1>11, <2>1 DEF Accounted, OneReceive, OkReceive, NoReceive
<1>15. Octets' = Octets /\ (NoReceive(handlers)' <=> NoReceive(handlers'))
  BY <1>2, <1>9 DEF Octets, NoReceive
<1> QED
  BY <1>2, <1>3, <1>4, <1>5, <1>8, <1>10, <1>13, <1>14, <1>15 DEF InputLive

LEMMA InputStep == SfInv /\ InputOK /\ [SfNext]_sfVars => InputOK'
<1> SUFFICES ASSUME SfInv, InputOK, [SfNext]_sfVars PROVE InputOK'
  OBVIOUS
<1> DEFINE h == Head(handlers)
           rest == Tail(handlers)
<1>1. HandlersOK /\ handlers \in Seq(HandlerRec) /\ input \in Inputs
  BY DEF SfInv, HandlersOK, Line, InputOK
<1>2. ASSUME input' = input, ~ failed' => InputLive' PROVE InputOK'
  BY <1>1, <1>2 DEF InputOK
<1>3. CASE UNCHANGED sfVars
  <2>1. UNCHANGED <<input, failed, handlers, reading, inputVars>>
    BY <1>3 DEF sfVars, inputVars
  <2>2. ASSUME ~ failed PROVE InputLive'
    BY <2>1, <2>2, InputKept DEF InputOK, InputLive, NoReceive
  <2> QED
    BY <1>2, <2>1, <2>2
<1>4. ASSUME NEW parts \in 1 .. 2, SfSend(parts) PROVE InputOK'
  <2>1. /\ ~ failed /\ UNCHANGED <<input, reading>> /\ socket' = socket /\ UNCHANGED inputVars
        /\ (sendFromQueue(handlers) \/ handlers' = handlers)
    BY <1>4 DEF SfSend, inputVars
  <2>2. handlers' = handlers
    BY <1>1, <2>1 DEF sendFromQueue, HandlersOK
  <2>3. InputLive'
    BY <2>1, <2>2, InputKept DEF InputOK, InputLive
  <2> QED
    BY <1>2, <2>1, <2>3
<1>5. CASE WriteCompletes
  <2>1. /\ UNCHANGED <<input, failed, reading, inputVars>>
        /\ \E r \in {"ok", "error"} : handlers' = Append(handlers, Handler("send", r, 0))
    BY <1>5 DEF WriteCompletes, inputVars
  <2>2. PICK r \in {"ok", "error"} : handlers' = Append(handlers, Handler("send", r, 0))
    BY <2>1
  <2> DEFINE e == Handler("send", r, 0)
  <2>3. e \in HandlerRec /\ e.of # "receive" /\ handlers' = Append(handlers, e)
    BY <2>2, HandlerTypes
  <2> HIDE DEF e
  <2>4. ASSUME ~ failed PROVE InputLive'
    <3>1. InputLive /\ Accounted(handlers, buffered, Pending)
      BY <2>4 DEF InputOK, InputLive
    <3>2. /\ Accounted(handlers', buffered, Pending)
          /\ NoReceive(handlers) => NoReceive(handlers')
      BY <1>1, <2>3, <3>1, AppendReceives
    <3> QED
      BY <2>1, <3>1, <3>2, InputKept DEF InputLive
  <2> QED
    BY <1>2, <2>1, <2>4
<1>6. CASE ReadCompletes
  <2>1. input' = input /\ failed' = failed
    BY <1>6 DEF ReadCompletes
  <2> QED
    BY <1>2, <1>6, <2>1, ReadAccounted
<1>7. CASE SfClose
  <2>1. input' = input /\ failed'
    BY <1>7 DEF SfClose, inputVars
  <2> QED
    BY <1>2, <2>1
<1>8. ASSUME handlers # <<>>, ~ OkReceive(h), ~ failed, handlers' = rest,
             reading' = reading, UNCHANGED inputVars
      PROVE  InputLive'
  <2>1. InputLive /\ Accounted(handlers, buffered, Pending)
    BY <1>8 DEF InputOK, InputLive
  <2>2. Accounted(rest, buffered, Pending) /\ (NoReceive(handlers) => NoReceive(rest))
    BY <1>1, <1>8, <2>1, TailReceives
  <2> QED
    BY <1>8, <2>1, <2>2, InputKept DEF InputLive
<1>9. ASSUME NEW r, processErrorCode(r, rest), ~ failed'
      PROVE  ~ failed /\ handlers' = rest /\ reading' = reading
  BY <1>9 DEF processErrorCode
<1>10. CASE handlers # <<>> /\ handleSend(h, rest)
  <2>1. h.of = "send" /\ UNCHANGED <<input, inputVars>> /\ ~ OkReceive(h)
    BY <1>10 DEF handleSend, inputVars, OkReceive
  <2>2. CASE h.result # "ok"
    <3>1. processErrorCode(h.result, rest)
      BY <1>10, <2>2 DEF handleSend
    <3> QED
      BY <1>2, <1>8, <1>9, <1>10, <2>1, <3>1
  <2>3. CASE h.result = "ok"
    <3>1. /\ UNCHANGED <<socket, failed, reading>>
          /\ sendFromQueue(rest) \/ handlers' = rest
      BY <1>10, <2>3 DEF handleSend
    <3>2. ~ failed => handlers' = rest
      BY <1>1, <3>1 DEF sendFromQueue, HandlersOK
    <3> QED
      BY <1>2, <1>8, <1>10, <2>1, <3>1, <3>2
  <2> QED
    BY <2>2, <2>3
<1>11. CASE handlers # <<>> /\ handleReceive(h, rest)
  <2>1. h.of = "receive" /\ input' = input
    BY <1>11 DEF handleReceive
  <2>2. CASE h.result # "ok"
    <3>1. processErrorCode(h.result, rest) /\ UNCHANGED inputVars /\ ~ OkReceive(h)
      BY <1>11, <2>2 DEF handleReceive, inputVars, OkReceive
    <3> QED
      BY <1>2, <1>8, <1>9, <1>11, <2>1, <3>1
  <2>3. CASE h.result = "ok"
    <3>1. ~ failed' => ~ failed
      BY <1>11, <2>3, Zenon DEF handleReceive
    <3> QED
      BY <1>2, <1>11, <2>1, <2>3, <3>1, ReceiveDispatches
  <2> QED
    BY <2>2, <2>3
<1>12. CASE handlers # <<>> /\ (deferredClose(h, rest) \/ RunsOnFreed(h, rest))
  <2>1. UNCHANGED <<input, failed, reading, inputVars>> /\ handlers' = rest
    BY <1>12 DEF deferredClose, RunsOnFreed, inputVars, sendVars
  <2>2. failed
    <3>1. CASE deferredClose(h, rest)
      <4>1. h.of = "deferredClose"
        BY <3>1 DEF deferredClose
      <4>2. Closing(handlers)
        BY <1>1, <1>12, <4>1, TailLine DEF HandlersOK
      <4> QED
        BY <1>1, <4>2 DEF HandlersOK
    <3>2. CASE RunsOnFreed(h, rest)
      BY <1>1, <3>2 DEF RunsOnFreed, HandlersOK
    <3> QED
      BY <1>12, <3>1, <3>2
  <2> QED
    BY <1>2, <2>1, <2>2
<1>13. CASE RunHandler
  BY <1>10, <1>11, <1>12, <1>13, Zenon DEF RunHandler
<1> QED
  BY <1>3, <1>4, <1>5, <1>6, <1>7, <1>13, Zenon DEF SfNext

LEMMA InputInitOK == SfInit => InputOK
<1> SUFFICES ASSUME SfInit PROVE InputOK
  OBVIOUS
<1>1. /\ input \in Inputs /\ taken = 0 /\ buffered = 0 /\ dispatched = 0 /\ handlers = <<>>
  BY DEF SfInit
<1>2. /\ Len(input) \in Nat /\ (\A k \in 0 .. Len(input) : End(k) \in Nat)
      /\ \A k, l \in 0 .. Len(input) : k < l => End(k) < End(l)
  BY <1>1, EndsIncrease
<1>3. End(0) = 0 /\ Pending = 0
  BY <1>1 DEF End, Pending
<1>4. Octets \in Nat /\ taken =< Octets
  BY <1>1, <1>2 DEF Octets
<1>5. Accounted(handlers, buffered, Pending) /\ NoReceive(handlers)
  BY <1>1, <1>3 DEF Accounted, OneReceive, NoReceive
<1>6. 0 < Len(input) => 0 < Parsed(1) /\ 0 < BufferSize
  BY <1>1, <1>2, <1>3, StreamFaceAssumption DEF Parsed
<1>7. InputLive
  BY <1>1, <1>2, <1>4, <1>5, <1>6 DEF InputLive
<1> QED
  BY <1>1, <1>7 DEF InputOK

-----------------------------------------------------------------------------
(* A face that failed for a packet that is too large receives nothing more,    *)
(* so that the element it failed for stays the next one.                       *)
TooLargeOK ==
  /\ oversize \in BOOLEAN
  /\ oversize => /\ failed /\ NoReceive(handlers)
                 /\ dispatched < Len(input) /\ Parsed(1) > BufferSize

LEMMA NoReceiveAppend ==
  ASSUME NEW hs \in Seq(HandlerRec), NoReceive(hs), NEW h \in HandlerRec, h.of # "receive"
  PROVE  NoReceive(Append(hs, h)) /\ Append(hs, h) \in Seq(HandlerRec)
<1> DEFINE s == Append(hs, h)
<1>1. /\ \A k \in DOMAIN s : k \in DOMAIN hs \/ k = Len(hs) + 1
      /\ s[Len(hs) + 1] = h /\ s \in Seq(HandlerRec)
      /\ \A k \in DOMAIN hs : s[k] = hs[k]
  OBVIOUS
<1> HIDE DEF s
<1>2. NoReceive(s)
  BY <1>1 DEF NoReceive
<1> QED
  BY <1>1, <1>2 DEF s

LEMMA NoReceiveTail ==
  ASSUME NEW hs \in Seq(HandlerRec), hs # <<>>, NoReceive(hs)
  PROVE  NoReceive(Tail(hs)) /\ Head(hs).of # "receive"
<1>1. /\ Len(hs) \in Nat /\ Len(hs) > 0 /\ DOMAIN hs = 1 .. Len(hs) /\ Head(hs) = hs[1]
      /\ DOMAIN Tail(hs) = 1 .. Len(hs) - 1
      /\ \A k \in 1 .. Len(hs) - 1 : Tail(hs)[k] = hs[k + 1]
  OBVIOUS
<1>2. \A k \in 1 .. Len(hs) - 1 : k + 1 \in 1 .. Len(hs)
  BY <1>1
<1> QED
  BY <1>1, <1>2 DEF NoReceive

(* shutdownSocket queues no handler of a read, if none is under way. *)
LEMMA ShutNoReceive ==
  ASSUME NEW hs \in Seq(HandlerRec), NoReceive(hs), reading = FALSE, writing \in BOOLEAN,
         shutdownSocket(hs)
  PROVE  NoReceive(handlers') /\ reading' = FALSE
<1> DEFINE a == Handler("send", "aborted", 0)
           b == Handler("deferredClose", "ok", 0)
           q == IF writing THEN Append(hs, a) ELSE hs
<1>1. a \in HandlerRec /\ a.of # "receive" /\ b \in HandlerRec /\ b.of # "receive"
  BY HandlerTypes
<1> HIDE DEF a, b
<1>2. hs \o <<>> = hs /\ hs \o <<a>> = Append(hs, a)
  BY <1>1
<1>3. handlers' = Append(q, b) /\ reading' = FALSE
  <2>1. handlers' = Append(hs \o <<>> \o (IF writing THEN <<a>> ELSE <<>>), b) /\ reading' = FALSE
    BY DEF shutdownSocket, a, b
  <2> QED
    BY <1>2, <2>1
<1>4. NoReceive(q) /\ q \in Seq(HandlerRec)
  BY <1>1, NoReceiveAppend
<1> HIDE DEF q
<1>5. NoReceive(Append(q, b))
  BY <1>1, <1>4, NoReceiveAppend
<1> QED
  BY <1>3, <1>5 DEF NoReceive

(* The face fails when the buffer is full and nothing was taken from it: then  *)
(* the next element is longer than the buffer.                                 *)
LEMMA ReceiveTooLarge ==
  ASSUME SfInv, InputOK, ~ failed, handlers # <<>>, Head(handlers).result = "ok",
         handleReceive(Head(handlers), Tail(handlers)), failed'
  PROVE  NoReceive(handlers') /\ dispatched' < Len(input') /\ Parsed(1)' > BufferSize
<1> DEFINE h == Head(handlers)
           rest == Tail(handlers)
           size == buffered + h.octets
           S == {k \in 0 .. Len(input) - dispatched : Parsed(k) =< size}
           n == Max(S)
           offset == Parsed(n)
<1>1. /\ InputLive /\ handlers \in Seq(HandlerRec) /\ input \in Inputs
      /\ reading \in BOOLEAN /\ writing \in BOOLEAN
  BY DEF InputOK, SfInv, HandlersOK, Line
<1>2. /\ h.of = "receive" /\ input' = input /\ dispatched' = dispatched + n
      /\ size = BufferSize /\ offset = 0 /\ shutdownSocket(rest)
  BY Zenon DEF handleReceive, isTooLarge
<1>3. Brings(h, buffered, Pending) /\ NoReceive(rest) /\ rest \in Seq(HandlerRec)
  BY <1>1, <1>2, TailReceives DEF InputLive, OkReceive
<1>4. reading = FALSE
  <2>1. 1 \in DOMAIN handlers /\ handlers[1] = h
    BY <1>1
  <2> QED
    BY <1>1, <1>2, <2>1 DEF InputLive, NoReceive
<1>5. NoReceive(handlers')
  <2> HIDE DEF rest
  <2> QED
    BY <1>1, <1>2, <1>3, <1>4, ShutNoReceive
<1>6. /\ Len(input) \in Nat /\ dispatched \in 0 .. Len(input) /\ taken \in Nat /\ taken =< Octets
      /\ BufferSize \in Nat /\ BufferSize > 0
      /\ \A k \in 0 .. Len(input) : End(k) \in Nat
      /\ \A k, l \in 0 .. Len(input) : k < l => End(k) < End(l)
  BY <1>1, EndsIncrease, StreamFaceAssumption DEF InputLive
<1>7. size = Pending /\ size = BufferSize
  BY <1>2, <1>3, <1>6 DEF Brings
<1> HIDE DEF h, rest, size
<1>8. n \in 0 .. Len(input) - dispatched
      /\ \A k \in 0 .. Len(input) - dispatched : Parsed(k) =< size => k =< n
  <2>1. Parsed(0) = 0
    BY <1>6 DEF Parsed
  <2>2. 0 \in S /\ S \in SUBSET (0 .. Len(input) - dispatched) /\ Len(input) - dispatched \in Nat
    BY <1>6, <1>7, <2>1
  <2>3. n \in S /\ \A y \in S : y =< n
    <3> HIDE DEF S
    <3> QED
      BY <2>2, MaxOfBounded
  <2> QED
    BY <2>3
<1> HIDE DEF S, n
<1>9. n = 0
  <2>1. End(dispatched + n) - End(dispatched) = 0
    BY <1>2 DEF Parsed
  <2>2. dispatched + n \in 0 .. Len(input) /\ (n = 0 \/ dispatched < dispatched + n)
    BY <1>6, <1>8
  <2> QED
    BY <1>6, <2>1, <2>2
<1>10. dispatched < Len(input)
  <2>1. dispatched # Len(input)
    <3> SUFFICES ASSUME dispatched = Len(input) PROVE FALSE
      OBVIOUS
    <3>1. Octets = End(dispatched) /\ Octets \in Nat
      BY <1>6 DEF Octets
    <3>2. BufferSize = taken - Octets
      BY <1>7, <3>1, Zenon DEF Pending
    <3> QED
      BY <1>6, <3>1, <3>2
  <2> QED
    BY <1>6, <2>1
<1>11. Parsed(1) > BufferSize
  <2>1. 1 \in 0 .. Len(input) - dispatched /\ ~ (1 =< n)
    BY <1>6, <1>9, <1>10
  <2>2. ~ (Parsed(1) =< size)
    BY <1>8, <2>1
  <2>3. Parsed(1) \in Int
    BY <1>6, <1>10 DEF Parsed
  <2> QED
    BY <1>6, <1>7, <2>2, <2>3
<1>12. dispatched' = dispatched /\ Parsed(1)' = Parsed(1)
  <2>1. dispatched' = dispatched
    BY <1>2, <1>6, <1>9
  <2> QED
    BY <1>2, <2>1 DEF Parsed, End
<1> QED
  BY <1>2, <1>5, <1>10, <1>11, <1>12

(* A step that leaves the input alone and the face failed if it was. *)
LEMMA TooLargeKept ==
  ASSUME TooLargeOK, UNCHANGED <<input, dispatched, oversize>>, failed => failed',
         oversize => NoReceive(handlers')
  PROVE  TooLargeOK'
<1>1. Parsed(1)' = Parsed(1)
  BY DEF Parsed, End
<1> QED
  BY <1>1 DEF TooLargeOK, NoReceive

LEMMA TooLargeStep == SfInv /\ InputOK /\ TooLargeOK /\ [SfNext]_sfVars => TooLargeOK'
<1> SUFFICES ASSUME SfInv, InputOK, TooLargeOK, [SfNext]_sfVars PROVE TooLargeOK'
  OBVIOUS
<1> DEFINE h == Head(handlers)
           rest == Tail(handlers)
<1>1. /\ HandlersOK /\ handlers \in Seq(HandlerRec) /\ failed \in BOOLEAN
      /\ writing \in BOOLEAN /\ reading \in BOOLEAN /\ oversize \in BOOLEAN
  BY DEF SfInv, HandlersOK, Line, TooLargeOK
<1>2. oversize => failed /\ NoReceive(handlers) /\ reading = FALSE /\ writing = FALSE /\ socket # "open"
  BY <1>1 DEF TooLargeOK, HandlersOK
<1>3. CASE UNCHANGED sfVars
  BY <1>3, TooLargeKept DEF sfVars, inputVars, TooLargeOK
<1>4. ASSUME ~ oversize, UNCHANGED <<input, dispatched, oversize>> PROVE TooLargeOK'
  BY <1>1, <1>4 DEF TooLargeOK
<1>5. ASSUME NEW parts \in 1 .. 2, SfSend(parts) PROVE TooLargeOK'
  <2>1. ~ failed /\ UNCHANGED <<input, dispatched, oversize>>
    BY <1>5 DEF SfSend, inputVars
  <2> QED
    BY <1>2, <1>4, <2>1
<1>6. CASE WriteCompletes \/ ReadCompletes \/ SfClose
  <2>1. /\ writing \/ reading \/ ~ failed
        /\ UNCHANGED <<input, dispatched, oversize>>
    BY <1>6 DEF WriteCompletes, ReadCompletes, SfClose, inputVars
  <2> QED
    BY <1>1, <1>2, <1>4, <2>1
<1>7. ASSUME handlers # <<>>, oversize PROVE NoReceive(rest) /\ rest \in Seq(HandlerRec) /\ h.of # "receive"
  BY <1>1, <1>2, <1>7, NoReceiveTail
<1>8. ASSUME handlers # <<>>, oversize, NEW r, processErrorCode(r, rest)
      PROVE  NoReceive(handlers') /\ failed'
  <2>1. CASE handlers' = rest
    BY <1>2, <1>7, <1>8, <2>1 DEF processErrorCode, NoReceive
  <2>2. CASE shutdownSocket(rest) /\ failed'
    BY <1>1, <1>2, <1>7, <1>8, <2>2, ShutNoReceive
  <2> QED
    BY <1>8, <2>1, <2>2 DEF processErrorCode
<1>9. CASE handlers # <<>> /\ handleSend(h, rest)
  <2>1. UNCHANGED <<input, dispatched, oversize>>
    BY <1>9 DEF handleSend, inputVars
  <2>2. ASSUME oversize PROVE NoReceive(handlers') /\ failed'
    <3>1. CASE processErrorCode(h.result, rest)
      BY <1>8, <1>9, <2>2, <3>1
    <3>2. CASE UNCHANGED <<socket, failed>> /\ handlers' = rest
      BY <1>2, <1>7, <1>9, <2>2, <3>2
    <3>3. CASE UNCHANGED <<socket, failed>> /\ sendFromQueue(rest)
      <4> DEFINE e == Handler("send", "error", 0)
      <4>1. e \in HandlerRec /\ e.of # "receive" /\ handlers' = Append(rest, e)
        BY <1>2, <2>2, <3>3, HandlerTypes DEF sendFromQueue
      <4> HIDE DEF e, rest
      <4>2. NoReceive(Append(rest, e))
        BY <1>7, <1>9, <2>2, <4>1, NoReceiveAppend
      <4> QED
        BY <1>2, <2>2, <3>3, <4>1, <4>2
    <3> QED
      BY <1>9, <3>1, <3>2, <3>3, Zenon DEF handleSend
  <2> QED
    BY <1>4, <2>1, <2>2, <1>1, <1>2, TooLargeKept
<1>10. CASE handlers # <<>> /\ handleReceive(h, rest)
  <2>1. h.of = "receive" /\ input' = input /\ ~ oversize
    BY <1>1, <1>7, <1>10 DEF handleReceive
  <2>2. CASE UNCHANGED <<dispatched, oversize>>
    BY <1>4, <2>1, <2>2
  <2>3. CASE ~ UNCHANGED <<dispatched, oversize>>
    <3>1. h.result = "ok"
      BY <1>10, <2>3 DEF handleReceive
    <3>2. oversize' = oversize \/ (failed' = TRUE /\ oversize' = (oversize \/ ~ failed))
      BY <1>10, <3>1, Zenon DEF handleReceive
    <3>3. CASE oversize' = FALSE
      BY <3>3 DEF TooLargeOK
    <3>4. CASE failed' = TRUE /\ oversize' # FALSE
      <4>1. ~ failed /\ oversize' = TRUE
        BY <1>1, <2>1, <3>2, <3>4
      <4>2. NoReceive(handlers') /\ dispatched' < Len(input') /\ Parsed(1)' > BufferSize
        BY <1>10, <3>1, <3>4, <4>1, ReceiveTooLarge
      <4> QED
        BY <3>4, <4>1, <4>2 DEF TooLargeOK, NoReceive
    <3> QED
      BY <1>1, <2>1, <3>2, <3>3, <3>4
  <2> QED
    BY <2>2, <2>3
<1>11. CASE handlers # <<>> /\ (deferredClose(h, rest) \/ RunsOnFreed(h, rest))
  <2>1. UNCHANGED <<input, failed, dispatched, oversize>> /\ handlers' = rest
    BY <1>11 DEF deferredClose, RunsOnFreed, inputVars
  <2> QED
    BY <1>7, <1>11, <2>1, TooLargeKept
<1>12. CASE RunHandler
  BY <1>9, <1>10, <1>11, <1>12, Zenon DEF RunHandler
<1> QED
  BY <1>3, <1>5, <1>6, <1>12, Zenon DEF SfNext

LEMMA TooLargeInitOK == SfInit => TooLargeOK
BY DEF SfInit, TooLargeOK

(* For any size of the buffer and any elements the peer sends, however TCP     *)
(* cuts them up, with sends, errors and shutdowns in between: the elements     *)
(* that have arrived are dispatched, each once, and no octet is lost before    *)
(* the face fails; and it fails for a packet that is too large only before an  *)
(* element that is longer than the buffer.                                     *)
THEOREM ElementsAreDispatched == SfSpec => []ElementsDispatched
<1>1. SfInv /\ InputOK /\ TooLargeOK => ElementsDispatched
  <2>0. TooLargeOK /\ oversize => dispatched < Len(input) /\ Parsed(1) > BufferSize
    BY DEF TooLargeOK
  <2> SUFFICES ASSUME SfInv, InputOK, ~ failed,
                      \A k \in DOMAIN handlers : ~ OkReceive(handlers[k])
               PROVE  /\ buffered = taken - End(dispatched)
                      /\ dispatched < Len(input) => buffered < Min({BufferSize, Parsed(1)})
    BY <2>0 DEF ElementsDispatched, OkReceive
  <2>1. InputLive /\ input \in Inputs
    BY DEF InputOK
  <2>2. buffered = taken - End(dispatched)
    BY <2>1 DEF InputLive, Accounted, Pending
  <2>3. ASSUME dispatched < Len(input) PROVE buffered < Min({BufferSize, Parsed(1)})
    <3>1. buffered < BufferSize /\ buffered < Parsed(1)
      BY <2>1, <2>3 DEF InputLive
    <3>2. dispatched \in 0 .. Len(input) /\ dispatched + 1 \in 0 .. Len(input)
      BY <2>1, <2>3, EndsIncrease DEF InputLive
    <3>3. Parsed(1) \in Int /\ BufferSize \in Int
      BY <2>1, <3>2, EndsIncrease, StreamFaceAssumption DEF Parsed
    <3>4. Min({BufferSize, Parsed(1)}) = IF BufferSize =< Parsed(1) THEN BufferSize ELSE Parsed(1)
      BY <3>3, MinOfTwo
    <3> QED
      BY <3>1, <3>4
  <2> QED
    BY <2>2, <2>3
<1> QED
  BY <1>1, SfInitOK, SfStep, InputInitOK, InputStep, TooLargeInitOK, TooLargeStep, PTL DEF SfSpec

(***************************************************************************)
(* The configuration and the threads of the daemon.                        *)
(*                                                                         *)
(* ConfigFile::process is a recursive function over the sections.  That    *)
(* there is such a function, and what it has done after each section, is   *)
(* shown by the least section where it fails.                              *)
(***************************************************************************)
Called(g, n, f, isDryRun, settings) ==
  g = [k \in 0 .. n |->
         IF k = 0 THEN Setting(f # <<>>, settings.limit, settings.choices, settings.rules)
         ELSE IF g[k - 1].valid THEN onSection(g[k - 1], f[k], isDryRun)
         ELSE g[k - 1]]

LEMMA CalledExtends ==
  ASSUME NEW n \in Nat, NEW f, NEW isDryRun, NEW settings,
         NEW g, Called(g, n, f, isDryRun, settings)
  PROVE  \E h : Called(h, n + 1, f, isDryRun, settings)
<1> DEFINE called == IF g[n].valid THEN onSection(g[n], f[n + 1], isDryRun) ELSE g[n]
           h == [k \in 0 .. (n + 1) |-> IF k = n + 1 THEN called ELSE g[k]]
           value(a, k) == IF k = 0 THEN Setting(f # <<>>, settings.limit, settings.choices, settings.rules)
                          ELSE IF a[k - 1].valid THEN onSection(a[k - 1], f[k], isDryRun)
                          ELSE a[k - 1]
<1>1. \A k \in 0 .. n : g[k] = value(g, k)
  <2>1. g = [k \in 0 .. n |-> value(g, k)]
    BY DEF Called
  <2> HIDE DEF value
  <2> QED
    BY <2>1
<1>2. \A k \in 0 .. n : h[k] = g[k]
  <2> HIDE DEF called
  <2> QED
    OBVIOUS
<1>3. ASSUME NEW k \in 0 .. (n + 1) PROVE h[k] = value(h, k)
  <2>1. CASE k = n + 1
    <3>1. h[k] = called
      BY <2>1 DEF h
    <3>2. h[k - 1] = g[n] /\ f[k] = f[n + 1] /\ k # 0
      BY <1>2, <2>1
    <3> HIDE DEF h
    <3> QED
      BY <3>1, <3>2, Zenon DEF called, value
  <2>2. CASE k # n + 1
    <3>1. k \in 0 .. n /\ (k # 0 => k - 1 \in 0 .. n)
      BY <2>2
    <3>2. h[k] = g[k] /\ (k # 0 => h[k - 1] = g[k - 1])
      BY <1>2, <3>1
    <3>3. g[k] = value(g, k)
      BY <1>1, <3>1
    <3> HIDE DEF h
    <3> QED
      BY <3>2, <3>3, Zenon DEF value
  <2> QED
    BY <2>1, <2>2
<1>4. h = [k \in 0 .. (n + 1) |-> value(h, k)]
  <2>1. h = [k \in 0 .. (n + 1) |-> h[k]]
    <3> HIDE DEF called
    <3> QED
      OBVIOUS
  <2> HIDE DEF h, value
  <2> QED
    BY <1>3, <2>1
<1>5. Called(h, n + 1, f, isDryRun, settings)
  BY <1>4, Zenon DEF Called, value
<1> QED
  BY <1>5, Zenon

LEMMA CalledExists ==
  ASSUME NEW n \in Nat, NEW f, NEW isDryRun, NEW settings
  PROVE  \E g : Called(g, n, f, isDryRun, settings)
<1> DEFINE Reached(m) == \E g : Called(g, m, f, isDryRun, settings)
           S == {m \in Nat : ~ Reached(m)}
<1>1. Reached(0)
  <2> DEFINE g == [k \in 0 .. 0 |-> Setting(f # <<>>, settings.limit, settings.choices, settings.rules)]
  <2>1. g = [k \in 0 .. 0 |->
               IF k = 0 THEN Setting(f # <<>>, settings.limit, settings.choices, settings.rules)
               ELSE IF g[k - 1].valid THEN onSection(g[k - 1], f[k], isDryRun)
               ELSE g[k - 1]]
    <3>1. \A k \in 0 .. 0 : k = 0
      OBVIOUS
    <3> QED
      BY <3>1
  <2>2. Called(g, 0, f, isDryRun, settings)
    BY <2>1 DEF Called
  <2> QED
    BY <2>2, Zenon
<1>2. \A m \in Nat : Reached(m) => Reached(m + 1)
  BY CalledExtends, Zenon
<1> HIDE DEF Reached
<1>3. S = {}
  <2> SUFFICES ASSUME S # {} PROVE FALSE
    OBVIOUS
  <2>1. PICK m \in S : \A l \in S : m =< l
    BY LeastNatural
  <2>2. m \in Nat /\ ~ Reached(m) /\ m # 0
    BY <1>1, <2>1
  <2>3. m - 1 \in Nat /\ m - 1 \notin S
    BY <2>1, <2>2
  <2>4. Reached(m - 1) /\ (m - 1) + 1 = m
    BY <2>2, <2>3
  <2> QED
    BY <1>2, <2>2, <2>3, <2>4
<1>4. Reached(n)
  BY <1>3
<1> QED
  BY <1>4 DEF Reached

(* What the settings are before the first section and after each one. *)
LEMMA ProcessInTurn ==
  ASSUME NEW f, Len(f) \in Nat, NEW isDryRun, NEW settings
  PROVE  \E g : Called(g, Len(f), f, isDryRun, settings) /\ process(f, isDryRun, settings) = g[Len(f)]
<1> DEFINE a == CHOOSE g : Called(g, Len(f), f, isDryRun, settings)
<1>1. Called(a, Len(f), f, isDryRun, settings)
  BY CalledExists, Zenon
<1>2. process(f, isDryRun, settings) = a[Len(f)]
  BY Zenon DEF process, Called
<1> QED
  BY <1>1, <1>2, Zenon

(* The last of the first n sections of a name, and what it decides. *)
LastNamed(f, name, n, j) ==
  /\ j \in 1 .. n /\ f[j].name = name
  /\ \A l \in 1 .. n : f[l].name = name => l =< j

Grants(entries) == UNION {e.privileges : e \in ToSet(entries)}

(* A tables section is in force. *)
InForce(value, size, chosen) ==
  /\ size = value.limit
  /\ \A c \in ToSet(value.choices) : c.prefix \in DOMAIN chosen /\ chosen[c.prefix] = c.strategy

Settled(f, n, s) ==
  \A j \in 1 .. n :
    /\ LastNamed(f, "authorizations", n, j) => s.rules = Grants(f[j].value)
    /\ LastNamed(f, "tables", n, j) => InForce(f[j].value, s.limit, s.choices)

LEMMA AllGranted ==
  ASSUME NEW entries, Refused(entries) = {}
  PROVE  Granted(entries) = Grants(entries)
<1>1. {l \in DOMAIN entries : \A r \in Refused(entries) : l =< r} = DOMAIN entries
  OBVIOUS
<1>2. Granted(entries) = UNION {entries[k].privileges : k \in DOMAIN entries}
  BY <1>1, Zenon DEF Granted
<1>3. ToSet(entries) = {entries[k] : k \in DOMAIN entries}
  BY DEF ToSet
<1>4. UNION {entries[k].privileges : k \in DOMAIN entries} = Grants(entries)
  BY <1>3, Zenon DEF Grants
<1> QED
  BY <1>2, <1>4

(* The choices of a section that is accepted are all in force afterwards. *)
LEMMA ChosenInForce ==
  ASSUME NEW value, NEW old, Acceptable(value.choices)
  PROVE  InForce(value, value.limit, Chosen(old, value.choices))
<1> DEFINE chosen == value.choices
           prefixes == {chosen[k].prefix : k \in DOMAIN chosen}
           first(p) == CHOOSE k \in DOMAIN chosen : chosen[k].prefix = p
           new == [p \in DOMAIN old \cup prefixes |->
                     IF p \in prefixes THEN chosen[first(p)].strategy ELSE old[p]]
<1>1. Chosen(old, chosen) = new
  BY Zenon DEF Chosen
<1>2. \A k, l \in DOMAIN chosen : chosen[k].prefix = chosen[l].prefix => k = l
  BY DEF Acceptable
<1>3. ToSet(chosen) = {chosen[k] : k \in DOMAIN chosen}
  BY DEF ToSet
<1> HIDE DEF chosen
<1>4. ASSUME NEW k \in DOMAIN chosen
      PROVE  chosen[k].prefix \in DOMAIN new /\ new[chosen[k].prefix] = chosen[k].strategy
  <2> DEFINE p == chosen[k].prefix
             l == first(p)
  <2>1. p \in prefixes
    OBVIOUS
  <2>2. l \in DOMAIN chosen /\ chosen[l].prefix = p
    BY Zenon
  <2>3. l = k
    <3> HIDE DEF l
    <3> QED
      BY <1>2, <2>2
  <2>4. DOMAIN new = DOMAIN old \cup prefixes
    BY Zenon
  <2>5. p \in DOMAIN new
    BY <2>1, <2>4, Zenon
  <2>6. new[p] = chosen[l].strategy
    BY <2>1, Zenon
  <2> HIDE DEF new, l
  <2> QED
    BY <2>3, <2>5, <2>6
<1> HIDE DEF new
<1>5. \A c \in ToSet(chosen) : c.prefix \in DOMAIN new /\ new[c.prefix] = c.strategy
  BY <1>3, <1>4
<1>6. InForce(value, value.limit, new)
  BY <1>5, Zenon DEF InForce, chosen
<1> QED
  BY <1>1, <1>6, Zenon DEF chosen

LEMMA SettingFields ==
  \A valid, size, chosen, granted :
    LET s == Setting(valid, size, chosen, granted)
    IN  s.valid = valid /\ s.limit = size /\ s.choices = chosen /\ s.rules = granted
BY DEF Setting

(* A section that is accepted decides, and leaves the others' settings. *)
LEMMA SectionSettles ==
  ASSUME NEW f, NEW n \in Nat, NEW s, Settled(f, n, s),
         onSection(s, f[n + 1], FALSE).valid
  PROVE  Settled(f, n + 1, onSection(s, f[n + 1], FALSE))
<1> DEFINE q == onSection(s, f[n + 1], FALSE)
           section == f[n + 1]
<1>1. \A name, j : LastNamed(f, name, n + 1, j) => j = n + 1 \/ (j \in 1 .. n /\ LastNamed(f, name, n, j))
  BY DEF LastNamed
<1>2. \A name, j : LastNamed(f, name, n + 1, j) /\ section.name = name => j = n + 1
  BY DEF LastNamed
<1>3. \A name, j : LastNamed(f, name, n + 1, j) => f[j].name = name
  BY DEF LastNamed
<1>4. CASE section.name = "authorizations"
  <2>1. q = onAuthorizations(s, section.value, FALSE)
    BY <1>4 DEF onSection
  <2> DEFINE ok == section.value # <<>> /\ Refused(section.value) = {}
             granted == Granted(section.value)
  <2>2. /\ q.limit = s.limit /\ q.choices = s.choices
        /\ q.rules = Granted(section.value) /\ Refused(section.value) = {}
    <3>1. q = Setting(ok, s.limit, s.choices, granted)
      BY <2>1 DEF onAuthorizations
    <3>2. q.valid
      OBVIOUS
    <3> HIDE DEF ok, q, granted
    <3>3. q.valid = ok /\ q.limit = s.limit /\ q.choices = s.choices /\ q.rules = granted
      BY <3>1, SettingFields
    <3>4. ok
      BY <3>2, <3>3
    <3> QED
      BY <3>3, <3>4 DEF ok, granted
  <2>3. q.rules = Grants(section.value)
    BY <2>2, AllGranted
  <2> HIDE DEF q
  <2>4. ASSUME NEW j \in 1 .. (n + 1), LastNamed(f, "tables", n + 1, j)
        PROVE  InForce(f[j].value, q.limit, q.choices)
    <3>1. j # n + 1
      BY <1>3, <1>4, <2>4
    <3> QED
      BY <1>1, <2>2, <2>4, <3>1 DEF Settled
  <2>5. ASSUME NEW j \in 1 .. (n + 1), LastNamed(f, "authorizations", n + 1, j)
        PROVE  q.rules = Grants(f[j].value)
    BY <1>2, <1>4, <2>3, <2>5
  <2>6. Settled(f, n + 1, q)
    BY <2>4, <2>5 DEF Settled
  <2> QED
    BY <2>6 DEF q
<1>5. CASE section.name = "tables"
  <2>1. q = onTables(s, section.value, FALSE)
    BY <1>5 DEF onSection
  <2> DEFINE value == section.value
  <2>2. q.rules = s.rules /\ InForce(value, q.limit, q.choices)
    <3>1. CASE value.limit = Invalid \/ ~ Acceptable(value.choices)
      <4>1. q = Setting(FALSE, s.limit, s.choices, s.rules)
        BY <2>1, <3>1 DEF onTables
      <4>2. q.valid
        OBVIOUS
      <4> HIDE DEF q
      <4> QED
        BY <4>1, <4>2, SettingFields
    <3>2. CASE ~ (value.limit = Invalid \/ ~ Acceptable(value.choices))
      <4> DEFINE chosen == Chosen(s.choices, value.choices)
      <4>1. q = Setting(TRUE, value.limit, chosen, s.rules)
        BY <2>1, <3>2 DEF onTables
      <4>2. InForce(value, value.limit, chosen)
        BY <3>2, ChosenInForce
      <4> HIDE DEF q, chosen, value
      <4>3. q.limit = value.limit /\ q.choices = chosen /\ q.rules = s.rules
        BY <4>1 DEF Setting
      <4> QED
        BY <4>2, <4>3
    <3> QED
      BY <3>1, <3>2
  <2> HIDE DEF q
  <2>3. ASSUME NEW j \in 1 .. (n + 1), LastNamed(f, "authorizations", n + 1, j)
        PROVE  q.rules = Grants(f[j].value)
    <3>1. j # n + 1
      BY <1>3, <1>5, <2>3
    <3> QED
      BY <1>1, <2>2, <2>3, <3>1 DEF Settled
  <2>4. ASSUME NEW j \in 1 .. (n + 1), LastNamed(f, "tables", n + 1, j)
        PROVE  InForce(f[j].value, q.limit, q.choices)
    BY <1>2, <1>5, <2>2, <2>4
  <2>5. Settled(f, n + 1, q)
    BY <2>3, <2>4 DEF Settled
  <2> QED
    BY <2>5 DEF q
<1>6. CASE section.name \notin {"authorizations", "tables"}
  <2>1. q = s
    <3> DEFINE known == \/ section.name \in {"rib", "log"}
                        \/ section.name = "general" /\ section.value # Invalid
    <3>1. CASE known
      BY <1>6, <3>1 DEF onSection
    <3>2. CASE ~ known
      <4>1. q = Setting(FALSE, s.limit, s.choices, s.rules)
        BY <1>6, <3>2 DEF onSection
      <4>2. q.valid
        OBVIOUS
      <4> HIDE DEF q
      <4> QED
        BY <4>1, <4>2, SettingFields
    <3> QED
      BY <3>1, <3>2
  <2> HIDE DEF q
  <2>2. ASSUME NEW j \in 1 .. (n + 1), NEW name \in {"authorizations", "tables"},
               LastNamed(f, name, n + 1, j)
        PROVE  j \in 1 .. n /\ LastNamed(f, name, n, j)
    <3>1. j # n + 1
      BY <1>3, <1>6, <2>2
    <3> QED
      BY <1>1, <2>2, <3>1
  <2>3. Settled(f, n + 1, q)
    BY <2>1, <2>2 DEF Settled
  <2> QED
    BY <2>3 DEF q
<1> QED
  BY <1>4, <1>5, <1>6

LEMMA ProcessSettles ==
  ASSUME NEW f, Len(f) \in Nat, NEW settings, process(f, FALSE, settings).valid
  PROVE  Settled(f, Len(f), process(f, FALSE, settings))
<1>1. PICK g : Called(g, Len(f), f, FALSE, settings) /\ process(f, FALSE, settings) = g[Len(f)]
  BY ProcessInTurn, Zenon
<1>2. \A k \in 1 .. Len(f) :
        g[k] = IF g[k - 1].valid THEN onSection(g[k - 1], f[k], FALSE) ELSE g[k - 1]
  BY <1>1 DEF Called
<1> DEFINE S == {k \in 0 .. Len(f) : g[k].valid /\ ~ Settled(f, k, g[k])}
<1>3. S = {}
  <2> SUFFICES ASSUME S # {} PROVE FALSE
    OBVIOUS
  <2>1. PICK k \in S : \A l \in S : k =< l
    <3>1. S \in SUBSET Nat
      OBVIOUS
    <3> HIDE DEF S
    <3> QED
      BY <3>1, LeastNatural
  <2>2. k # 0
    BY <2>1 DEF Settled
  <2> DEFINE m == k - 1
  <2>3. m \in Nat /\ m \in 0 .. Len(f) /\ k = m + 1 /\ k \in 1 .. Len(f) /\ m \notin S
    BY <2>1, <2>2
  <2> HIDE DEF m
  <2>4. g[k] = IF g[m].valid THEN onSection(g[m], f[k], FALSE) ELSE g[m]
    BY <1>2, <2>3 DEF m
  <2>5. g[m].valid /\ g[k] = onSection(g[m], f[m + 1], FALSE)
    BY <2>1, <2>3, <2>4
  <2>6. Settled(f, m, g[m])
    BY <2>3, <2>5
  <2>7. Settled(f, k, g[k])
    BY <2>1, <2>3, <2>5, <2>6, SectionSettles
  <2> QED
    BY <2>1, <2>7
<1>4. Len(f) \in 0 .. Len(f)
  OBVIOUS
<1>5. g[Len(f)].valid
  BY <1>1
<1> QED
  BY <1>1, <1>3, <1>4, <1>5

LEMMA LastIsValue ==
  ASSUME NEW f, Len(f) \in Nat, DOMAIN f = 1 .. Len(f), NEW name, Has(f, name)
  PROVE  \E j \in 1 .. Len(f) : LastNamed(f, name, Len(f), j) /\ Value(f, name) = f[j].value
<1> DEFINE S == {k \in DOMAIN f : f[k].name = name}
<1>1. S \in SUBSET (0 .. Len(f)) /\ S # {}
  BY DEF Has
<1>2. Max(S) \in S /\ \A y \in S : y =< Max(S)
  <2> HIDE DEF S
  <2> QED
    BY <1>1, MaxOfBounded
<1>3. Value(f, name) = f[Max(S)].value
  BY Zenon DEF Value
<1> DEFINE j == Max(S)
<1>4. j \in 1 .. Len(f) /\ LastNamed(f, name, Len(f), j)
  <2> HIDE DEF j
  <2>1. j \in S /\ \A y \in S : y =< j
    BY <1>2 DEF j
  <2> QED
    BY <2>1 DEF LastNamed
<1> QED
  BY <1>3, <1>4

(* The rules and the limit are those of one file, and its choices in force. *)
OfOneFile(f, granted, size, chosen) ==
  /\ Has(f, "authorizations") => granted = Grants(Value(f, "authorizations"))
  /\ Has(f, "tables") => InForce(Value(f, "tables"), size, chosen)

LEMMA ProcessWhole ==
  ASSUME NEW f \in Files, NEW settings, process(f, FALSE, settings).valid
  PROVE  LET r == process(f, FALSE, settings) IN OfOneFile(f, r.rules, r.limit, r.choices)
<1> DEFINE r == process(f, FALSE, settings)
<1>1. Len(f) \in Nat /\ DOMAIN f = 1 .. Len(f)
  BY DaemonAssumption
<1>2. Settled(f, Len(f), r)
  BY <1>1, ProcessSettles
<1> HIDE DEF r
<1>3. ASSUME Has(f, "authorizations") PROVE r.rules = Grants(Value(f, "authorizations"))
  BY <1>1, <1>2, <1>3, LastIsValue DEF Settled
<1>4. ASSUME Has(f, "tables") PROVE InForce(Value(f, "tables"), r.limit, r.choices)
  BY <1>1, <1>2, <1>4, LastIsValue DEF Settled
<1>5. OfOneFile(f, r.rules, r.limit, r.choices)
  BY <1>3, <1>4 DEF OfOneFile
<1> QED
  BY <1>5 DEF r

Serving == main \in {"wait", "run"}

DaemonInv ==
  /\ file \in Files
  /\ Serving => OfOneFile(loaded, rules, limit, choices)
  /\ main \in {"dryRun", "load"} => nrd = "none" /\ ~ nrdIo
  /\ nrdIo \in BOOLEAN
  /\ nrdIo => nrd \in {"initialize", "run", "failed", "clear"}

LEMMA LoadStep == DaemonInv /\ Load => DaemonInv'
<1> SUFFICES ASSUME DaemonInv, Load PROVE DaemonInv'
  OBVIOUS
<1> DEFINE r == process(file, FALSE, Settings)
           s == IF Has(file, "tables") \/ ~ r.valid THEN r
                ELSE Setting(r.valid, DefaultLimit, r.choices, r.rules)
<1>1. /\ main = "load" /\ Processed(s)
      /\ main' = IF r.valid THEN "wait" ELSE "exited"
      /\ nrd' = IF r.valid THEN "start" ELSE "none"
      /\ file' = file /\ nrdIo' = nrdIo
  BY Zenon DEF Load
<1>2. r.valid => OfOneFile(file, r.rules, r.limit, r.choices)
  BY ProcessWhole DEF DaemonInv
<1> HIDE DEF r
<1>3. ASSUME r.valid PROVE s.valid /\ OfOneFile(file, s.rules, s.limit, s.choices)
  BY <1>2, <1>3 DEF OfOneFile, Setting
<1> HIDE DEF s
<1>4. ASSUME r.valid PROVE OfOneFile(loaded', rules', limit', choices')
  BY <1>1, <1>3, <1>4 DEF Processed
<1>5. Serving' => r.valid
  BY <1>1 DEF Serving
<1> QED
  BY <1>1, <1>4, <1>5 DEF DaemonInv

LEMMA ReloadStep == DaemonInv /\ Reload => DaemonInv'
<1> SUFFICES ASSUME DaemonInv, Reload PROVE DaemonInv'
  OBVIOUS
<1> DEFINE r == process(file, FALSE, Settings)
<1>1. /\ Processed(r)
      /\ main' = IF r.valid THEN "run" ELSE "stop"
      /\ file' = file /\ nrdIo' = nrdIo /\ nrd' = nrd
  BY Zenon DEF Reload
<1>2. r.valid => OfOneFile(file, r.rules, r.limit, r.choices)
  BY ProcessWhole DEF DaemonInv
<1> HIDE DEF r
<1>3. ASSUME r.valid PROVE OfOneFile(loaded', rules', limit', choices')
  BY <1>1, <1>2, <1>3 DEF Processed
<1>4. Serving' => r.valid
  BY <1>1 DEF Serving
<1> QED
  BY <1>1, <1>3, <1>4 DEF DaemonInv

(* The other steps: the settings stay, or the daemon does not serve yet. *)
LEMMA DaemonStep == DaemonInv /\ [DaemonNext]_daemonVars => DaemonInv'
<1> SUFFICES ASSUME DaemonInv, [DaemonNext]_daemonVars PROVE DaemonInv'
  OBVIOUS
<1>1. ASSUME loaded' = loaded, rules' = rules, limit' = limit, choices' = choices, Serving' => Serving
      PROVE  Serving' => OfOneFile(loaded', rules', limit', choices')
  BY <1>1 DEF DaemonInv
<1>2. CASE UNCHANGED daemonVars
  BY <1>1, <1>2 DEF DaemonInv, daemonVars, configVars, threadVars, Serving
<1>3. CASE Edit
  BY <1>1, <1>3 DEF DaemonInv, Edit, configVars, threadVars, Serving
<1>4. CASE DryRun
  <2>1. main' \in {"load", "exited"} /\ file' = file /\ nrd' = nrd /\ nrdIo' = nrdIo /\ main = "dryRun"
    <3> DEFINE r == process(file, TRUE, Settings)
    <3>1. main' = IF r.valid THEN "load" ELSE "exited"
      BY <1>4, Zenon DEF DryRun
    <3> HIDE DEF r
    <3> QED
      BY <1>4, <3>1 DEF DryRun
  <2> QED
    BY <2>1 DEF DaemonInv, Serving
<1>5. CASE Wakes
  BY <1>1, <1>5 DEF DaemonInv, Wakes, configVars, Serving
<1>6. CASE ReloadFaceSection \/ terminate \/ RunReturns
  BY <1>1, <1>6 DEF DaemonInv, ReloadFaceSection, terminate, RunReturns, configVars, Serving
<1>7. CASE stopNrd
  BY <1>7 DEF DaemonInv, stopNrd, configVars, Serving
<1>8. CASE NrdStarts \/ NrdEnds \/ NrdFailed
  BY <1>1, <1>8 DEF DaemonInv, NrdStarts, NrdEnds, NrdFailed, configVars, Serving
<1>9. CASE NrdInitializes \/ NrdThrows \/ NrdReturns
  BY <1>1, <1>9 DEF DaemonInv, NrdInitializes, NrdThrows, NrdReturns, configVars, Serving
<1>10. CASE Join
  BY <1>10 DEF DaemonInv, Join, configVars, Serving
<1> QED
  BY <1>2, <1>3, <1>4, <1>5, <1>6, <1>7, <1>8, <1>9, <1>10, LoadStep, ReloadStep
  DEF DaemonNext, MainStep, NrdStep

LEMMA DaemonInvariance == DaemonSpec => []DaemonInv
<1>1. DaemonInit => DaemonInv
  BY DEF DaemonInit, DaemonInv, Serving
<1> QED
  BY <1>1, DaemonStep, PTL DEF DaemonSpec

(* For any configuration files, edited at any time and reloaded any number of  *)
(* times: while the daemon serves, the privileges that are granted and the     *)
(* limit of the Content Store are those of the last file that was accepted as  *)
(* a whole, with nothing of the files before it or of a reload that failed,    *)
(* and every strategy choice of that file is in force.                         *)
THEOREM FileServedWhole == DaemonSpec => []ServesWholeFile
<1>1. DaemonInv => ServesWholeFile
  BY Zenon DEF DaemonInv, ServesWholeFile, Serving, OfOneFile, InForce, Grants
<1> QED
  BY <1>1, DaemonInvariance, PTL

(* Whatever the threads do: when the main thread is about to stop the          *)
(* io_service of the RIB manager through nrdIo, the thread that owns it has    *)
(* not ended.                                                                  *)
THEOREM NrdIoIsAlive == DaemonSpec => []NrdIoAlive
<1>1. DaemonInv => NrdIoAlive
  BY DEF DaemonInv, NrdIoAlive
<1> QED
  BY <1>1, DaemonInvariance, PTL

=============================================================================

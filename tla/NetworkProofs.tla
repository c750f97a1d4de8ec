--------------------------- MODULE NetworkProofs ---------------------------
(***************************************************************************)
(* Proofs about PITlessNetwork.  NamesRestored speaks of what the bridge   *)
(* sends; that it holds for every core depends on what may be in the core: *)
(* Interests for keys that consumers asked for, on any link, and Data that *)
(* carries two names, on any link and in any router's Content Store.       *)
(***************************************************************************)
EXTENDS PITlessNetwork, FiniteSetTheorems, FunctionTheorems, TLAPS

(* Data in the core carries both names, which tells it from an Interest. *)
DataOK(d) == {"name", "supportingName"} \subseteq DOMAIN d /\ ~ isInterest(d)

NamedAsAsked(d) ==
  /\ d.name = d.supportingName
  /\ d.name \in {k.name : k \in Keys}

PacketOK(packet) == IF isInterest(packet) THEN packet.key \in Keys ELSE DataOK(packet)

SentOK(packets) ==
  \A m \in packets : IF m.type = "Data" THEN DataOK(m.data) /\ NamedAsAsked(m.data)
                                        ELSE m.key \in Keys

BridgeOK ==
  /\ DOMAIN pit \subseteq Keys
  /\ \A d \in DOMAIN cs : DataOK(d) /\ NamedAsAsked(d)
  /\ SentOK(sent)

LinksOK == \A m \in BagToSet(links) : PacketOK(m.packet)

RoutersOK == DOMAIN rcs = Routers /\ \A r \in Routers : \A d \in DOMAIN rcs[r] : DataOK(d)

(* The inductive invariant of the network. *)
NInv == BridgeOK /\ LinksOK /\ RoutersOK
-----------------------------------------------------------------------------
(* What the bridge sends is fit for the core. *)
LEMMA SentToCoreOK ==
  ASSUME NEW packets, SentOK(packets), NEW p \in SentToCore(packets)
  PROVE  PacketOK(p.packet)
<1>1. PICK m \in packets : p = Packet(BridgeNode, PeerOf[m.face], OnTheWire(m))
  BY DEF SentToCore
<1>2. p.packet = OnTheWire(m)
  BY <1>1 DEF Packet
<1>3. CASE m.type = "Data"
  BY <1>2, <1>3 DEF OnTheWire, SentOK, PacketOK, DataOK
<1>4. CASE m.type # "Data"
  BY <1>2, <1>4 DEF OnTheWire, SentOK, PacketOK, isInterest
<1> QED
  BY <1>3, <1>4

(* A packet leaves its link, and others are put on links. *)
LEMMA LinksStep ==
  ASSUME LinksOK, NEW S, NEW P, \A p \in P : PacketOK(p.packet),
         \/ links' = (links (-) SetToBag(S)) (+) SetToBag(P)
         \/ links' = links (+) SetToBag(P)
  PROVE  LinksOK'
<1>1. \A B, C : BagToSet(B (+) C) = BagToSet(B) \cup BagToSet(C)
  BY DEF (+), BagToSet
<1>2. \A B, C : BagToSet(B (-) C) \subseteq BagToSet(B)
  BY DEF (-), BagToSet
<1>3. BagToSet(SetToBag(P)) = P
  BY DEF SetToBag, BagToSet
<1>4. BagToSet(links') \subseteq BagToSet(links) \cup P
  BY <1>1, <1>2, <1>3
<1> QED
  BY <1>4 DEF LinksOK, PacketOK, DataOK, isInterest

(* A packet leaves its link. *)
LEMMA LinksTaken ==
  ASSUME LinksOK, NEW S, links' = links (-) SetToBag(S)
  PROVE  LinksOK'
<1>1. BagToSet(links') \subseteq BagToSet(links)
  BY DEF (-), BagToSet
<1> QED
  BY <1>1 DEF LinksOK, PacketOK, DataOK, isInterest

(* onIncomingInterest at the bridge, of an Interest from either side. *)
LEMMA BridgeInterestNames ==
  ASSUME BridgeOK, NEW f, NEW i, i.key \in Keys, BridgeInterestStep(f, i)
  PROVE  BridgeOK'
<1>1. /\ cs' = cs
      /\ pit' = pit \/ \E e : pit' = PitPut(i.key, e)
  BY Zenon DEF BridgeInterestStep, DropLocalhostInterest, InterestLoop,
               BridgeContentStoreMiss, BridgeContentStoreHit
<1>2. DOMAIN pit' \subseteq Keys
  BY <1>1 DEF PitPut, BridgeOK
<1>3. \/ sent' = {}
      \/ \E to : sent' = {BridgeInterestPacket(i, g) : g \in to}
      \/ \E d \in DOMAIN cs : \E to : sent' = {DataPacket(d, g) : g \in to}
  BY Zenon DEF BridgeInterestStep, DropLocalhostInterest, InterestLoop,
               BridgeContentStoreMiss, BridgeContentStoreHit
<1>4. SentOK(sent')
  <2>1. ASSUME NEW to, sent' = {BridgeInterestPacket(i, g) : g \in to}
        PROVE  SentOK(sent')
    BY <2>1 DEF SentOK, BridgeInterestPacket
  <2>2. ASSUME NEW d \in DOMAIN cs, NEW to, sent' = {DataPacket(d, g) : g \in to}
        PROVE  SentOK(sent')
    BY <2>2 DEF SentOK, DataPacket, BridgeOK
  <2> QED
    BY <1>3, <2>1, <2>2 DEF SentOK
<1> QED
  BY <1>1, <1>2, <1>4 DEF BridgeOK, SentOK, DataOK, NamedAsAsked

(* Data from the core is cached and sent under the name of a pending entry. *)
LEMMA BridgeDataNames ==
  ASSUME BridgeOK, NEW f, f \notin LocalFaces, NEW d, DataOK(d), BridgeDataStep(f, d)
  PROVE  BridgeOK'
<1>1. CASE BridgeDropLocalhostData(f, d) \/ BridgeDataUnsolicited(f, d)
  BY <1>1 DEF BridgeDropLocalhostData, BridgeDataUnsolicited, BridgeOK, SentOK, DataOK, NamedAsAsked
<1>2. CASE BridgeDataSatisfies(f, d)
  <2> DEFINE matches == findAllDataMatchesByName(d.supportingName)
             x == Renamed(d)
  <2>1. /\ matches # {} /\ cs' = CsInsert(cs, x, FALSE, now) /\ DOMAIN pit' = DOMAIN pit
        /\ \E to : sent' = {DataPacket(x, g) : g \in to}
    BY <1>2, Zenon DEF BridgeDataSatisfies
  <2>2. PICK k \in Keys : k.name = d.supportingName
    BY <2>1 DEF findAllDataMatchesByName, BridgeOK
  <2>3. DataOK(x) /\ x.name = d.supportingName /\ x.supportingName = d.supportingName
    BY DEF Renamed, DataOK, isInterest
  <2>4. NamedAsAsked(x)
    BY <2>2, <2>3 DEF NamedAsAsked
  <2> HIDE DEF x
  <2>5. DOMAIN cs' = DOMAIN cs \cup {x}
    BY <2>1 DEF CsInsert
  <2>6. SentOK(sent')
    BY <2>1, <2>3, <2>4 DEF SentOK, DataPacket
  <2> QED
    BY <2>1, <2>3, <2>4, <2>5, <2>6 DEF BridgeOK, SentOK, DataOK, NamedAsAsked
<1> QED
  BY <1>1, <1>2 DEF BridgeDataStep

(* Timers, management and eviction send nothing and cache nothing. *)
LEMMA BridgeLocalNames ==
  ASSUME BridgeOK, BridgeLocalStep
  PROVE  BridgeOK'
<1>1. sent' = {} /\ DOMAIN cs' \subseteq DOMAIN cs /\ DOMAIN pit' \subseteq DOMAIN pit
  BY DEF BridgeLocalStep, TimerFires, onInterestUnsatisfied, onInterestFinalize, Tick, FaceAdd,
         FaceRemove, FibAddNextHop, FibRemoveNextHop, CsEvict
<1> QED
  BY <1>1 DEF BridgeOK, SentOK, DataOK, NamedAsAsked

(* A step of the bridge that changes nothing in the core but the links. *)
LEMMA BridgeUnchanged ==
  ASSUME BridgeOK, UNCHANGED vars
  PROVE  BridgeOK'
BY DEF vars, BridgeOK, SentOK, DataOK, NamedAsAsked
-----------------------------------------------------------------------------
(* onIncomingInterest of a router: the Interest goes on, or cached Data back. *)
LEMMA RouterInterestNames ==
  ASSUME NInv, NEW m \in BagToSet(links), RouterInterest(m)
  PROVE  NInv'
<1> USE DEF NInv
<1> DEFINE r == m.to
<1>1. /\ r \in Routers /\ isInterest(m.packet) /\ UNCHANGED vars /\ rcs' = rcs
      /\ \E sends \in RouterOnInterest(rfib[r], rcs[r], m.packet, m.from, now) :
           links' = (links (-) SetToBag({m})) (+) SetToBag(Outputs(r, sends))
  BY Zenon DEF RouterInterest
<1>2. PacketOK(m.packet)
  BY DEF LinksOK
<1>3. ASSUME NEW sends \in RouterOnInterest(rfib[r], rcs[r], m.packet, m.from, now)
      PROVE  \A x \in sends : x.packet = m.packet \/ x.packet \in DOMAIN rcs[r]
  BY <1>3 DEF RouterOnInterest, RouterSendsData, On, CsFind
<1>4. ASSUME NEW sends \in RouterOnInterest(rfib[r], rcs[r], m.packet, m.from, now)
      PROVE  \A p \in Outputs(r, sends) : PacketOK(p.packet)
  <2>1. ASSUME NEW x \in sends PROVE PacketOK(x.packet)
    BY <1>1, <1>2, <1>3, <2>1 DEF RoutersOK, PacketOK, DataOK
  <2> QED
    BY <2>1 DEF Outputs, Packet
<1>5. LinksOK'
  BY <1>1, <1>4, LinksStep
<1> QED
  BY <1>1, <1>5, BridgeUnchanged DEF RoutersOK, DataOK, isInterest

(* onIncomingData of a router: the Data is cached and sent on as it is. *)
LEMMA RouterDataNames ==
  ASSUME NInv, NEW m \in BagToSet(links), RouterData(m)
  PROVE  NInv'
<1> USE DEF NInv
<1> DEFINE r == m.to
<1>1. /\ r \in Routers /\ ~ isInterest(m.packet) /\ UNCHANGED vars
      /\ rcs' = [rcs EXCEPT ![r] = RouterCaches(@, m.packet, now)]
      /\ \E sends \in RouterOnData(rfib[r], m.packet, m.from) :
           links' = (links (-) SetToBag({m})) (+) SetToBag(Outputs(r, sends))
  BY Zenon DEF RouterData
<1>2. PacketOK(m.packet) /\ DataOK(m.packet)
  BY <1>1 DEF LinksOK, PacketOK
<1>3. ASSUME NEW sends \in RouterOnData(rfib[r], m.packet, m.from)
      PROVE  \A x \in sends : x.packet = m.packet
  BY <1>3 DEF RouterOnData, RouterSendsData, On
<1>4. ASSUME NEW sends \in RouterOnData(rfib[r], m.packet, m.from)
      PROVE  \A p \in Outputs(r, sends) : PacketOK(p.packet)
  BY <1>2, <1>3, <1>4 DEF Outputs, Packet
<1>5. LinksOK'
  BY <1>1, <1>4, LinksStep
<1>6. DOMAIN RouterCaches(rcs[r], m.packet, now) \subseteq DOMAIN rcs[r] \cup {m.packet}
  BY DEF RouterCaches, CsInsert
<1>7. RoutersOK'
  BY <1>1, <1>2, <1>6 DEF RoutersOK, DataOK, isInterest
<1> QED
  BY <1>1, <1>5, <1>7, BridgeUnchanged

(* The producer answers under the two names of the Interest. *)
LEMMA ProducerNames ==
  ASSUME NInv, NEW m \in BagToSet(links), ProducerReceives(m)
  PROVE  NInv'
<1> USE DEF NInv
<1> DEFINE answer == Packet(m.to, m.from, ProducerData(m.packet))
<1>1. /\ UNCHANGED vars /\ rcs' = rcs
      /\ \/ links' = (links (-) SetToBag({m})) (+) SetToBag({answer})
         \/ links' = links (-) SetToBag({m})
  BY Zenon DEF ProducerReceives
<1>2. PacketOK(answer.packet)
  BY DEF Packet, ProducerData, PacketOK, DataOK, isInterest
<1> HIDE DEF answer
<1>3. LinksOK'
  BY <1>1, <1>2, LinksStep, LinksTaken
<1> QED
  BY <1>1, <1>3, BridgeUnchanged DEF RoutersOK, DataOK, isInterest

(* A packet of the core is handled by the bridge, on a face that is not local. *)
LEMMA BridgeReceivesNames ==
  ASSUME NInv, NEW m \in BagToSet(links), NEW f \in CoreFaces, BridgeReceives(m, f)
  PROVE  NInv'
<1> USE DEF NInv
<1>1. /\ BridgeHandles(f, m.packet) /\ rcs' = rcs
      /\ links' = (links (-) SetToBag({m})) (+) SetToBag(SentToCore(sent'))
  BY Zenon DEF BridgeReceives
<1>2. PacketOK(m.packet) /\ f \notin LocalFaces
  BY NetworkAssumption DEF LinksOK
<1>3. BridgeOK'
  <2>1. CASE isInterest(m.packet)
    <3> DEFINE i == [key |-> m.packet.key, nonce |-> m.packet.nonce,
                     lifetime |-> m.packet.lifetime, nextHop |-> NoFace]
    <3>1. BridgeInterestStep(f, i)
      BY <1>1, <2>1, Zenon DEF BridgeHandles
    <3>2. i.key \in Keys
      BY <1>2, <2>1 DEF PacketOK
    <3> HIDE DEF i
    <3> QED
      BY <3>1, <3>2, BridgeInterestNames
  <2>2. CASE ~ isInterest(m.packet)
    <3>1. BridgeDataStep(f, m.packet) /\ DataOK(m.packet)
      BY <1>1, <1>2, <2>2 DEF BridgeHandles, PacketOK
    <3> QED
      BY <1>2, <3>1, BridgeDataNames
  <2> QED
    BY <2>1, <2>2
<1>4. \A p \in SentToCore(sent') : PacketOK(p.packet)
  <2>1. SentOK(sent')
    BY <1>3 DEF BridgeOK, SentOK, DataOK, NamedAsAsked
  <2> QED
    BY <2>1, SentToCoreOK
<1>5. LinksOK'
  BY <1>1, <1>4, LinksStep
<1> QED
  BY <1>1, <1>3, <1>5 DEF RoutersOK, DataOK, isInterest

(* A consumer's Interest, a timer or management at the bridge. *)
LEMMA BridgeActsNames ==
  ASSUME NInv, BridgeActs
  PROVE  NInv'
<1> USE DEF NInv
<1>1. /\ rcs' = rcs /\ links' = links (+) SetToBag(SentToCore(sent'))
      /\ \/ \E f \in Faces \ CoreFaces, i \in Interests : BridgeInterestStep(f, i)
         \/ BridgeLocalStep
  BY Zenon DEF BridgeActs
<1>2. \A i \in Interests : i.key \in Keys
  BY DEF Keys
<1>3. BridgeOK'
  BY <1>1, <1>2, BridgeInterestNames, BridgeLocalNames
<1>4. \A p \in SentToCore(sent') : PacketOK(p.packet)
  <2>1. SentOK(sent')
    BY <1>3 DEF BridgeOK, SentOK, DataOK, NamedAsAsked
  <2> QED
    BY <2>1, SentToCoreOK
<1>5. LinksOK'
  BY <1>1, <1>4, LinksStep
<1> QED
  BY <1>1, <1>3, <1>5 DEF RoutersOK, DataOK, isInterest

(* Every step of the network preserves the invariant. *)
LEMMA NetworkStep ==
  ASSUME NInv, [NetNext]_netVars
  PROVE  NInv'
<1>1. ASSUME NEW m, NEW f, BridgeFaceClosed(m, f) \/ LinkLoses(m)
      PROVE  NInv'
  <2>1. UNCHANGED vars /\ rcs' = rcs /\ links' = links (-) SetToBag({m})
    BY <1>1 DEF BridgeFaceClosed, LinkLoses
  <2>2. LinksOK'
    BY <2>1, LinksTaken DEF NInv
  <2> QED
    BY <2>1, <2>2, BridgeUnchanged DEF NInv, RoutersOK, DataOK, isInterest
<1>2. CASE UNCHANGED <<vars, rcs, links>>
  BY <1>2, BridgeUnchanged DEF NInv, LinksOK, RoutersOK, PacketOK, DataOK, isInterest
<1>3. CASE Deliver
  BY <1>1, <1>3, RouterInterestNames, RouterDataNames, ProducerNames, BridgeReceivesNames DEF Deliver
<1>4. CASE \E x \in RouterRoutes : RouterAddNextHop(x) \/ RouterRemoveNextHop(x)
  BY <1>2, <1>4 DEF RouterAddNextHop, RouterRemoveNextHop
<1>5. CASE UNCHANGED netVars
  BY <1>2, <1>5 DEF netVars, coreVars
<1> QED
  BY <1>1, <1>3, <1>4, <1>5, BridgeActsNames DEF NetNext

(* For any topology, any routes and any losses: what the bridge sends to a     *)
(* consumer is named as the consumer asked, although the bridge renames Data   *)
(* from the core by a field that the core cannot vouch for, and answers other  *)
(* Interests from its Content Store.                                           *)
THEOREM NamesAreRestored == NetSpec => []NamesRestored
<1>1. NetInit => NInv
  BY DEF NetInit, Init, NInv, BridgeOK, LinksOK, RoutersOK, SentOK, EmptyStore, EmptyBag, SetToBag, BagToSet
<1>2. NInv => NamesRestored
  BY DEF NInv, BridgeOK, SentOK, NamedAsAsked, NamesRestored
<1> QED
  BY <1>1, <1>2, NetworkStep, PTL DEF NetSpec

-----------------------------------------------------------------------------
(* Packet conservation.  The copies on the links are counted as a set, so that *)
(* a packet taken from a link is one element less, and the packets of a        *)
(* handler are one element more each.                                          *)

(* The k-th copy of packet m is on a link. *)
LEMMA CopyOf ==
  ASSUME NEW B
  PROVE  /\ \A c \in Copies(B) : \E m \in DOMAIN B : \E k \in 1 .. B[m] : c = <<m, k>>
         /\ \A m \in DOMAIN B : \A k \in 1 .. B[m] : <<m, k>> \in Copies(B)
BY DEF Copies, BagToSet

(* One copy of a packet of the bag is taken out. *)
LEMMA CopyTaken ==
  ASSUME NEW B, IsABag(B), IsFiniteSet(Copies(B)), NEW m \in BagToSet(B),
         NEW C, C = B (-) SetToBag({m})
  PROVE  /\ IsABag(C) /\ IsFiniteSet(Copies(C))
         /\ Cardinality(Copies(C)) = Cardinality(Copies(B)) - 1
<1>0. (\A e \in DOMAIN B : B[e] \in Nat /\ B[e] > 0) /\ m \in DOMAIN B
  BY DEF IsABag, BagToSet
<1> DEFINE left == [e \in DOMAIN B |-> IF e = m THEN B[e] - 1 ELSE B[e]]
<1>a. C = [e \in {d \in DOMAIN left : left[d] > 0} |-> left[e]]
  BY DEF (-), SetToBag
<1>b. {d \in DOMAIN left : left[d] > 0} = {d \in DOMAIN B : d = m => B[d] > 1}
  BY <1>0
<1>c. C = [e \in DOMAIN C |-> C[e]] /\ DOMAIN C = {d \in DOMAIN B : d = m => B[d] > 1}
  BY <1>a, <1>b
<1>1. /\ \A e : e \in DOMAIN C <=> e \in DOMAIN B /\ (e = m => B[e] > 1)
      /\ \A e \in DOMAIN C : C[e] = IF e = m THEN B[m] - 1 ELSE B[e]
      /\ \A e \in DOMAIN B : B[e] \in Nat /\ B[e] > 0
      /\ m \in DOMAIN B
  BY <1>0, <1>a, <1>c
<1> HIDE DEF left
<1>2. IsABag(C)
  <2>1. ASSUME NEW e \in DOMAIN C PROVE C[e] \in Nat /\ C[e] > 0
    <3>1. e \in DOMAIN B /\ B[e] \in Nat /\ B[e] > 0 /\ (e = m => B[e] > 1)
      BY <1>1, Zenon
    <3>2. C[e] = IF e = m THEN B[e] - 1 ELSE B[e]
      BY <1>1, Zenon
    <3> QED
      BY <3>1, <3>2
  <2> QED
    BY <1>c, <2>1 DEF IsABag
<1>3. Copies(C) = Copies(B) \ {<<m, B[m]>>}
  <2>1. ASSUME NEW c \in Copies(C) PROVE c \in Copies(B) \ {<<m, B[m]>>}
    <3>1. PICK x \in DOMAIN C : \E k \in 1 .. C[x] : c = <<x, k>>
      BY CopyOf, Zenon
    <3>2. PICK k \in 1 .. C[x] : c = <<x, k>>
      BY <3>1
    <3>a. x \in DOMAIN B /\ B[x] \in Nat
      BY <1>1, Zenon
    <3>b. C[x] = IF x = m THEN B[x] - 1 ELSE B[x]
      BY <1>1, Zenon
    <3>3. x \in DOMAIN B /\ k \in 1 .. B[x] /\ (x = m => k # B[m])
      BY <3>2, <3>a, <3>b
    <3>4. c # <<m, B[m]>>
      BY <3>2, <3>3
    <3> QED
      BY <3>2, <3>3, <3>4, CopyOf
  <2>2. ASSUME NEW c \in Copies(B), c # <<m, B[m]>> PROVE c \in Copies(C)
    <3>1. PICK x \in DOMAIN B : \E k \in 1 .. B[x] : c = <<x, k>>
      BY CopyOf, Zenon
    <3>2. PICK k \in 1 .. B[x] : c = <<x, k>>
      BY <3>1
    <3>3. x = m => k # B[m]
      BY <2>2, <3>2
    <3>a. B[x] \in Nat /\ (x = m => B[x] > 1)
      <4>1. B[x] \in Nat /\ k \in 1 .. B[x]
        BY <1>1, <3>2, Zenon
      <4> QED
        BY <3>3, <4>1
    <3>b. x \in DOMAIN C /\ C[x] = IF x = m THEN B[x] - 1 ELSE B[x]
      BY <1>1, <3>a, Zenon
    <3>4. x \in DOMAIN C /\ k \in 1 .. C[x]
      BY <3>2, <3>3, <3>a, <3>b
    <3> QED
      BY <3>2, <3>4, CopyOf
  <2> QED
    BY <2>1, <2>2
<1>4. <<m, B[m]>> \in Copies(B)
  BY <1>1, CopyOf
<1>5. Cardinality(Copies(B) \ {<<m, B[m]>>}) = Cardinality(Copies(B)) - 1
  BY <1>4, FS_RemoveElement
<1>6. IsFiniteSet(Copies(B) \ {<<m, B[m]>>})
  BY FS_RemoveElement
<1> QED
  BY <1>2, <1>3, <1>5, <1>6

(* One copy of each packet of a finite set is added. *)
LEMMA CopiesAdded ==
  ASSUME NEW B, IsABag(B), IsFiniteSet(Copies(B)), NEW S, IsFiniteSet(S),
         NEW C, C = B (+) SetToBag(S)
  PROVE  /\ IsABag(C) /\ IsFiniteSet(Copies(C))
         /\ Cardinality(Copies(C)) = Cardinality(Copies(B)) + Cardinality(S)
<1> DEFINE had(x) == IF x \in DOMAIN B THEN B[x] ELSE 0
           new == [x \in S |-> <<x, had(x) + 1>>]
           N == {<<x, had(x) + 1>> : x \in S}
<1>1. /\ C = [e \in DOMAIN B \cup S |-> had(e) + (IF e \in S THEN 1 ELSE 0)]
      /\ \A e \in DOMAIN B : B[e] \in Nat /\ B[e] > 0
  BY DEF (+), SetToBag, IsABag
<1>2. IsABag(C)
  BY <1>1 DEF IsABag
<1>3. Copies(C) = Copies(B) \cup N
  <2>1. ASSUME NEW c \in Copies(C) PROVE c \in Copies(B) \cup N
    <3>1. PICK x \in DOMAIN C : \E k \in 1 .. C[x] : c = <<x, k>>
      BY CopyOf, Zenon
    <3>2. PICK k \in 1 .. C[x] : c = <<x, k>>
      BY <3>1
    <3>3. CASE k = had(x) + 1
      <4>1. x \in S
        BY <1>1, <3>2, <3>3
      <4> QED
        BY <3>2, <3>3, <4>1
    <3>4. CASE k # had(x) + 1
      <4>1. x \in DOMAIN B /\ k \in 1 .. B[x]
        BY <1>1, <3>2, <3>4
      <4> QED
        BY <3>2, <4>1, CopyOf
    <3> QED
      BY <3>3, <3>4
  <2>2. ASSUME NEW c \in Copies(B) PROVE c \in Copies(C)
    <3>1. PICK x \in DOMAIN B : \E k \in 1 .. B[x] : c = <<x, k>>
      BY CopyOf, Zenon
    <3>2. PICK k \in 1 .. B[x] : c = <<x, k>>
      BY <3>1
    <3>3. x \in DOMAIN C /\ k \in 1 .. C[x]
      BY <1>1, <3>2
    <3> QED
      BY <3>2, <3>3, CopyOf
  <2>3. ASSUME NEW x \in S PROVE <<x, had(x) + 1>> \in Copies(C)
    <3>1. x \in DOMAIN C /\ had(x) + 1 \in 1 .. C[x]
      BY <1>1
    <3> QED
      BY <3>1, CopyOf
  <2> QED
    BY <2>1, <2>2, <2>3
<1>4. Copies(B) \cap N = {}
  <2>1. ASSUME NEW x \in S, <<x, had(x) + 1>> \in Copies(B) PROVE FALSE
    <3>1. PICK y \in DOMAIN B : \E k \in 1 .. B[y] : <<x, had(x) + 1>> = <<y, k>>
      BY <2>1, CopyOf
    <3>2. x \in DOMAIN B /\ had(x) + 1 \in 1 .. B[x]
      BY <3>1
    <3> QED
      BY <1>1, <3>2
  <2> QED
    BY <2>1
<1>5. ExistsBijection(S, N)
  <2>1. new \in [S -> N]
    OBVIOUS
  <2>2. \A x, y \in S : new[x] = new[y] => x = y
    OBVIOUS
  <2>3. \A z \in N : \E x \in S : new[x] = z
    OBVIOUS
  <2> HIDE DEF new, N
  <2>4. new \in Bijection(S, N)
    BY <2>1, <2>2, <2>3, Fun_IsBij
  <2> QED
    BY <2>4 DEF ExistsBijection
<1> HIDE DEF N
<1>6. IsFiniteSet(N) /\ Cardinality(N) = Cardinality(S)
  BY <1>5, FS_Bijection
<1>7. /\ IsFiniteSet(Copies(B) \cup N)
      /\ Cardinality(Copies(B) \cup N)
           = Cardinality(Copies(B)) + Cardinality(N) - Cardinality({})
  BY <1>4, <1>6, FS_Union
<1>8. Cardinality({}) = 0 /\ Cardinality(Copies(B)) \in Nat /\ Cardinality(S) \in Nat
  BY FS_EmptySet, FS_CardinalityType
<1> QED
  BY <1>2, <1>3, <1>6, <1>7, <1>8

(* The state of the count: every packet sent into the core is on a link or gone. *)
CountOK ==
  /\ IsABag(links) /\ IsFiniteSet(Copies(links))
  /\ injected \in Nat /\ gone \in Nat
  /\ PacketConservation

(* A packet leaves its link, n packets of S are put on links and the rest is gone. *)
LEMMA CountStep ==
  ASSUME CountOK, NEW m \in BagToSet(links), NEW S, IsFiniteSet(S),
         \/ links' = (links (-) SetToBag({m})) (+) SetToBag(S)
         \/ S = {} /\ links' = links (-) SetToBag({m}),
         injected' \in Nat, gone' \in Nat,
         injected' - injected + 1 = Cardinality(S) + (gone' - gone)
  PROVE  CountOK'
<1> DEFINE B == links (-) SetToBag({m})
<1>1. /\ IsABag(B) /\ IsFiniteSet(Copies(B))
      /\ Cardinality(Copies(B)) = Cardinality(Copies(links)) - 1
  BY CopyTaken DEF CountOK
<1>2. /\ Cardinality(Copies(links)) \in Nat /\ Cardinality(S) \in Nat
      /\ S = {} => Cardinality(S) = 0
  BY FS_CardinalityType, FS_EmptySet DEF CountOK
<1>3. links' = B (+) SetToBag(S) \/ (S = {} /\ links' = B)
  OBVIOUS
<1> HIDE DEF B
<1>4. /\ IsABag(links') /\ IsFiniteSet(Copies(links'))
      /\ Cardinality(Copies(links')) = Cardinality(Copies(B)) + Cardinality(S)
  BY <1>1, <1>2, <1>3, CopiesAdded
<1>5. Copies(links)' = Copies(links')
  BY DEF Copies, BagToSet
<1>6. IsABag(links)' = IsABag(links')
  BY DEF IsABag
<1> QED
  BY <1>1, <1>2, <1>4, <1>5, <1>6 DEF CountOK, PacketConservation

(* What a router may send for a packet. *)
RouterWay(sends) ==
  \E routes, store, p, from, t :
    \/ sends \in RouterOnInterest(routes, store, p, from, t)
    \/ sends \in RouterOnData(routes, p, from)

(* A router sends on at most one face: a packet becomes one packet or none. *)
LEMMA RouterSendsOne ==
  ASSUME NEW r, NEW sends, RouterWay(sends)
  PROVE  /\ IsFiniteSet(Outputs(r, sends))
         /\ Cardinality(Outputs(r, sends)) = IF sends = {} THEN 0 ELSE 1
<1>0. PICK routes, store, p, from, t :
           \/ sends \in RouterOnInterest(routes, store, p, from, t)
           \/ sends \in RouterOnData(routes, p, from)
  BY DEF RouterWay
<1>1. \A hops : \A faces \in firstNextHopExcept(hops, from) : faces = {} \/ \E f : faces = {f}
  BY DEF firstNextHopExcept
<1>2. \A d, faces : (faces = {} \/ \E f : faces = {f})
                     => (On(faces, d) = {} \/ \E x : On(faces, d) = {x})
  BY DEF On
<1>3. sends = {} \/ \E x : sends = {x}
  <2>1. CASE sends \in RouterOnInterest(routes, store, p, from, t)
    <3>1. \/ sends = {}
          \/ \E d : sends = RouterSendsData({from}, d)
          \/ \E faces \in afterReceiveInterestPITless(routes, p, from) : sends = On(faces, p)
      BY <2>1, Zenon DEF RouterOnInterest
    <3>2. \A d : RouterSendsData({from}, d) = {} \/ \E x : RouterSendsData({from}, d) = {x}
      BY <1>2 DEF RouterSendsData
    <3>3. \A faces \in afterReceiveInterestPITless(routes, p, from) : faces = {} \/ \E f : faces = {f}
      BY <1>1 DEF afterReceiveInterestPITless
    <3>4. \A faces \in afterReceiveInterestPITless(routes, p, from) :
            On(faces, p) = {} \/ \E x : On(faces, p) = {x}
      BY <1>2, <3>3, Zenon
    <3> QED
      BY <3>1, <3>2, <3>4, Zenon
  <2>2. CASE sends \in RouterOnData(routes, p, from)
    <3>1. sends = {} \/ \E hops : \E faces \in firstNextHopExcept(hops, from) : sends = On(faces, p)
      BY <2>2, Zenon DEF RouterOnData, RouterSendsData
    <3>2. CASE sends = {}
      BY <3>2
    <3>3. ASSUME NEW hops, NEW faces \in firstNextHopExcept(hops, from), sends = On(faces, p)
          PROVE  sends = {} \/ \E x : sends = {x}
      <4>1. faces = {} \/ \E f : faces = {f}
        BY <1>1, <3>3
      <4> QED
        BY <1>2, <3>3, <4>1
    <3> QED
      BY <3>1, <3>2, <3>3
  <2> QED
    BY <1>0, <2>1, <2>2
<1>4. CASE sends = {}
  BY <1>4, FS_EmptySet DEF Outputs
<1>5. ASSUME NEW x, sends = {x}
      PROVE  /\ IsFiniteSet(Outputs(r, sends)) /\ sends # {}
             /\ Cardinality(Outputs(r, sends)) = 1
  <2>1. Outputs(r, sends) = {Packet(r, x.face, x.packet)}
    BY <1>5 DEF Outputs
  <2> QED
    BY <1>5, <2>1, FS_Singleton
<1> QED
  BY <1>3, <1>4, <1>5

(* A handler of the bridge sends one packet to each face of a set. *)
LEMMA BridgeSendsFinite ==
  ASSUME \/ \E f, i : BridgeInterestStep(f, i)
         \/ \E f, d : BridgeDataStep(f, d)
         \/ BridgeLocalStep
  PROVE  IsFiniteSet(SentToCore(sent'))
<1> DEFINE ToFaces(packets) == \A x, y \in packets : x.face = y.face => x = y
<1>1. \/ sent' = {}
      \/ \E i, to : sent' = {BridgeInterestPacket(i, g) : g \in to}
      \/ \E d, to : sent' = {DataPacket(d, g) : g \in to}
  <2>1. ASSUME NEW f, NEW i, BridgeInterestStep(f, i)
        PROVE  \/ sent' = {}
               \/ \E to : sent' = {BridgeInterestPacket(i, g) : g \in to}
               \/ \E d \in DOMAIN cs : \E to : sent' = {DataPacket(d, g) : g \in to}
    BY <2>1, Zenon DEF BridgeInterestStep, DropLocalhostInterest, InterestLoop,
               BridgeContentStoreMiss, BridgeContentStoreHit
  <2>2. ASSUME NEW f, NEW d, BridgeDataStep(f, d)
        PROVE  sent' = {} \/ \E x, to : sent' = {DataPacket(x, g) : g \in to}
    BY <2>2, Zenon DEF BridgeDataStep, BridgeDropLocalhostData, BridgeDataUnsolicited, BridgeDataSatisfies
  <2>3. ASSUME BridgeLocalStep PROVE sent' = {}
    BY <2>3 DEF BridgeLocalStep, TimerFires, onInterestUnsatisfied, onInterestFinalize, Tick, FaceAdd,
           FaceRemove, FibAddNextHop, FibRemoveNextHop, CsEvict
  <2> QED
    BY <2>1, <2>2, <2>3
<1>2. ToFaces(sent')
  BY <1>1 DEF BridgeInterestPacket, DataPacket
<1> DEFINE M == {x \in sent' : x.face \in CoreFaces}
           at == [x \in M |-> x.face]
<1>3. at \in Injection(M, CoreFaces)
  <2>1. at \in [M -> CoreFaces] /\ \A x, y \in M : at[x] = at[y] => x = y
    BY <1>2
  <2> HIDE DEF at, M
  <2> QED
    BY <2>1, Fun_IsInj
<1>4. IsFiniteSet(M)
  BY <1>3, NetworkAssumption, FS_Injection
<1> HIDE DEF M
<1> DEFINE Op(m) == Packet(BridgeNode, PeerOf[m.face], OnTheWire(m))
           T == {Op(m) : m \in M}
           op == [m \in M |-> Op(m)]
<1>5. op \in Surjection(M, T)
  <2>1. op \in [M -> T] /\ \A z \in T : \E m \in M : op[m] = z
    OBVIOUS
  <2> HIDE DEF op, T
  <2> QED
    BY <2>1, Fun_IsSurj
<1>6. SentToCore(sent') = T
  BY DEF SentToCore, M
<1> HIDE DEF T, op
<1> QED
  BY <1>4, <1>5, <1>6, FS_Surjection

(* Every step of the network keeps the count. *)
LEMMA NetworkCount ==
  ASSUME CountOK, [NetNext]_netVars
  PROVE  CountOK'
<1> USE DEF CountOK
<1>1. CASE BridgeActs
  <2> DEFINE S == SentToCore(sent')
  <2>1. /\ links' = links (+) SetToBag(S) /\ injected' = injected + Cardinality(S) /\ gone' = gone
        /\ \/ \E f, i : BridgeInterestStep(f, i)
           \/ BridgeLocalStep
    BY <1>1, Zenon DEF BridgeActs
  <2>2. IsFiniteSet(S)
    BY <2>1, BridgeSendsFinite
  <2> HIDE DEF S
  <2>3. /\ IsABag(links') /\ IsFiniteSet(Copies(links'))
        /\ Cardinality(Copies(links')) = Cardinality(Copies(links)) + Cardinality(S)
    BY <2>1, <2>2, CopiesAdded
  <2>4. Cardinality(S) \in Nat /\ Cardinality(Copies(links)) \in Nat
    BY <2>2, FS_CardinalityType
  <2>5. Copies(links)' = Copies(links') /\ IsABag(links)' = IsABag(links')
    BY DEF Copies, BagToSet, IsABag
  <2> QED
    BY <2>1, <2>3, <2>4, <2>5 DEF PacketConservation
<1>2. ASSUME NEW m \in BagToSet(links), RouterInterest(m) \/ RouterData(m)
      PROVE  CountOK'
  <2> DEFINE r == m.to
  <2>1. /\ injected' = injected
        /\ \E sends : /\ \/ sends \in RouterOnInterest(rfib[r], rcs[r], m.packet, m.from, now)
                         \/ sends \in RouterOnData(rfib[r], m.packet, m.from)
                      /\ links' = (links (-) SetToBag({m})) (+) SetToBag(Outputs(r, sends))
                      /\ gone' = gone + (IF sends = {} THEN 1 ELSE 0)
    BY <1>2, Zenon DEF RouterInterest, RouterData
  <2>2. PICK sends : /\ RouterWay(sends)
                     /\ links' = (links (-) SetToBag({m})) (+) SetToBag(Outputs(r, sends))
                     /\ gone' = gone + (IF sends = {} THEN 1 ELSE 0)
    BY <2>1, Zenon DEF RouterWay
  <2> DEFINE S == Outputs(r, sends)
  <2>3. IsFiniteSet(S) /\ Cardinality(S) = IF sends = {} THEN 0 ELSE 1
    BY <2>2, RouterSendsOne
  <2> HIDE DEF S
  <2>4. links' = (links (-) SetToBag({m})) (+) SetToBag(S)
    BY <2>2 DEF S
  <2>5. injected' \in Nat /\ gone' \in Nat /\ injected' - injected + 1 = Cardinality(S) + (gone' - gone)
    BY <2>1, <2>2, <2>3
  <2> QED
    BY <2>3, <2>4, <2>5, CountStep
<1>3. ASSUME NEW m \in BagToSet(links), NEW f,
             ProducerReceives(m) \/ BridgeFaceClosed(m, f) \/ LinkLoses(m)
      PROVE  CountOK'
  <2>1. /\ injected' = injected
        /\ \/ \E p : /\ links' = (links (-) SetToBag({m})) (+) SetToBag({p})
                     /\ gone' = gone
           \/ links' = links (-) SetToBag({m}) /\ gone' = gone + 1
    BY <1>3, Zenon DEF ProducerReceives, BridgeFaceClosed, LinkLoses
  <2>2. ASSUME NEW p, links' = (links (-) SetToBag({m})) (+) SetToBag({p}), gone' = gone
        PROVE  CountOK'
    <3>1. IsFiniteSet({p}) /\ Cardinality({p}) = 1
      BY FS_Singleton
    <3>2. injected' - injected + 1 = Cardinality({p}) + (gone' - gone)
      BY <2>1, <2>2, <3>1
    <3> QED
      BY <2>1, <2>2, <3>1, <3>2, CountStep
  <2>3. CASE links' = links (-) SetToBag({m}) /\ gone' = gone + 1
    <3>1. IsFiniteSet({}) /\ Cardinality({}) = 0
      BY FS_EmptySet
    <3>2. injected' - injected + 1 = Cardinality({}) + (gone' - gone) /\ gone' \in Nat
      BY <2>1, <2>3, <3>1
    <3> QED
      BY <2>1, <2>3, <3>1, <3>2, CountStep
  <2> QED
    BY <2>1, <2>2, <2>3
<1>4. ASSUME NEW m \in BagToSet(links), NEW f, BridgeReceives(m, f)
      PROVE  CountOK'
  <2> DEFINE S == SentToCore(sent')
  <2>1. /\ links' = (links (-) SetToBag({m})) (+) SetToBag(S)
        /\ injected' = injected + Cardinality(S) /\ gone' = gone + 1
        /\ BridgeHandles(f, m.packet)
    BY <1>4, Zenon DEF BridgeReceives
  <2>2. (\E g, i : BridgeInterestStep(g, i)) \/ (\E g, d : BridgeDataStep(g, d))
    BY <2>1, Zenon DEF BridgeHandles
  <2>3. IsFiniteSet(S)
    BY <2>2, BridgeSendsFinite
  <2> HIDE DEF S
  <2>4. Cardinality(S) \in Nat
    BY <2>3, FS_CardinalityType
  <2>5. /\ injected' \in Nat /\ gone' \in Nat
        /\ injected' - injected + 1 = Cardinality(S) + (gone' - gone)
    BY <2>1, <2>4
  <2> QED
    BY <2>1, <2>3, <2>5, CountStep
<1>5. CASE UNCHANGED <<links, injected, gone>>
  BY <1>5 DEF PacketConservation, Copies, BagToSet, IsABag
<1>6. CASE Deliver
  BY <1>2, <1>3, <1>4, <1>6, Zenon DEF Deliver
<1>7. CASE \E m \in BagToSet(links) : LinkLoses(m)
  BY <1>3, <1>7, Zenon
<1>8. CASE \E x \in RouterRoutes : RouterAddNextHop(x) \/ RouterRemoveNextHop(x)
  BY <1>5, <1>8, Zenon DEF RouterAddNextHop, RouterRemoveNextHop
<1>9. CASE UNCHANGED netVars
  BY <1>5, <1>9 DEF netVars, coreVars
<1> QED
  BY <1>1, <1>6, <1>7, <1>8, <1>9, Zenon DEF NetNext

(* For any topology, any routes, any losses and any interleaving with the      *)
(* timers of the bridge: the core neither multiplies nor forgets a packet that *)
(* the bridge sent into it.                                                    *)
THEOREM PacketsAreConserved == NetSpec => []PacketConservation
<1>1. NetInit => CountOK
  <2>1. ASSUME NetInit PROVE links = EmptyBag /\ injected = 0 /\ gone = 0
    BY <2>1, Zenon DEF NetInit
  <2>2. IsABag(EmptyBag) /\ Copies(EmptyBag) = {}
    BY DEF EmptyBag, SetToBag, IsABag, Copies, BagToSet
  <2> QED
    BY <2>1, <2>2, FS_EmptySet DEF CountOK, PacketConservation
<1>2. CountOK => PacketConservation
  BY DEF CountOK
<1> QED
  BY <1>1, <1>2, NetworkCount, PTL DEF NetSpec

=============================================================================

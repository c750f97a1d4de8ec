--------------------------- MODULE PITlessNetwork ---------------------------
(***************************************************************************)
(* A bridge, a core of PIT-less routers and producers, joined by links     *)
(* that lose and reorder packets.                                          *)
(*                                                                         *)
(* Consumers and the tables of the bridge are those of BridgeForwarder.    *)
(* What the bridge sends on a face of CoreFaces enters the core; what the  *)
(* core sends to the bridge is received on that face.  A producer is an    *)
(* application outside of the repository: it answers an Interest with Data *)
(* under the Interest's supporting name, with the Interest's name as       *)
(* supporting name (bridge-forwarder.cpp, comment at setName).             *)
(***************************************************************************)
EXTENDS BridgeForwarder, PITlessForwarder, Bags

CONSTANTS
  Routers, Producers,  \* nodes of the core
  BridgeNode,          \* the bridge, as a neighbour of routers
  CoreFaces,           \* faces of the bridge that lead to the core
  PeerOf,              \* the router at the other end of a core face
  InitialRoutes,       \* FIB of every router
  RouterRoutes,        \* [router, prefix, face, cost] that may be added or removed
  Freshness,           \* FreshnessPeriod of the producers' Data
  MaxLost              \* bound: packets lost on links

VARIABLES
  rfib,      \* m_fib of every router
  rcs,       \* m_cs of every router
  links,     \* bag of [from, to, packet]
  injected,  \* history: number of Interests the bridge sent into the core
  gone,      \* history: number of packets that left the core
  lost       \* packets lost

coreVars == <<rfib, rcs, links, injected, gone, lost>>
netVars == <<vars, coreVars>>

ASSUME NetworkAssumption ==
  /\ CoreFaces \subseteq Faces \ LocalFaces /\ \A f \in CoreFaces : PeerOf[f] \in Routers
  /\ IsFiniteSet(CoreFaces) /\ MaxLost \in Nat

Packet(from, to, packet) == [from |-> from, to |-> to, packet |-> packet]
isInterest(packet) == "key" \in DOMAIN packet
-----------------------------------------------------------------------------
(* The packets of a bridge handler that go to the core. *)
OnTheWire(m) ==
  IF m.type = "Data" THEN m.data
  ELSE [key |-> m.key, nonce |-> m.nonce, lifetime |-> m.lifetime,
        supportingName |-> m.supportingName]

SentToCore(packets) ==
  {Packet(BridgeNode, PeerOf[m.face], OnTheWire(m)) : m \in {x \in packets : x.face \in CoreFaces}}

(* A consumer's Interest, or what a timer or management does at the bridge. *)
BridgeActs ==
  /\ \/ \E f \in Faces \ CoreFaces, i \in Interests : Arrival /\ BridgeInterestStep(f, i)
     \/ BridgeLocalStep
  /\ links' = links (+) SetToBag(SentToCore(sent'))
  /\ injected' = injected + Cardinality(SentToCore(sent'))
  /\ UNCHANGED <<rfib, rcs, gone, lost>>

(* A packet of the core reaches the bridge: Data is looked up by its          *)
(* supporting name, and an Interest is handled as from any other face.        *)
BridgeHandles(f, packet) ==
  IF isInterest(packet)
  THEN BridgeInterestStep(f, [key |-> packet.key, nonce |-> packet.nonce,
                              lifetime |-> packet.lifetime, nextHop |-> NoFace])
  ELSE BridgeDataStep(f, packet)

BridgeReceives(m, f) ==
  /\ m.to = BridgeNode /\ m.from = PeerOf[f]
  /\ BridgeHandles(f, m.packet)
  /\ links' = (links (-) SetToBag({m})) (+) SetToBag(SentToCore(sent'))
  /\ injected' = injected + Cardinality(SentToCore(sent'))
  /\ gone' = gone + 1
  /\ UNCHANGED <<budget, rfib, rcs, lost>>

(* Nothing is received on a closed face. *)
BridgeFaceClosed(m, f) ==
  /\ m.to = BridgeNode /\ m.from = PeerOf[f] /\ face[f] # "up"
  /\ links' = links (-) SetToBag({m})
  /\ gone' = gone + 1
  /\ UNCHANGED <<vars, rfib, rcs, injected, lost>>
-----------------------------------------------------------------------------
Outputs(r, sends) == {Packet(r, x.face, x.packet) : x \in sends}

RouterInterest(m) ==
  LET r == m.to
  IN  /\ r \in Routers /\ isInterest(m.packet)
      /\ \E sends \in RouterOnInterest(rfib[r], rcs[r], m.packet, m.from, now) :
           /\ links' = (links (-) SetToBag({m})) (+) SetToBag(Outputs(r, sends))
           /\ gone' = gone + (IF sends = {} THEN 1 ELSE 0)
      /\ UNCHANGED <<vars, rfib, rcs, injected, lost>>

RouterData(m) ==
  LET r == m.to
  IN  /\ r \in Routers /\ ~isInterest(m.packet)
      /\ \E sends \in RouterOnData(rfib[r], m.packet, m.from) :
           /\ links' = (links (-) SetToBag({m})) (+) SetToBag(Outputs(r, sends))
           /\ gone' = gone + (IF sends = {} THEN 1 ELSE 0)
      /\ rcs' = [rcs EXCEPT ![r] = RouterCaches(@, m.packet, now)]
      /\ UNCHANGED <<vars, rfib, injected, lost>>

(* External: the producer's answer goes back on the link of the Interest. *)
ProducerData(i) ==
  [name |-> i.supportingName, supportingName |-> i.key.name, freshness |-> Freshness]

ProducerReceives(m) ==
  /\ m.to \in Producers
  /\ IF isInterest(m.packet)
     THEN /\ links' = (links (-) SetToBag({m}))
                        (+) SetToBag({Packet(m.to, m.from, ProducerData(m.packet))})
          /\ gone' = gone
     ELSE links' = links (-) SetToBag({m}) /\ gone' = gone + 1
  /\ UNCHANGED <<vars, rfib, rcs, injected, lost>>

LinkLoses(m) ==
  /\ lost < MaxLost
  /\ links' = links (-) SetToBag({m})
  /\ gone' = gone + 1 /\ lost' = lost + 1
  /\ UNCHANGED <<vars, rfib, rcs, injected>>

(* Routing updates of the core. *)
RouterAddNextHop(x) ==
  /\ now =< Horizon
  /\ rfib' = [rfib EXCEPT ![x.router] = addNextHop(@, x.prefix, x.face, x.cost)]
  /\ UNCHANGED <<vars, rcs, links, injected, gone, lost>>

RouterRemoveNextHop(x) ==
  /\ now =< Horizon
  /\ rfib' = [rfib EXCEPT ![x.router] = removeNextHopFromEntries(@, {x.prefix}, x.face)]
  /\ UNCHANGED <<vars, rcs, links, injected, gone, lost>>
-----------------------------------------------------------------------------
NetInit ==
  /\ Init
  /\ rfib = InitialRoutes
  /\ rcs = [r \in Routers |-> EmptyStore]
  /\ links = EmptyBag
  /\ injected = 0 /\ gone = 0 /\ lost = 0

Deliver ==
  \E m \in BagToSet(links) :
    \/ RouterInterest(m) \/ RouterData(m) \/ ProducerReceives(m)
    \/ \E f \in CoreFaces : BridgeReceives(m, f) \/ BridgeFaceClosed(m, f)

NetNext ==
  \/ BridgeActs
  \/ Deliver
  \/ \E m \in BagToSet(links) : LinkLoses(m)
  \/ \E x \in RouterRoutes : RouterAddNextHop(x) \/ RouterRemoveNextHop(x)

NetSpec == NetInit /\ [][NetNext]_netVars
FairNetSpec == NetSpec /\ WF_netVars(Deliver)
-----------------------------------------------------------------------------
(* The packets on the links, each copy of a packet by itself. *)
Copies(bag) == UNION {{m} \X (1 .. bag[m]) : m \in BagToSet(bag)}

(* Packet conservation: the core never multiplies packets.  Every Interest the *)
(* bridge sent is, as itself or as the Data that answers it, on one link or    *)
(* gone, whatever routes change and packets are lost.                          *)
PacketConservation == Cardinality(Copies(links)) + gone = injected

(* End-to-end naming: Data that a consumer receives is named as its producer   *)
(* was asked, although it crossed the core under the name of the bridge.       *)
NamesRestored ==
  \A x \in sent : x.type = "Data" =>
    /\ x.data.name = x.data.supportingName
    /\ x.data.name \in {k.name : k \in Keys}

(* The core forgets: every packet leaves it when links deliver and routes have *)
(* no cycle.                                                                   *)
CoreDrains == []<>(links = EmptyBag)

=============================================================================

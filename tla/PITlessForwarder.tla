-------------------------- MODULE PITlessForwarder --------------------------
(***************************************************************************)
(* A router without a PIT (daemon/fw/pitless-forwarder.cpp).  Its only     *)
(* state is its FIB and its Content Store; Interests are routed by their   *)
(* name, and Data by theirs, which is the supporting name of the Interest  *)
(* they answer.  The handlers are operators here: each gives the set of    *)
(* ways in which it may send, a way being a set of packets with the face   *)
(* each of them goes to.                                                   *)
(*                                                                         *)
(* All faces of a router are links to its neighbours, none of them local.  *)
(***************************************************************************)
EXTENDS Fib, Cs

LOCAL LOCALHOST_NAME == <<"localhost">>

On(faces, packet) == {[face |-> f, packet |-> packet] : f \in faces}

(* onOutgoingData of Forwarder, for a non-local face. *)
RouterSendsData(faces, d) ==
  IF IsPrefix(LOCALHOST_NAME, d.name) THEN {} ELSE On(faces, d)

(* Mutant: every next hop but the incoming face (PITlessMulticastStrategy). *)
afterReceiveInterestMulticast(fib, i, inFace) ==
  {DOMAIN findLongestPrefixMatch(fib, i.key.name) \ {inFace}}

(* PITlessBestRouteStrategy.  There is no loop detection of any kind. *)
afterReceiveInterestPITless(fib, i, inFace) ==
  firstNextHopExcept(findLongestPrefixMatch(fib, i.key.name), inFace)

(* onIncomingInterest: a cached Data goes back to the incoming face. *)
RouterOnInterest(fib, store, i, inFace, t) ==
  LET hits == CsFind(store, i.key, t)
  IN  IF IsPrefix(LOCALHOST_NAME, i.key.name) THEN {{}}
      ELSE IF hits # {} THEN {RouterSendsData({inFace}, d) : d \in hits}
      ELSE {On(faces, i) : faces \in afterReceiveInterestPITless(fib, i, inFace)}

(* onIncomingData: all Data is cached, and follows its own name. *)
RouterAcceptsData(d) == ~IsPrefix(LOCALHOST_NAME, d.supportingName)

RouterOnData(fib, d, inFace) ==
  IF ~RouterAcceptsData(d) THEN {{}}
  ELSE {RouterSendsData(faces, d) :
          faces \in firstNextHopExcept(findLongestPrefixMatch(fib, d.name), inFace)}

RouterCaches(store, d, t) == IF RouterAcceptsData(d) THEN CsInsert(store, d, FALSE, t) ELSE store

=============================================================================

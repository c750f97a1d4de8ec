-------------------------------- MODULE Rib --------------------------------
(***************************************************************************)
(* The Routing Information Base (rib/rib.cpp, rib-entry.cpp, route.hpp).   *)
(* A RIB is a function from the prefixes that have an entry.  An entry is  *)
(*   routes    : m_routes, in order of insertion                           *)
(*   inherited : how often each face is in m_inheritedRoutes, whose routes *)
(*               are only ever looked up by face                           *)
(*   nCapture  : m_nRoutesWithCaptureSet                                   *)
(*   parent    : m_parent; m_children are the entries whose parent it is   *)
(* A route is [face, origin, cost, childInherit, capture, event], event    *)
(* being the handle of its expiration event or NoEvent.                    *)
(*                                                                         *)
(* A RouteSet orders routes by face only: it is a function from faces to   *)
(* costs, and inserting a face that it has leaves it unchanged.            *)
(***************************************************************************)
EXTENDS Integers, SequencesExt

CONSTANTS RibFaces,   \* FaceIds
          NoName,     \* a null shared_ptr<RibEntry>
          NoEvent     \* a null EventId

NoRoutes == [f \in {} |-> 0]   \* an empty RouteSet

OneRoute(route) == route.face :> route.cost

compareFaceIdAndOrigin(a, b) == a.face = b.face /\ a.origin = b.origin

hasRoute(e, route) == \E i \in DOMAIN e.routes : compareFaceIdAndOrigin(e.routes[i], route)

findRoute(e, route) == CHOOSE i \in DOMAIN e.routes : compareFaceIdAndOrigin(e.routes[i], route)

OnFace(e, f) == {i \in DOMAIN e.routes : e.routes[i].face = f}

hasFaceId(e, f) == OnFace(e, f) # {}

hasInheritedRoute(e, f) == e.inherited[f] > 0

hasCapture(e) == e.nCapture > 0

InheritOnFace(e, f) == {i \in OnFace(e, f) : e.routes[i].childInherit}

hasChildInheritOnFaceId(e, f) == InheritOnFace(e, f) # {}

(* The first route of least cost. *)
LowestCost(e, indices) ==
  CHOOSE i \in indices : \A j \in indices :
    e.routes[i].cost < e.routes[j].cost \/ (e.routes[i].cost = e.routes[j].cost /\ i =< j)

getRouteWithLowestCostByFaceId(e, f) == e.routes[LowestCost(e, OnFace(e, f))]

getRouteWithLowestCostAndChildInheritByFaceId(e, f) == e.routes[LowestCost(e, InheritOnFace(e, f))]

(* nth_element leaves open which of several routes of equal cost is second. *)
getRouteWithSecondLowestCostByFaceId(e, f) ==
  {e.routes[j] : j \in {j \in OnFace(e, f) : \E i \in OnFace(e, f) \ {j} :
     /\ e.routes[i].cost =< e.routes[j].cost
     /\ \A k \in OnFace(e, f) \ {i, j} : e.routes[j].cost =< e.routes[k].cost}}

insertRoute(e, route) ==
  [e EXCEPT !.routes = Append(@, route),
            !.nCapture = IF route.capture THEN @ + 1 ELSE @]

eraseRoute(e, route) ==
  LET i == findRoute(e, route)
  IN  [e EXCEPT !.routes = RemoveAt(@, i),
                !.nCapture = IF e.routes[i].capture THEN @ - 1 ELSE @]

(* Rib::insert of an existing route: the capture count is not adjusted. *)
updateRoute(e, route) ==
  LET i == findRoute(e, route)
  IN  [e EXCEPT !.routes[i] = route]
-----------------------------------------------------------------------------
(***************************************************************************)
(* The tree of entries.                                                    *)
(***************************************************************************)
(* findParent: the entry of the longest proper prefix. *)
findParent(rib, name) ==
  LET shorter == {p \in DOMAIN rib : IsStrictPrefix(p, name)}
  IN  IF shorter = {} THEN NoName
      ELSE CHOOSE p \in shorter : \A q \in shorter : Len(q) =< Len(p)

Children(rib, name) == {p \in DOMAIN rib : rib[p].parent = name}

(* The entries below a name that is not in the RIB, of the same parent as it. *)
ChildrenOfNewName(rib, name) ==
  {p \in DOMAIN rib : IsPrefix(name, p) /\ rib[p].parent = findParent(rib, name)}

(* first, its parent, and so on, at most one entry per component of the name. *)
Lineage(rib, first) ==
  LET a[n \in 1 .. Len(first) + 1] ==
        IF n = 1 THEN first ELSE IF a[n - 1] = NoName THEN NoName ELSE rib[a[n - 1]].parent
  IN  IF first = NoName THEN <<>> ELSE a

(* getAncestorRoutes, from the given parent upwards: the walk ends above an   *)
(* entry with capture, and the first route found for a face is the one kept.  *)
getAncestorRoutes(rib, parent) ==
  LET a == Lineage(rib, parent)
      visited == {n \in DOMAIN a :
                    a[n] # NoName /\ \A m \in 1 .. n - 1 : ~hasCapture(rib[a[m]])}
      sources(f) == {n \in visited : hasChildInheritOnFaceId(rib[a[n]], f)}
      first(S) == CHOOSE n \in S : \A m \in S : n =< m
  IN  [f \in {g \in RibFaces : sources(g) # {}} |->
         LET e == rib[a[first(sources(f))]]
         IN  e.routes[first(InheritOnFace(e, f))].cost]

(* Rib::insert. *)
RibInsert(rib, name, route) ==
  LET parent == findParent(rib, name)
      children == ChildrenOfNewName(rib, name)
      entry == [routes |-> <<route>>, inherited |-> [f \in RibFaces |-> 0],
                nCapture |-> IF route.capture THEN 1 ELSE 0, parent |-> parent]
  IN  IF name \notin DOMAIN rib
      THEN [p \in DOMAIN rib \cup {name} |->
              IF p = name THEN entry
              ELSE IF p \in children THEN [rib[p] EXCEPT !.parent = name] ELSE rib[p]]
      ELSE [rib EXCEPT ![name] =
              IF hasRoute(@, route) THEN updateRoute(@, route) ELSE insertRoute(@, route)]

(* Mutant: the children of an erased entry become roots. *)
eraseEntryOrphans(rib, name) ==
  [p \in DOMAIN rib \ {name} |->
     IF rib[p].parent = name THEN [rib[p] EXCEPT !.parent = NoName] ELSE rib[p]]

(* eraseEntry: the children go to the parent. *)
eraseEntry(rib, name) ==
  [p \in DOMAIN rib \ {name} |->
     IF rib[p].parent = name THEN [rib[p] EXCEPT !.parent = rib[name].parent] ELSE rib[p]]

(* Rib::erase. *)
RibErase(rib, name, route) ==
  IF ~ (name \in DOMAIN rib /\ hasRoute(rib[name], route)) THEN rib
  ELSE LET erased == eraseRoute(rib[name], route)
       IN  IF erased.routes = <<>> THEN eraseEntry(rib, name) ELSE [rib EXCEPT ![name] = erased]

findRoutesWithFaceId(rib, f) ==
  UNION {{<<p, rib[p].routes[i]>> : i \in OnFace(rib[p], f)} : p \in DOMAIN rib}

=============================================================================

----------------------------- MODULE FibUpdater -----------------------------
(***************************************************************************)
(* FibUpdater::computeUpdates (rib/fib-updater.cpp): which commands to     *)
(* NFD's FIB, and which changes of inherited routes, follow from one RIB   *)
(* update.  The result is                                                  *)
(*   fib       : the FibUpdate of each <<name, face>>; addFibUpdate        *)
(*               replaces an earlier one of the same name and face         *)
(*   inherited : m_inheritedRoutes, as the sequence of actions of each     *)
(*               <<name, face>>                                            *)
(*   null      : a null pointer was dereferenced                           *)
(***************************************************************************)
EXTENDS Rib

NoUpdates == [fib |-> [x \in {} |-> 0], inherited |-> [x \in {} |-> <<>>], null |-> FALSE]

AddNextHop(cost) == [action |-> "ADD_NEXTHOP", cost |-> cost]
RemoveNextHop == [action |-> "REMOVE_NEXTHOP", cost |-> 0]

addFibUpdate(u, name, f, update) == [u EXCEPT !.fib = (<<name, f>> :> update) @@ @]

(* One more action on the inherited route of every given <<name, face>>. *)
Recorded(inherited, targets, action) ==
  [x \in DOMAIN inherited \cup targets |->
     LET before == IF x \in DOMAIN inherited THEN inherited[x] ELSE <<>>
     IN  IF x \in targets THEN Append(before, action) ELSE before]

(* addInheritedRoute and addFibUpdate, for a function from <<name, face>> to costs. *)
InheritAll(u, hops) ==
  [u EXCEPT !.fib = [x \in DOMAIN hops |-> AddNextHop(hops[x])] @@ @,
            !.inherited = Recorded(@, DOMAIN hops, "REGISTER")]

(* removeInheritedRoute and addFibUpdate. *)
DisinheritAll(u, targets) ==
  [u EXCEPT !.fib = [x \in targets |-> RemoveNextHop] @@ @,
            !.inherited = Recorded(@, targets, "UNREGISTER")]

(* addInheritedRoutes: the routes whose face is not one of the entry's own. *)
addInheritedRoutes(u, name, routes, own) ==
  InheritAll(u, [x \in {name} \X (DOMAIN routes \ own) |-> routes[x[2]]])

OwnFaces(e) == {f \in RibFaces : hasFaceId(e, f)}

removeInheritedRoutes(u, name, e, routes) ==
  DisinheritAll(u, {name} \X {f \in DOMAIN routes : hasInheritedRoute(e, f)})

(***************************************************************************)
(* modifyChildrensInheritedRoutes and traverseSubTree.  An entry with      *)
(* capture hides its subtree, and an entry with a child-inherit route of a *)
(* face hides its subtree from routes of that face.                        *)
(***************************************************************************)
PathFrom(rib, children, name) ==
  LET a == Lineage(rib, name)
      tops == {n \in DOMAIN a : a[n] \in children}
  IN  {a[m] : m \in {m \in DOMAIN a : \E n \in tops : m =< n}}

(* Mutant: routes also cross an entry with capture. *)
ReachedThroughCapture(rib, children, f) ==
  {p \in DOMAIN rib :
     LET path == PathFrom(rib, children, p)
     IN  path # {} /\ \A q \in path : ~hasChildInheritOnFaceId(rib[q], f)}

ReachedBy(rib, children, f) ==
  {p \in DOMAIN rib :
     LET path == PathFrom(rib, children, p)
     IN  path # {} /\ \A q \in path : ~hasCapture(rib[q]) /\ ~hasChildInheritOnFaceId(rib[q], f)}

modifyChildrensInheritedRoutes(u, rib, children, routesToAdd, routesToRemove) ==
  LET removed == {x \in (DOMAIN rib) \X (DOMAIN routesToRemove) :
                    x[1] \in ReachedBy(rib, children, x[2]) /\ hasInheritedRoute(rib[x[1]], x[2])}
      added == {x \in (DOMAIN rib) \X (DOMAIN routesToAdd) :
                  x[1] \in ReachedBy(rib, children, x[2]) /\ ~hasFaceId(rib[x[1]], x[2])}
  IN  InheritAll(DisinheritAll(u, removed), [x \in added |-> routesToAdd[x[2]]])
-----------------------------------------------------------------------------
(***************************************************************************)
(* The cases of a registration.                                            *)
(***************************************************************************)
createFibUpdatesForNewRibEntry(rib, name, route) ==
  LET u == addFibUpdate(NoUpdates, name, route.face, AddNextHop(route.cost))
      ancestors == getAncestorRoutes(rib, findParent(rib, name))
      children == ChildrenOfNewName(rib, name)
      self == IF route.capture THEN u ELSE addInheritedRoutes(u, name, ancestors, {route.face})
      toAdd == IF ~route.childInherit THEN NoRoutes
               ELSE IF route.capture THEN OneRoute(route) ELSE OneRoute(route) @@ ancestors
      toRemove == IF route.capture THEN ancestors ELSE NoRoutes
  IN  modifyChildrensInheritedRoutes(self, rib, children, toAdd, toRemove)

(* e is the entry without, or with, the route. *)
createFibUpdatesForNewRoute(u, rib, name, e, route, captureWasTurnedOn) ==
  LET f == route.face
      toAdd == IF route.childInherit /\
                    (hasChildInheritOnFaceId(e, f) =>
                       route.cost =< getRouteWithLowestCostAndChildInheritByFaceId(e, f).cost)
               THEN OneRoute(route) ELSE NoRoutes
      toRemove == IF captureWasTurnedOn THEN getAncestorRoutes(rib, e.parent) ELSE NoRoutes
      children == modifyChildrensInheritedRoutes(
                    removeInheritedRoutes(u, name, e, toRemove), rib, Children(rib, name), toAdd, toRemove)
  IN  IF hasFaceId(e, f) => route.cost =< getRouteWithLowestCostByFaceId(e, f).cost
      THEN addFibUpdate(children, name, f, AddNextHop(route.cost)) ELSE children

(* The update of the entry itself when the cost of a route changed. *)
UpdatedCost(name, e, route, existing) ==
  LET f == route.face
      lowest == getRouteWithLowestCostByFaceId(e, f)
  IN  IF route.cost =< lowest.cost
      THEN addFibUpdate(NoUpdates, name, f, AddNextHop(route.cost))
      ELSE IF existing.cost >= lowest.cost THEN NoUpdates
      ELSE IF ~hasChildInheritOnFaceId(e, f) THEN [NoUpdates EXCEPT !.null = TRUE]
      ELSE addFibUpdate(NoUpdates, name, f,
             AddNextHop(getRouteWithLowestCostAndChildInheritByFaceId(e, f).cost))

(* e is the entry after the update, existing the route before it. *)
createFibUpdatesForUpdatedRoute(rib, name, e, route, existing) ==
  LET f == route.face
      children == Children(rib, name)
      ancestors == getAncestorRoutes(rib, e.parent)
      sameFlags == route.childInherit = existing.childInherit /\ route.capture = existing.capture
      hasPrev == hasChildInheritOnFaceId(e, f)
      prev == getRouteWithLowestCostAndChildInheritByFaceId(e, f)
      u == IF route.cost # existing.cost THEN UpdatedCost(name, e, route, existing) ELSE NoUpdates
      overrides == hasPrev => route.cost =< prev.cost
      inheritOff == IF hasPrev THEN OneRoute(prev)
                    ELSE [g \in DOMAIN ancestors \cap {f} |-> ancestors[g]]
      v == IF ~existing.childInherit /\ route.childInherit /\ overrides
           THEN modifyChildrensInheritedRoutes(u, rib, children, OneRoute(route), NoRoutes)
           ELSE IF existing.childInherit /\ ~route.childInherit
           THEN modifyChildrensInheritedRoutes(u, rib, children, inheritOff, OneRoute(route))
           ELSE u
  IN  IF sameFlags
      THEN IF route.cost # existing.cost /\ overrides /\ route.childInherit
           THEN modifyChildrensInheritedRoutes(u, rib, children, OneRoute(route), NoRoutes) ELSE u
      ELSE IF ~existing.capture /\ route.capture
      THEN modifyChildrensInheritedRoutes(
             removeInheritedRoutes(v, name, e, ancestors), rib, children, NoRoutes, ancestors)
      ELSE IF existing.capture /\ ~route.capture
      THEN modifyChildrensInheritedRoutes(
             addInheritedRoutes(v, name, ancestors, OwnFaces(e)), rib, children, ancestors, NoRoutes)
      ELSE v

computeUpdatesForRegistration(rib, name, route) ==
  IF name \notin DOMAIN rib THEN createFibUpdatesForNewRibEntry(rib, name, route)
  ELSE LET e == rib[name]
       IN  IF hasRoute(e, route)
           THEN createFibUpdatesForUpdatedRoute(
                  rib, name, updateRoute(e, route), route, e.routes[findRoute(e, route)])
           ELSE createFibUpdatesForNewRoute(
                  NoUpdates, rib, name, e, route, ~hasCapture(e) /\ route.capture)
-----------------------------------------------------------------------------
(***************************************************************************)
(* The cases of an unregistration.  e is the entry without the route.      *)
(***************************************************************************)
createFibUpdatesForErasedRoute(rib, name, e, route, captureWasTurnedOff) ==
  LET f == route.face
      ancestors == getAncestorRoutes(rib, e.parent)
      u == addFibUpdate(NoUpdates, name, f, RemoveNextHop)
      self == IF route.capture /\ captureWasTurnedOff
              THEN addInheritedRoutes(u, name, ancestors, OwnFaces(e)) ELSE u
      toAdd == IF IF route.capture THEN captureWasTurnedOff ELSE route.childInherit /\ ~hasCapture(e)
               THEN ancestors ELSE NoRoutes
      toRemove == IF route.childInherit THEN OneRoute(route) ELSE NoRoutes
      below == modifyChildrensInheritedRoutes(self, rib, Children(rib, name), toAdd, toRemove)
  IN  IF ~hasCapture(e) /\ e.routes # <<>> /\ f \in DOMAIN ancestors
      THEN InheritAll(below, <<name, f>> :> ancestors[f]) ELSE below

createFibUpdatesForErasedRibEntry(u, name, e) ==
  [u EXCEPT !.fib = [x \in {name} \X {f \in RibFaces : hasInheritedRoute(e, f)} |-> RemoveNextHop] @@ @]

(* A set: getRouteWithSecondLowestCostByFaceId returns a pointer into a vector *)
(* that is destroyed.  What it points to is either still one of the routes it  *)
(* may choose, or names no face, and then the update it gives has no effect.   *)
computeUpdatesForUnregistration(rib, name, route) ==
  IF ~ (name \in DOMAIN rib /\ hasRoute(rib[name], route)) THEN {NoUpdates}
  ELSE LET e == rib[name]
           temp == eraseRoute(e, route)
           existing == e.routes[findRoute(e, route)]
           u == createFibUpdatesForErasedRoute(
                  rib, name, temp, existing, hasCapture(e) /\ ~hasCapture(temp))
           seconds == getRouteWithSecondLowestCostByFaceId(e, route.face)
           updates == IF seconds = {} THEN {u}
                      ELSE {u} \cup {createFibUpdatesForNewRoute(u, rib, name, temp, next, FALSE) : next \in seconds}
       IN  IF Len(e.routes) = 1 THEN {createFibUpdatesForErasedRibEntry(v, name, e) : v \in updates}
           ELSE updates

(* computeUpdates: REMOVE_FACE drops the updates of the destroyed face. *)
computeUpdates(rib, update) ==
  CASE update.action = "REGISTER" ->
         {computeUpdatesForRegistration(rib, update.name, update.route)}
    [] update.action = "UNREGISTER" ->
         computeUpdatesForUnregistration(rib, update.name, update.route)
    [] update.action = "REMOVE_FACE" ->
         {[u EXCEPT !.fib = [x \in {y \in DOMAIN u.fib : y[2] # update.route.face} |-> u.fib[x]]] :
            u \in computeUpdatesForUnregistration(rib, update.name, update.route)}
-----------------------------------------------------------------------------
(***************************************************************************)
(* Rib::modifyInheritedRoutes.                                             *)
(***************************************************************************)
Balance(actions) ==
  LET b[n \in 0 .. Len(actions)] ==
        IF n = 0 THEN 0 ELSE b[n - 1] + (IF actions[n] = "REGISTER" THEN 1 ELSE -1)
  IN  b

(* BOOST_ASSERT(ribIt != m_rib.end()), and an erase of end() otherwise. *)
CanModifyInherited(rib, inherited) ==
  \A x \in DOMAIN inherited :
    /\ x[1] \in DOMAIN rib
    /\ \A n \in DOMAIN Balance(inherited[x]) :
         rib[x[1]].inherited[x[2]] + Balance(inherited[x])[n] >= 0

modifyInheritedRoutes(rib, inherited) ==
  [p \in DOMAIN rib |-> [rib[p] EXCEPT !.inherited =
     [f \in RibFaces |-> IF <<p, f>> \in DOMAIN inherited
                         THEN @[f] + Balance(inherited[<<p, f>>])[Len(inherited[<<p, f>>])]
                         ELSE @[f]]]]

=============================================================================

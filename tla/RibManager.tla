----------------------------- MODULE RibManager -----------------------------
(***************************************************************************)
(* The RIB daemon (rib/rib-manager.cpp, rib.cpp, fib-updater.cpp) and the  *)
(* part of NFD it talks to: the FIB and the face table, which it reaches   *)
(* by commands that may time out, by face notifications that may be lost   *)
(* and by a dataset of active faces that may be out of date.               *)
(*                                                                         *)
(* The daemon is a single-threaded event loop.  A handler that ends in     *)
(* Rib::sendBatchFromQueue goes on with SendBatch: no other action of the  *)
(* daemon, or of its environment, happens before that (Waiting).           *)
(***************************************************************************)
EXTENDS FibUpdater, Fib, FiniteSets

CONSTANTS
  Requests,          \* commands that may arrive: [verb, name, route, expires]
  LateRibFaces,      \* faces created after start-up
  MortalRibFaces,    \* bound: the faces that may be destroyed
  MAX_NUM_TIMEOUTS,
  MaxRequests,       \* bound: number of commands
  MaxQueued,         \* bound: length of the queue at which commands stop arriving
  MaxTimeouts,       \* bound: number of commands to NFD that time out
  MaxLostNotices,    \* bound: number of face notifications that are lost
  NoDataset          \* no face dataset is being fetched

VARIABLES
  rib,            \* m_rib
  queue,          \* m_updateBatches: RIB updates [id, action, name, route]
  inProgress,     \* m_isUpdateInProgress
  batchFace,      \* m_batchFaceId
  batchUpdates,   \* m_updatesForBatchFaceId: FIB updates [name, face, action, cost]
  otherUpdates,   \* m_updatesForNonBatchFaceId
  inherited,      \* m_inheritedRoutes
  commands,       \* commands to NFD without an answer yet
  events,         \* scheduled expirations [id, name, route]
  registered,     \* m_registeredFaces
  notices,        \* faces for which onFaceDestroyedEvent is scheduled
  dataset,        \* active faces, as of the fetch in flight
  faceState,      \* NFD: "new", "up" or "down"
  fib,            \* NFD: the FIB
  fault,          \* assertion, null pointer or exception that ended the daemon
  issued, timeouts, lostNotices

daemonVars == <<rib, queue, inProgress, batchFace, batchUpdates, otherUpdates, inherited,
                events, registered, notices, fault>>
nfdVars == <<faceState, fib>>
ribVars == <<daemonVars, commands, dataset, nfdVars, issued, timeouts, lostNotices>>

ASSUME RibManagerAssumption ==
  /\ MAX_NUM_TIMEOUTS \in Nat /\ MaxRequests \in Nat /\ MaxQueued \in Nat
  /\ LateRibFaces \subseteq RibFaces /\ MortalRibFaces \subseteq RibFaces
  /\ MaxTimeouts \in Nat /\ MaxLostNotices \in Nat
  /\ NoName \notin Seq(STRING) /\ NoEvent \notin Nat
  /\ \A q \in Requests :
       /\ q.name \in Seq(STRING) /\ q.expires \in BOOLEAN
       /\ q.route \in [face : RibFaces, origin : Nat, cost : Nat, childInherit : BOOLEAN,
                        capture : BOOLEAN, event : {NoEvent}]

UpFaces == {f \in RibFaces : faceState[f] = "up"}

Waiting == fault = "none" /\ (inProgress \/ queue = <<>>)

-----------------------------------------------------------------------------
(***************************************************************************)
(* RibManager: requests and expirations.                                   *)
(***************************************************************************)
addUpdateToQueue(id, action, name, route) ==
  queue' = Append(queue, [id |-> id, action |-> action, name |-> name, route |-> route])

(* A command names a face that exists or has existed. *)
Arrives(q) ==
  /\ Waiting /\ faceState[q.route.face] # "new"
  /\ (inProgress => Len(queue) < MaxQueued)
  /\ issued < MaxRequests /\ issued' = issued + 1

registerEntry(q) ==
  LET route == [q.route EXCEPT !.event = IF q.expires THEN issued + 1 ELSE NoEvent]
  IN  /\ Arrives(q) /\ q.verb = "register"
      /\ events' = events \cup
           (IF q.expires THEN {[id |-> issued + 1, name |-> q.name, route |-> route]} ELSE {})
      /\ addUpdateToQueue(issued + 1, "REGISTER", q.name, route)
      /\ registered' = registered \cup {q.route.face}
      /\ UNCHANGED <<rib, inProgress, batchFace, batchUpdates, otherUpdates, inherited, notices,
                     fault, commands, dataset, nfdVars, timeouts, lostNotices>>

unregisterEntry(q) ==
  /\ Arrives(q) /\ q.verb = "unregister"
  /\ addUpdateToQueue(issued + 1, "UNREGISTER", q.name, q.route)
  /\ UNCHANGED <<rib, inProgress, batchFace, batchUpdates, otherUpdates, inherited, events,
                 registered, notices, fault, commands, dataset, nfdVars, timeouts, lostNotices>>

(* Rib::onRouteExpiration: the update names the route of the event. *)
onRouteExpiration(x) ==
  /\ Waiting
  /\ events' = events \ {x}
  /\ addUpdateToQueue(0 - x.id, "UNREGISTER", x.name, x.route)
  /\ UNCHANGED <<rib, inProgress, batchFace, batchUpdates, otherUpdates, inherited, registered,
                 notices, fault, commands, dataset, nfdVars, issued, timeouts, lostNotices>>
-----------------------------------------------------------------------------
(***************************************************************************)
(* Rib::sendBatchFromQueue and the end of a batch.                         *)
(***************************************************************************)
FibUpdates(u) ==
  {[name |-> x[1], face |-> x[2], action |-> u.fib[x].action, cost |-> u.fib[x].cost] : x \in DOMAIN u.fib}

(* sendUpdates: the callbacks remember the batch they are sent for. *)
sendUpdates(updates, batch) ==
  {[batch |-> batch, update |-> u, sent |-> u.action, nTimeouts |-> 0, answer |-> "none"] : u \in updates}

(* The route of the RIB that the update is about, if there is one. *)
Existing(update) ==
  IF update.name \in DOMAIN rib /\ hasRoute(rib[update.name], update.route)
  THEN {rib[update.name].routes[findRoute(rib[update.name], update.route)]} ELSE {}

(* Mutant: the expiration of the new route is cancelled. *)
CancelledNew(update) == {x \in events : x.id # update.route.event}

(* Rib::insert and Rib::erase cancel the expiration of the route they replace. *)
Cancelled(update) == {x \in events : \A r \in Existing(update) : x.id # r.event}

RibAfter(update) ==
  IF update.action = "REGISTER" THEN RibInsert(rib, update.name, update.route)
  ELSE RibErase(rib, update.name, update.route)

(* Rib::onFibUpdateSuccess, called with the inherited routes of the last batch *)
(* that was computed.                                                          *)
onFibUpdateSuccess(update, inheritedRoutes) ==
  /\ events' = Cancelled(update)
  /\ inProgress' = FALSE
  /\ IF CanModifyInherited(RibAfter(update), inheritedRoutes)
     THEN /\ rib' = modifyInheritedRoutes(RibAfter(update), inheritedRoutes)
          /\ fault' = fault
     ELSE rib' = RibAfter(update) /\ fault' = "assert"

(* A batch without FIB updates succeeds at once.  Erasing the route from a     *)
(* copy of the entry already cancels its expiration.                           *)
SendBatch ==
  /\ fault = "none" /\ ~inProgress /\ queue # <<>>
  /\ LET update == Head(queue)
     IN  \E u \in computeUpdates(rib, update) :
           LET mine == {x \in FibUpdates(u) : x.face = update.route.face}
               others == FibUpdates(u) \ mine
           IN  /\ queue' = Tail(queue)
               /\ batchFace' = update.route.face
               /\ batchUpdates' = mine /\ otherUpdates' = others
               /\ inherited' = u.inherited
               /\ IF u.null
                  THEN fault' = "null" /\ UNCHANGED <<rib, inProgress, events, commands>>
                  ELSE IF FibUpdates(u) = {}
                  THEN onFibUpdateSuccess(update, u.inherited) /\ UNCHANGED commands
                  ELSE /\ inProgress' = TRUE
                       /\ commands' = commands \cup
                            sendUpdates(IF mine # {} THEN mine ELSE others, update)
                       /\ events' = IF update.action = "REGISTER" THEN events ELSE Cancelled(update)
                       /\ UNCHANGED <<rib, fault>>
  /\ UNCHANGED <<registered, notices, dataset, nfdVars, issued, timeouts, lostNotices>>
-----------------------------------------------------------------------------
(***************************************************************************)
(* FibUpdater: answers of NFD.                                             *)
(***************************************************************************)
(* sendUpdatesForNonBatchFaceId, or the end of the batch of c. *)
AfterBatchFace(c, left, others) ==
  IF left = {} /\ others # {}
  THEN /\ commands' = (commands \ {c}) \cup sendUpdates(others, c.batch)
       /\ UNCHANGED <<rib, events, inProgress, fault>>
  ELSE /\ commands' = commands \ {c}
       /\ IF left = {} THEN onFibUpdateSuccess(c.batch, inherited)
          ELSE UNCHANGED <<rib, events, inProgress, fault>>

AfterOtherFace(c, left) ==
  /\ commands' = commands \ {c}
  /\ otherUpdates' = left
  /\ IF left = {} THEN onFibUpdateSuccess(c.batch, inherited)
     ELSE UNCHANGED <<rib, events, inProgress, fault>>

onUpdateSuccess(c) ==
  /\ Waiting /\ c.answer = "200"
  /\ IF c.update.face = batchFace
     THEN /\ batchUpdates' = batchUpdates \ {c.update}
          /\ AfterBatchFace(c, batchUpdates \ {c.update}, otherUpdates)
          /\ UNCHANGED otherUpdates
     ELSE AfterOtherFace(c, otherUpdates \ {c.update}) /\ UNCHANGED batchUpdates
  /\ UNCHANGED <<queue, batchFace, inherited, registered, notices, dataset, nfdVars, issued,
                 timeouts, lostNotices>>

(* Mutant: a failed batch is not reported. *)
onUpdateErrorUnreported(c) ==
  /\ Waiting /\ c.answer = "410"
  /\ IF c.update.face = batchFace
     THEN /\ commands' = commands \ {c}
          /\ UNCHANGED <<rib, events, fault, inProgress, otherUpdates>>
     ELSE AfterOtherFace(c, otherUpdates \ {c.update})
  /\ UNCHANGED <<queue, batchFace, batchUpdates, inherited, registered, notices, dataset, nfdVars,
                 issued, timeouts, lostNotices>>

(* ERROR_FACE_NOT_FOUND: on the face of the batch, the batch fails. *)
onUpdateError(c) ==
  /\ Waiting /\ c.answer = "410"
  /\ IF c.update.face = batchFace
     THEN /\ commands' = commands \ {c}
          /\ inProgress' = FALSE
          /\ UNCHANGED <<rib, events, fault, otherUpdates>>
     ELSE AfterOtherFace(c, otherUpdates \ {c.update})
  /\ UNCHANGED <<queue, batchFace, batchUpdates, inherited, registered, notices, dataset, nfdVars,
                 issued, timeouts, lostNotices>>

(* ERROR_TIMEOUT: every update is retried as an addition. *)
Retried(c) == [c EXCEPT !.sent = "ADD_NEXTHOP", !.nTimeouts = @ + 1, !.answer = "none"]

(* The command or its answer was lost. *)
onUpdateTimeout(c) ==
  /\ Waiting
  /\ timeouts < MaxTimeouts /\ timeouts' = timeouts + 1
  /\ IF c.nTimeouts < MAX_NUM_TIMEOUTS
     THEN commands' = (commands \ {c}) \cup {Retried(c)} /\ fault' = fault
     ELSE commands' = commands \ {c} /\ fault' = "exception"
  /\ UNCHANGED <<rib, queue, inProgress, batchFace, batchUpdates, otherUpdates, inherited, events,
                 registered, notices, dataset, nfdVars, issued, lostNotices>>
-----------------------------------------------------------------------------
(***************************************************************************)
(* RibManager: destroyed faces.                                            *)
(***************************************************************************)
(* beginRemoveFace; the routes are queued in some order. *)
onFaceDestroyedEvent(f) ==
  /\ Waiting /\ f \in notices
  /\ notices' = notices \ {f}
  /\ registered' = registered \ {f}
  /\ \E routes \in SetToSeqs(findRoutesWithFaceId(rib, f)) :
       queue' = queue \o [i \in DOMAIN routes |->
         [id |-> 0, action |-> "REMOVE_FACE", name |-> routes[i][1], route |-> routes[i][2]]]
  /\ UNCHANGED <<rib, inProgress, batchFace, batchUpdates, otherUpdates, inherited, events, fault,
                 commands, dataset, nfdVars, issued, timeouts, lostNotices>>

(* Mutant: faces that are active but not registered are looked for. *)
removeUnregisteredFaces ==
  /\ Waiting /\ dataset # NoDataset
  /\ notices' = notices \cup (dataset \ registered)
  /\ dataset' = NoDataset
  /\ UNCHANGED <<rib, queue, inProgress, batchFace, batchUpdates, otherUpdates, inherited, events,
                 registered, fault, commands, nfdVars, issued, timeouts, lostNotices>>

(* The face dataset arrives, as it was when NFD made it. *)
removeInvalidFaces ==
  /\ Waiting /\ dataset # NoDataset
  /\ notices' = notices \cup (registered \ dataset)
  /\ dataset' = NoDataset
  /\ UNCHANGED <<rib, queue, inProgress, batchFace, batchUpdates, otherUpdates, inherited, events,
                 registered, fault, commands, nfdVars, issued, timeouts, lostNotices>>

onFetchFaceStatusTimeout ==
  /\ Waiting /\ dataset # NoDataset
  /\ timeouts < MaxTimeouts /\ timeouts' = timeouts + 1
  /\ dataset' = NoDataset
  /\ UNCHANGED <<daemonVars, commands, nfdVars, issued, lostNotices>>

(* fetchActiveFaces, scheduled again after every dataset and timeout. *)
fetchActiveFaces ==
  /\ Waiting /\ dataset = NoDataset
  /\ dataset' = UpFaces
  /\ UNCHANGED <<daemonVars, commands, nfdVars, issued, timeouts, lostNotices>>
-----------------------------------------------------------------------------
(***************************************************************************)
(* NFD: the FIB manager, and the face table with its notifications.        *)
(***************************************************************************)
NfdExecutes(c) ==
  LET u == c.update
      ok == c.sent = "REMOVE_NEXTHOP" \/ u.face \in UpFaces
  IN  /\ Waiting /\ c.answer = "none"
      /\ commands' = (commands \ {c}) \cup {[c EXCEPT !.answer = IF ok THEN "200" ELSE "410"]}
      /\ fib' = IF c.sent = "REMOVE_NEXTHOP" THEN removeNextHopFromEntries(fib, {u.name}, u.face)
                ELSE IF ok THEN addNextHop(fib, u.name, u.face, u.cost) ELSE fib
      /\ UNCHANGED <<daemonVars, dataset, faceState, issued, timeouts, lostNotices>>

FaceCreated(f) ==
  /\ Waiting /\ faceState[f] = "new"
  /\ faceState' = [faceState EXCEPT ![f] = "up"]
  /\ UNCHANGED <<daemonVars, commands, dataset, fib, issued, timeouts, lostNotices>>

FaceDestroyed(f) ==
  /\ Waiting /\ f \in MortalRibFaces /\ faceState[f] = "up"
  /\ faceState' = [faceState EXCEPT ![f] = "down"]
  /\ fib' = removeNextHopFromAllEntries(fib, f)
  /\ \/ notices' = notices \cup {f} /\ lostNotices' = lostNotices
     \/ lostNotices < MaxLostNotices /\ lostNotices' = lostNotices + 1 /\ notices' = notices
  /\ UNCHANGED <<rib, queue, inProgress, batchFace, batchUpdates, otherUpdates, inherited, events,
                 registered, fault, commands, dataset, issued, timeouts>>
-----------------------------------------------------------------------------
RibInit ==
  /\ rib = [p \in {} |-> 0] /\ queue = <<>> /\ inProgress = FALSE
  /\ batchFace = NoEvent /\ batchUpdates = {} /\ otherUpdates = {}
  /\ inherited = [x \in {} |-> <<>>]
  /\ commands = {} /\ events = {} /\ registered = {} /\ notices = {} /\ dataset = NoDataset
  /\ faceState = [f \in RibFaces |-> IF f \in LateRibFaces THEN "new" ELSE "up"]
  /\ fib = [p \in {} |-> NoNextHops]
  /\ fault = "none" /\ issued = 0 /\ timeouts = 0 /\ lostNotices = 0

Answered(c) == onUpdateSuccess(c) \/ onUpdateError(c)

RibNext ==
  \/ \E q \in Requests : registerEntry(q) \/ unregisterEntry(q)
  \/ \E x \in events : onRouteExpiration(x)
  \/ SendBatch
  \/ \E c \in commands : NfdExecutes(c) \/ Answered(c) \/ onUpdateTimeout(c)
  \/ \E f \in RibFaces : onFaceDestroyedEvent(f) \/ FaceCreated(f) \/ FaceDestroyed(f)
  \/ fetchActiveFaces \/ removeInvalidFaces \/ onFetchFaceStatusTimeout

(* The event loop runs what is due, and NFD answers what it is asked. *)
RibFairness ==
  /\ WF_ribVars(SendBatch)
  /\ WF_ribVars(\E c \in commands : NfdExecutes(c) \/ Answered(c))
  /\ \A f \in RibFaces : WF_ribVars(onFaceDestroyedEvent(f))
  /\ WF_ribVars(fetchActiveFaces) /\ WF_ribVars(removeInvalidFaces)

RibSpec == RibInit /\ [][RibNext]_ribVars
FairRibSpec == RibSpec /\ RibFairness
-----------------------------------------------------------------------------
Idle == Waiting /\ ~inProgress /\ commands = {} /\ notices = {}

(* What the routes of the RIB say the FIB should hold: for a prefix its own     *)
(* faces at their least cost, and the faces it inherits from the nearest        *)
(* ancestor with a child-inherit route, unless a capture route is in between.   *)
LeastCost(routes) == CHOOSE n \in {r.cost : r \in routes} : \A r \in routes : n =< r.cost

RoutesOn(p, f) == {r \in ToSet(rib[p].routes) : r.face = f}
Captures(p) == \E r \in ToSet(rib[p].routes) : r.capture

Donors(p, f) ==
  {q \in DOMAIN rib :
     /\ IsStrictPrefix(q, p) /\ \E r \in RoutesOn(q, f) : r.childInherit
     /\ ~ \E x \in DOMAIN rib : IsStrictPrefix(q, x) /\ IsPrefix(x, p) /\ Captures(x)}

ExpectedHops(p) ==
  LET own == {f \in UpFaces : RoutesOn(p, f) # {}}
      inheriting == {f \in UpFaces \ own : Donors(p, f) # {}}
      donor(f) == CHOOSE q \in Donors(p, f) : \A x \in Donors(p, f) : Len(x) =< Len(q)
  IN  [f \in own \cup inheriting |->
         IF f \in own THEN LeastCost(RoutesOn(p, f))
         ELSE LeastCost({r \in RoutesOn(donor(f), f) : r.childInherit})]

ExpectedFib ==
  [p \in {q \in DOMAIN rib : DOMAIN ExpectedHops(q) # {}} |-> ExpectedHops(p)]

(* Whenever the daemon is idle and every face of the RIB is up or forgotten,    *)
(* the FIB it built by increments is the one the RIB implies.                   *)
FibMatchesRib ==
  Idle /\ (\A p \in DOMAIN rib : \A r \in ToSet(rib[p].routes) : r.face \in UpFaces)
    => fib = ExpectedFib

(* The tree built by insertions and erasures is the prefix tree of the RIB.     *)
TreeIsPrefixTree == \A p \in DOMAIN rib : rib[p].parent = findParent(rib, p)

Erases(update, name, route) ==
  /\ update.action # "REGISTER" /\ update.name = name
  /\ compareFaceIdAndOrigin(update.route, route)

(* What sendBatchFromQueue relies on (fib-updater.hpp:65, "the previous batch   *)
(* has either succeeded or failed"): when no batch is in progress, no answer to *)
(* a command of an earlier one is still to come, except for a destroyed face.   *)
BatchEnded ==
  fault = "none" /\ ~ inProgress => \A c \in commands : c.batch.route.face \notin UpFaces

Covered ==
  fault = "none" => \A p \in DOMAIN rib : \A r \in ToSet(rib[p].routes) :
    r.face \notin UpFaces \/ r.event = NoEvent \/ (\E x \in events : x.id = r.event)
      \/ (\E u \in ToSet(queue) \cup {c.batch : c \in commands} : Erases(u, p, r))

(* A route that expires is erased at its time: while it is in the RIB and its   *)
(* face exists, its event is scheduled (registerEntry, Rib::insert), or an      *)
(* update that erases it is queued or under way (Rib::onRouteExpiration,        *)
(* RibEntry::eraseRoute).  It takes that batches end before others start: a     *)
(* batch that failed on its first command leaves others behind, whose answers   *)
(* may end the batch of another face early (FibUpdater::onUpdateError).         *)
ExpiryCovered == []BatchEnded => []Covered

(* Every queued update is taken from the queue: a batch always ends, in success *)
(* or in failure (Rib::sendBatchFromQueue, onFibUpdateSuccess and -Failure).    *)
QueueDrains == queue # <<>> ~> (queue = <<>> \/ fault # "none")

(* A registered face that was destroyed is found out, also when its             *)
(* notification is lost (fetchActiveFaces, removeInvalidFaces).                 *)
LostNoticeRecovered ==
  \A f \in RibFaces :
    f \in registered /\ faceState[f] = "down" ~> (f \notin registered \/ fault # "none")

(* Documented (fib-updater.hpp:160): an update that timed out is retried, so    *)
(* that the FIB has no next hop without a route.                                *)
NoStrayNextHop ==
  Idle => \A p \in DOMAIN fib : \A f \in DOMAIN fib[p] :
            p \in DOMAIN rib /\ (RoutesOn(p, f) # {} \/ Donors(p, f) # {})

=============================================================================

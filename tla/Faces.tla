-------------------------------- MODULE Faces --------------------------------
(***************************************************************************)
(* The life of faces: the face table (daemon/fw/face-table.cpp), the face  *)
(* manager (daemon/mgmt/face-manager.cpp), the factories and the channels  *)
(* of TCP, UDP, WebSocket and Unix sockets (daemon/face/).  A face object  *)
(* is its place in the order of creation; nothing but its life is          *)
(* modelled here, StreamFace has the transfer of packets.                  *)
(*                                                                         *)
(* Of Boost.Asio: closing a socket aborts an operation that has not        *)
(* completed, and does not recall the handler of one that has.             *)
(*                                                                         *)
(* In this repository the section face_system of the configuration is not  *)
(* supported, so that nfd itself has no factories; Factories are those     *)
(* that a FaceManager is given.                                            *)
(***************************************************************************)
EXTENDS Integers, SequencesExt, FiniteSetsExt

CONSTANTS Remotes,      \* endpoints
          Wildcard, Own,     \* the wildcard, and the endpoints of the network interfaces
          Locals,       \* local endpoints of the channels
          Factories,    \* schemes of m_factories
          Schemes,      \* schemes that are asked for
          Listeners,    \* schemes whose channels are told to listen: the choices
          IdleTimeout,  \* of the UDP channels; zero if there is none
          MaxFaces, MaxRequests

ASSUME FacesAssumption ==
  /\ Own \subseteq Remotes /\ Wildcard \notin Remotes /\ MaxFaces \in Nat /\ MaxRequests \in Nat
  /\ IdleTimeout \in Nat
  /\ Factories \subseteq {"tcp", "udp", "ws", "unix"}

VARIABLES
  faces,      \* face objects
  channels,   \* m_channelFaces of the channels: <<scheme, endpoint or connection>> |-> face
  table,      \* m_faces of FaceTable: FaceId |-> face
  lastId,     \* m_lastFaceId, counted from FACEID_RESERVED_MAX
  notices,    \* FaceId |-> the last notification about it
  listening,  \* schemes whose channel waits for a peer
  connects,   \* async_connects whose handler has not run: [request, remote, result,
              \* open]; the timeout is scheduled until it closes the socket
  answers,    \* of the create commands: a sequence of codes for each
  ended       \* an exception has left a handler, and with it the io_service

faceVars == <<faces, channels, table, lastId, notices, listening, connects, answers, ended>>

FacesInit ==
  /\ faces = <<>> /\ lastId = 0 /\ connects = {} /\ answers = <<>>
  /\ channels = [k \in {} |-> 0] /\ table = [k \in {} |-> 0] /\ notices = [k \in {} |-> 0]
  /\ listening \in Listeners /\ ended = FALSE

(* createChannel of the factories: a channel is not connected to, nor is any  *)
(* address that the wildcard stands for.                                      *)
prohibitEndpoint(endpoint) == {endpoint} \cup (IF endpoint = Wildcard THEN Own ELSE {})

Prohibited == UNION {prohibitEndpoint(e) : e \in Locals}

-----------------------------------------------------------------------------
(* The face table with the objects it is about, as one value. *)
World == [faces |-> faces, channels |-> channels, table |-> table, lastId |-> lastId, notices |-> notices]

Becomes(w) ==
  /\ faces' = w.faces /\ channels' = w.channels /\ table' = w.table
  /\ lastId' = w.lastId /\ notices' = w.notices

With(f, x, v) == [y \in DOMAIN f \cup {x} |-> IF y = x THEN v ELSE f[y]]
Without(f, x) == [y \in DOMAIN f \ {x} |-> f[y]]

INVALID_FACEID == -1

(* The constructors.  Whether a UDP face starts as recently used is not       *)
(* initialized; its idle timer runs if it is on-demand and there is a timeout. *)
NewFace(scheme, remote, persistency, used) ==
  [scheme |-> scheme, remote |-> remote, persistency |-> persistency, up |-> TRUE,
   id |-> INVALID_FACEID, used |-> used,
   idle |-> scheme = "udp" /\ persistency = "on-demand" /\ IdleTimeout > 0,
   ping |-> FALSE, erred |-> FALSE, destroyed |-> FALSE]

(* FaceTable::add and FaceManager::onAddFace; a face that is there is left alone. *)
addToTable(w, i) ==
  IF w.faces[i].id # INVALID_FACEID /\ w.faces[i].id \in DOMAIN w.table THEN w
  ELSE LET id == w.lastId + 1
       IN  [w EXCEPT !.lastId = id, !.faces[i].id = id, !.table = With(@, id, i),
                     !.notices = With(@, id, "created")]

(* FaceTable::remove and FaceManager::onRemoveFace. *)
removeFromTable(w, i) ==
  LET id == w.faces[i].id
  IN  [w EXCEPT !.notices = With(@, id, "destroyed"), !.table = Without(@, id),
                !.faces[i].id = INVALID_FACEID]

(* Face::fail, once: the channel erases the face, then the face table does.  *)
(* WebSocketChannel erases its connections by itself.                        *)
fail(w, i) ==
  IF ~ w.faces[i].up THEN w
  ELSE LET f == w.faces[i]
           x == [w EXCEPT !.faces[i].up = FALSE, !.faces[i].ping = FALSE,
                          !.channels = IF f.scheme \in {"tcp", "udp"} THEN Without(@, <<f.scheme, f.remote>>) ELSE @]
       IN  IF f.id \in DOMAIN w.table THEN removeFromTable(x, i) ELSE x

-----------------------------------------------------------------------------
(* createFace of the channels: the object for an endpoint, new or not, as     *)
(* <<world, face>>.                                                           *)
Created(w, face) ==
  LET i == Len(w.faces) + 1
  IN  <<[w EXCEPT !.faces = Append(@, face), !.channels = With(@, <<face.scheme, face.remote>>, i)], i>>

(* Mutant: a connection to an endpoint that has a face makes another one. *)
tcpCreateAgain(w, remote, persistency) == Created(w, NewFace("tcp", remote, persistency, FALSE))

tcpCreateFace(w, remote, persistency) ==
  IF <<"tcp", remote>> \in DOMAIN w.channels THEN <<w, w.channels[<<"tcp", remote>>]>>
  ELSE Created(w, NewFace("tcp", remote, persistency, FALSE))

(* Only the transitions on-demand -> persistent -> permanent are allowed. *)
Upgraded(old, new) ==
  IF old # new /\ (old = "on-demand" \/ new = "permanent") THEN new ELSE old

udpCreateFace(w, remote, persistency, used) ==
  IF <<"udp", remote>> \in DOMAIN w.channels
  THEN LET i == w.channels[<<"udp", remote>>]
       IN  <<[w EXCEPT !.faces[i].persistency = Upgraded(@, persistency)], i>>
  ELSE Created(w, NewFace("udp", remote, persistency, used))

Room(scheme, remote) == <<scheme, remote>> \in DOMAIN channels \/ Len(faces) < MaxFaces

Answered(r, code) == answers' = [answers EXCEPT ![r] = Append(@, code)]

(* FaceManager::onCreated and onConnectFailed. *)
onCreated(result, r) == Becomes(addToTable(result[1], result[2])) /\ Answered(r, 200)
onConnectFailed(r) == Answered(r, 408) /\ UNCHANGED <<faces, channels, table, lastId, notices>>

-----------------------------------------------------------------------------
(* A create command with a canonical URI: the command is asked and, where     *)
(* the factory answers at once, answered.  The face manager always asks for a *)
(* persistent face.                                                           *)
Asked(codes) == Len(answers) < MaxRequests /\ answers' = Append(answers, codes)

NotCreated(scheme, remote) ==
  /\ Asked(CASE scheme \notin Factories -> <<501>>
             [] scheme \in Factories /\ scheme \in {"ws", "unix"} -> <<500>>
             [] OTHER -> <<408>>)
  /\ \/ scheme \notin Factories \cap {"tcp", "udp"} \/ remote \in Prohibited
     \/ scheme = "udp" /\ <<scheme, remote>> \notin DOMAIN channels  \* the socket cannot be set up
  /\ UNCHANGED <<faces, channels, table, lastId, notices, listening, connects>>

(* connect of the channels. *)
Attempt(request, remote) == [request |-> request, remote |-> remote, result |-> "none", open |-> TRUE]

tcpConnect(remote) ==
  IF <<"tcp", remote>> \in DOMAIN channels
  THEN Asked(<<200>>) /\ Becomes(addToTable(World, channels[<<"tcp", remote>>])) /\ UNCHANGED connects
  ELSE /\ Asked(<<>>)
       /\ connects' = connects \cup {Attempt(Len(answers) + 1, remote)}
       /\ UNCHANGED <<faces, channels, table, lastId, notices>>

udpConnect(remote, used) ==
  /\ Asked(<<200>>)
  /\ LET result == udpCreateFace(World, remote, "persistent", used)
     IN  Becomes(addToTable(result[1], result[2]))
  /\ UNCHANGED connects

(* createFace of the factories. *)
createTcpFace(remote) ==
  /\ "tcp" \in Factories /\ remote \notin Prohibited
  /\ tcpConnect(remote) /\ UNCHANGED listening

createUdpFace(remote, used) ==
  /\ "udp" \in Factories /\ remote \notin Prohibited /\ Room("udp", remote)
  /\ udpConnect(remote, used) /\ UNCHANGED listening

(* async_connect is over, and its handler is queued. *)
ConnectCompletes(c) ==
  /\ c.result = "none"
  /\ \E r \in {"ok", "error"} : connects' = (connects \ {c}) \cup {[c EXCEPT !.result = r]}
  /\ UNCHANGED <<faces, channels, table, lastId, notices, listening, answers>>

(* Connected: createFace, which throws if the timeout has closed the socket,  *)
(* as it asks for the remote_endpoint.                                        *)
handleConnected(c) ==
  \/ /\ c.open /\ Room("tcp", c.remote) /\ UNCHANGED ended
     /\ onCreated(tcpCreateFace(World, c.remote, "persistent"), c.request)
  \/ /\ ~ c.open /\ ended' = TRUE
     /\ UNCHANGED <<faces, channels, table, lastId, notices, answers>>

(* Mutant: the timeout is not cancelled. *)
handleConnectUncancelled(c) ==
  /\ c.result \in {"ok", "error"} /\ connects' = (connects \ {c}) \cup {[c EXCEPT !.result = "handled"]}
  /\ \/ c.result = "error" /\ onConnectFailed(c.request) /\ UNCHANGED ended
     \/ c.result = "ok" /\ handleConnected(c)
  /\ UNCHANGED listening

(* Mutant: an error is not reported. *)
handleConnectQuiet(c) ==
  /\ c.result # "none" /\ connects' = connects \ {c}
  /\ \/ c.result = "error" /\ UNCHANGED <<faces, channels, table, lastId, notices, answers, ended>>
     \/ c.result = "ok" /\ handleConnected(c)
  /\ UNCHANGED listening

(* The timeout is cancelled, if it is not too late.  When it has run, an      *)
(* error is reported again.                                                   *)
handleConnect(c) ==
  /\ c.result # "none" /\ connects' = connects \ {c}
  /\ \/ c.result = "error" /\ onConnectFailed(c.request) /\ UNCHANGED ended
     \/ c.result = "ok" /\ handleConnected(c)
  /\ UNCHANGED listening

(* The socket is closed.  The handler of an attempt that is aborted by this   *)
(* does nothing; one that is queued already will run with its own result.     *)
handleConnectTimeout(c) ==
  /\ c.open
  /\ connects' = (connects \ {c}) \cup (IF c.result = "none" THEN {} ELSE {[c EXCEPT !.open = FALSE]})
  /\ onConnectFailed(c.request)
  /\ UNCHANGED listening

-----------------------------------------------------------------------------
(* handleAccept of TcpChannel and UnixStreamChannel, handleNewPeer and        *)
(* handleOpen: a peer appears.  After an error no further peer is waited for. *)
handleAccept(remote) ==
  /\ "tcp" \in listening /\ Room("tcp", remote)
  /\ LET result == tcpCreateFace(World, remote, "on-demand")
     IN  Becomes(addToTable(result[1], result[2]))
  /\ UNCHANGED <<listening, connects, answers>>

handleUnixAccept(remote) ==
  /\ "unix" \in listening /\ Len(faces) < MaxFaces
  /\ Becomes(addToTable([World EXCEPT !.faces = Append(@, NewFace("unix", remote, "on-demand", FALSE))],
                        Len(faces) + 1))
  /\ UNCHANGED <<listening, connects, answers>>

(* The datagram is handed on to the face: used unless it does not decode. *)
handleNewPeer(remote, uninitialized, decodes) ==
  /\ "udp" \in listening /\ Room("udp", remote)
  /\ LET isNew == <<"udp", remote>> \notin DOMAIN channels
         result == udpCreateFace(World, remote, "on-demand", uninitialized)
         w == IF isNew THEN addToTable(result[1], result[2]) ELSE result[1]
     IN  Becomes([w EXCEPT !.faces[result[2]].used = @ \/ decodes])
  /\ UNCHANGED <<listening, connects, answers>>

handleOpen(remote) ==
  /\ "ws" \in listening /\ Len(faces) < MaxFaces
  /\ LET i == Len(faces) + 1
         w == addToTable([World EXCEPT !.faces = Append(@, NewFace("ws", remote, "on-demand", FALSE))], i)
     IN  Becomes([w EXCEPT !.channels = With(@, <<"ws", i>>, i), !.faces[i].ping = TRUE])
  /\ UNCHANGED <<listening, connects, answers>>

ListenFails(scheme) ==
  /\ scheme \in listening \ {"ws"} /\ listening' = listening \ {scheme}
  /\ UNCHANGED <<faces, channels, table, lastId, notices, connects, answers>>

-----------------------------------------------------------------------------
(* The end of a face. *)
processError(i) ==
  /\ faces[i].up /\ faces[i].scheme # "ws" /\ faces[i].persistency # "permanent"
  /\ Becomes(fail([World EXCEPT !.faces[i].erred = TRUE], i))
  /\ UNCHANGED <<listening, connects, answers>>

(* FaceManager::destroyFace of a face of the table. *)
destroyFace(id) ==
  /\ LET i == table[id] IN Becomes(fail([World EXCEPT !.faces[i].destroyed = TRUE], i))
  /\ UNCHANGED <<listening, connects, answers>>

(* WebSocketChannel's handleClose, handlePongTimeout, and sendPing that fails. *)
handleClose(i) ==
  /\ <<"ws", i>> \in DOMAIN channels
  /\ LET w == fail([World EXCEPT !.faces[i].erred = TRUE], i)
     IN  Becomes([w EXCEPT !.channels = Without(@, <<"ws", i>>)])
  /\ UNCHANGED <<listening, connects, answers>>

receiveDatagram(i) ==
  /\ faces[i].up /\ faces[i].scheme = "udp" /\ ~ faces[i].used
  /\ Becomes([World EXCEPT !.faces[i].used = TRUE])
  /\ UNCHANGED <<listening, connects, answers>>

(* Mutant: the check is not repeated. *)
closeIfIdleOnce(i) ==
  /\ faces[i].idle
  /\ LET w == [World EXCEPT !.faces[i].idle = FALSE]
     IN  Becomes(CASE faces[i].persistency # "on-demand" -> w
                   [] faces[i].persistency = "on-demand" /\ faces[i].used -> [w EXCEPT !.faces[i].used = FALSE]
                   [] OTHER -> fail(w, i))
  /\ UNCHANGED <<listening, connects, answers>>

(* UdpFace::closeIfIdle; a record may keep a face that failed, and its timer. *)
closeIfIdle(i) ==
  /\ faces[i].idle
  /\ LET w == [World EXCEPT !.faces[i].idle = FALSE]
     IN  Becomes(CASE faces[i].persistency # "on-demand" -> w
                   [] faces[i].persistency = "on-demand" /\ faces[i].used -> [World EXCEPT !.faces[i].used = FALSE]
                   [] OTHER -> fail(w, i))
  /\ UNCHANGED <<listening, connects, answers>>

(* The handlers that do not throw; after one that does, none is run. *)
Runs(A) == ~ ended /\ A /\ UNCHANGED ended

FacesNext ==
  \/ \E c \in connects : ~ ended /\ handleConnect(c)
  \/ Runs(\/ \E s \in Schemes, r \in Remotes : NotCreated(s, r)
          \/ \E r \in Remotes : createTcpFace(r) \/ \E used \in BOOLEAN : createUdpFace(r, used)
          \/ \E c \in connects : ConnectCompletes(c) \/ handleConnectTimeout(c)
          \/ \E r \in Remotes \ Prohibited :
               \/ handleAccept(r) \/ handleUnixAccept(r) \/ handleOpen(r)
               \/ \E uninitialized, decodes \in BOOLEAN : handleNewPeer(r, uninitialized, decodes)
          \/ \E s \in listening : ListenFails(s)
          \/ \E i \in DOMAIN faces : processError(i) \/ handleClose(i) \/ receiveDatagram(i) \/ closeIfIdle(i)
          \/ \E id \in DOMAIN table : destroyFace(id))

(* Timeouts of connection attempts and idle timers run. *)
AttemptTimesOut == Runs(\E c \in connects : handleConnectTimeout(c))
IdleTimerRuns(i) == Runs(i \in DOMAIN faces /\ closeIfIdle(i))

FacesSpec ==
  /\ FacesInit /\ [][FacesNext]_faceVars
  /\ WF_faceVars(AttemptTimesOut) /\ \A i \in 1 .. MaxFaces : WF_faceVars(IdleTimerRuns(i))

-----------------------------------------------------------------------------
(* The face table and the maps of the channels hold the faces that have not   *)
(* failed and no others, each under its own identifier and endpoint, so that  *)
(* an endpoint never has two faces (tcp-channel.cpp:123 "we already have a    *)
(* face for this endpoint, just reuse it"), whether it connected, was         *)
(* connected to, or both at once.  A WebSocket connection may outlive its     *)
(* face until the peer has closed it too.  Who follows the notifications, as  *)
(* the RIB manager does, knows which faces there are: every identifier is     *)
(* announced, and withdrawn when it goes.                                     *)
MapsAgree ==
  /\ \A id \in DOMAIN table : faces[table[id]].id = id
  /\ {table[id] : id \in DOMAIN table} = {i \in DOMAIN faces : faces[i].up}
  /\ \A i \in DOMAIN faces : faces[i].up =>
       CASE faces[i].scheme \in {"tcp", "udp"} -> channels[<<faces[i].scheme, faces[i].remote>>] = i
         [] faces[i].scheme = "ws" -> channels[<<"ws", i>>] = i
         [] OTHER -> TRUE
  /\ \A k \in DOMAIN channels : k[1] # "ws" => faces[channels[k]].up
  /\ {id \in DOMAIN notices : notices[id] = "created"} = DOMAIN table

(* A create command has one outcome, although the end of the connection       *)
(* attempt and its timeout race (tcp-channel.cpp:168-216).  Who is told that  *)
(* there is a face is told nothing else, and who is told that there is none   *)
(* never gets one.  A second answer can only repeat the failure: of an        *)
(* attempt that ended in an error whose handler was queued when the timeout   *)
(* ran.                                                                       *)
OneOutcome == \A r \in DOMAIN answers : Len(answers[r]) =< 1 \/ answers[r] = <<408, 408>>

(* A create command is answered, also if a peer connected in the meantime     *)
(* ("Need to invoke the callback regardless", tcp-channel.cpp:131) or the     *)
(* attempt never ends, unless an exception ended the daemon before; and its   *)
(* answers are one outcome.                                                   *)
EveryRequestAnswered ==
  \A r \in 1 .. MaxRequests :
    /\ (r \in DOMAIN answers) ~> (ended \/ (r \in DOMAIN answers /\ answers[r] # <<>>))
    /\ []OneOutcome

PersistentFacesStay ==
  \A i \in DOMAIN faces :
    faces[i].persistency # "on-demand" /\ ~ faces[i].up => faces[i].erred \/ faces[i].destroyed

(* An on-demand UDP face that receives nothing is closed in the end, whatever *)
(* its uninitialized mark of recent use was, if its channel has an idle       *)
(* timeout (udp-face.cpp:69: none is started for a zero one) and no exception *)
(* ended the daemon.  A face that a create command was answered with, or that *)
(* was upgraded by one, does not go for being idle, only by an error or a     *)
(* command.                                                                   *)
IdleFacesClose ==
  /\ []PersistentFacesStay
  /\ IdleTimeout > 0 => \A i \in 1 .. MaxFaces :
       []<>(ended \/ (i \in DOMAIN faces =>
              ~ /\ faces[i].scheme = "udp" /\ faces[i].up
                /\ faces[i].persistency = "on-demand" /\ ~ faces[i].used))

=============================================================================

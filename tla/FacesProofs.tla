---------------------------- MODULE FacesProofs ----------------------------
(***************************************************************************)
(* Proofs about Faces: the face table, the maps of the channels and the    *)
(* notifications agree, whatever commands, peers, errors and timers do.    *)
(*                                                                         *)
(* The handlers go through worlds that are not consistent (a face is made  *)
(* before it is in the table), so that the invariant is split into what    *)
(* the table owes to the faces, but for those that are on their way into   *)
(* it, and what the channels owe to them.                                  *)
(***************************************************************************)
EXTENDS Faces, TLAPS

Schemes4 == {"tcp", "udp", "ws", "unix"}

FaceObject ==
  [scheme : Schemes4, remote : Remotes, persistency : {"on-demand", "persistent", "permanent"},
   up : BOOLEAN, id : Int, used : BOOLEAN, idle : BOOLEAN, ping : BOOLEAN,
   erred : BOOLEAN, destroyed : BOOLEAN]

IsWorld(w) ==
  /\ DOMAIN w = {"faces", "channels", "table", "lastId", "notices"}
  /\ w.faces \in Seq(FaceObject) /\ w.lastId \in Nat

(* The table and the notifications; faces of new are not in the table yet. *)
TableOK(w, new) ==
  /\ DOMAIN w.table \subseteq 1 .. w.lastId
  /\ \A id \in DOMAIN w.table :
       w.table[id] \in DOMAIN w.faces /\ w.faces[w.table[id]].up /\ w.faces[w.table[id]].id = id
  /\ \A i \in DOMAIN w.faces :
       IF w.faces[i].up /\ i \notin new
       THEN w.faces[i].id \in DOMAIN w.table /\ w.table[w.faces[i].id] = i
       ELSE w.faces[i].id = INVALID_FACEID
  /\ \A id \in DOMAIN w.notices : w.notices[id] = "created" <=> id \in DOMAIN w.table
  /\ DOMAIN w.table \subseteq DOMAIN w.notices

(* The maps of the channels; a WebSocket connection may outlive its face. *)
ChannelsOK(w) ==
  /\ \A k \in DOMAIN w.channels :
       /\ w.channels[k] \in DOMAIN w.faces
       /\ \/ k = <<"ws", w.channels[k]>> /\ w.faces[w.channels[k]].scheme = "ws"
          \/ /\ w.faces[w.channels[k]].up /\ w.faces[w.channels[k]].scheme \in {"tcp", "udp"}
             /\ k = <<w.faces[w.channels[k]].scheme, w.faces[w.channels[k]].remote>>
  /\ \A i \in DOMAIN w.faces : w.faces[i].up =>
       /\ w.faces[i].scheme \in {"tcp", "udp"} =>
            /\ <<w.faces[i].scheme, w.faces[i].remote>> \in DOMAIN w.channels
            /\ w.channels[<<w.faces[i].scheme, w.faces[i].remote>>] = i
       /\ w.faces[i].scheme = "ws" =>
            <<"ws", i>> \in DOMAIN w.channels /\ w.channels[<<"ws", i>>] = i

(* No persistent face is down but by an error or a command. *)
KeptOK(w) ==
  \A i \in DOMAIN w.faces :
    w.faces[i].persistency # "on-demand" /\ ~ w.faces[i].up => w.faces[i].erred \/ w.faces[i].destroyed

WorldOK(w) == IsWorld(w) /\ TableOK(w, {}) /\ ChannelsOK(w) /\ KeptOK(w)

(* Two states of a face that the invariant does not tell apart, but for the id. *)
Alike(f, g) ==
  /\ f.up = g.up /\ f.scheme = g.scheme /\ f.remote = g.remote
  /\ f.persistency = g.persistency /\ f.erred = g.erred /\ f.destroyed = g.destroyed

(* s with its i-th face replaced by f. *)
IsUpdate(g, s, i, f) ==
  /\ g \in Seq(FaceObject) /\ DOMAIN g = DOMAIN s /\ g[i] = f
  /\ \A j \in DOMAIN s \ {i} : g[j] = s[j]

-----------------------------------------------------------------------------
(* What an assignment to a member of a face does. *)
LEMMA FaceUpdated ==
  ASSUME NEW s \in Seq(FaceObject), NEW i \in DOMAIN s, NEW f \in FaceObject
  PROVE  IsUpdate([s EXCEPT ![i] = f], s, i, f)
<1> DEFINE g == [s EXCEPT ![i] = f]
<1>1. Len(s) \in Nat /\ DOMAIN s = 1 .. Len(s) /\ s \in [1 .. Len(s) -> FaceObject]
  OBVIOUS
<1>2. g \in [1 .. Len(s) -> FaceObject]
  BY <1>1
<1>3. g \in Seq(FaceObject)
  BY <1>1, <1>2
<1> QED
  BY <1>1, <1>2, <1>3 DEF IsUpdate

(* FaceTable::add, of a face that is up. *)
LEMMA AddOK ==
  ASSUME NEW w, IsWorld(w), NEW i \in DOMAIN w.faces, w.faces[i].up,
         NEW new \in SUBSET {i}, TableOK(w, new)
  PROVE  LET x == addToTable(w, i)
         IN  /\ IsWorld(x) /\ TableOK(x, {}) /\ x.channels = w.channels
             /\ DOMAIN x.faces = DOMAIN w.faces
             /\ \A j \in DOMAIN w.faces : Alike(x.faces[j], w.faces[j])
<1> DEFINE x == addToTable(w, i)
<1> USE DEF INVALID_FACEID
<1>1. CASE i \notin new
  <2>1. w.faces[i].id \in DOMAIN w.table /\ w.faces[i].id # INVALID_FACEID /\ new = {}
    BY <1>1 DEF TableOK, IsWorld
  <2>2. x = w
    BY <2>1 DEF addToTable
  <2> QED
    BY <2>1, <2>2 DEF Alike
<1>2. CASE i \in new
  <2> DEFINE id == w.lastId + 1
             f == [w.faces[i] EXCEPT !.id = id]
  <2>1. w.faces[i].id = INVALID_FACEID /\ new = {i}
    BY <1>2 DEF TableOK
  <2>2. /\ DOMAIN x = {"faces", "channels", "table", "lastId", "notices"}
        /\ x.faces = [w.faces EXCEPT ![i] = f] /\ x.channels = w.channels
        /\ x.lastId = id /\ x.table = With(w.table, id, i) /\ x.notices = With(w.notices, id, "created")
    BY <2>1 DEF addToTable, IsWorld
  <2>3. w.faces[i] \in FaceObject /\ id \in Int
    BY DEF IsWorld
  <2>4. f \in FaceObject /\ f.id = id /\ Alike(f, w.faces[i])
    BY <2>3 DEF FaceObject, Alike
  <2> HIDE DEF f
  <2>5. IsUpdate(x.faces, w.faces, i, f)
    BY <2>2, <2>4, FaceUpdated DEF IsWorld
  <2> HIDE DEF x
  <2>6. IsWorld(x)
    BY <2>2, <2>5 DEF IsWorld, IsUpdate
  <2>7. TableOK(x, {})
    <3>1. /\ DOMAIN x.table = DOMAIN w.table \cup {id} /\ x.table[id] = i
          /\ \A j \in DOMAIN w.table \ {id} : x.table[j] = w.table[j]
          /\ DOMAIN x.notices = DOMAIN w.notices \cup {id} /\ x.notices[id] = "created"
          /\ \A j \in DOMAIN w.notices \ {id} : x.notices[j] = w.notices[j]
      BY <2>2 DEF With
    <3>2. /\ w.lastId \in Nat /\ x.lastId = w.lastId + 1 /\ id \notin DOMAIN w.table
          /\ DOMAIN x.table \subseteq 1 .. x.lastId
      BY <2>2, <3>1 DEF IsWorld, TableOK
    <3>3. /\ DOMAIN x.faces = DOMAIN w.faces /\ x.faces[i].up /\ x.faces[i].id = id
          /\ \A j \in DOMAIN w.faces \ {i} : x.faces[j] = w.faces[j]
      BY <2>4, <2>5 DEF IsUpdate, Alike
    <3> HIDE DEF id
    <3>4. \A j \in DOMAIN x.table :
            x.table[j] \in DOMAIN x.faces /\ x.faces[x.table[j]].up /\ x.faces[x.table[j]].id = j
      BY <2>1, <3>1, <3>2, <3>3 DEF TableOK
    <3>5. \A j \in DOMAIN x.faces :
            IF x.faces[j].up
            THEN x.faces[j].id \in DOMAIN x.table /\ x.table[x.faces[j].id] = j
            ELSE x.faces[j].id = INVALID_FACEID
      BY <2>1, <3>1, <3>2, <3>3 DEF TableOK
    <3>6. \A j \in DOMAIN x.notices : x.notices[j] = "created" <=> j \in DOMAIN x.table
      BY <3>1, <3>2 DEF TableOK
    <3>7. DOMAIN x.table \subseteq DOMAIN x.notices
      BY <3>1 DEF TableOK
    <3> QED
      BY <3>2, <3>4, <3>5, <3>6, <3>7 DEF TableOK
  <2> QED
    BY <2>2, <2>4, <2>5, <2>6, <2>7 DEF x, IsUpdate, Alike
<1> QED
  BY <1>1, <1>2

(* What is left of a face that fails. *)
LEMMA FailedFace ==
  ASSUME NEW f \in FaceObject
  PROVE  LET g == [f EXCEPT !.up = FALSE, !.ping = FALSE, !.id = INVALID_FACEID]
         IN  /\ g \in FaceObject /\ ~ g.up /\ g.id = INVALID_FACEID
             /\ g.scheme = f.scheme /\ g.remote = f.remote /\ g.persistency = f.persistency
             /\ g.erred = f.erred /\ g.destroyed = f.destroyed
<1>1. INVALID_FACEID \in Int
  BY DEF INVALID_FACEID
<1> QED
  BY <1>1 DEF FaceObject

(* Face::fail: the face leaves its channel and the table, and is withdrawn. *)
LEMMA FailOK ==
  ASSUME NEW w, WorldOK(w), NEW i \in DOMAIN w.faces,
         w.faces[i].persistency = "on-demand" \/ w.faces[i].erred \/ w.faces[i].destroyed
  PROVE  LET x == fail(w, i)
         IN  WorldOK(x) /\ DOMAIN x.faces = DOMAIN w.faces /\ ~ x.faces[i].up
<1> DEFINE x == fail(w, i)
<1> USE DEF INVALID_FACEID
<1>1. CASE ~ w.faces[i].up
  BY <1>1 DEF fail
<1>2. CASE w.faces[i].up
  <2> DEFINE f == w.faces[i]
             id == f.id
             key == <<f.scheme, f.remote>>
             g == [f EXCEPT !.up = FALSE, !.ping = FALSE, !.id = INVALID_FACEID]
  <2>1. f \in FaceObject /\ id \in DOMAIN w.table /\ w.table[id] = i /\ id \in DOMAIN w.notices
    BY <1>2 DEF WorldOK, IsWorld, TableOK
  <2>2. /\ DOMAIN x = {"faces", "channels", "table", "lastId", "notices"}
        /\ x.faces = [w.faces EXCEPT ![i] = g]
        /\ x.channels = IF f.scheme \in {"tcp", "udp"} THEN Without(w.channels, key) ELSE w.channels
        /\ x.lastId = w.lastId /\ x.table = Without(w.table, id)
        /\ x.notices = With(w.notices, id, "destroyed")
    <3> DEFINE y == [w EXCEPT !.faces[i].up = FALSE, !.faces[i].ping = FALSE,
                              !.channels = IF f.scheme \in {"tcp", "udp"} THEN Without(@, key) ELSE @]
    <3>1. x = removeFromTable(y, i)
      BY <1>2, <2>1, Zenon DEF fail
    <3>2. /\ DOMAIN y = {"faces", "channels", "table", "lastId", "notices"}
          /\ y.faces = [w.faces EXCEPT ![i] = [f EXCEPT !.up = FALSE, !.ping = FALSE]]
          /\ y.channels = IF f.scheme \in {"tcp", "udp"} THEN Without(w.channels, key) ELSE w.channels
          /\ y.table = w.table /\ y.lastId = w.lastId /\ y.notices = w.notices
      BY <2>1 DEF WorldOK, IsWorld, FaceObject
    <3> HIDE DEF y
    <3>3. y.faces[i].id = id /\ i \in DOMAIN y.faces
      BY <2>1, <3>2 DEF FaceObject
    <3>4. x.faces = [y.faces EXCEPT ![i].id = INVALID_FACEID]
      BY <3>1, <3>2 DEF removeFromTable
    <3>5. x.faces = [w.faces EXCEPT ![i] = g]
      BY <2>1, <3>2, <3>4 DEF FaceObject
    <3> QED
      BY <3>1, <3>2, <3>3, <3>5 DEF removeFromTable
  <2>3. /\ g \in FaceObject /\ ~ g.up /\ g.id = INVALID_FACEID
        /\ g.scheme = f.scheme /\ g.remote = f.remote /\ g.persistency = f.persistency
        /\ g.erred = f.erred /\ g.destroyed = f.destroyed
    BY <2>1, FailedFace
  <2> HIDE DEF g
  <2>4. IsUpdate(x.faces, w.faces, i, g)
    BY <2>2, <2>3, FaceUpdated DEF WorldOK, IsWorld
  <2> HIDE DEF x
  <2>5. /\ DOMAIN x.faces = DOMAIN w.faces /\ x.faces[i] = g
        /\ \A j \in DOMAIN w.faces \ {i} : x.faces[j] = w.faces[j]
    BY <2>4 DEF IsUpdate
  <2>6. IsWorld(x)
    BY <2>2, <2>4 DEF WorldOK, IsWorld, IsUpdate
  <2>7. TableOK(x, {})
    <3>1. /\ DOMAIN x.table = DOMAIN w.table \ {id}
          /\ \A j \in DOMAIN x.table : x.table[j] = w.table[j]
          /\ DOMAIN x.notices = DOMAIN w.notices /\ x.notices[id] = "destroyed"
          /\ \A j \in DOMAIN w.notices \ {id} : x.notices[j] = w.notices[j]
      BY <2>1, <2>2 DEF With, Without
    <3> HIDE DEF id
    <3>2. \A j \in DOMAIN w.table \ {id} : w.table[j] # i
      BY <2>1 DEF WorldOK, TableOK, id
    <3>3. \A j \in DOMAIN w.faces \ {i} : w.faces[j].id # id \/ ~ w.faces[j].up
      BY <2>1 DEF WorldOK, TableOK
    <3>4. DOMAIN x.table \subseteq 1 .. x.lastId
      BY <2>2, <3>1 DEF WorldOK, TableOK
    <3>5. \A j \in DOMAIN x.table :
            x.table[j] \in DOMAIN x.faces /\ x.faces[x.table[j]].up /\ x.faces[x.table[j]].id = j
      BY <2>5, <3>1, <3>2 DEF WorldOK, TableOK
    <3>6. \A j \in DOMAIN x.faces :
            IF x.faces[j].up
            THEN x.faces[j].id \in DOMAIN x.table /\ x.table[x.faces[j].id] = j
            ELSE x.faces[j].id = INVALID_FACEID
      BY <2>3, <2>5, <3>1, <3>3 DEF WorldOK, TableOK
    <3>7. /\ \A j \in DOMAIN x.notices : x.notices[j] = "created" <=> j \in DOMAIN x.table
          /\ DOMAIN x.table \subseteq DOMAIN x.notices
      BY <3>1 DEF WorldOK, TableOK
    <3> QED
      BY <3>4, <3>5, <3>6, <3>7 DEF TableOK
  <2>8. ChannelsOK(x)
    <3>1. CASE f.scheme \in {"tcp", "udp"}
      <4>1. /\ DOMAIN x.channels = DOMAIN w.channels \ {key}
            /\ \A k \in DOMAIN x.channels : x.channels[k] = w.channels[k]
        BY <2>2, <3>1 DEF Without
      <4>2. w.channels[key] = i /\ key \in DOMAIN w.channels
        BY <1>2, <3>1 DEF WorldOK, ChannelsOK
      <4>3. \A k \in DOMAIN x.channels : x.channels[k] # i
        BY <3>1, <4>1, <4>2 DEF WorldOK, ChannelsOK
      <4>4. \A j \in DOMAIN w.faces \ {i} :
              w.faces[j].up /\ w.faces[j].scheme \in {"tcp", "udp"} => <<w.faces[j].scheme, w.faces[j].remote>> # key
        BY <4>2 DEF WorldOK, ChannelsOK
      <4>5. \A j : <<"ws", j>> # key
        BY <3>1
      <4> HIDE DEF key, f
      <4> QED
        BY <2>3, <2>5, <4>1, <4>3, <4>4, <4>5 DEF WorldOK, ChannelsOK
    <3>2. CASE f.scheme \notin {"tcp", "udp"}
      <4>1. x.channels = w.channels
        BY <2>2, <3>2
      <4> QED
        BY <2>3, <2>5, <3>2, <4>1 DEF WorldOK, ChannelsOK
    <3> QED
      BY <3>1, <3>2
  <2>9. KeptOK(x)
    BY <2>3, <2>5 DEF WorldOK, KeptOK
  <2> QED
    BY <2>3, <2>5, <2>6, <2>7, <2>8, <2>9 DEF WorldOK, x
<1> QED
  BY <1>1, <1>2

-----------------------------------------------------------------------------
(* x is w, but for the face i, which is g. *)
FaceReplaced(x, w, i, g) ==
  /\ DOMAIN x = {"faces", "channels", "table", "lastId", "notices"}
  /\ x.faces = [w.faces EXCEPT ![i] = g] /\ x.channels = w.channels
  /\ x.lastId = w.lastId /\ x.table = w.table /\ x.notices = w.notices

(* g is a later state of the face f, as much alive, and kept as persistency asks. *)
SameLife(g, f) ==
  /\ g \in FaceObject /\ g.id = f.id /\ g.scheme = f.scheme /\ g.remote = f.remote
  /\ g.up <=> f.up
  /\ g.persistency # "on-demand" /\ ~ g.up => g.erred \/ g.destroyed

(* A face whose marks or persistency change. *)
LEMMA MarkedOK ==
  ASSUME NEW w, WorldOK(w), NEW i \in DOMAIN w.faces, NEW g, SameLife(g, w.faces[i]),
         NEW x, FaceReplaced(x, w, i, g)
  PROVE  WorldOK(x) /\ DOMAIN x.faces = DOMAIN w.faces /\ x.faces[i] = g
<1>1. /\ DOMAIN x = {"faces", "channels", "table", "lastId", "notices"}
      /\ x.faces = [w.faces EXCEPT ![i] = g] /\ x.channels = w.channels
      /\ x.lastId = w.lastId /\ x.table = w.table /\ x.notices = w.notices
  BY DEF FaceReplaced
<1>2. IsUpdate(x.faces, w.faces, i, g)
  BY <1>1, FaceUpdated DEF WorldOK, IsWorld, SameLife
<1>3. /\ DOMAIN x.faces = DOMAIN w.faces /\ x.faces[i] = g
      /\ \A j \in DOMAIN w.faces \ {i} : x.faces[j] = w.faces[j]
      /\ \A j \in DOMAIN w.faces :
           /\ (x.faces[j].up <=> w.faces[j].up) /\ x.faces[j].id = w.faces[j].id
           /\ x.faces[j].scheme = w.faces[j].scheme /\ x.faces[j].remote = w.faces[j].remote
  BY <1>2 DEF IsUpdate, SameLife
<1>4. IsWorld(x)
  BY <1>1, <1>2 DEF WorldOK, IsWorld, IsUpdate
<1>5. TableOK(x, {})
  BY <1>1, <1>3 DEF WorldOK, TableOK
<1>6. ChannelsOK(x)
  BY <1>1, <1>3 DEF WorldOK, ChannelsOK
<1>7. KeptOK(x)
  BY <1>3 DEF WorldOK, KeptOK, SameLife
<1> QED
  BY <1>3, <1>4, <1>5, <1>6, <1>7 DEF WorldOK

(* A face that was just constructed. *)
IsFresh(face) == face \in FaceObject /\ face.up /\ face.id = INVALID_FACEID

LEMMA NewFaceFresh ==
  ASSUME NEW scheme \in Schemes4, NEW remote \in Remotes,
         NEW persistency \in {"on-demand", "persistent"}, NEW used \in BOOLEAN
  PROVE  LET face == NewFace(scheme, remote, persistency, used)
         IN  IsFresh(face) /\ face.scheme = scheme /\ face.remote = remote
<1>1. INVALID_FACEID \in Int
  BY DEF INVALID_FACEID
<1>2. (scheme = "udp" /\ persistency = "on-demand" /\ IdleTimeout > 0) \in BOOLEAN
  OBVIOUS
<1> QED
  BY <1>1, <1>2 DEF NewFace, FaceObject, IsFresh

(* A new face object, which is in the table only later. *)
IsAppended(x, w, face) ==
  /\ DOMAIN x.faces = DOMAIN w.faces \cup {Len(w.faces) + 1} /\ Len(w.faces) + 1 \notin DOMAIN w.faces
  /\ x.faces[Len(w.faces) + 1] = face
  /\ \A j \in DOMAIN w.faces : x.faces[j] = w.faces[j]

LEMMA AppendOK ==
  ASSUME NEW w, WorldOK(w), NEW face, IsFresh(face),
         NEW x, DOMAIN x = {"faces", "channels", "table", "lastId", "notices"},
         x.faces = Append(w.faces, face),
         x.lastId = w.lastId, x.table = w.table, x.notices = w.notices
  PROVE  /\ IsWorld(x) /\ TableOK(x, {Len(w.faces) + 1}) /\ KeptOK(x)
         /\ IsAppended(x, w, face)
<1> DEFINE i == Len(w.faces) + 1
<1>1. /\ Len(w.faces) \in Nat /\ DOMAIN w.faces = 1 .. Len(w.faces)
      /\ x.faces \in Seq(FaceObject) /\ Len(x.faces) = i /\ DOMAIN x.faces = 1 .. i
      /\ x.faces[i] = face
      /\ \A j \in 1 .. Len(w.faces) : x.faces[j] = w.faces[j]
  BY DEF WorldOK, IsWorld, IsFresh
<1>2. DOMAIN x.faces = DOMAIN w.faces \cup {i} /\ i \notin DOMAIN w.faces
  BY <1>1
<1>3. IsAppended(x, w, face)
  BY <1>1, <1>2 DEF IsAppended
<1>4. IsWorld(x)
  BY <1>1 DEF WorldOK, IsWorld
<1> HIDE DEF i
<1>5. \A j \in DOMAIN w.faces : x.faces[j] = w.faces[j]
  BY <1>1
<1>6. TableOK(x, {i})
  BY <1>1, <1>2, <1>5 DEF WorldOK, TableOK, IsFresh
<1>7. KeptOK(x)
  BY <1>1, <1>2, <1>5 DEF WorldOK, KeptOK, IsFresh
<1> QED
  BY <1>3, <1>4, <1>6, <1>7 DEF i

(* What createFace returns: a face for the table, whether it is there or not. *)
Made(w, i) ==
  /\ IsWorld(w) /\ ChannelsOK(w) /\ KeptOK(w) /\ i \in DOMAIN w.faces /\ w.faces[i].up
  /\ TableOK(w, {}) \/ TableOK(w, {i})

LEMMA AddedOK ==
  ASSUME NEW w, NEW i, Made(w, i)
  PROVE  WorldOK(addToTable(w, i)) /\ i \in DOMAIN addToTable(w, i).faces
<1> DEFINE x == addToTable(w, i)
<1>1. PICK new \in SUBSET {i} : TableOK(w, new)
  BY DEF Made
<1>2. /\ IsWorld(x) /\ TableOK(x, {}) /\ x.channels = w.channels
      /\ DOMAIN x.faces = DOMAIN w.faces
      /\ \A j \in DOMAIN w.faces : Alike(x.faces[j], w.faces[j])
  BY <1>1, AddOK DEF Made
<1> HIDE DEF x
<1>3. ChannelsOK(x)
  BY <1>2 DEF Made, ChannelsOK, Alike
<1>4. KeptOK(x)
  BY <1>2 DEF Made, KeptOK, Alike
<1>5. i \in DOMAIN x.faces
  BY <1>2 DEF Made
<1> QED
  BY <1>2, <1>3, <1>4, <1>5 DEF WorldOK, x

(* createFace of the channels, for an endpoint without a face. *)
LEMMA CreatedOK ==
  ASSUME NEW w, WorldOK(w), NEW face, IsFresh(face), face.scheme \in {"tcp", "udp"},
         <<face.scheme, face.remote>> \notin DOMAIN w.channels
  PROVE  Made(Created(w, face)[1], Created(w, face)[2])
<1> DEFINE i == Len(w.faces) + 1
           key == <<face.scheme, face.remote>>
           x == [w EXCEPT !.faces = Append(@, face), !.channels = With(@, key, i)]
<1>1. Created(w, face)[1] = x /\ Created(w, face)[2] = i
  BY DEF Created
<1>2. /\ DOMAIN x = {"faces", "channels", "table", "lastId", "notices"}
      /\ x.faces = Append(w.faces, face) /\ x.channels = With(w.channels, key, i)
      /\ x.lastId = w.lastId /\ x.table = w.table /\ x.notices = w.notices
  BY DEF WorldOK, IsWorld
<1> HIDE DEF x
<1>3. IsWorld(x) /\ TableOK(x, {i}) /\ KeptOK(x) /\ IsAppended(x, w, face)
  BY <1>2, AppendOK
<1>4. /\ DOMAIN x.faces = DOMAIN w.faces \cup {i} /\ i \notin DOMAIN w.faces /\ x.faces[i] = face
      /\ \A j \in DOMAIN w.faces : x.faces[j] = w.faces[j]
  BY <1>3 DEF IsAppended
<1> HIDE DEF i
<1>5. /\ DOMAIN x.channels = DOMAIN w.channels \cup {key} /\ x.channels[key] = i
      /\ \A k \in DOMAIN w.channels : x.channels[k] = w.channels[k]
  BY <1>2 DEF With
<1>6. ChannelsOK(x)
  <2>1. ASSUME NEW k \in DOMAIN x.channels
        PROVE  /\ x.channels[k] \in DOMAIN x.faces
               /\ \/ k = <<"ws", x.channels[k]>> /\ x.faces[x.channels[k]].scheme = "ws"
                  \/ /\ x.faces[x.channels[k]].up /\ x.faces[x.channels[k]].scheme \in {"tcp", "udp"}
                     /\ k = <<x.faces[x.channels[k]].scheme, x.faces[x.channels[k]].remote>>
    BY <1>4, <1>5 DEF WorldOK, ChannelsOK, IsFresh
  <2>2. ASSUME NEW j \in DOMAIN x.faces, x.faces[j].up
        PROVE  /\ x.faces[j].scheme \in {"tcp", "udp"} =>
                    /\ <<x.faces[j].scheme, x.faces[j].remote>> \in DOMAIN x.channels
                    /\ x.channels[<<x.faces[j].scheme, x.faces[j].remote>>] = j
               /\ x.faces[j].scheme = "ws" =>
                    <<"ws", j>> \in DOMAIN x.channels /\ x.channels[<<"ws", j>>] = j
    BY <1>4, <1>5, <2>2 DEF WorldOK, ChannelsOK
  <2> QED
    BY <2>1, <2>2 DEF ChannelsOK
<1> QED
  BY <1>1, <1>3, <1>4, <1>6 DEF Made, IsFresh

LEMMA TcpCreateOK ==
  ASSUME NEW w, WorldOK(w), NEW remote \in Remotes, NEW persistency \in {"on-demand", "persistent"}
  PROVE  LET result == tcpCreateFace(w, remote, persistency)
         IN  Made(result[1], result[2])
<1> DEFINE key == <<"tcp", remote>>
           face == NewFace("tcp", remote, persistency, FALSE)
<1>1. CASE key \in DOMAIN w.channels
  <2>1. Made(w, w.channels[key])
    BY <1>1 DEF WorldOK, ChannelsOK, Made
  <2> QED
    BY <1>1, <2>1 DEF tcpCreateFace
<1>2. CASE key \notin DOMAIN w.channels
  <2>0. "tcp" \in Schemes4 /\ FALSE \in BOOLEAN
    BY DEF Schemes4
  <2>1. IsFresh(face) /\ face.scheme = "tcp" /\ face.remote = remote
    BY <2>0, NewFaceFresh, Zenon
  <2> HIDE DEF face
  <2>2. Made(Created(w, face)[1], Created(w, face)[2])
    BY <1>2, <2>1, CreatedOK
  <2> QED
    BY <1>2, <2>2 DEF tcpCreateFace, face
<1> QED
  BY <1>1, <1>2

(* UdpChannel::createFace may upgrade the face it finds, which is up. *)
LEMMA UdpCreateOK ==
  ASSUME NEW w, WorldOK(w), NEW remote \in Remotes, NEW persistency \in {"on-demand", "persistent"},
         NEW used \in BOOLEAN
  PROVE  LET result == udpCreateFace(w, remote, persistency, used)
         IN  /\ Made(result[1], result[2])
             /\ <<"udp", remote>> \in DOMAIN w.channels => WorldOK(result[1])
<1> DEFINE key == <<"udp", remote>>
           face == NewFace("udp", remote, persistency, used)
           result == udpCreateFace(w, remote, persistency, used)
<1>1. CASE key \in DOMAIN w.channels
  <2> DEFINE i == w.channels[key]
             g == [w.faces[i] EXCEPT !.persistency = Upgraded(w.faces[i].persistency, persistency)]
             x == [w EXCEPT !.faces[i] = g]
  <2>1. i \in DOMAIN w.faces /\ w.faces[i].up /\ w.faces[i] \in FaceObject
    BY <1>1 DEF WorldOK, ChannelsOK, IsWorld
  <2>2. SameLife(g, w.faces[i]) /\ g.up
    <3>1. Upgraded(w.faces[i].persistency, persistency) \in {"on-demand", "persistent", "permanent"}
      BY <2>1 DEF Upgraded, FaceObject
    <3> QED
      BY <2>1, <3>1 DEF FaceObject, SameLife
  <2>3. result = <<x, i>> /\ FaceReplaced(x, w, i, g)
    BY <1>1, <2>1 DEF udpCreateFace, WorldOK, IsWorld, FaceReplaced
  <2> HIDE DEF g, i, x
  <2>4. WorldOK(x) /\ DOMAIN x.faces = DOMAIN w.faces /\ x.faces[i] = g
    BY <2>1, <2>2, <2>3, MarkedOK
  <2>5. Made(x, i)
    BY <2>1, <2>2, <2>4 DEF Made, WorldOK
  <2> QED
    BY <2>3, <2>4, <2>5
<1>2. CASE key \notin DOMAIN w.channels
  <2>1. IsFresh(face) /\ face.scheme = "udp" /\ face.remote = remote
    BY NewFaceFresh DEF Schemes4
  <2> HIDE DEF face
  <2>2. Made(Created(w, face)[1], Created(w, face)[2])
    BY <1>2, <2>1, CreatedOK
  <2> QED
    BY <1>2, <2>2 DEF udpCreateFace, face
<1> QED
  BY <1>1, <1>2

(* onNewConnection of UnixStreamChannel: no map of the channel. *)
LEMMA UnixOK ==
  ASSUME NEW w, WorldOK(w), NEW face, IsFresh(face), face.scheme = "unix"
  PROVE  Made([w EXCEPT !.faces = Append(@, face)], Len(w.faces) + 1)
<1> DEFINE i == Len(w.faces) + 1
           x == [w EXCEPT !.faces = Append(@, face)]
<1>1. /\ DOMAIN x = {"faces", "channels", "table", "lastId", "notices"}
      /\ x.faces = Append(w.faces, face) /\ x.channels = w.channels
      /\ x.lastId = w.lastId /\ x.table = w.table /\ x.notices = w.notices
  BY DEF WorldOK, IsWorld
<1> HIDE DEF x
<1>2. IsWorld(x) /\ TableOK(x, {i}) /\ KeptOK(x) /\ IsAppended(x, w, face)
  BY <1>1, AppendOK
<1>3. /\ DOMAIN x.faces = DOMAIN w.faces \cup {i} /\ i \notin DOMAIN w.faces /\ x.faces[i] = face
      /\ \A j \in DOMAIN w.faces : x.faces[j] = w.faces[j]
  BY <1>2 DEF IsAppended
<1> HIDE DEF i
<1>4. ChannelsOK(x)
  BY <1>1, <1>3 DEF WorldOK, ChannelsOK
<1> QED
  BY <1>2, <1>3, <1>4 DEF Made, IsFresh, x, i

(* handleOpen of WebSocketChannel: the connection is known only after the face *)
(* is in the table.                                                            *)
LEMMA WebSocketOK ==
  ASSUME NEW w, WorldOK(w), NEW face, IsFresh(face), face.scheme = "ws"
  PROVE  LET i == Len(w.faces) + 1
             y == addToTable([w EXCEPT !.faces = Append(@, face)], i)
         IN  WorldOK([y EXCEPT !.channels = With(@, <<"ws", i>>, i), !.faces[i].ping = TRUE])
<1> DEFINE i == Len(w.faces) + 1
           x == [w EXCEPT !.faces = Append(@, face)]
           y == addToTable(x, i)
           z == [y EXCEPT !.channels = With(@, <<"ws", i>>, i), !.faces[i].ping = TRUE]
<1>1. /\ DOMAIN x = {"faces", "channels", "table", "lastId", "notices"}
      /\ x.faces = Append(w.faces, face) /\ x.channels = w.channels
      /\ x.lastId = w.lastId /\ x.table = w.table /\ x.notices = w.notices
  BY DEF WorldOK, IsWorld
<1> HIDE DEF x
<1>2. IsWorld(x) /\ TableOK(x, {i}) /\ KeptOK(x) /\ IsAppended(x, w, face)
  BY <1>1, AppendOK
<1>3. /\ DOMAIN x.faces = DOMAIN w.faces \cup {i} /\ i \notin DOMAIN w.faces /\ x.faces[i] = face
      /\ \A j \in DOMAIN w.faces : x.faces[j] = w.faces[j]
  BY <1>2 DEF IsAppended
<1> HIDE DEF i
<1>4. /\ IsWorld(y) /\ TableOK(y, {}) /\ y.channels = x.channels /\ DOMAIN y.faces = DOMAIN x.faces
      /\ \A j \in DOMAIN x.faces : Alike(y.faces[j], x.faces[j])
  <2>1. i \in DOMAIN x.faces /\ x.faces[i].up /\ {i} \in SUBSET {i}
    BY <1>3 DEF IsFresh
  <2> QED
    BY <1>2, <2>1, AddOK
<1> HIDE DEF y
<1> DEFINE g == [y.faces[i] EXCEPT !.ping = TRUE]
<1>5. y.faces[i] \in FaceObject
  BY <1>3, <1>4 DEF IsWorld
<1>6. g \in FaceObject /\ g.id = y.faces[i].id /\ Alike(g, y.faces[i])
  BY <1>5 DEF FaceObject, Alike
<1>7. /\ DOMAIN z = {"faces", "channels", "table", "lastId", "notices"}
      /\ z.faces = [y.faces EXCEPT ![i] = g] /\ z.channels = With(w.channels, <<"ws", i>>, i)
      /\ z.lastId = y.lastId /\ z.table = y.table /\ z.notices = y.notices
  BY <1>1, <1>4 DEF IsWorld
<1> HIDE DEF g, z
<1>8. IsUpdate(z.faces, y.faces, i, g)
  BY <1>3, <1>4, <1>6, <1>7, FaceUpdated DEF IsWorld
<1>9. /\ DOMAIN z.faces = DOMAIN w.faces \cup {i}
      /\ \A j \in DOMAIN y.faces : z.faces[j].id = y.faces[j].id /\ Alike(z.faces[j], y.faces[j])
      /\ \A j \in DOMAIN w.faces : Alike(z.faces[j], w.faces[j])
      /\ Alike(z.faces[i], face)
  BY <1>3, <1>4, <1>6, <1>8 DEF IsUpdate, Alike
<1>10. IsWorld(z)
  BY <1>4, <1>7, <1>8 DEF IsWorld, IsUpdate
<1>11. TableOK(z, {})
  BY <1>3, <1>4, <1>7, <1>9 DEF TableOK, Alike
<1>12. KeptOK(z)
  BY <1>9 DEF KeptOK, WorldOK, Alike, IsFresh
<1>13. /\ DOMAIN z.channels = DOMAIN w.channels \cup {<<"ws", i>>} /\ z.channels[<<"ws", i>>] = i
       /\ <<"ws", i>> \notin DOMAIN w.channels
       /\ \A k \in DOMAIN w.channels : z.channels[k] = w.channels[k]
  <2>1. <<"ws", i>> \notin DOMAIN w.channels
    BY <1>3 DEF WorldOK, ChannelsOK
  <2> QED
    BY <1>7, <2>1 DEF With
<1>14. ChannelsOK(z)
  <2>1. ASSUME NEW k \in DOMAIN z.channels
        PROVE  /\ z.channels[k] \in DOMAIN z.faces
               /\ \/ k = <<"ws", z.channels[k]>> /\ z.faces[z.channels[k]].scheme = "ws"
                  \/ /\ z.faces[z.channels[k]].up /\ z.faces[z.channels[k]].scheme \in {"tcp", "udp"}
                     /\ k = <<z.faces[z.channels[k]].scheme, z.faces[z.channels[k]].remote>>
    BY <1>9, <1>13 DEF WorldOK, ChannelsOK, Alike
  <2>2. ASSUME NEW j \in DOMAIN z.faces, z.faces[j].up
        PROVE  /\ z.faces[j].scheme \in {"tcp", "udp"} =>
                    /\ <<z.faces[j].scheme, z.faces[j].remote>> \in DOMAIN z.channels
                    /\ z.channels[<<z.faces[j].scheme, z.faces[j].remote>>] = j
               /\ z.faces[j].scheme = "ws" =>
                    <<"ws", j>> \in DOMAIN z.channels /\ z.channels[<<"ws", j>>] = j
    BY <1>9, <1>13, <2>2 DEF WorldOK, ChannelsOK, Alike
  <2> QED
    BY <2>1, <2>2 DEF ChannelsOK
<1> QED
  BY <1>10, <1>11, <1>12, <1>14 DEF WorldOK, z, y, x, i

-----------------------------------------------------------------------------
(* The create commands: a connection attempt is for one of them, which has    *)
(* not been answered as long as the socket is open, and has been told of the  *)
(* timeout, and of nothing else, once it is not.                              *)
AttemptRec ==
  [request : Int, remote : Remotes, result : {"none", "ok", "error"}, open : BOOLEAN]

AttemptOK(c, a) ==
  /\ c \in AttemptRec /\ c.request \in DOMAIN a
  /\ c.open => a[c.request] = <<>>
  /\ ~ c.open => a[c.request] = <<408>>

RequestsOK ==
  /\ answers \in Seq(Seq(Int)) /\ OneOutcome
  /\ \A c \in connects : AttemptOK(c, answers)
  /\ \A c, d \in connects : c.request = d.request => c = d

(* The inductive invariant. *)
FInv == WorldOK(World) /\ RequestsOK

LEMMA BecomesOK ==
  ASSUME NEW w, WorldOK(w), Becomes(w)
  PROVE  WorldOK(World)'
<1>1. /\ World'.faces = w.faces /\ World'.channels = w.channels /\ World'.table = w.table
      /\ World'.lastId = w.lastId /\ World'.notices = w.notices
      /\ DOMAIN World' = {"faces", "channels", "table", "lastId", "notices"}
  BY DEF Becomes, World
<1> QED
  BY <1>1 DEF WorldOK, IsWorld, TableOK, ChannelsOK, KeptOK

LEMMA WorldUnchanged ==
  ASSUME WorldOK(World), UNCHANGED <<faces, channels, table, lastId, notices>>
  PROVE  WorldOK(World)'
<1>1. World' = World
  BY DEF World
<1> QED
  BY <1>1 DEF WorldOK, IsWorld, TableOK, ChannelsOK, KeptOK

(* A command arrives and is answered at once, or waits for a connection. *)
LEMMA AskedOK ==
  ASSUME RequestsOK, NEW codes \in Seq(Int), Len(codes) =< 1, answers' = Append(answers, codes),
         \/ connects' = connects
         \/ /\ codes = <<>>
            /\ \E r \in Remotes : connects' = connects \cup {Attempt(Len(answers) + 1, r)}
  PROVE  RequestsOK'
<1> DEFINE n == Len(answers) + 1
<1>1. /\ answers' \in Seq(Seq(Int)) /\ DOMAIN answers' = DOMAIN answers \cup {n}
      /\ n \notin DOMAIN answers /\ answers'[n] = codes /\ n \in Int
      /\ \A r \in DOMAIN answers : answers'[r] = answers[r]
  BY DEF RequestsOK
<1>2. OneOutcome'
  BY <1>1 DEF RequestsOK, OneOutcome
<1> HIDE DEF n
<1>0. \A c \in connects : AttemptOK(c, answers') /\ c.request # n
  BY <1>1 DEF RequestsOK, AttemptOK
<1>3. CASE connects' = connects
  BY <1>0, <1>1, <1>2, <1>3 DEF RequestsOK
<1>4. CASE connects' # connects
  <2>1. PICK r \in Remotes : connects' = connects \cup {Attempt(n, r)}
    BY <1>4 DEF n
  <2>2. codes = <<>>
    BY <1>4
  <2> DEFINE new == Attempt(n, r)
  <2>3. new \in AttemptRec /\ new.request = n /\ new.open = TRUE
    BY <1>1 DEF Attempt, AttemptRec
  <2>4. connects' = connects \cup {new}
    BY <2>1
  <2> HIDE DEF new
  <2>5. AttemptOK(new, answers')
    <3>1. new.request \in DOMAIN answers' /\ answers'[new.request] = <<>>
      BY <1>1, <2>2, <2>3
    <3> QED
      BY <2>3, <3>1, Zenon DEF AttemptOK
  <2>6. \A c, d \in connects' : c.request = d.request => c = d
    BY <1>0, <2>3, <2>4 DEF RequestsOK
  <2> QED
    BY <1>0, <1>1, <1>2, <2>4, <2>5, <2>6 DEF RequestsOK
<1> QED
  BY <1>3, <1>4

LEMMA AnsweredAtOnce ==
  ASSUME RequestsOK, NEW code \in Int, answers' = Append(answers, <<code>>), connects' = connects
  PROVE  RequestsOK'
<1> DEFINE codes == <<code>>
<1>1. codes \in Seq(Int) /\ Len(codes) =< 1 /\ answers' = Append(answers, codes)
  OBVIOUS
<1> HIDE DEF codes
<1> QED
  BY <1>1, AskedOK

LEMMA ConnectionAwaited ==
  ASSUME RequestsOK, NEW r \in Remotes, answers' = Append(answers, <<>>),
         connects' = connects \cup {Attempt(Len(answers) + 1, r)}
  PROVE  RequestsOK'
<1> DEFINE codes == <<>>
<1>1. codes \in Seq(Int) /\ Len(codes) =< 1 /\ answers' = Append(answers, codes) /\ codes = <<>>
  OBVIOUS
<1> HIDE DEF codes
<1> QED
  BY <1>1, AskedOK

(* A connection attempt is replaced by a later state of it, or goes. *)
LEMMA AttemptGoesOn ==
  ASSUME RequestsOK, NEW c \in connects, answers' = answers,
         \/ connects' = connects \ {c}
         \/ \E r \in {"ok", "error"} : connects' = (connects \ {c}) \cup {[c EXCEPT !.result = r]}
  PROVE  RequestsOK'
<1>1. OneOutcome'
  BY DEF RequestsOK, OneOutcome
<1>2. CASE connects' = connects \ {c}
  BY <1>1, <1>2 DEF RequestsOK
<1>3. ASSUME NEW r \in {"ok", "error"}, connects' = (connects \ {c}) \cup {[c EXCEPT !.result = r]}
      PROVE  RequestsOK'
  <2> DEFINE d == [c EXCEPT !.result = r]
  <2>0. c \in AttemptRec
    BY DEF RequestsOK, AttemptOK
  <2>1. d \in AttemptRec /\ d.request = c.request /\ d.open = c.open
    BY <2>0 DEF AttemptRec
  <2>2. connects' = (connects \ {c}) \cup {d}
    BY <1>3
  <2> HIDE DEF d
  <2>3. AttemptOK(d, answers')
    BY <2>1 DEF RequestsOK, AttemptOK
  <2>4. \A e, f \in connects' : e.request = f.request => e = f
    BY <2>1, <2>2 DEF RequestsOK
  <2> QED
    BY <1>1, <2>2, <2>3, <2>4 DEF RequestsOK
<1> QED
  BY <1>2, <1>3

(* The command of an attempt is answered, no other one: with the timeout, and *)
(* then with nothing but the failure again.                                   *)
LEMMA AnsweredOK ==
  ASSUME RequestsOK, NEW c \in connects, NEW code \in Int, Answered(c.request, code),
         \/ connects' = connects \ {c} /\ (c.open \/ code = 408)
         \/ /\ c.open /\ code = 408
            /\ connects' = (connects \ {c}) \cup {[c EXCEPT !.open = FALSE]}
  PROVE  RequestsOK'
<1> DEFINE old == answers[c.request]
           codes == Append(old, code)
<1>1. /\ c \in AttemptRec /\ c.request \in DOMAIN answers /\ answers \in Seq(Seq(Int))
      /\ c.open => old = <<>>
      /\ ~ c.open => old = <<408>>
  BY DEF RequestsOK, AttemptOK
<1>2. answers' = [answers EXCEPT ![c.request] = codes]
  BY DEF Answered
<1> HIDE DEF old
<1>3. codes \in Seq(Int) /\ (Len(codes) =< 1 \/ codes = <<408, 408>>)
  <2>1. CASE c.open
    <3>1. old = <<>>
      BY <1>1, <2>1
    <3>2. codes = <<code>>
      BY <3>1
    <3> HIDE DEF codes
    <3> QED
      BY <3>2
  <2>2. CASE ~ c.open
    <3>1. old = <<408>> /\ code = 408
      BY <1>1, <2>2
    <3>2. old \in Seq(Int) /\ Len(old) = 1 /\ old[1] = 408
      BY <3>1
    <3>3. codes \in Seq(Int) /\ Len(codes) = 2 /\ codes[1] = 408 /\ codes[2] = 408
      BY <3>1, <3>2
    <3> HIDE DEF codes
    <3>4. codes = <<408, 408>>
      BY <3>3
    <3> QED
      BY <3>3, <3>4
  <2> QED
    BY <2>1, <2>2
<1>4. c.open => codes = <<code>>
  BY <1>1
<1> HIDE DEF codes
<1>5. /\ DOMAIN answers' = DOMAIN answers /\ answers'[c.request] = codes
      /\ \A r \in DOMAIN answers \ {c.request} : answers'[r] = answers[r]
  BY <1>1, <1>2
<1>6. answers' \in Seq(Seq(Int))
  <2>1. answers \in [1 .. Len(answers) -> Seq(Int)] /\ Len(answers) \in Nat
    BY <1>1
  <2>2. answers' \in [1 .. Len(answers) -> Seq(Int)]
    BY <1>2, <1>3, <2>1
  <2> QED
    BY <2>1, <2>2
<1>7. OneOutcome'
  <2>1. ASSUME NEW r \in DOMAIN answers'
        PROVE  Len(answers'[r]) =< 1 \/ answers'[r] = <<408, 408>>
    <3>1. CASE r = c.request
      BY <1>3, <1>5, <3>1
    <3>2. CASE r # c.request
      <4>1. answers'[r] = answers[r] /\ r \in DOMAIN answers
        BY <1>5, <3>2
      <4>2. OneOutcome
        BY DEF RequestsOK
      <4>3. Len(answers[r]) =< 1 \/ answers[r] = <<408, 408>>
        BY <4>1, <4>2, Zenon DEF OneOutcome
      <4> QED
        BY <4>1, <4>3
    <3> QED
      BY <3>1, <3>2
  <2> QED
    BY <2>1, Zenon DEF OneOutcome
<1>8. \A e \in connects \ {c} : AttemptOK(e, answers')
  BY <1>5 DEF RequestsOK, AttemptOK
<1>9. CASE connects' = connects \ {c}
  BY <1>6, <1>7, <1>8, <1>9 DEF RequestsOK
<1>10. CASE connects' # connects \ {c}
  <2> DEFINE d == [c EXCEPT !.open = FALSE]
  <2>1. c.open /\ code = 408 /\ connects' = (connects \ {c}) \cup {d}
    BY <1>10
  <2>2. d \in AttemptRec /\ d.request = c.request /\ d.open = FALSE
    BY <1>1 DEF AttemptRec
  <2> HIDE DEF d
  <2>3. AttemptOK(d, answers')
    BY <1>1, <1>4, <1>5, <2>1, <2>2 DEF AttemptOK
  <2>4. \A e, f \in connects' : e.request = f.request => e = f
    BY <2>1, <2>2 DEF RequestsOK
  <2> QED
    BY <1>6, <1>7, <1>8, <2>1, <2>3, <2>4 DEF RequestsOK
<1> QED
  BY <1>9, <1>10

LEMMA RequestsUnchanged ==
  ASSUME RequestsOK, UNCHANGED <<answers, connects>>
  PROVE  RequestsOK'
BY DEF RequestsOK, OneOutcome

-----------------------------------------------------------------------------
(* The commands. *)
LEMMA CommandStep ==
  ASSUME FInv, NEW r \in Remotes,
         \/ \E s \in Schemes : NotCreated(s, r)
         \/ createTcpFace(r)
         \/ \E used \in BOOLEAN : createUdpFace(r, used)
  PROVE  FInv'
<1> USE DEF FInv
<1>1. ASSUME NEW s \in Schemes, NotCreated(s, r)
      PROVE  FInv'
  <2>1. /\ UNCHANGED <<faces, channels, table, lastId, notices>> /\ connects' = connects
        /\ \E code \in {501, 500, 408} : answers' = Append(answers, <<code>>)
    BY <1>1 DEF NotCreated, Asked
  <2>2. RequestsOK'
    BY <2>1, AnsweredAtOnce
  <2> QED
    BY <2>1, <2>2, WorldUnchanged
<1>2. CASE createTcpFace(r)
  <2> DEFINE key == <<"tcp", r>>
  <2>1. CASE key \in DOMAIN channels
    <3>1. /\ Becomes(addToTable(World, channels[key])) /\ connects' = connects
          /\ answers' = Append(answers, <<200>>)
      BY <1>2, <2>1 DEF createTcpFace, tcpConnect, Asked
    <3>2. Made(World, channels[key])
      BY <2>1 DEF WorldOK, ChannelsOK, Made, World
    <3>3. WorldOK(World)'
      BY <3>1, <3>2, AddedOK, BecomesOK
    <3> QED
      BY <3>1, <3>3, AnsweredAtOnce
  <2>2. CASE key \notin DOMAIN channels
    <3>1. /\ UNCHANGED <<faces, channels, table, lastId, notices>> /\ answers' = Append(answers, <<>>)
          /\ connects' = connects \cup {Attempt(Len(answers) + 1, r)}
      BY <1>2, <2>2 DEF createTcpFace, tcpConnect, Asked
    <3> QED
      BY <3>1, ConnectionAwaited, WorldUnchanged
  <2> QED
    BY <2>1, <2>2
<1>3. ASSUME NEW used \in BOOLEAN, createUdpFace(r, used)
      PROVE  FInv'
  <2> DEFINE result == udpCreateFace(World, r, "persistent", used)
  <2>1. /\ Becomes(addToTable(result[1], result[2])) /\ connects' = connects
        /\ answers' = Append(answers, <<200>>)
    BY <1>3 DEF createUdpFace, udpConnect, Asked
  <2>2. Made(result[1], result[2])
    BY <1>3, UdpCreateOK
  <2> HIDE DEF result
  <2>3. WorldOK(World)'
    BY <2>1, <2>2, AddedOK, BecomesOK
  <2> QED
    BY <2>1, <2>3, AnsweredAtOnce
<1> QED
  BY <1>1, <1>2, <1>3

(* The end of a connection attempt, its timeout, and its handler, in any order. *)
LEMMA ConnectStep ==
  ASSUME FInv, NEW c \in connects,
         handleConnect(c) \/ ConnectCompletes(c) \/ handleConnectTimeout(c)
  PROVE  FInv'
<1> USE DEF FInv
<1>1. CASE ConnectCompletes(c)
  <2>1. /\ UNCHANGED <<faces, channels, table, lastId, notices>> /\ answers' = answers
        /\ \E r \in {"ok", "error"} : connects' = (connects \ {c}) \cup {[c EXCEPT !.result = r]}
    BY <1>1 DEF ConnectCompletes
  <2> QED
    BY <2>1, AttemptGoesOn, WorldUnchanged
<1>2. CASE handleConnectTimeout(c)
  <2>1. /\ UNCHANGED <<faces, channels, table, lastId, notices>>
        /\ Answered(c.request, 408) /\ c.open
        /\ \/ connects' = connects \ {c}
           \/ connects' = (connects \ {c}) \cup {[c EXCEPT !.open = FALSE]}
    BY <1>2 DEF onConnectFailed, handleConnectTimeout
  <2> QED
    BY <2>1, AnsweredOK, WorldUnchanged
<1>3. CASE handleConnect(c) /\ onConnectFailed(c.request)
  <2>1. /\ UNCHANGED <<faces, channels, table, lastId, notices>>
        /\ Answered(c.request, 408) /\ connects' = connects \ {c}
    BY <1>3 DEF onConnectFailed, handleConnect
  <2> QED
    BY <2>1, AnsweredOK, WorldUnchanged
<1>4. CASE /\ handleConnect(c) /\ c.open
           /\ onCreated(tcpCreateFace(World, c.remote, "persistent"), c.request)
  <2> DEFINE result == tcpCreateFace(World, c.remote, "persistent")
  <2>1. /\ Becomes(addToTable(result[1], result[2])) /\ Answered(c.request, 200)
        /\ connects' = connects \ {c}
    BY <1>4 DEF onCreated, handleConnect
  <2>2. c.remote \in Remotes
    BY DEF RequestsOK, AttemptOK, AttemptRec
  <2>3. Made(result[1], result[2])
    BY <2>2, TcpCreateOK
  <2> HIDE DEF result
  <2>4. WorldOK(World)'
    BY <2>1, <2>3, AddedOK, BecomesOK
  <2> QED
    BY <1>4, <2>1, <2>4, AnsweredOK
<1>5. CASE handleConnect(c) /\ UNCHANGED <<faces, channels, table, lastId, notices, answers>>
  <2>1. connects' = connects \ {c} /\ answers' = answers
    BY <1>5 DEF handleConnect
  <2> QED
    BY <1>5, <2>1, AttemptGoesOn, WorldUnchanged
<1> QED
  BY <1>1, <1>2, <1>3, <1>4, <1>5, Zenon DEF handleConnect, handleConnected

(* A peer appears. *)
LEMMA PeerStep ==
  ASSUME FInv, NEW r \in Remotes,
         \/ handleAccept(r) \/ handleUnixAccept(r) \/ handleOpen(r)
         \/ \E uninitialized, decodes \in BOOLEAN : handleNewPeer(r, uninitialized, decodes)
  PROVE  FInv'
<1> USE DEF FInv
<1>0. RequestsOK'
  BY RequestsUnchanged DEF handleAccept, handleUnixAccept, handleOpen, handleNewPeer
<1>1. CASE handleAccept(r)
  <2> DEFINE result == tcpCreateFace(World, r, "on-demand")
  <2>1. Becomes(addToTable(result[1], result[2]))
    BY <1>1 DEF handleAccept
  <2>2. Made(result[1], result[2])
    BY TcpCreateOK
  <2> HIDE DEF result
  <2> QED
    BY <1>0, <2>1, <2>2, AddedOK, BecomesOK
<1>2. CASE handleUnixAccept(r)
  <2> DEFINE face == NewFace("unix", r, "on-demand", FALSE)
             w == [World EXCEPT !.faces = Append(@, face)]
  <2>0. "unix" \in Schemes4 /\ FALSE \in BOOLEAN /\ World.faces = faces
    BY DEF Schemes4, World
  <2>1. IsFresh(face) /\ face.scheme = "unix"
    BY <2>0, NewFaceFresh, Zenon
  <2>2. Becomes(addToTable(w, Len(faces) + 1))
    BY <1>2 DEF handleUnixAccept
  <2> HIDE DEF face
  <2>3. Made(w, Len(faces) + 1)
    BY <2>0, <2>1, UnixOK
  <2> HIDE DEF w
  <2> QED
    BY <1>0, <2>2, <2>3, AddedOK, BecomesOK
<1>3. CASE handleOpen(r)
  <2> DEFINE face == NewFace("ws", r, "on-demand", FALSE)
             i == Len(World.faces) + 1
             y == addToTable([World EXCEPT !.faces = Append(@, face)], i)
             w == [y EXCEPT !.channels = With(@, <<"ws", i>>, i), !.faces[i].ping = TRUE]
  <2>0. "ws" \in Schemes4 /\ FALSE \in BOOLEAN /\ World.faces = faces
    BY DEF Schemes4, World
  <2>1. IsFresh(face) /\ face.scheme = "ws"
    BY <2>0, NewFaceFresh, Zenon
  <2>2. Becomes(w)
    BY <1>3, <2>0 DEF handleOpen
  <2> HIDE DEF face
  <2>3. WorldOK(w)
    BY <2>1, WebSocketOK
  <2> HIDE DEF w
  <2> QED
    BY <1>0, <2>2, <2>3, BecomesOK
<1>4. ASSUME NEW uninitialized \in BOOLEAN, NEW decodes \in BOOLEAN,
             handleNewPeer(r, uninitialized, decodes)
      PROVE  FInv'
  <2> DEFINE result == udpCreateFace(World, r, "on-demand", uninitialized)
             i == result[2]
             w == IF <<"udp", r>> \notin DOMAIN channels THEN addToTable(result[1], i) ELSE result[1]
             g == [w.faces[i] EXCEPT !.used = w.faces[i].used \/ decodes]
             x == [w EXCEPT !.faces[i] = g]
  <2>1. Becomes(x)
    BY <1>4 DEF handleNewPeer
  <2>2. /\ Made(result[1], i)
        /\ <<"udp", r>> \in DOMAIN channels => WorldOK(result[1])
    BY UdpCreateOK DEF World
  <2> HIDE DEF result, i
  <2>3. WorldOK(w) /\ i \in DOMAIN w.faces
    BY <2>2, AddedOK DEF Made
  <2> HIDE DEF w
  <2>4. SameLife(g, w.faces[i])
    <3>1. w.faces[i] \in FaceObject
      BY <2>3 DEF WorldOK, IsWorld
    <3>2. (w.faces[i].used \/ decodes) \in BOOLEAN
      OBVIOUS
    <3> QED
      BY <2>3, <3>1, <3>2 DEF FaceObject, SameLife, WorldOK, KeptOK
  <2>5. FaceReplaced(x, w, i, g)
    BY <2>3 DEF FaceReplaced, WorldOK, IsWorld
  <2> HIDE DEF g, x
  <2>6. WorldOK(x)
    BY <2>3, <2>4, <2>5, MarkedOK
  <2> QED
    BY <1>0, <2>1, <2>6, BecomesOK
<1> QED
  BY <1>1, <1>2, <1>3, <1>4

(* The end of a face, and the marks of use. *)
LEMMA EndStep ==
  ASSUME FInv, NEW i \in DOMAIN faces,
         processError(i) \/ handleClose(i) \/ receiveDatagram(i) \/ closeIfIdle(i)
  PROVE  FInv'
<1> USE DEF FInv
<1>0. RequestsOK'
  BY RequestsUnchanged DEF processError, handleClose, receiveDatagram, closeIfIdle
<1>1. /\ World.faces = faces /\ World.channels = channels /\ World.table = table
      /\ World.lastId = lastId /\ World.notices = notices
      /\ DOMAIN World = {"faces", "channels", "table", "lastId", "notices"}
  BY DEF World
<1>2. faces[i] \in FaceObject /\ i \in DOMAIN World.faces
  BY <1>1 DEF WorldOK, IsWorld
<1> DEFINE erred == [faces[i] EXCEPT !.erred = TRUE]
           used(b) == [faces[i] EXCEPT !.used = b]
           idle == [faces[i] EXCEPT !.idle = FALSE]
           W(g) == [World EXCEPT !.faces[i] = g]
<1>3. /\ SameLife(erred, faces[i]) /\ erred.erred
      /\ SameLife(idle, faces[i]) /\ idle.persistency = faces[i].persistency
      /\ \A b \in BOOLEAN : SameLife(used(b), faces[i])
  BY <1>1, <1>2 DEF SameLife, FaceObject, WorldOK, KeptOK
<1>4. \A g : FaceReplaced(W(g), World, i, g)
  BY <1>1 DEF FaceReplaced
<1>5. ASSUME NEW g, SameLife(g, faces[i])
      PROVE  WorldOK(W(g)) /\ i \in DOMAIN W(g).faces /\ W(g).faces[i] = g
  BY <1>1, <1>2, <1>4, <1>5, MarkedOK
<1>6. CASE processError(i)
  <2>1. Becomes(fail(W(erred), i))
    BY <1>1, <1>6 DEF processError
  <2>2. WorldOK(W(erred)) /\ i \in DOMAIN W(erred).faces /\ W(erred).faces[i].erred
    BY <1>3, <1>5
  <2> HIDE DEF W, erred
  <2> QED
    BY <1>0, <2>1, <2>2, FailOK, BecomesOK
<1>7. CASE handleClose(i)
  <2> DEFINE w == fail(W(erred), i)
             x == [w EXCEPT !.channels = Without(@, <<"ws", i>>)]
  <2>1. Becomes(x)
    BY <1>1, <1>7 DEF handleClose
  <2>2. WorldOK(W(erred)) /\ i \in DOMAIN W(erred).faces /\ W(erred).faces[i].erred
    BY <1>3, <1>5
  <2> HIDE DEF W, erred
  <2>3. WorldOK(w) /\ ~ w.faces[i].up
    BY <2>2, FailOK
  <2> HIDE DEF w
  <2>4. WorldOK(x)
    <3>1. /\ DOMAIN x = {"faces", "channels", "table", "lastId", "notices"}
          /\ x.faces = w.faces /\ x.channels = Without(w.channels, <<"ws", i>>)
          /\ x.lastId = w.lastId /\ x.table = w.table /\ x.notices = w.notices
      BY <2>3 DEF WorldOK, IsWorld
    <3> HIDE DEF x
    <3>2. /\ DOMAIN x.channels = DOMAIN w.channels \ {<<"ws", i>>}
          /\ \A k \in DOMAIN x.channels : x.channels[k] = w.channels[k]
      BY <3>1 DEF Without
    <3>3. IsWorld(x) /\ TableOK(x, {}) /\ KeptOK(x)
      BY <2>3, <3>1 DEF WorldOK, IsWorld, TableOK, KeptOK
    <3>4. ChannelsOK(x)
      BY <2>3, <3>1, <3>2 DEF WorldOK, ChannelsOK
    <3> QED
      BY <3>3, <3>4 DEF WorldOK
  <2> HIDE DEF x
  <2> QED
    BY <1>0, <2>1, <2>4, BecomesOK
<1>8. CASE receiveDatagram(i)
  <2>1. Becomes(W(used(TRUE)))
    BY <1>1, <1>8 DEF receiveDatagram
  <2>2. WorldOK(W(used(TRUE)))
    BY <1>3, <1>5
  <2> HIDE DEF W, used
  <2> QED
    BY <1>0, <2>1, <2>2, BecomesOK
<1>9. CASE closeIfIdle(i)
  <2>1. \/ Becomes(W(idle)) \/ Becomes(W(used(FALSE)))
        \/ faces[i].persistency = "on-demand" /\ Becomes(fail(W(idle), i))
    BY <1>1, <1>9 DEF closeIfIdle
  <2>2. WorldOK(W(used(FALSE)))
    BY <1>3, <1>5
  <2>3. /\ WorldOK(W(idle)) /\ i \in DOMAIN W(idle).faces
        /\ W(idle).faces[i].persistency = faces[i].persistency
    BY <1>3, <1>5
  <2> HIDE DEF W, used, idle
  <2> QED
    BY <1>0, <2>1, <2>2, <2>3, FailOK, BecomesOK
<1> QED
  BY <1>6, <1>7, <1>8, <1>9

(* FaceManager::destroyFace. *)
LEMMA DestroyStep ==
  ASSUME FInv, NEW id \in DOMAIN table, destroyFace(id)
  PROVE  FInv'
<1> USE DEF FInv
<1> DEFINE i == table[id]
           g == [faces[i] EXCEPT !.destroyed = TRUE]
           w == [World EXCEPT !.faces[i] = g]
<1>1. /\ World.faces = faces /\ World.table = table
      /\ DOMAIN World = {"faces", "channels", "table", "lastId", "notices"}
  BY DEF World
<1>2. i \in DOMAIN faces /\ faces[i] \in FaceObject
  BY <1>1 DEF WorldOK, TableOK, IsWorld
<1>3. Becomes(fail(w, i)) /\ UNCHANGED <<answers, connects>>
  BY <1>1 DEF destroyFace
<1>4. SameLife(g, faces[i]) /\ g.destroyed
  BY <1>2 DEF SameLife, FaceObject
<1>5. FaceReplaced(w, World, i, g)
  BY <1>1 DEF FaceReplaced
<1> HIDE DEF g, w, i
<1>6. WorldOK(w) /\ i \in DOMAIN w.faces /\ w.faces[i].destroyed
  BY <1>1, <1>2, <1>4, <1>5, MarkedOK
<1> QED
  BY <1>3, <1>6, FailOK, BecomesOK, RequestsUnchanged

(* Every step preserves the invariant. *)
LEMMA FacesStep ==
  ASSUME FInv, [FacesNext]_faceVars
  PROVE  FInv'
<1>1. CASE UNCHANGED faceVars \/ \E s \in listening : ListenFails(s)
  <2>1. UNCHANGED <<faces, channels, table, lastId, notices, answers, connects>>
    BY <1>1 DEF faceVars, ListenFails
  <2> QED
    BY <2>1, WorldUnchanged, RequestsUnchanged DEF FInv
<1>2. CASE FacesNext
  BY <1>1, <1>2, Zenon, CommandStep, ConnectStep, PeerStep, EndStep, DestroyStep DEF FacesNext, Runs
<1> QED
  BY <1>1, <1>2

LEMMA FacesInvariance == FacesSpec => []FInv
<1>1. FacesInit => FInv
  <2> SUFFICES ASSUME FacesInit PROVE FInv
    OBVIOUS
  <2>1. faces = <<>> /\ lastId = 0 /\ connects = {} /\ answers = <<>>
        /\ DOMAIN channels = {} /\ DOMAIN table = {} /\ DOMAIN notices = {}
    BY DEF FacesInit
  <2>2. WorldOK(World)
    BY <2>1 DEF World, WorldOK, IsWorld, TableOK, ChannelsOK, KeptOK
  <2>3. RequestsOK
    BY <2>1 DEF RequestsOK, OneOutcome
  <2> QED
    BY <2>2, <2>3 DEF FInv
<1> QED
  BY <1>1, FacesStep, PTL DEF FacesSpec

(* The face table, the maps of the channels and the notifications name the     *)
(* same faces, for any number of endpoints, faces and commands: no endpoint    *)
(* has two faces, no face that failed is still found, and no identifier goes   *)
(* without being withdrawn.                                                    *)
THEOREM MapsAlwaysAgree == FacesSpec => []MapsAgree
<1>1. ASSUME FInv PROVE MapsAgree
  <2>1. TableOK(World, {}) /\ ChannelsOK(World)
    BY <1>1 DEF FInv, WorldOK
  <2>2. /\ World.faces = faces /\ World.channels = channels /\ World.table = table
        /\ World.notices = notices
    BY DEF World
  <2>3. \A id \in DOMAIN table : faces[table[id]].id = id
    BY <2>1, <2>2 DEF TableOK
  <2>4. {table[id] : id \in DOMAIN table} = {i \in DOMAIN faces : faces[i].up}
    BY <2>1, <2>2 DEF TableOK
  <2>5. \A i \in DOMAIN faces : faces[i].up =>
          CASE faces[i].scheme \in {"tcp", "udp"} -> channels[<<faces[i].scheme, faces[i].remote>>] = i
            [] faces[i].scheme = "ws" -> channels[<<"ws", i>>] = i
            [] OTHER -> TRUE
    BY <2>1, <2>2 DEF ChannelsOK
  <2>6. \A k \in DOMAIN channels : k[1] # "ws" => faces[channels[k]].up
    BY <2>1, <2>2 DEF ChannelsOK
  <2>7. {id \in DOMAIN notices : notices[id] = "created"} = DOMAIN table
    BY <2>1, <2>2 DEF TableOK
  <2> QED
    BY <2>3, <2>4, <2>5, <2>6, <2>7 DEF MapsAgree
<1> QED
  BY <1>1, FacesInvariance, PTL

(* The safety part of EveryRequestAnswered: a create command has one outcome, *)
(* for any number of commands and whatever the order in which attempts end,   *)
(* their timeouts run and the handlers of attempts that had ended before the  *)
(* timeout closed their socket.  A second answer only repeats the failure.    *)
THEOREM OneOutcomeOnly == FacesSpec => []OneOutcome
<1>1. FInv => OneOutcome
  BY DEF FInv, RequestsOK
<1> QED
  BY <1>1, FacesInvariance, PTL

(* The safety part of IdleFacesClose: a face that a command made or upgraded   *)
(* goes only by an error or a command.                                         *)
THEOREM PersistentFacesKept == FacesSpec => []PersistentFacesStay
<1>1. FInv => PersistentFacesStay
  BY DEF FInv, WorldOK, KeptOK, PersistentFacesStay, World
<1> QED
  BY <1>1, FacesInvariance, PTL

=============================================================================

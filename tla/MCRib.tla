------------------------------- MODULE MCRib -------------------------------
(* Instances of RibManager for TLC. *)
EXTENDS RibManager

A == <<"a">>
AB == <<"a", "b">>
ABC == <<"a", "b", "c">>

Route(f, o, c, i, k) ==
  [face |-> f, origin |-> o, cost |-> c, childInherit |-> i, capture |-> k, event |-> NoEvent]

Command(verb, name, route, expires) ==
  [verb |-> verb, name |-> name, route |-> route, expires |-> expires]

NoFlag(verb, name, f, o) == Command(verb, name, Route(f, o, 0, FALSE, FALSE), FALSE)

CONSTANTS f1, f2, f3, f4

Register(name, f, c, i, k) == Command("register", name, Route(f, 0, c, i, k), FALSE)
Unregister(name, f) == NoFlag("unregister", name, f, 0)

(* Three levels of prefixes, each with a face of its own; a route with         *)
(* capture, on one more face, stays once it is there.                          *)
LevelRequests ==
  {Register(A, f1, c, TRUE, FALSE) : c \in {1, 2}}
  \cup {Register(AB, f2, 1, i, FALSE) : i \in BOOLEAN}
  \cup {Register(ABC, f3, 1, FALSE, FALSE), Register(AB, f4, 1, FALSE, TRUE)}
  \cup {Unregister(A, f1), Unregister(AB, f2), Unregister(ABC, f3)}

(* Two prefixes, routes with and without an expiration.  A route that its     *)
(* child inherits gives its batch two commands on its own face.                *)
FaceRequests ==
  {Register(AB, f2, 1, FALSE, FALSE), Register(A, f1, 1, TRUE, FALSE), Unregister(A, f1),
   Command("register", A, Route(f2, 0, 1, FALSE, FALSE), TRUE)}

=============================================================================

-------------------------- MODULE PendingInterests --------------------------
(***************************************************************************)
(* What a node with a PIT promises its downstreams, without tables, timers *)
(* or upstreams: Data is delivered only to a face that asked for it and    *)
(* was not answered since, and one Data answers every matching request.    *)
(***************************************************************************)
CONSTANTS Faces, Keys, Datas,
          Matches(_, _),     \* may a cached Data answer a request at once?
          Answers(_, _)      \* does an arriving Data answer a pending request?

VARIABLES
  pending,     \* <<face, key>>: requests of a face not answered yet
  delivered    \* <<face, data>>: Data sent downstream in the last step

vars == <<pending, delivered>>

Init == pending = {} /\ delivered = {}

(* A request is recorded. *)
Ask(f, k) ==
  /\ pending' = pending \cup {<<f, k>>}
  /\ delivered' = {}

(* A request for which nobody waits is answered at once, or the answer is lost. *)
AnswerAtOnce(f, k, d) ==
  /\ Matches(k, d) /\ \A g \in Faces : <<g, k>> \notin pending
  /\ pending' = pending
  /\ delivered' \subseteq {<<f, d>>}

(* Data resolves every request it answers; no other face receives it. *)
Answer(d) ==
  /\ pending' = {r \in pending : ~Answers(r[2], d)}
  /\ delivered' \subseteq {<<r[1], d>> : r \in pending \ pending'}

(* All requests of a key are given up. *)
GiveUp(k) ==
  /\ pending' = {r \in pending : r[2] # k}
  /\ delivered' = {}

Idle == pending' = pending /\ delivered' = {}

Next ==
  \/ \E f \in Faces, k \in Keys : Ask(f, k)
  \/ \E f \in Faces, k \in Keys, d \in Datas : AnswerAtOnce(f, k, d)
  \/ \E d \in Datas : Answer(d)
  \/ \E k \in Keys : GiveUp(k)
  \/ Idle

Spec == Init /\ [][Next]_vars
=============================================================================

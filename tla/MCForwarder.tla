---------------------------- MODULE MCForwarder ----------------------------
(***************************************************************************)
(* Instances of Forwarder for TLC.  The clock counts units of 100 ms, the  *)
(* straggler time; Interest lifetimes are one or two units.                *)
(***************************************************************************)
EXTENDS Forwarder

CONSTANTS app, peer, up   \* a local face and two non-local ones

a == <<"a">>
ab == <<"a", "b">>
local == <<"localhost", "x">>

Fresh(name) == [name |-> name, mustBeFresh |-> TRUE]
Unfresh(name) == [name |-> name, mustBeFresh |-> FALSE]

MCInterest(key, nonce, lifetime) ==
  [key |-> key, nonce |-> nonce, lifetime |-> lifetime, nextHop |-> NoFace]

(* One name retransmitted under best-route2; one Interest has no lifetime field. *)
RetxInterests ==
  {MCInterest(Fresh(a), n, l) : n \in Nonces, l \in {1, 2}} \cup {MCInterest(Fresh(a), 1, -1)}
RetxDatas == {[name |-> ab, freshness |-> 0], [name |-> a, freshness |-> -1]}
RetxRoutes == {[prefix |-> a, face |-> up, cost |-> 1]}
RetxStrategy == [k \in {Fresh(a)} |-> "best-route2"]

(* Interests for /a, and one for the root that stale Data from the cache and  *)
(* Data under /localhost may answer; a local Interest under /localhost names  *)
(* a remote next hop.                                                         *)
PromiseInterests ==
  {MCInterest(Fresh(a), n, n) : n \in Nonces}
    \cup {MCInterest(Unfresh(<<>>), 1, 1), [MCInterest(Unfresh(local), 1, 1) EXCEPT !.nextHop = peer]}
PromiseDatas == {[name |-> ab, freshness |-> 0], [name |-> local, freshness |-> -1]}
PromiseRoutes == {[prefix |-> p, face |-> up, cost |-> 1] : p \in {a, <<>>}}
PromiseStrategy ==
  (Fresh(a) :> "best-route") @@ (Unfresh(<<>>) :> "multicast") @@ (Unfresh(local) :> "client-control")
=============================================================================

------------------------------ MODULE MCBridge ------------------------------
(***************************************************************************)
(* Instances of BridgeForwarder for TLC: two consumers, one of them on a   *)
(* remote face, and one face to the core.                                  *)
(***************************************************************************)
EXTENDS BridgeForwarder

CONSTANTS app, peer, core

a == <<"a">>
local == <<"localhost", "x">>
bridge == <<"bridge">>

Key(name) == [name |-> name, mustBeFresh |-> FALSE]
MCInterest(name, nonce, lifetime) ==
  [key |-> Key(name), nonce |-> nonce, lifetime |-> lifetime, nextHop |-> NoFace]
MCData(name, freshness) ==
  [name |-> bridge, supportingName |-> name, freshness |-> freshness]

EdgeInterests == {MCInterest(a, n, n) : n \in Nonces} \cup {MCInterest(local, 1, 1)}
EdgeDatas == {MCData(a, 0), MCData(local, -1)}
EdgeRoutes == {[prefix |-> <<>>, face |-> core, cost |-> 1]}
EdgeStrategy == [k \in {Key(a), Key(local)} |-> "best-route2"]
=============================================================================

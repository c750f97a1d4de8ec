-------------------------- MODULE MCPITlessNetwork --------------------------
(***************************************************************************)
(* Instances of PITlessNetwork for TLC.                                    *)
(***************************************************************************)
EXTENDS PITlessNetwork

CONSTANTS app, core1, core2, bridge, r1, r2, producer

a == <<"a">>
bridgeName == <<"bridge">>

Key(name) == [name |-> name, mustBeFresh |-> FALSE]
MCInterest(name, nonce) ==
  [key |-> Key(name), nonce |-> nonce, lifetime |-> 1, nextHop |-> NoFace]
MCStrategy == [k \in {Key(a)} |-> "best-route2"]
MCInterests == {MCInterest(a, n) : n \in Nonces}
MCRoutes == {[prefix |-> <<>>, face |-> core1, cost |-> 1]}
MCPeers == (core1 :> r1) @@ (core2 :> r2)

(* Links r1 - r2, and both with the bridge and the producer.  The route of *)
(* r2 to the producer comes and goes; without it r1 and r2 point to each other. *)
(* Data returns through r1 or directly.                                        *)
Hop(f, cost) == f :> cost
LineRoutes ==
  (r1 :> ((a :> (Hop(r2, 1) @@ Hop(producer, 2))) @@ (bridgeName :> Hop(bridge, 1))))
    @@ (r2 :> ((a :> Hop(r1, 2)) @@ (bridgeName :> Hop(bridge, 2))))
LineUpdates ==
  {[router |-> r2, prefix |-> a, face |-> producer, cost |-> 1],
   [router |-> r2, prefix |-> bridgeName, face |-> r1, cost |-> 1]}
=============================================================================

------------------------------ MODULE MCTables ------------------------------
(***************************************************************************)
(* The name tree with its tables, the Content Store, the Dead Nonce List   *)
(* and fragmentation: parts that share no state, each explored by itself   *)
(* from its initial states.                                                *)
(***************************************************************************)
EXTENDS MCNameTables, ContentStore, DeadNonceList, Ndnlp

VARIABLE part  \* the one that runs

vars == <<tableVars, csVars, dnlVars, lpVars, part>>

Init ==
  /\ part \in {"names", "cs", "dnl", "lp"}
  /\ NtInit
  /\ CsInit /\ (part # "cs" => policy = "fifo" /\ limit = Max(Limits))
  /\ DnlInit /\ (part # "dnl" => rate = 0)
  /\ LpInit /\ (part # "lp" => link = CHOOSE l \in Links : TRUE)

Next ==
  \/ part = "names" /\ NtNext /\ UNCHANGED <<csVars, dnlVars, lpVars, part>>
  \/ part = "cs" /\ CsNext /\ UNCHANGED <<tableVars, dnlVars, lpVars, part>>
  \/ part = "dnl" /\ DnlNext /\ UNCHANGED <<tableVars, csVars, lpVars, part>>
  \/ part = "lp" /\ LpNext /\ UNCHANGED <<tableVars, csVars, dnlVars, part>>

Spec ==
  /\ Init /\ [][Next]_vars
  /\ WF_dnlVars(part = "dnl" /\ DnlStep /\ UNCHANGED <<tableVars, csVars, lpVars, part>>)

(* A tree of packets around the name <<1>>, two of them with the same name. *)
MCPackets == {<<1, -1>>, <<1, -2>>, <<1, 1, -1>>, <<1, 2, 1, -1>>, <<1, 2, 2, -1>>}
MCFreshness == [p \in Packets |-> IF Len(p) = 4 THEN Forever ELSE Len(p) - 1]

Query(name, rightmost, fresh, excluded) ==
  [name |-> name, rightmost |-> rightmost, mustBeFresh |-> fresh, excluded |-> excluded]
MCLookups == {Query(<<1>>, TRUE, FALSE, {}), Query(<<1>>, TRUE, TRUE, {2}), Query(<<>>, FALSE, TRUE, {}),
              Query(<<1, 2>>, TRUE, FALSE, {2}), Query(<<1, -1>>, FALSE, TRUE, {})}

MCLinks == {[mtu |-> 30, sizes |-> {6, 12}], [mtu |-> 260, sizes |-> {400}]}
=============================================================================

------------------------------- MODULE MCParts -------------------------------
(***************************************************************************)
(* Parts around the forwarding core that share no state: the life of       *)
(* faces, the transfer over one stream face, the registration at a remote  *)
(* hub, the process itself, and the tool that discovers a hub.  Each is    *)
(* explored by itself.                                                     *)
(***************************************************************************)
EXTENDS Faces, StreamFace, RemoteRegistrator, Daemon, Autoconfig

CONSTANT Parts  \* the ones to explore

VARIABLE part   \* the one that runs

vars == <<faceVars, sfVars, rrVars, daemonVars, acVars, part>>

Init ==
  /\ part \in Parts
  /\ RrInit
  /\ FacesInit /\ (part # "faces" => listening = CHOOSE l \in Listeners : TRUE)
  /\ SfInit /\ (part # "stream" => ~ held /\ input = CHOOSE i \in Inputs : TRUE)
  /\ AcInit /\ (part # "autoconfig" => isDaemonMode)
  /\ DaemonInit /\ (part # "daemon" => file = CHOOSE f \in Files : TRUE)

RunFaces(A) == part = "faces" /\ A /\ UNCHANGED <<sfVars, rrVars, daemonVars, acVars, part>>
RunStream(A) == part = "stream" /\ A /\ UNCHANGED <<faceVars, rrVars, daemonVars, acVars, part>>
RunRegistrator(A) == part = "registrator" /\ A /\ UNCHANGED <<faceVars, sfVars, daemonVars, acVars, part>>
RunDaemon(A) == part = "daemon" /\ A /\ UNCHANGED <<faceVars, sfVars, rrVars, acVars, part>>
RunAutoconfig(A) == part = "autoconfig" /\ A /\ UNCHANGED <<faceVars, sfVars, rrVars, daemonVars, part>>

Next ==
  \/ RunFaces(FacesNext) \/ RunStream(SfNext)
  \/ RunRegistrator(RrNext) \/ RunDaemon(DaemonNext)
  \/ RunAutoconfig(AcNext)

(* Timeouts of connection attempts and idle timers run; commands to the       *)
(* hub end and refresh timers fire; threads that can go on do; what the tool  *)
(* waits for is answered or times out.                                        *)
Spec ==
  /\ Init /\ [][Next]_vars
  /\ WF_vars(RunFaces(AttemptTimesOut))
  /\ \A i \in 1 .. MaxFaces : WF_vars(RunFaces(IdleTimerRuns(i)))
  /\ \A n \in RegisteredNames :
       /\ WF_vars(RunRegistrator(RefreshStep(n)))
       /\ \A verb \in {"register", "unregister"} : WF_vars(RunRegistrator(CommandStep(verb, n)))
  /\ WF_vars(RunDaemon(MainStep)) /\ WF_vars(RunDaemon(NrdStep))
  /\ WF_vars(RunAutoconfig(\E kind \in Kinds : Answer(kind)))

-----------------------------------------------------------------------------
(* Elements that fill the buffer, and one that it cannot hold. *)
MCInputs == {<<1, 4, 6>>, <<2, 6>>, <<3>>}

(* Two identities, one for the whole of /a and one below it. *)
MCIdentities == <<<<"a", "rib">>, <<"a", "y">>>>
MCRibNames == {<<"a", "x">>, <<"a", "y", "z">>, <<"a", "y">>, <<"localhost", "a">>, REMOTE_HUB_PREFIX}

Section(name, value) == [name |-> name, value |-> value]
Authorize(privilege, valid) == [privileges |-> {privilege}, valid |-> valid]
Choice(prefix, strategy) == [prefix |-> prefix, strategy |-> strategy]
Tables(size, chosen) == Section("tables", [limit |-> size, choices |-> chosen])

(* Files with other sections, several of a name, and errors at each place. *)
MCFiles ==
  {<<Tables(1, <<Choice("/", "best-route"), Choice("/a", "ncc")>>), Section("general", 0),
     Section("authorizations", <<Authorize("fib", TRUE), Authorize("faces", TRUE)>>)>>,
   <<Section("rib", 0), Section("authorizations", <<Authorize("fib", TRUE)>>)>>,
   <<Section("authorizations", <<Authorize("faces", TRUE), Authorize("fib", FALSE)>>), Tables(2, <<>>)>>,
   <<Tables(2, <<>>), Section("face_system", 0), Section("authorizations", <<Authorize("fib", TRUE)>>)>>,
   <<Section("authorizations", <<Authorize("fib", TRUE)>>), Tables(1, <<Choice("/b", "ncc")>>),
     Tables(2, <<Choice("/a", "best-route")>>), Section("authorizations", <<Authorize("strategy", TRUE)>>)>>,
   <<Tables(2, <<Choice("/", "ncc"), Choice("/", "best-route")>>)>>,
   <<Section("authorizations", <<Authorize("fib", TRUE)>>), Tables(1, <<Choice("/b", "ncc"), Choice("/a", "none")>>)>>,
   <<Section("authorizations", <<>>)>>, <<Tables(Invalid, <<>>)>>,
   <<Section("general", Invalid)>>, <<Section("unknown", 0)>>}
=============================================================================

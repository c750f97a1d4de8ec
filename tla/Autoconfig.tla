----------------------------- MODULE Autoconfig -----------------------------
(***************************************************************************)
(* Discovery of a hub by ndn-autoconfig (tools/ndn-autoconfig): multicast, *)
(* then two DNS queries, then the connection to the hub that was found.    *)
(* As a daemon it starts anew every hour and five seconds after a change   *)
(* of the network, while commands of the run before may be unanswered.     *)
(*                                                                         *)
(* What is under way is counted by kind: answers of one kind are alike to  *)
(* the tool, whichever run they belong to.                                 *)
(***************************************************************************)
EXTENDS Integers, FiniteSets

CONSTANTS MaxMulticast,  \* multicast faces of NFD
          MaxStarts,     \* runs
          SizeBits       \* width of size_t

ASSUME AutoconfigAssumption == MaxMulticast \in Nat /\ MaxStarts \in Nat /\ SizeBits \in Nat

Kinds == {"faceList", "register", "setStrategy", "hubData", "canonize", "createFace", "prefix"}

VARIABLES
  isDaemonMode,      \* m_isDaemonMode
  startStagesEvent,  \* m_startStagesEvent is scheduled
  nStarts,
  awaited,           \* kind |-> number of answers that are to come
  regs,              \* [nRequestedRegs, nFinishedRegs]
  decided,           \* history: the last run has come to its end
  exited             \* the process has ended, by an exception or a signal

acVars == <<isDaemonMode, startStagesEvent, nStarts, awaited, regs, decided, exited>>

AcInit ==
  /\ isDaemonMode \in BOOLEAN /\ startStagesEvent = TRUE /\ nStarts = 0
  /\ awaited = [k \in Kinds |-> 0]
  /\ regs = [requested |-> 0, finished |-> 0]
  /\ decided = TRUE /\ exited = FALSE

-----------------------------------------------------------------------------
(* Handlers, from a state to the states they may lead to. *)
Begin(s, kind, n) == [s EXCEPT !.awaited[kind] = @ + n]
Throw(s) == [s EXCEPT !.exited = TRUE]
Wrap(n) == n % 2 ^ SizeBits

connectToHub(s) == Begin(s, "canonize", 1)

(* The SRV query names a hub or throws, upon which the next stage starts.      *)
(* After an error of the resolver the buffer is parsed although nothing was    *)
(* written to it, so that either may happen then.                              *)
querySrvRr(s, nextStage) == {connectToHub(s)} \cup nextStage

(* GuessFromIdentityName::start, the last stage.  Without a default identity   *)
(* it throws, daemon or not.                                                   *)
homeHub(s) ==
  querySrvRr(s, {Throw(s)} \cup (IF isDaemonMode THEN {[s EXCEPT !.decided = TRUE]} ELSE {}))

(* GuessFromSearchDomains::start. *)
searchDomains(s) == querySrvRr(s, homeHub(s))

registerHubDiscoveryPrefix(s, nFaces) ==
  IF nFaces = 0 THEN searchDomains(s)
  ELSE {[Begin(s, "register", nFaces) EXCEPT !.regs = [requested |-> nFaces, finished |-> 0],
                                             !.decided = FALSE]}

setStrategy(s) == Begin(s, "setStrategy", 1)

onRegisterSuccess(s) ==
  LET t == [s EXCEPT !.regs.finished = Wrap(@ + 1)]
  IN  {IF t.regs.requested = t.regs.finished THEN setStrategy(t) ELSE t}

(* Mutant: a failure that is the last answer goes unnoticed. *)
onRegisterFailureLast(s) ==
  LET t == [s EXCEPT !.regs.requested = Wrap(@ - 1)]
  IN  IF t.regs.requested = 0 /\ t.regs.finished = 0 THEN searchDomains(t) ELSE {t}

onRegisterFailure(s) ==
  LET t == [s EXCEPT !.regs.requested = Wrap(@ - 1)]
  IN  CASE t.regs.requested # t.regs.finished -> {t}
        [] t.regs.requested = t.regs.finished /\ t.regs.requested > 0 -> {setStrategy(t)}
        [] OTHER -> searchDomains(t)

requestHubData(s) == Begin(s, "hubData", 1)
onCanonizeSuccess(s) == Begin(s, "createFace", 1)
onHubConnectSuccess(s) == Begin(s, "prefix", 2)
onPrefixRegistrationSuccess(s) == [s EXCEPT !.decided = @ \/ s.awaited["prefix"] = 0]

-----------------------------------------------------------------------------
(* An answer, an error or a timeout of each kind; what does not decode throws. *)
Ends(kind, s) ==
  CASE kind = "faceList" -> {Throw(s)} \cup searchDomains(s) \cup
                              UNION {registerHubDiscoveryPrefix(s, n) : n \in 0 .. MaxMulticast}
    [] kind = "register" -> onRegisterSuccess(s) \cup onRegisterFailure(s)
    [] kind = "setStrategy" -> {requestHubData(s)} \cup searchDomains(s)
    [] kind = "hubData" -> {connectToHub(s), Throw(s)} \cup searchDomains(s)
    [] kind = "canonize" -> {onCanonizeSuccess(s), Throw(s)}
    [] kind = "createFace" -> {onHubConnectSuccess(s), Throw(s)}
    [] kind = "prefix" -> {onPrefixRegistrationSuccess(s), Throw(s)}

Answer(kind) ==
  /\ ~ exited /\ awaited[kind] > 0
  /\ \E s \in Ends(kind, [awaited |-> [awaited EXCEPT ![kind] = @ - 1],
                          regs |-> regs, decided |-> decided, exited |-> FALSE]) :
       awaited' = s.awaited /\ regs' = s.regs /\ decided' = s.decided /\ exited' = s.exited
  /\ UNCHANGED <<isDaemonMode, startStagesEvent, nStarts>>

(* MulticastDiscovery::start; the daemon schedules the next run. *)
startStages ==
  /\ ~ exited /\ startStagesEvent
  /\ nStarts < MaxStarts /\ nStarts' = nStarts + 1
  /\ startStagesEvent' = isDaemonMode
  /\ awaited' = [awaited EXCEPT !["faceList"] = @ + 1] /\ decided' = FALSE
  /\ UNCHANGED <<isDaemonMode, regs, exited>>

(* SIGINT and SIGTERM. *)
interrupt ==
  /\ ~ exited /\ isDaemonMode /\ exited' = TRUE
  /\ UNCHANGED <<isDaemonMode, startStagesEvent, nStarts, awaited, regs, decided>>

AcNext == startStages \/ interrupt \/ \E kind \in Kinds : Answer(kind)

-----------------------------------------------------------------------------
(* A discovery never gets stuck: it connects to a hub, runs out of stages, or *)
(* ends the tool, in whichever order registrations succeed and fail, and also *)
(* when answers to the run before are counted for it.                         *)
DiscoveryEnds == ~ decided ~> (decided \/ exited)

=============================================================================

------------------------------- MODULE Daemon -------------------------------
(***************************************************************************)
(* The nfd process: configuration and its reloading (daemon/nfd.cpp,       *)
(* core/config-file.cpp, the sections general, tables, authorizations and  *)
(* face_system), and the two threads of NFD and of the RIB manager with    *)
(* the pointer nrdIo between them (daemon/main.cpp, rib/nrd.cpp).          *)
(*                                                                         *)
(* A configuration file is a sequence of sections, of which only what      *)
(* decides over success and the settings is kept.  FaceManager::onConfig   *)
(* refuses every face_system section in this repository, while the RIB     *)
(* manager finds NFD by it; as the file is read again and again, and may   *)
(* be edited in between, all the combinations are met.                     *)
(***************************************************************************)
EXTENDS Integers, SequencesExt, FiniteSetsExt

CONSTANTS Files,          \* configuration files: sequences of [name, value]
          DefaultLimit,   \* DEFAULT_CS_MAX_PACKETS
          Invalid,        \* a value that cannot be read
          Strategies,     \* installed strategies
          MaxEdits

ASSUME DaemonAssumption ==
  /\ MaxEdits \in Nat /\ Invalid \notin Nat
  /\ \A f \in Files : Len(f) \in Nat /\ DOMAIN f = 1 .. Len(f)

VARIABLES
  file,        \* the file as it is on the disk
  edits,
  limit,       \* of the Content Store
  choices,     \* entries of StrategyChoice: prefix |-> strategy
  rules,       \* of the CommandValidator: privileges that were granted
  loaded,      \* the last file that was processed to its end
  main, nrd,   \* what the threads are about to do
  nrdIo,       \* nrdIo: whether it is set
  mainStopped, nrdStopped,  \* stop() was called on the io_service
  retval

configVars == <<limit, choices, rules, loaded>>
threadVars == <<main, nrd, nrdIo, mainStopped, nrdStopped, retval>>
daemonVars == <<file, edits, configVars, threadVars>>

DaemonInit ==
  /\ file \in Files /\ edits = 0
  /\ limit = 0 /\ rules = {} /\ loaded = <<>>
  /\ choices = [prefix \in {"/"} |-> "best-route"]  \* setDefaultStrategy
  /\ main = "dryRun" /\ nrd = "none" /\ nrdIo = FALSE
  /\ mainStopped = FALSE /\ nrdStopped = FALSE /\ retval = 0

-----------------------------------------------------------------------------
Has(f, name) == \E k \in DOMAIN f : f[k].name = name

(* Of several sections of a name the last one decides. *)
Value(f, name) == f[Max({k \in DOMAIN f : f[k].name = name})].value

(* CommandValidator::onConfig; the rules go first, also in a dry run.  An      *)
(* authorize section is what it grants before an error, if it has one.         *)
Refused(entries) == {k \in DOMAIN entries : ~ entries[k].valid}
Granted(entries) ==
  UNION {entries[k].privileges : k \in {l \in DOMAIN entries : \A r \in Refused(entries) : l =< r}}

(* What the handlers have set, and whether none of them has thrown. *)
Setting(valid, size, chosen, granted) ==
  [valid |-> valid, limit |-> size, choices |-> chosen, rules |-> granted]

(* Mutant: the rules of the file before stay. *)
onAuthorizationsAdded(s, entries, isDryRun) ==
  Setting(entries # <<>> /\ Refused(entries) = {}, s.limit, s.choices,
          IF isDryRun THEN s.rules ELSE s.rules \cup Granted(entries))

onAuthorizations(s, entries, isDryRun) ==
  Setting(entries # <<>> /\ Refused(entries) = {}, s.limit, s.choices,
          IF isDryRun THEN {} ELSE Granted(entries))

(* processSectionStrategyChoice: all are looked at before any is inserted, so *)
(* that StrategyChoice::insert finds each strategy installed.  Entries of     *)
(* other prefixes are left alone.                                             *)
Acceptable(chosen) ==
  /\ \A k \in DOMAIN chosen : chosen[k].strategy \in Strategies
  /\ \A k, l \in DOMAIN chosen : chosen[k].prefix = chosen[l].prefix => k = l

Chosen(old, chosen) ==
  LET prefixes == {chosen[k].prefix : k \in DOMAIN chosen}
      strategyOf(p) == chosen[CHOOSE k \in DOMAIN chosen : chosen[k].prefix = p].strategy
  IN  [p \in DOMAIN old \cup prefixes |-> IF p \in prefixes THEN strategyOf(p) ELSE old[p]]

(* TablesConfigSection::onConfig, with the value [limit, choices]: nothing is *)
(* set unless all is valid.  DefaultLimit is the limit of a section without   *)
(* cs_max_packets, <<>> the choices of one without strategy_choice.           *)
onTables(s, value, isDryRun) ==
  IF value.limit = Invalid \/ ~ Acceptable(value.choices) THEN Setting(FALSE, s.limit, s.choices, s.rules)
  ELSE IF isDryRun THEN s
  ELSE Setting(TRUE, value.limit, Chosen(s.choices, value.choices), s.rules)

(* The handler of general throws for a user or a group that it cannot read,   *)
(* that of face_system always, and so does the one of unknown sections.       *)
onSection(s, section, isDryRun) ==
  CASE section.name = "authorizations" -> onAuthorizations(s, section.value, isDryRun)
    [] section.name = "tables" -> onTables(s, section.value, isDryRun)
    [] section.name \in {"rib", "log"} \/ (section.name = "general" /\ section.value # Invalid) -> s
    [] OTHER -> Setting(FALSE, s.limit, s.choices, s.rules)

(* ConfigFile::process: handlers are called in turn, up to one that throws. *)
process(f, isDryRun, settings) ==
  LET after[k \in 0 .. Len(f)] ==
        IF k = 0 THEN Setting(f # <<>>, settings.limit, settings.choices, settings.rules)
        ELSE IF after[k - 1].valid THEN onSection(after[k - 1], f[k], isDryRun)
        ELSE after[k - 1]
  IN  after[Len(f)]

Settings == Setting(TRUE, limit, choices, rules)

Processed(r) ==
  /\ limit' = r.limit /\ choices' = r.choices /\ rules' = r.rules
  /\ loaded' = IF r.valid THEN file ELSE loaded

(* The file is edited. *)
Edit ==
  /\ edits < MaxEdits /\ edits' = edits + 1 /\ file' \in Files \ {file}
  /\ UNCHANGED <<configVars, threadVars>>

-----------------------------------------------------------------------------
(* Nfd::initialize, with both passes over the file; then the second thread.   *)
DryRun ==
  /\ main = "dryRun"
  /\ LET r == process(file, TRUE, Settings)
     IN  /\ limit' = r.limit /\ choices' = r.choices /\ rules' = r.rules
         /\ main' = IF r.valid THEN "load" ELSE "exited"
         /\ retval' = IF r.valid THEN 0 ELSE 2
  /\ UNCHANGED <<file, edits, loaded, nrd, nrdIo, mainStopped, nrdStopped>>

Load ==
  /\ main = "load"
  /\ LET r == process(file, FALSE, Settings)
         s == IF Has(file, "tables") \/ ~ r.valid THEN r
              ELSE Setting(r.valid, DefaultLimit, r.choices, r.rules)
     IN  /\ Processed(s)
         /\ main' = IF r.valid THEN "wait" ELSE "exited"
         /\ nrd' = IF r.valid THEN "start" ELSE "none"
         /\ retval' = IF r.valid THEN 0 ELSE 2
  /\ UNCHANGED <<file, edits, nrdIo, mainStopped, nrdStopped>>

(* The main thread waits for nrdIo != nullptr. *)
Wakes ==
  /\ main = "wait" /\ nrdIo /\ main' = "run"
  /\ UNCHANGED <<file, edits, configVars, nrd, nrdIo, mainStopped, nrdStopped, retval>>

(* SIGHUP: reloadConfigFile, without a dry run; what it throws ends run().    *)
Reload ==
  /\ main = "run" /\ ~ mainStopped
  /\ LET r == process(file, FALSE, Settings)
     IN  /\ Processed(r)
         /\ main' = IF r.valid THEN "run" ELSE "stop"
         /\ retval' = IF r.valid THEN retval ELSE 4
  /\ UNCHANGED <<file, edits, nrd, nrdIo, mainStopped, nrdStopped>>

(* reloadConfigFileFaceSection, after a change of the network. *)
ReloadFaceSection ==
  /\ main = "run" /\ ~ mainStopped /\ Has(file, "face_system")
  /\ main' = "stop" /\ retval' = 4
  /\ UNCHANGED <<file, edits, configVars, nrd, nrdIo, mainStopped, nrdStopped>>

(* SIGINT and SIGTERM. *)
terminate ==
  /\ main = "run" /\ ~ mainStopped /\ mainStopped' = TRUE
  /\ UNCHANGED <<file, edits, configVars, main, nrd, nrdIo, nrdStopped, retval>>

RunReturns ==
  /\ main = "run" /\ mainStopped /\ main' = "stop"
  /\ UNCHANGED <<file, edits, configVars, nrd, nrdIo, mainStopped, nrdStopped, retval>>

(* Mutant: nrdIo is not stopped. *)
stopNrdNot ==
  /\ main = "stop" /\ main' = "join" /\ nrdIo' = FALSE /\ nrdStopped' = nrdStopped
  /\ UNCHANGED <<file, edits, configVars, nrd, mainStopped, retval>>

(* nrdIo->stop(), if it is there. *)
stopNrd ==
  /\ main = "stop" /\ main' = "join" /\ nrdIo' = FALSE /\ nrdStopped' = (nrdStopped \/ nrdIo)
  /\ UNCHANGED <<file, edits, configVars, nrd, mainStopped, retval>>

Join ==
  /\ main = "join" /\ nrd = "ended" /\ main' = "exited"
  /\ UNCHANGED <<file, edits, configVars, nrd, nrdIo, mainStopped, nrdStopped, retval>>

-----------------------------------------------------------------------------
(* The thread of the RIB manager. *)
NrdStarts ==
  /\ nrd = "start" /\ nrd' = "initialize" /\ nrdIo' = TRUE
  /\ UNCHANGED <<file, edits, configVars, main, mainStopped, nrdStopped, retval>>

(* Nrd::initialize fails without a transport to NFD, or for other reasons. *)
NrdInitializes ==
  /\ nrd = "initialize"
  /\ nrd' \in IF Has(file, "face_system") THEN {"run", "failed"} ELSE {"failed"}
  /\ UNCHANGED <<file, edits, configVars, main, nrdIo, mainStopped, nrdStopped, retval>>

NrdThrows ==
  /\ nrd = "run" /\ ~ nrdStopped /\ nrd' = "failed"
  /\ UNCHANGED <<file, edits, configVars, main, nrdIo, mainStopped, nrdStopped, retval>>

NrdReturns ==
  /\ nrd = "run" /\ nrdStopped /\ nrd' = "clear"
  /\ UNCHANGED <<file, edits, configVars, main, nrdIo, mainStopped, nrdStopped, retval>>

(* What was thrown is caught: the other thread is stopped. *)
NrdFailed ==
  /\ nrd = "failed" /\ nrd' = "clear" /\ retval' = 6 /\ mainStopped' = TRUE
  /\ UNCHANGED <<file, edits, configVars, main, nrdIo, nrdStopped>>

NrdEnds ==
  /\ nrd = "clear" /\ nrd' = "ended" /\ nrdIo' = FALSE
  /\ UNCHANGED <<file, edits, configVars, main, mainStopped, nrdStopped, retval>>

MainStep == DryRun \/ Load \/ Wakes \/ RunReturns \/ stopNrd \/ Join
NrdStep == NrdStarts \/ NrdInitializes \/ NrdReturns \/ NrdFailed \/ NrdEnds

DaemonNext == Edit \/ MainStep \/ Reload \/ ReloadFaceSection \/ terminate \/ NrdStep \/ NrdThrows

DaemonSpec == DaemonInit /\ [][DaemonNext]_daemonVars

-----------------------------------------------------------------------------
(* A daemon that serves does so under one whole file: what a reload did       *)
(* before it failed half-way (the rules are reset before the new ones are     *)
(* read, and the sections are applied one by one, config-file.cpp:130-145) is *)
(* never seen, as the failure ends the daemon.  Where the file has the        *)
(* section, the privileges and the limit are those of its last one and        *)
(* nothing of the files before; and every strategy choice of the last tables  *)
(* section is in force.  Choices of the files before stay for the prefixes    *)
(* that this one does not name, as the code never erases any.  Commands that  *)
(* set or unset a strategy are not among the steps.                           *)
ServesWholeFile ==
  main \in {"wait", "run"} =>
    /\ Has(loaded, "authorizations") =>
         rules = UNION {e.privileges : e \in ToSet(Value(loaded, "authorizations"))}
    /\ Has(loaded, "tables") =>
         /\ limit = Value(loaded, "tables").limit
         /\ \A c \in ToSet(Value(loaded, "tables").choices) :
              c.prefix \in DOMAIN choices /\ choices[c.prefix] = c.strategy

(* "nrdIo is guaranteed to be alive at this point" (main.cpp:179): the        *)
(* io_service belongs to the other thread, and goes with it.                  *)
NrdIoAlive == main = "stop" /\ nrdIo => nrd # "ended"

(* Once the main thread returns from run() the process ends, whatever the     *)
(* other thread was doing, also if it has not begun to run, and the           *)
(* io_service that it stops is alive.                                         *)
ProcessEnds ==
  /\ []NrdIoAlive
  /\ (main = "stop") ~> (main = "exited")

(* "when RIB manager fails, NFD will be terminated" (main.cpp:58-59). *)
NrdFailureEndsNfd == (nrd = "failed") ~> (main = "exited")

=============================================================================

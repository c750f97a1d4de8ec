----------------------------- MODULE Strategies -----------------------------
(***************************************************************************)
(* The NCC strategy (daemon/fw/ncc-strategy.cpp) and the access strategy   *)
(* (access-strategy.cpp) on one PIT entry, with their timers, what they    *)
(* keep in the measurements table, and changes of the strategy choice      *)
(* while an Interest is pending.                                           *)
(*                                                                         *)
(* Durations are left open: a scheduled event may run at any time, records *)
(* expire at any time that is consistent with Interests of one lifetime.   *)
(* The measurements table is cut down to the names around the PIT entry:   *)
(* its parent, its own name and a name below; NameTables has the table     *)
(* itself.  The predictions and RTT estimates only set durations.          *)
(***************************************************************************)
EXTENDS Integers, SequencesExt, FiniteSetsExt

CONSTANTS Upstreams, Downstreams,  \* faces
          Hops,          \* the NextHopLists the FIB entry may have
          MaxInterests,  \* Interests received
          MaxTimers,     \* events scheduled at a time
          MaxChanges,    \* strategy choice commands
          DataLevels,    \* how long the names of Data are
          ChoiceLevels,  \* where strategy choice commands apply
          MayAbstain,    \* retransmissions may be suppressed
          NoFace, NoEntry, NoInfo  \* null pointers

(* Names by their length: the PIT entry's name is Own. *)
Parent == 1
Own == 2
Levels == Parent .. Own + 2

Faces == Upstreams \cup Downstreams
NoTimer == 0

(* StrategyInfo of NCC on a PIT entry, and what is modelled of PIT entries.   *)
NccInfos == [bestFaceTimeout : Nat, propagateTimer : Nat]
PitEntries ==
  [ins : SUBSET Faces, outs : UNION {[D -> SUBSET Faces] : D \in SUBSET Faces}, old : SUBSET Faces,
   ncc : NccInfos \cup {NoInfo}, rto : Nat, answered : BOOLEAN, straggler : BOOLEAN]

ASSUME StrategiesAssumption ==
  /\ MaxInterests \in Nat /\ MaxTimers \in Nat /\ MaxChanges \in Nat
  /\ MayAbstain \in BOOLEAN
  /\ DataLevels \subseteq Own .. Own + 2 /\ ChoiceLevels \subseteq Parent .. Own + 1
  /\ Hops \subseteq Seq(Faces)
  /\ NoInfo \notin NccInfos /\ NoEntry \notin PitEntries

VARIABLES
  up,       \* faces of the face table
  hops,     \* next hops of the FIB entry, cheapest first; empty when it is gone
  pit,      \* the PIT entry
  timers,   \* scheduled events: [id, kind, except]
  choice,   \* strategy choice entries: level |-> "ncc", "access" or "inherit"
  mt,       \* measurements entries: level |-> [exists, ncc, access]
  fault,    \* what a failed assertion was about, or "none"
  received, changes

stVars == <<up, hops, pit, timers, choice, mt, fault, received, changes>>

NoMeasurements == [exists |-> FALSE, ncc |-> NoInfo, access |-> NoInfo]

(* findEffectiveStrategy of the name at a level: the closest choice above it. *)
effective(ch, l) == ch[Max({k \in Parent .. l : ch[k] # "inherit"})]

StInit ==
  /\ up = Faces
  /\ hops \in Hops
  /\ pit = NoEntry /\ timers = {} /\ fault = "none"
  /\ choice \in {[l \in Levels |-> IF l = Parent THEN s ELSE "inherit"] : s \in {"ncc", "access"}}
  /\ mt = [l \in Levels |-> NoMeasurements]
  /\ received = 0 /\ changes = 0

-----------------------------------------------------------------------------
(* The PIT entry.  ins: downstreams with an unexpired in-record; outs: face   *)
(* with an unexpired out-record |-> in-records that will expire no later;     *)
(* old: faces with an expired out-record; ncc: PitEntryInfo of NCC;           *)
(* rto: rtoTimer of the access strategy's PitInfo; answered: Data has deleted *)
(* the in-records; straggler: the straggler timer is set.                     *)
NewPitEntry == [ins |-> {}, outs |-> [f \in {} |-> {}], old |-> {}, ncc |-> NoInfo,
                rto |-> NoTimer, answered |-> FALSE, straggler |-> FALSE]

canForwardToFace(e, f) == f \notin DOMAIN e.outs /\ \E g \in e.ins : g # f

(* Strategy::sendInterest to faces: the outgoing Interest pipeline renews the *)
(* records.                                                                   *)
sentToAll(e, fs) == [e EXCEPT !.outs = [g \in DOMAIN @ \cup fs |-> IF g \in fs THEN e.ins ELSE @[g]],
                              !.old = @ \ fs]

sent(e, f) == sentToAll(e, {f})

(* The first next hop that is eligible, as a set. *)
eligible(e) ==
  {hops[k] : k \in {i \in DOMAIN hops : /\ canForwardToFace(e, hops[i])
                                       /\ \A j \in 1 .. i - 1 : ~ canForwardToFace(e, hops[j])}}

(* scheduler::schedule with a new EventId, and scheduler::cancel. *)
FreshId(ts) == CHOOSE i \in 1 .. MaxTimers + 2 : \A t \in ts : t.id # i
scheduled(ts, kind, except) == ts \cup {[id |-> FreshId(ts), kind |-> kind, except |-> except]}
cancelled(ts, id) == {t \in ts : t.id # id}

(* Handles of an event that ran or was cancelled stand for nothing. *)
released(e, id) ==
  LET Off(i) == IF i = id THEN NoTimer ELSE i
  IN  [e EXCEPT !.rto = Off(@),
                !.ncc = IF @ = NoInfo THEN @
                        ELSE [bestFaceTimeout |-> Off(@.bestFaceTimeout),
                              propagateTimer |-> Off(@.propagateTimer)]]

(* What a trigger or a timer of a strategy works on and changes. *)
World(e, ts, m, failed) == [pit |-> e, timers |-> ts, mt |-> m, fault |-> failed]
State == World(pit, timers, mt, "none")

Becomes(s) ==
  /\ pit' = s.pit /\ timers' = s.timers /\ mt' = s.mt /\ fault' = s.fault
  /\ Cardinality(s.timers) =< MaxTimers

-----------------------------------------------------------------------------
(* NccStrategy::getMeasurementsEntryInfo: found, or made from the parent's if *)
(* that is in the strategy's namespace; getParent makes the parent's entry    *)
(* in any case.                                                               *)
BlankNcc == [best |-> NoFace, previous |-> NoFace]

nccInfoAt(m, l) == IF m[l].ncc = NoInfo THEN BlankNcc ELSE m[l].ncc

getMeasurementsEntryInfo(m) ==
  IF m[Own].ncc # NoInfo THEN [m EXCEPT ![Own].exists = TRUE]
  ELSE LET inside == effective(choice, Parent) = "ncc"
           parent == nccInfoAt(m, Parent)
       IN  [m EXCEPT ![Parent].exists = TRUE,
                     ![Parent].ncc = IF inside THEN parent ELSE @,
                     ![Own].exists = TRUE,
                     ![Own].ncc = IF inside THEN parent ELSE BlankNcc]

(* getBestFace: the best face, else the previous one takes its place. *)
getBestFace(info) == IF info.best \in up THEN info
                     ELSE [info EXCEPT !.best = IF info.previous \in up THEN info.previous ELSE NoFace]

updateBestFace(info, f) ==
  CASE info.best \notin up -> [info EXCEPT !.best = f]
    [] info.best = f -> info
    [] OTHER -> [best |-> f, previous |-> info.best]

(* The levels beforeSatisfyInterest and timeoutOnBestFace walk: own and       *)
(* parent, while they are in the strategy's namespace.                        *)
nccLevels == {l \in {Own, Parent} : effective(choice, l) = "ncc"}

bestFaceUpdated(m, f) ==
  [l \in Levels |->
     IF l \in nccLevels
     THEN [m[l] EXCEPT !.exists = TRUE, !.ncc = updateBestFace(nccInfoAt(getMeasurementsEntryInfo(m), l), f)]
     ELSE [m[l] EXCEPT !.exists = m[l].exists \/ l = Parent]]

(* The previous face is not among the remaining upstreams: doPropagate starts *)
(* with it.  e1 is the entry e after the first Interest was sent.             *)
previousCounts(e, e1, previous) == previous \in ToSet(hops) \cap up /\ canForwardToFace(e1, previous)

(* afterReceiveInterest.  The EventIds of earlier timers are overwritten,     *)
(* which cancels nothing.                                                     *)
nccAfterReceiveInterest(s) ==
  LET e == [s.pit EXCEPT !.ncc = IF @ = NoInfo THEN [bestFaceTimeout |-> NoTimer, propagateTimer |-> NoTimer] ELSE @]
      m == getMeasurementsEntryInfo(s.mt)
      info == getBestFace(m[Own].ncc)
      useBest == info.best \in ToSet(hops) /\ canForwardToFace(e, info.best)
      e1 == sentToAll(e, IF useBest THEN {info.best} ELSE eligible(e))
      t1 == IF useBest THEN scheduled(s.timers, "bestFaceTimeout", {}) ELSE s.timers
      usePrevious == previousCounts(e, e1, info.previous)
      nUpstreams == Len(hops) - (IF useBest THEN 1 ELSE 0) - (IF usePrevious THEN 1 ELSE 0)
      t2 == scheduled(t1, "propagateTimer", {})
  IN  CASE hops = <<>> -> [s EXCEPT !.pit.straggler = DOMAIN s.pit.outs = {}]
        [] hops # <<>> /\ DOMAIN e.outs # {} -> [s EXCEPT !.pit = e]
        [] OTHER ->
             World([e1 EXCEPT !.ncc = [bestFaceTimeout |-> IF useBest THEN FreshId(s.timers) ELSE @.bestFaceTimeout,
                                       propagateTimer |-> FreshId(t1)]],
                   t2, [m EXCEPT ![Own].ncc = info], IF nUpstreams < 0 THEN "nUpstreams" ELSE "none")

(* Mutant: one more next hop and no more. *)
nccPropagateOnce(s) ==
  LET m == getMeasurementsEntryInfo(s.mt)
  IN  IF s.pit.ncc = NoInfo THEN [s EXCEPT !.fault = "pitEntryInfo"]
      ELSE [s EXCEPT !.pit = sentToAll(s.pit, eligible(s.pit)), !.mt = m]

(* doPropagate on a PIT entry and FIB entry that are both still there. *)
nccDoPropagate(s) ==
  LET m == getMeasurementsEntryInfo(s.mt)
      previous == m[Own].ncc.previous
      e1 == IF previous \in ToSet(hops) \cap up /\ canForwardToFace(s.pit, previous)
            THEN sent(s.pit, previous) ELSE s.pit
      next == eligible(e1)
      e2 == sentToAll(e1, next)
  IN  CASE s.pit.ncc = NoInfo -> [s EXCEPT !.fault = "pitEntryInfo"]
        [] s.pit.ncc # NoInfo /\ next = {} -> World(e1, s.timers, m, "none")
        [] OTHER -> World([e2 EXCEPT !.ncc = [bestFaceTimeout |-> @.bestFaceTimeout,
                                              propagateTimer |-> FreshId(s.timers)]],
                          scheduled(s.timers, "propagateTimer", {}), m, "none")

(* timeoutOnBestFace: the prediction goes up at two levels; what remains of   *)
(* it here are the entries it makes.                                          *)
nccTimeoutOnBestFace(s) ==
  IF effective(choice, Own) # "ncc" THEN [s EXCEPT !.mt[Own].exists = TRUE]
  ELSE [s EXCEPT !.mt = [getMeasurementsEntryInfo(s.mt) EXCEPT ![Parent].exists = TRUE]]

(* beforeSatisfyInterest: only the propagate timer is cancelled, and not if   *)
(* the walk up the levels leaves the namespace of the strategy.               *)
nccBeforeSatisfyInterest(s, f) ==
  IF s.pit.answered THEN s
  ELSE LET m == bestFaceUpdated(s.mt, f)
           timer == s.pit.ncc.propagateTimer
       IN  IF s.pit.ncc = NoInfo \/ Parent \notin nccLevels THEN [s EXCEPT !.mt = m]
           ELSE World(released(s.pit, timer), cancelled(s.timers, timer), m, "none")

-----------------------------------------------------------------------------
(* The access strategy.  findPrefixMeasurements: the longest measurements     *)
(* entry, hidden if it is outside the namespace, must have MtInfo.            *)
longestMeasurements(m) ==
  CASE m[Own].exists -> Own [] ~ m[Own].exists /\ m[Parent].exists -> Parent [] OTHER -> 0

multicast(e, except) == sentToAll(e, ToSet(hops) \ except)

(* Mutant: the handle is a plain EventId. *)
sendToLastUncancelled(s, f, last) ==
  [s EXCEPT !.pit = [sent(s.pit, last) EXCEPT !.rto = FreshId(s.timers)],
            !.timers = scheduled(s.timers, "rtoTimer", {f, last})]

(* sendToLastNexthop; rtoTimer is a ScopedEventId, assignment cancels.        *)
sendToLastNexthop(s, f, last) ==
  LET ts == cancelled(s.timers, s.pit.rto)
  IN  World([sent(s.pit, last) EXCEPT !.rto = FreshId(ts)], scheduled(ts, "rtoTimer", {f, last}), s.mt, "none")

accessNewInterest(s, f) ==
  LET me == longestMeasurements(s.mt)
      hasInfo == me # 0 /\ effective(choice, me) = "access"
      last == s.mt[me].access
  IN  CASE ~ hasInfo -> [s EXCEPT !.pit = multicast(s.pit, {f})]
        [] hasInfo /\ last = NoInfo -> [s EXCEPT !.fault = "MtInfo"]
        [] hasInfo /\ last # NoInfo /\ last # f /\ last \in up \cap ToSet(hops) ->
             sendToLastNexthop(s, f, last)
        [] OTHER -> [s EXCEPT !.pit = multicast(s.pit, {f})]

(* afterReceiveInterest with RetxSuppressionFixed::decide: an Interest is new *)
(* without unexpired out-records, else a retransmission, which is suppressed  *)
(* or multicast.  The set of the possible outcomes.                           *)
accessAfterReceiveInterest(s, f) ==
  IF DOMAIN s.pit.outs = {} THEN {accessNewInterest(s, f)}
  ELSE {[s EXCEPT !.pit = multicast(s.pit, {f})]} \cup (IF MayAbstain THEN {s} ELSE {})

accessAfterRtoTimeout(s, except) == [s EXCEPT !.pit = multicast(s.pit, except)]

(* addPrefixMeasurements: the entry of the parent of the Data name or, if it  *)
(* is outside the namespace, of the Data name itself.                         *)
accessUpdateMeasurements(s, f, data) ==
  LET over == data - 1
      inside == effective(choice, over) = "access"
      at == IF inside THEN over ELSE data
      m == [s.mt EXCEPT ![over].exists = TRUE, ![at].exists = TRUE]
  IN  IF effective(choice, at) # "access" THEN World(s.pit, s.timers, m, "data outside namespace")
      ELSE [s EXCEPT !.mt = [m EXCEPT ![at].access = f]]

accessBeforeSatisfyInterest(s, f, data) ==
  LET stopped == World([s.pit EXCEPT !.rto = NoTimer], cancelled(s.timers, s.pit.rto), s.mt, "none")
  IN  IF s.pit.answered \/ f \notin DOMAIN s.pit.outs \cup s.pit.old THEN stopped
      ELSE accessUpdateMeasurements(stopped, f, data)

-----------------------------------------------------------------------------
(* The incoming Interest pipeline up to the trigger of the strategy. *)
interestReceived(e, f) == [e EXCEPT !.ins = @ \cup {f}, !.answered = FALSE, !.straggler = FALSE,
                                    !.outs = [g \in DOMAIN @ |-> @[g] \ {f}]]

IncomingInterest(f) ==
  /\ received < MaxInterests /\ f \in up
  /\ received' = received + 1
  /\ LET e == IF pit = NoEntry THEN NewPitEntry ELSE pit
         s == World(interestReceived(e, f), timers, mt, "none")
     IN  \E after \in IF effective(choice, Own) = "ncc" THEN {nccAfterReceiveInterest(s)}
                      ELSE accessAfterReceiveInterest(s, f) :
           Becomes(after)
  /\ UNCHANGED <<up, hops, choice, changes>>

(* Data with the PIT entry's name or a longer one satisfies it: the trigger,  *)
(* then the in-records and the out-record of the face go.                     *)
dataReceived(e, f) == [e EXCEPT !.ins = {}, !.answered = TRUE, !.straggler = TRUE, !.old = @ \ {f},
                                !.outs = [g \in DOMAIN @ \ {f} |-> {}]]

IncomingData(f, data) ==
  /\ pit # NoEntry /\ f \in up
  /\ LET s == IF effective(choice, Own) = "ncc" THEN nccBeforeSatisfyInterest(State, f)
              ELSE accessBeforeSatisfyInterest(State, f, data)
     IN  Becomes([s EXCEPT !.pit = dataReceived(s.pit, f)])
  /\ UNCHANGED <<up, hops, choice, received, changes>>

(* An event runs; those on a PIT entry that is gone do nothing. *)
TimerRuns(t) ==
  /\ LET s == World(IF pit = NoEntry THEN pit ELSE released(pit, t.id), timers \ {t}, mt, "none")
     IN  Becomes(CASE pit = NoEntry -> s
                   [] pit # NoEntry /\ t.kind = "bestFaceTimeout" -> nccTimeoutOnBestFace(s)
                   [] pit # NoEntry /\ t.kind # "bestFaceTimeout" /\ hops = <<>> -> s
                   [] pit # NoEntry /\ t.kind = "propagateTimer" /\ hops # <<>> -> nccDoPropagate(s)
                   [] OTHER -> accessAfterRtoTimeout(s, t.except))
  /\ UNCHANGED <<up, hops, choice, received, changes>>

(* Records expire, those of an earlier Interest first. *)
RecordExpires(f) ==
  /\ pit # NoEntry
  /\ \/ f \in pit.ins
        /\ pit' = [pit EXCEPT !.ins = @ \ {f}, !.outs = [g \in DOMAIN @ |-> @[g] \ {f}]]
     \/ f \in DOMAIN pit.outs /\ pit.outs[f] = {}
        /\ pit' = [pit EXCEPT !.outs = [g \in DOMAIN @ \ {f} |-> @[g]], !.old = @ \cup {f}]
  /\ UNCHANGED <<up, hops, timers, choice, mt, fault, received, changes>>

(* The timers that the StrategyInfo of a PIT entry holds the EventIds of: its *)
(* destructor cancels them.                                                   *)
HeldTimers(e) == {e.rto} \cup IF e.ncc = NoInfo THEN {} ELSE {e.ncc.bestFaceTimeout, e.ncc.propagateTimer}

(* The straggler or unsatisfy timer erases the PIT entry. *)
EraseEntry ==
  /\ pit # NoEntry /\ (pit.straggler \/ pit.ins = {})
  /\ timers' = {t \in timers : t.id \notin HeldTimers(pit)}
  /\ pit' = NoEntry
  /\ UNCHANGED <<up, hops, choice, mt, fault, received, changes>>

(* The face table drops a face, the FIB its next hop. *)
FaceRemoved(f) ==
  /\ f \in up \cap Upstreams
  /\ up' = up \ {f}
  /\ hops' = IF f \in ToSet(hops) THEN RemoveAt(hops, CHOOSE k \in DOMAIN hops : hops[k] = f) ELSE hops
  /\ UNCHANGED <<pit, timers, choice, mt, fault, received, changes>>

(* StrategyChoice::insert and erase: the levels whose effective strategy the  *)
(* entry decides lose their StrategyInfo.                                     *)
ChangeStrategy(l, s) ==
  /\ changes < MaxChanges /\ changes' = changes + 1
  /\ choice[l] # s /\ (l = Parent => s # "inherit")
  /\ choice' = [choice EXCEPT ![l] = s]
  /\ LET cleared == {k \in Levels : effective(choice, k) # effective(choice', k)}
     IN  /\ mt' = [k \in Levels |->
                     IF k \in cleared THEN [mt[k] EXCEPT !.ncc = NoInfo, !.access = NoInfo] ELSE mt[k]]
         /\ IF pit # NoEntry /\ Own \in cleared
            THEN /\ timers' = {t \in timers : t.id \notin HeldTimers(pit)}
                 /\ pit' = [pit EXCEPT !.ncc = NoInfo, !.rto = NoTimer]
            ELSE UNCHANGED <<pit, timers>>
  /\ UNCHANGED <<up, hops, fault, received>>

(* Measurements::cleanup of an entry that nobody extended. *)
MeasurementsExpire(l) ==
  /\ mt[l].exists
  /\ mt' = [mt EXCEPT ![l] = NoMeasurements]
  /\ UNCHANGED <<up, hops, pit, timers, choice, fault, received, changes>>

StNext ==
  /\ fault = "none"
  /\ \/ \E f \in Downstreams : IncomingInterest(f)
     \/ \E f \in Upstreams, data \in DataLevels : IncomingData(f, data)
     \/ \E t \in timers : TimerRuns(t)
     \/ \E f \in Faces : RecordExpires(f)
     \/ EraseEntry
     \/ \E f \in Faces : FaceRemoved(f)
     \/ \E l \in ChoiceLevels, s \in {"ncc", "access", "inherit"} : ChangeStrategy(l, s)
     \/ \E l \in Levels : MeasurementsExpire(l)

(* Scheduled events run, and records expire. *)
StFairness == /\ WF_stVars(\E t \in timers : TimerRuns(t) /\ fault = "none")
              /\ WF_stVars(EraseEntry /\ fault = "none")

StSpec == StInit /\ [][StNext]_stVars /\ StFairness

-----------------------------------------------------------------------------
(* A next hop that the pending Interest may still be forwarded to. *)
Untried(f) ==
  /\ fault = "none" /\ pit # NoEntry /\ f \in ToSet(hops)
  /\ ~ pit.answered /\ f \notin pit.old /\ canForwardToFace(pit, f)

TimerToTry(f) ==
  \E t \in timers :
    \/ pit.ncc # NoInfo /\ t.id = pit.ncc.propagateTimer
    \/ t.id = pit.rto /\ f \notin t.except

(* Once the strategy choice is settled, while no Data comes, every eligible   *)
(* next hop is eventually tried: NCC goes on propagating to the next one      *)
(* until none is left, and the access strategy falls back to multicast when   *)
(* the last working next hop does not answer within the RTO.  It is the timer *)
(* that tries a next hop: an entry whose timers a change of strategy has      *)
(* cancelled waits for a retransmission, and nothing is said of it.           *)
EveryHopTried ==
  \A f \in Upstreams : (changes = MaxChanges /\ Untried(f) /\ TimerToTry(f)) ~> ~ Untried(f)

(* What the strategies take for granted.  An RTO timer never outlives the     *)
(* StrategyInfo that holds it, whatever the order of retransmissions, Data,   *)
(* strategy changes and the end of the PIT entry, which is what               *)
(* afterRtoTimeout asserts (access-strategy.cpp:159); and the unsigned count  *)
(* of upstreams beyond the best and the previous face never wraps             *)
(* (ncc-strategy.cpp:81-106), although the best face may have become the      *)
(* previous one by the loss of a face.                                        *)
AssumptionsHold ==
  /\ \A t \in timers : t.kind = "rtoTimer" => pit # NoEntry /\ pit.rto = t.id
  /\ fault # "nUpstreams"

=============================================================================

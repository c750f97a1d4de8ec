--------------------------------- MODULE Cs ---------------------------------
(***************************************************************************)
(* Lookup and insertion of the Content Store (daemon/table/cs.cpp,         *)
(* cs-entry.cpp).  A store is a function from the cached Data to entries   *)
(* [staleTime, unsolicited]; two Data are the same entry when they have    *)
(* the same full name, that is, when they are the same packet.             *)
(***************************************************************************)
EXTENDS Integers, SequencesExt

(* Interest::matchesData of ndn-cxx, of which the name prefix matters here. *)
matchesData(key, data) == IsPrefix(key.name, data.name)

Never == -1   \* stale time of Data without FreshnessPeriod

EmptyStore == [d \in {} |-> 0]

updateStaleTime(d, t) == IF d.freshness >= 0 THEN t + d.freshness ELSE Never

isStale(entry, t) == entry.staleTime # Never /\ entry.staleTime < t

canSatisfy(key, d, entry, t) == matchesData(key, d) /\ ~ (key.mustBeFresh /\ isStale(entry, t))

(* Cs::find returns the leftmost or rightmost of these. *)
CsFind(store, key, t) == {d \in DOMAIN store : canSatisfy(key, d, store[d], t)}

(* Cs::insert: unsolicited Data refreshes a solicited entry but does not turn *)
(* it into an unsolicited one.                                                *)
CsInsert(store, d, isUnsolicited, t) ==
  LET entry == [staleTime |-> updateStaleTime(d, t),
                unsolicited |-> isUnsolicited /\ (d \in DOMAIN store => store[d].unsolicited)]
  IN  [x \in DOMAIN store \cup {d} |-> IF x = d THEN entry ELSE store[x]]

=============================================================================

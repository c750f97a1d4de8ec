------------------------------ MODULE PitEntry ------------------------------
(***************************************************************************)
(* pit::Entry (daemon/table/pit-entry.cpp): the per-Interest state of the  *)
(* forwarder.  Operators only; the PIT that holds the entries is a         *)
(* variable of the forwarder modules.                                      *)
(*                                                                         *)
(* A PIT entry is identified by a key, the Name and the Selectors of the   *)
(* Interest; MustBeFresh is the one selector the pipelines look at.  A     *)
(* Name is a sequence of components, an Interest a record                  *)
(*   [key, nonce, lifetime, nextHop]                                       *)
(* and a record collection a function from the faces that have a record.   *)
(* The order of the std::list matters only among records renewed at the    *)
(* same instant, and is left open.                                         *)
(***************************************************************************)
EXTENDS Integers, SequencesExt

CONSTANTS Faces,            \* Face objects, added to the face table or not
          LocalFaces,       \* those with Face::isLocal()
          Nonces,           \* values of the 32-bit Nonce
          DefaultLifetime   \* ndn::DEFAULT_INTEREST_LIFETIME, in clock ticks

ASSUME PitEntryAssumption ==
  /\ LocalFaces \subseteq Faces
  /\ DefaultLifetime \in Nat

LOCALHOST_NAME == <<"localhost">>
LOCALHOP_NAME == <<"localhop">>

(***************************************************************************)
(* FaceRecord::update: Nonce, time of renewal and expiry.  A negative      *)
(* InterestLifetime stands for the missing field.                          *)
(***************************************************************************)
FaceRecord == [nonce : Nonces, renewed : Nat, expiry : Nat]

EffectiveLifetime(lifetime) == IF lifetime < 0 THEN DefaultLifetime ELSE lifetime

(* Mutant: no default lifetime. *)
RecordWithoutDefault(nonce, lifetime, now) ==
  [nonce |-> nonce, renewed |-> now, expiry |-> now + lifetime]

NewRecord(nonce, lifetime, now) ==
  [nonce |-> nonce, renewed |-> now, expiry |-> now + EffectiveLifetime(lifetime)]

Put(records, f, record) ==
  [g \in DOMAIN records \cup {f} |-> IF g = f THEN record ELSE records[g]]

insertOrUpdateInRecord(e, f, interest, now) ==
  [e EXCEPT !.inRecords = Put(@, f, NewRecord(interest.nonce, interest.lifetime, now))]

(* InRecord keeps its Interest, so the lifetime of the picked one is known. *)
insertOrUpdateOutRecord(e, f, picked, now) ==
  [e EXCEPT !.outRecords = Put(@, f, NewRecord(picked.nonce, picked.expiry - picked.renewed, now))]

(* Mutant: in-records are kept. *)
keepInRecords(e) == e

deleteInRecords(e) == [e EXCEPT !.inRecords = [f \in {} |-> 0]]

deleteOutRecord(e, f) ==
  [e EXCEPT !.outRecords = [g \in DOMAIN e.outRecords \ {f} |-> e.outRecords[g]]]

OutNonces(e) == {e.outRecords[f].nonce : f \in DOMAIN e.outRecords}

(* findNonce(...) # DUPLICATE_NONCE_NONE: expired records count as well. *)
findNonce(e, nonce) ==
  \/ \E f \in DOMAIN e.inRecords : e.inRecords[f].nonce = nonce
  \/ nonce \in OutNonces(e)

hasLocalInRecord(e) == DOMAIN e.inRecords \cap LocalFaces # {}

hasUnexpiredOutRecords(e, now) ==
  \E f \in DOMAIN e.outRecords : e.outRecords[f].expiry >= now

violatesScope(key, e, f) ==
  /\ f \notin LocalFaces
  /\ \/ IsPrefix(LOCALHOST_NAME, key.name)
     \/ IsPrefix(LOCALHOP_NAME, key.name) /\ ~hasLocalInRecord(e)

canForwardTo(key, e, f, now) ==
  /\ ~ (f \in DOMAIN e.outRecords /\ e.outRecords[f].expiry >= now)
  /\ \E g \in DOMAIN e.inRecords \ {f} : e.inRecords[g].expiry >= now
  /\ ~ violatesScope(key, e, f)

(***************************************************************************)
(* compare_pickInterest under std::max_element: the faces whose in-record  *)
(* may be picked as the Interest sent to f.  In-records of other faces are *)
(* preferred to that of f, and among those the comparison prefers the one  *)
(* renewed first.                                                          *)
(***************************************************************************)
PickCandidates(e, f) ==
  IF DOMAIN e.inRecords \ {f} # {} THEN DOMAIN e.inRecords \ {f} ELSE DOMAIN e.inRecords

pickInterest(e, f) ==
  {g \in PickCandidates(e, f) :
     \A h \in PickCandidates(e, f) : e.inRecords[g].renewed =< e.inRecords[h].renewed}

=============================================================================

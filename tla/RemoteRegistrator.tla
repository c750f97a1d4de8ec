-------------------------- MODULE RemoteRegistrator --------------------------
(***************************************************************************)
(* Registration of local prefixes at a remote hub                          *)
(* (rib/remote-registrator.cpp).  It follows the entries of the RIB by the *)
(* signals afterInsertEntry and afterEraseEntry, and for each prefix       *)
(* registers the identity of the key chain that can sign it.  Commands to  *)
(* the hub are answered, or not, at any time and in any order.             *)
(***************************************************************************)
EXTENDS Integers, SequencesExt, FiniteSetsExt, Bags

CONSTANTS RibNames,     \* names of RIB entries
          Identities,   \* of the key chain, in the order it lists them
          nRetries,     \* m_nRetries
          MaxChanges,   \* entries inserted and erased
          MaxFailures   \* commands that fail while the hub is connected

ASSUME RegistratorAssumption ==
  /\ nRetries \in Nat /\ MaxChanges \in Nat /\ MaxFailures \in Nat
  /\ RibNames \subseteq Seq(STRING) /\ Identities \in Seq(Seq(STRING))

VARIABLES
  ribEntries,       \* names of the RIB
  hasConnectedHub,  \* m_hasConnectedHub
  regEntries,       \* m_regEntries: name |-> whether its refresh event is still to come
  refreshes,        \* scheduled refresh events: a bag of names
  commands,         \* commands under way: a bag of [verb, name, retries, done]
  remote,           \* names that the hub has
  nChanges, nFailures

rrVars == <<ribEntries, hasConnectedHub, regEntries, refreshes, commands, remote, nChanges, nFailures>>

RrInit ==
  /\ ribEntries = {} /\ hasConnectedHub = FALSE /\ regEntries = [n \in {} |-> TRUE]
  /\ refreshes = EmptyBag /\ commands = EmptyBag /\ remote = {}
  /\ nChanges = 0 /\ nFailures = 0

LOCAL_REGISTRATION_PREFIX == <<"localhost">>
REMOTE_HUB_PREFIX == <<"localhop", "nfd">>
IGNORE_COMPONENT == "rib"

-----------------------------------------------------------------------------
(* What an identity stands for: itself, less a last component "rib". *)
Covers(identity) ==
  IF identity # <<>> /\ Last(identity) = IGNORE_COMPONENT THEN Front(identity) ELSE identity

(* The first of the longest identities that cover the prefix, as a set. *)
findIdentityForRegistration(prefix) ==
  LET fit == {k \in DOMAIN Identities :
                Covers(Identities[k]) # <<>> /\ IsPrefix(Covers(Identities[k]), prefix)}
      longest == {k \in fit : \A l \in fit : Len(Covers(Identities[l])) =< Len(Covers(Identities[k]))}
  IN  IF fit = {} THEN {} ELSE {Identities[Min(longest)]}

prefixForRegistration(identity) == Covers(identity)

startCommand(verb, name, retries) ==
  SetToBag({[verb |-> verb, name |-> name, retries |-> retries, done |-> FALSE]})

(* redoRegistration: of the names in m_regEntries.  It signs with the name    *)
(* where the identity, of which the name may be a prefix, signed before       *)
(* (remote-registrator.cpp:431); signatures are not modelled, and a hub that  *)
(* refuses one is a failure.                                                  *)
redoNothing == EmptyBag \* mutant

redoRegistration ==
  SetToBag({[verb |-> "register", name |-> n, retries |-> nRetries, done |-> FALSE] :
            n \in DOMAIN regEntries})

(* registerPrefix, on afterInsertEntry. *)
registerPrefix(prefix) ==
  /\ ribEntries' = ribEntries \cup {prefix}
  /\ hasConnectedHub' = (hasConnectedHub \/ prefix = REMOTE_HUB_PREFIX)
  /\ LET names == {prefixForRegistration(i) : i \in findIdentityForRegistration(prefix)}
     IN  commands' =
           CASE prefix = REMOTE_HUB_PREFIX -> commands (+) redoRegistration
             [] /\ prefix # REMOTE_HUB_PREFIX /\ ~ IsPrefix(LOCAL_REGISTRATION_PREFIX, prefix)
                /\ hasConnectedHub /\ names # {} /\ names \cap DOMAIN regEntries = {}
                  -> commands (+) startCommand("register", CHOOSE n \in names : TRUE, nRetries)
             [] OTHER -> commands
  /\ UNCHANGED <<regEntries, refreshes, remote, nFailures>>

(* Another entry of the RIB needs the identity. *)
keptForOthers(identity, entries) ==
  \E p \in entries : IsPrefix(prefixForRegistration(identity), p)
                     /\ findIdentityForRegistration(p) = {identity}

cancelled(n) == IF regEntries[n] THEN refreshes (-) SetToBag({n}) ELSE refreshes

unregisterIdentity(identity, entries) ==
  LET n == prefixForRegistration(identity)
  IN  IF n \in DOMAIN regEntries /\ ~ keptForOthers(identity, entries)
      THEN /\ refreshes' = cancelled(n)
           /\ regEntries' = [m \in DOMAIN regEntries \ {n} |-> regEntries[m]]
           /\ commands' = commands (+) startCommand("unregister", n, nRetries)
      ELSE UNCHANGED <<regEntries, refreshes, commands>>

(* unregisterPrefix, on afterEraseEntry, and clearRefreshEvents.  A hub that  *)
(* is disconnected may forget what was registered on the face.                *)
unregisterPrefix(prefix) ==
  /\ ribEntries' = ribEntries \ {prefix}
  /\ IF prefix = REMOTE_HUB_PREFIX
     THEN /\ hasConnectedHub' = FALSE
          /\ refreshes' = EmptyBag
          /\ regEntries' = [n \in DOMAIN regEntries |-> FALSE]
          /\ remote' \in {remote, {}}
          /\ UNCHANGED commands
     ELSE /\ LET identity == findIdentityForRegistration(prefix)
             IN  IF ~ hasConnectedHub \/ identity = {} THEN UNCHANGED <<regEntries, refreshes, commands>>
                 ELSE \E i \in identity : unregisterIdentity(i, ribEntries')
          /\ UNCHANGED <<hasConnectedHub, remote>>
  /\ UNCHANGED nFailures

(* The signals of the RIB. *)
RibChanges ==
  /\ nChanges < MaxChanges /\ nChanges' = nChanges + 1
  /\ \/ \E p \in RibNames \ ribEntries : registerPrefix(p)
     \/ \E p \in ribEntries : unregisterPrefix(p)

-----------------------------------------------------------------------------
(* The hub handles a command. *)
HubHandles(c) ==
  /\ hasConnectedHub /\ ~ c.done
  /\ remote' = IF c.verb = "register" THEN remote \cup {c.name} ELSE remote \ {c.name}
  /\ commands' = (commands (-) SetToBag({c})) (+) SetToBag({[c EXCEPT !.done = TRUE]})
  /\ UNCHANGED <<ribEntries, hasConnectedHub, regEntries, refreshes, nChanges, nFailures>>

(* Mutant: the event of an existing entry is not cancelled. *)
onRegSuccessUncancelled(c) ==
  /\ regEntries' = [n \in DOMAIN regEntries \cup {c.name} |-> IF n = c.name THEN TRUE ELSE regEntries[n]]
  /\ refreshes' = refreshes (+) SetToBag({c.name})
  /\ BagIn(c.name, refreshes) => refreshes[c.name] < 2

onRegSuccess(c) ==
  /\ regEntries' = [n \in DOMAIN regEntries \cup {c.name} |-> IF n = c.name THEN TRUE ELSE regEntries[n]]
  /\ refreshes' = (IF c.name \in DOMAIN regEntries THEN cancelled(c.name) ELSE refreshes)
                  (+) SetToBag({c.name})

Succeeds(c) ==
  /\ c.done
  /\ commands' = commands (-) SetToBag({c})
  /\ IF c.verb = "register" THEN onRegSuccess(c) ELSE UNCHANGED <<regEntries, refreshes>>
  /\ UNCHANGED <<ribEntries, hasConnectedHub, remote, nChanges, nFailures>>

(* onRegFailure and onUnregFailure: a refusal or a timeout.  Without a hub    *)
(* every command fails.                                                       *)
Fails(c) ==
  /\ IF hasConnectedHub THEN nFailures < MaxFailures /\ nFailures' = nFailures + 1
     ELSE UNCHANGED nFailures
  /\ commands' = LET rest == commands (-) SetToBag({c})
                 IN  IF c.retries > 0 THEN rest (+) startCommand(c.verb, c.name, c.retries - 1) ELSE rest
  /\ UNCHANGED <<ribEntries, hasConnectedHub, regEntries, refreshes, remote, nChanges>>

(* The refresh event of a name. *)
Refresh(n) ==
  /\ refreshes' = refreshes (-) SetToBag({n})
  /\ regEntries' = [m \in DOMAIN regEntries |-> m # n /\ regEntries[m]]
  /\ commands' = commands (+) startCommand("register", n, nRetries)
  /\ UNCHANGED <<ribEntries, hasConnectedHub, remote, nChanges, nFailures>>

RegisteredNames == {prefixForRegistration(Identities[k]) : k \in DOMAIN Identities}

(* A command about a name is handled, answered, or fails for want of a hub. *)
CommandStep(verb, n) ==
  \E c \in BagToSet(commands) :
    /\ c.verb = verb /\ c.name = n
    /\ HubHandles(c) \/ Succeeds(c) \/ (~ hasConnectedHub /\ Fails(c))

RefreshStep(n) == n \in BagToSet(refreshes) /\ Refresh(n)

RrNext ==
  \/ RibChanges
  \/ \E c \in BagToSet(commands) : HubHandles(c) \/ Succeeds(c) \/ Fails(c)
  \/ \E n \in RegisteredNames : RefreshStep(n)

RrSpec == RrInit /\ [][RrNext]_rrVars

-----------------------------------------------------------------------------
(* Every entry has at most the one refresh event that it knows of, so that    *)
(* cancelling it ends the refreshing: however the answers overlap, no name is *)
(* refreshed twice as often, or without an entry that an unregistration can   *)
(* find.  An answer that comes after the unregistration puts back entry and   *)
(* refresh together (remote-registrator.cpp:368-377).                         *)
OneRefresh ==
  \A n \in BagToSet(refreshes) : n \in DOMAIN regEntries /\ regEntries[n] /\ refreshes[n] = 1

Needed(entries) ==
  {prefixForRegistration(i) : i \in UNION {findIdentityForRegistration(p) : p \in entries}}

(* A name is given up only when no entry of the RIB is left that it was       *)
(* registered for ("this identity should be kept for other rib entry",        *)
(* remote-registrator.cpp:256).                                               *)
GivenUpUnneeded == \A n \in DOMAIN regEntries \ DOMAIN regEntries' : n \notin Needed(ribEntries')

(* What is registered heals: with a hub that stays connected, and failures    *)
(* that the retries make up for, the hub has the name in the end, whatever    *)
(* became of commands that overlapped: an unregistration that is repeated     *)
(* after the name was registered anew, or the loss of the first connection.   *)
(* And a name is given up only when it is not needed.  That the hub accepts   *)
(* what redoRegistration signs is taken for granted, see there.               *)
RegistrationHeals ==
  /\ [][GivenUpUnneeded]_rrVars
  /\ \A n \in RegisteredNames :
       <>[](hasConnectedHub /\ n \in DOMAIN regEntries) => <>[](n \in remote)

=============================================================================

------------------------------ MODULE Settings ------------------------------
(***************************************************************************)
(* What the settings handlers put into the store (src/src/settings.rs),    *)
(* over the way it reaches the disk (ConfigStore), and what the rest of    *)
(* the process has of it: the pool, the catalog's TTL, the address filter. *)
(*                                                                         *)
(* A configuration of ConfigStore is a number; here conf says what is in   *)
(* it.  A provider's keys are only enabled or not, and an edit that        *)
(* changes a URL or a rate changes nothing told apart here.  The history's *)
(* retention is pushed and rebuilt with the TTL, and ttl stands for both.  *)
(***************************************************************************)
EXTENDS ConfigStore, AddressRules, SequencesExt

CONSTANTS
  Providers,
  Aliases,
  Operators,   \* the people signed in to the console
  Admins,      \* those of them that are administrators
  Tails,       \* last four characters of a client key
  MaxClients,  \* bound on the client keys
  Ttls,        \* models_ttl_secs
  AllowLists   \* lists of address rules somebody may send

ASSUME SettingsAssumption == Admins \subseteq Operators /\ MaxClients \in Nat

VARIABLES
  conf,        \* [0..MaxEdits -> what is in that configuration]
  served,      \* the configuration the live pool was built from
  ttl,         \* the catalog's own copy of models_ttl_secs
  rebuilds     \* [Savers -> its handler ends in finish, not in a bare save]

settingsVars == <<vars, conf, served, ttl, rebuilds>>

Configurations ==
  [providers : [Providers -> {"absent", "disabled", "enabled"}],
   aliases : [Aliases -> SUBSET Providers],
   clients : BoundedSeq([owner : Operators, tail : Tails], MaxClients),
   ttl : Ttls,
   allow : AllowLists]

SettingsTypeOK ==
  /\ TypeOK
  /\ conf \in [0..MaxEdits -> Configurations]
  /\ served \in 0..MaxEdits
  /\ ttl \in Ttls
  /\ rebuilds \in [Savers -> BOOLEAN]

\* One provider with a key; nothing else.
SettingsInit ==
  /\ Init
  /\ \E p \in Providers, t \in Ttls :
       /\ conf = [i \in 0..MaxEdits |->
            [providers |-> [q \in Providers |-> IF q = p THEN "enabled" ELSE "absent"],
             aliases |-> [a \in Aliases |-> {}], clients |-> <<>>, ttl |-> t, allow |-> {}]]
       /\ ttl = t
  /\ served = 0
  /\ rebuilds = [s \in Savers |-> FALSE]

-----------------------------------------------------------------------------
Memory == conf[store]

\* The store becomes c and is going to be saved.
Saves(s, c, finish) ==
  /\ Edit(s)
  /\ conf' = [conf EXCEPT ![store'] = c]
  /\ rebuilds' = [rebuilds EXCEPT ![s] = finish]
  /\ UNCHANGED served

\* The request is refused, and the store has become c all the same.
RefusesWith(s, c) ==
  /\ Refused(s)
  /\ c # Memory
  /\ conf' = [conf EXCEPT ![store'] = c]
  /\ UNCHANGED <<served, rebuilds>>

\* lane_specs is not empty.
HasLanes(c) == \E p \in Providers : c.providers[p] = "enabled"

\* The end of both handlers of providers and keys: the check is made on the store.
SavesIfItServes(s, c) ==
  /\ IF HasLanes(c) THEN Saves(s, c, TRUE) ELSE RefusesWith(s, c)
  /\ UNCHANGED ttl

\* provider_keys: a key is added, removed, enabled, disabled or given a rate.
ProviderKeys(s) ==
  \E p \in Providers, keys \in {"disabled", "enabled"} :
    /\ Memory.providers[p] # "absent"
    /\ SavesIfItServes(s, [Memory EXCEPT !.providers[p] = keys])

AddProvider(s) ==
  \E p \in Providers :
    /\ Memory.providers[p] = "absent"
    /\ SavesIfItServes(s, [Memory EXCEPT !.providers[p] = "enabled"])

\* Mutant of Without: the targets are left.
WithoutProviderOnly(c, p) == [c EXCEPT !.providers[p] = "absent"]

\* An alias that has lost its last target is dropped.
Without(c, p) ==
  [c EXCEPT !.providers[p] = "absent",
            !.aliases = [a \in Aliases |-> c.aliases[a] \ {p}]]

RemoveProvider(s) ==
  \E p \in Providers :
    /\ Memory.providers[p] # "absent"
    /\ SavesIfItServes(s, Without(Memory, p))

-----------------------------------------------------------------------------
UpsertAlias(s) ==
  \E a \in Aliases, targets \in (SUBSET Providers) \ {{}} :
    /\ \A p \in targets : Memory.providers[p] # "absent"
    /\ Saves(s, [Memory EXCEPT !.aliases[a] = targets], TRUE)
    /\ UNCHANGED ttl

RemoveAlias(s) ==
  \E a \in Aliases :
    /\ Memory.aliases[a] # {}
    /\ Saves(s, [Memory EXCEPT !.aliases[a] = {}], TRUE)
    /\ UNCHANGED ttl

Mint(s) ==
  \E who \in Operators, tail \in Tails :
    /\ Len(Memory.clients) < MaxClients
    /\ Saves(s, [Memory EXCEPT !.clients = Append(@, [owner |-> who, tail |-> tail])], FALSE)
    /\ UNCHANGED ttl

\* The keys that end like this, in the order they were minted.
Ending(tail) == SelectSeq(Memory.clients, LAMBDA key : key.tail = tail)

\* find looks at the first of them only.
MayRevoke(who, tail) ==
  /\ Ending(tail) # <<>>
  /\ Head(Ending(tail)).owner = who \/ who \in Admins

\* retain drops them all.
Revoke(s, who, tail) ==
  /\ MayRevoke(who, tail)
  /\ Saves(s, [Memory EXCEPT !.clients = SelectSeq(@, LAMBDA key : key.tail # tail)], FALSE)
  /\ UNCHANGED ttl

\* Mutant of Tuned: the list is stored as it was sent.
TunedUnchecked(s, t, list) == Saves(s, [Memory EXCEPT !.ttl = t, !.allow = list], FALSE)

\* The list is checked when the other fields are already stored.
Tuned(s, t, list) ==
  IF list \subseteq Rules
  THEN Saves(s, [Memory EXCEPT !.ttl = t, !.allow = list], FALSE)
  ELSE RefusesWith(s, [Memory EXCEPT !.ttl = t])

\* Mutant of Limits: the components hear of it when the whole request was good.
LimitsPushedLast(s) ==
  \E t \in Ttls, list \in AllowLists :
    /\ Tuned(s, t, list)
    /\ ttl' = IF list \subseteq Rules THEN t ELSE ttl

\* limits, a field that is not sent being as it was.
Limits(s) ==
  \E t \in Ttls, list \in AllowLists :
    /\ Tuned(s, t, list)
    /\ ttl' = t

-----------------------------------------------------------------------------
\* Mutant of Swapped: the pool is swapped for a save that failed, too.
SwappedAnyway(s) ==
  /\ Rename(s) \/ SaveFails(s)
  /\ served' = IF rebuilds[s] THEN saver[s].snapshot ELSE served

\* apply swaps the pool when the save is done.
Swapped(s) ==
  \/ /\ Rename(s)
     /\ served' = IF rebuilds[s] THEN saver[s].snapshot ELSE served
  \/ SaveFails(s) /\ UNCHANGED served

Saving(s) ==
  /\ \/ Swapped(s)
     \/ (OpenTmp(s) \/ Write(s) \/ MakePrivate(s)) /\ UNCHANGED served
  /\ UNCHANGED <<conf, ttl, rebuilds>>

Killed == Crash /\ UNCHANGED <<conf, served, ttl, rebuilds>>

\* run builds everything from what load returned.
Started ==
  /\ Boot
  /\ served' = store'
  /\ ttl' = conf[store'].ttl
  /\ UNCHANGED <<conf, rebuilds>>

SettingsNext ==
  \/ Killed \/ Started
  \/ \E s \in Savers :
       \/ ProviderKeys(s) \/ AddProvider(s) \/ RemoveProvider(s)
       \/ UpsertAlias(s) \/ RemoveAlias(s)
       \/ Mint(s) \/ \E who \in Operators, tail \in Tails : Revoke(s, who, tail)
       \/ Limits(s) \/ Saving(s)

SettingsSpec == SettingsInit /\ [][SettingsNext]_settingsVars

-----------------------------------------------------------------------------
(***************************************************************************)
(* Properties                                                              *)
(***************************************************************************)

\* "A target naming a provider that doesn't exist can never be reached" (aliases,
\* src/src/settings.rs): whatever is added, removed, refused, lost or read back, an
\* alias names only providers that are there, in memory and on disk.
AliasTargetsExist ==
  \A i \in {store, inodes[target].data} : \A a \in Aliases :
    \A p \in conf[i].aliases[a] : conf[i].providers[p] # "absent"

\* "All three take effect immediately" (limits): what the components were told is
\* what the store says, also after a request refused half-way and after a restart.
ComponentsFollowStore == up => ttl = Memory.ttl

\* "validate, persist, then swap" (head of src/src/settings.rs): the pool that
\* serves was never built from a configuration newer than the one on disk.
PoolNotAheadOfFile == up => served <= inodes[target].data

\* What the list means, by division: a peer is in a network when they agree above
\* the prefix.
InNetwork(rule, peer) ==
  LET Agree(addr) == LET block == TwoTo[Width[rule.family] - rule.bits]
                     IN rule.addr \div block = addr \div block
  IN \/ rule.family = peer.family /\ Agree(peer.addr)
     \/ rule.family = "v4" /\ Mapped(peer) /\ Agree(Unmapped(peer).addr)

\* The filter lets in just whom the list names: an entry that cannot be read never
\* turns a list into an open door ("the operator believing they are filtered when
\* they are not", limits), and a prefix of no bits covers its whole family.
FilterIsAsConfigured ==
  LET list == Memory.allow IN
  \A peer \in Peers :
    Permitted(list, peer) <=> \/ list = {} \/ IsLoopback(peer)
                              \/ \E rule \in list : InNetwork(rule, peer)

-----------------------------------------------------------------------------
(***************************************************************************)
(* Promises the code does not keep; no run checks them.                    *)
(***************************************************************************)

\* "A v4 rule never authorises a v6 caller, or the reverse. An IPv4-mapped v6
\* address is unwrapped first" (src/src/net.rs, matches): it is compared with the v6
\* rules first.
FamiliesNeverCross ==
  \A peer \in Peers : Mapped(peer) =>
    (Permitted(Memory.allow, peer) <=> Permitted(Memory.allow, Unmapped(peer)))

\* "validate, persist, then swap": a refused request has changed nothing.
RefusedChangesNothing ==
  [][up /\ store' # store => \E s \in Savers : saver'[s].step = "edited"]_settingsVars

\* "Anyone may retire their own credential; only an admin may retire somebody
\* else's": two keys that end alike go together.
OnlyAdminsRetireOthers ==
  [][\A s \in Savers, who \in Operators \ Admins, tail \in Tails :
       Revoke(s, who, tail) => \A key \in ToSet(Ending(tail)) : key.owner = who]_settingsVars

=============================================================================

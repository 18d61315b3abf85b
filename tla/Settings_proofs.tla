--------------------------- MODULE Settings_proofs ---------------------------
(***************************************************************************)
(* The configuration on disk, and what the settings handlers keep true of  *)
(* it, of the pool and of the catalog: for any providers, aliases, clients *)
(* and allow lists, any number of edits, failed system calls and crashes.  *)
(* While settings requests come one at a time, save is atomic.  The filter *)
(* lets in whom its list names, for addresses of any width.                *)
(***************************************************************************)
EXTENDS Settings, FiniteSetTheorems, WellFoundedInduction, TLAPS

\* Where a lone request is, and what it has made of the temporary file.
SoleInv(s) ==
  /\ target # tmp
  /\ inodes[target].data \in 0..store
  /\ inodes[target].private
  /\ latest <= inodes[target].data
  /\ saver[s].step # "idle" => saver[s].snapshot = store
  /\ saver[s].step = "open" => tmp # NoFile /\ saver[s].file = tmp
  /\ saver[s].step = "written" => tmp # NoFile /\ inodes[tmp].data = store
  /\ saver[s].step = "private" => tmp # NoFile /\ inodes[tmp].data = store /\ inodes[tmp].private
  /\ saver[s].step # "open" => saver[s].file = NoFile
  /\ ~up => saver[s].step = "idle"

LEMMA TypeInductive == ASSUME TypeOK, [Next]_vars PROVE TypeOK'
<1>. USE ConfigStoreAssumption
<1>. DEFINE Steps == {"idle", "edited", "open", "written", "private"}
            Files == Inodes \cup {NoFile}
            Saver == [step : Steps, snapshot : 0..MaxEdits, file : Files]
<1>0. Idle \in Saver
  BY DEF Idle
<1>1. CASE Crash
  BY <1>0, <1>1 DEF TypeOK, Crash
<1>2. CASE Boot
  BY <1>2 DEF TypeOK, Boot, Contents
<1>3. ASSUME NEW s \in Savers, Edit(s) PROVE TypeOK'
  <2>1. store' \in 0..MaxEdits
    BY <1>3 DEF TypeOK, Edit
  <2>2. [Idle EXCEPT !.step = "edited", !.snapshot = store'] \in Saver
    BY <2>1 DEF Idle
  <2>. QED  BY <1>3, <2>1, <2>2 DEF TypeOK, Edit
<1>4. ASSUME NEW s \in Savers, OpenTmp(s) PROVE TypeOK'
  <2>1. PICK i \in Inodes :
          /\ inodes' = [inodes EXCEPT ![i] = [data |-> EMPTY, private |-> tmp # NoFile /\ @.private]]
          /\ tmp' = i
          /\ saver' = [saver EXCEPT ![s].step = "open", ![s].file = i]
    BY <1>4 DEF OpenTmp
  <2>2. inodes[i].private \in BOOLEAN
    BY DEF TypeOK
  <2>3. inodes' \in [Inodes -> [data : Contents, private : BOOLEAN]]
    BY <2>1, <2>2 DEF TypeOK, Contents
  <2>4. saver' \in [Savers -> Saver]
    BY <2>1 DEF TypeOK
  <2>5. tmp' \in Inodes \cup {NoFile}
    BY <2>1
  <2>6. UNCHANGED <<up, store, target, latest>>
    BY <1>4 DEF OpenTmp
  <2>. QED  BY <2>3, <2>4, <2>5, <2>6 DEF TypeOK
<1>5. ASSUME NEW s \in Savers, Write(s) PROVE TypeOK'
  <2>1. saver[s].snapshot \in Contents
    BY DEF TypeOK, Contents
  <2>2. inodes' \in [Inodes -> [data : Contents, private : BOOLEAN]]
    BY <1>5, <2>1 DEF TypeOK, Write
  <2>3. saver' \in [Savers -> Saver]
    BY <1>5 DEF TypeOK, Write
  <2>. QED  BY <1>5, <2>2, <2>3 DEF TypeOK, Write
<1>6. ASSUME NEW s \in Savers, MakePrivate(s) PROVE TypeOK'
  BY <1>6 DEF TypeOK, MakePrivate
<1>7. ASSUME NEW s \in Savers, Rename(s) PROVE TypeOK'
  <2>1. latest' \in 0..MaxEdits
    BY <1>7 DEF TypeOK, Rename
  <2>2. saver' \in [Savers -> Saver]
    BY <1>0, <1>7 DEF TypeOK, Rename
  <2>. QED  BY <1>7, <2>1, <2>2 DEF TypeOK, Rename
<1>8. ASSUME NEW s \in Savers, SaveFails(s) PROVE TypeOK'
  BY <1>0, <1>8 DEF TypeOK, SaveFails
<1>9. CASE UNCHANGED vars
  BY <1>9 DEF TypeOK, vars
<1>10. ASSUME NEW s \in Savers, Refused(s) PROVE TypeOK'
  BY <1>10 DEF TypeOK, Refused
<1>. QED
  BY <1>10, <1>1, <1>2, <1>3, <1>4, <1>5, <1>6, <1>7, <1>8, <1>9 DEF Next

LEMMA TypeInitially == ASSUME Init PROVE TypeOK
<1>1. 1 \in Inodes /\ 0 \in 0..MaxEdits /\ 0 \in Contents
  BY ConfigStoreAssumption, FS_CardinalityType DEF Inodes, Contents
<1>. QED  BY <1>1 DEF Init, TypeOK, Idle

\* What is stored has its type.
THEOREM ConfigStoreTypes == Spec => []TypeOK
BY TypeInitially, TypeInductive, PTL DEF Spec

LEMMA SoleInvInductive ==
  ASSUME NEW s \in Savers, Savers = {s}, TypeOK, SoleInv(s), [Next]_vars
  PROVE  SoleInv(s)'
<1>. USE ConfigStoreAssumption DEF TypeOK, SoleInv, At
<1>1. CASE Crash
  BY <1>1 DEF Crash, Idle
<1>2. CASE Boot
  <2>1. store' = inodes[target].data /\ UNCHANGED <<inodes, tmp, target, saver, latest>> /\ ~up
    BY <1>2 DEF Boot
  <2>2. saver[s].step = "idle"
    BY <2>1
  <2>. QED  BY <2>1, <2>2
<1>3. CASE Edit(s)
  BY <1>3 DEF Edit, Idle
<1>4. CASE OpenTmp(s)
  <2>1. PICK i \in Inodes :
          /\ IF tmp # NoFile THEN i = tmp ELSE i \notin InUse
          /\ inodes' = [inodes EXCEPT ![i] = [data |-> EMPTY, private |-> tmp # NoFile /\ @.private]]
          /\ tmp' = i
          /\ saver' = [saver EXCEPT ![s].step = "open", ![s].file = i]
    BY <1>4 DEF OpenTmp
  <2>2. i # target
    BY <2>1 DEF InUse
  <2>3. i # NoFile
    BY DEF Inodes, NoFile
  <2>. QED  BY <1>4, <2>1, <2>2, <2>3 DEF OpenTmp
<1>5. CASE Write(s)
  BY <1>5 DEF Write
<1>6. CASE MakePrivate(s)
  BY <1>6 DEF MakePrivate
<1>7. CASE Rename(s)
  <2>1. target # NoFile
    BY DEF Inodes, NoFile
  <2>. QED  BY <1>7, <2>1 DEF Rename, Idle
<1>8. CASE SaveFails(s)
  BY <1>8 DEF SaveFails, Idle
<1>9. CASE UNCHANGED vars
  BY <1>9 DEF vars
<1>10. CASE Refused(s)
  BY <1>10 DEF Refused
<1>. QED
  BY <1>10, <1>1, <1>2, <1>3, <1>4, <1>5, <1>6, <1>7, <1>8, <1>9 DEF Next

LEMMA SoleStarts == ASSUME NEW s \in Savers, Init PROVE TypeOK /\ SoleInv(s)
BY TypeInitially DEF Init, SoleInv, Idle, NoFile, TypeOK

\* With one settings request at a time, the configuration file is whole and private at
\* every moment, so also when the process is killed at any of them.
THEOREM SoleSaverIsAtomic ==
  ASSUME NEW s, Savers = {s} PROVE Spec => []TargetWholeAndPrivate
<1>. s \in Savers
  OBVIOUS
<1>1. Init => TypeOK /\ SoleInv(s)
  BY SoleStarts
<1>2. TypeOK /\ SoleInv(s) /\ [Next]_vars => (TypeOK /\ SoleInv(s))'
  BY TypeInductive, SoleInvInductive
<1>3. TypeOK /\ SoleInv(s) => TargetWholeAndPrivate
  BY ConfigStoreAssumption DEF TypeOK, SoleInv, TargetWholeAndPrivate
<1>. QED  BY <1>1, <1>2, <1>3, PTL DEF Spec

\* Likewise, a restart finds what was last acknowledged.
THEOREM SoleSaverKeepsAcknowledged ==
  ASSUME NEW s, Savers = {s} PROVE Spec => []AcknowledgedIsKept
<1>. s \in Savers
  OBVIOUS
<1>1. Init => TypeOK /\ SoleInv(s)
  BY SoleStarts
<1>2. TypeOK /\ SoleInv(s) /\ [Next]_vars => (TypeOK /\ SoleInv(s))'
  BY TypeInductive, SoleInvInductive
<1>3. TypeOK /\ SoleInv(s) => AcknowledgedIsKept
  BY DEF TypeOK, SoleInv, AcknowledgedIsKept
<1>. QED  BY <1>1, <1>2, <1>3, PTL DEF Spec

\* A step of the code is a step of the atomic file or changes neither memory nor file.
LEMMA SoleSaverSteps ==
  ASSUME NEW s \in Savers, Savers = {s}, TypeOK, SoleInv(s), [Next]_vars
  PROVE  [File!Next]_(File!fvars)
<1>. USE ConfigStoreAssumption DEF TypeOK, At, File!Next, File!Edit, File!Save, File!Reload, File!fvars
<1>1. CASE Crash
  BY <1>1 DEF Crash
<1>2. CASE Boot
  BY <1>2 DEF Boot
<1>3. CASE Edit(s) \/ Refused(s)
  BY <1>3 DEF Edit, Refused
<1>4. CASE OpenTmp(s)
  <2>1. PICK i \in Inodes :
          /\ IF tmp # NoFile THEN i = tmp ELSE i \notin InUse
          /\ inodes' = [inodes EXCEPT ![i] = [data |-> EMPTY, private |-> tmp # NoFile /\ @.private]]
    BY <1>4 DEF OpenTmp
  <2>2. i # target
    BY <2>1 DEF InUse, SoleInv
  <2>. QED  BY <1>4, <2>1, <2>2 DEF OpenTmp
<1>5. CASE Write(s)
  BY <1>5 DEF Write, SoleInv
<1>6. CASE MakePrivate(s)
  BY <1>6 DEF MakePrivate, SoleInv
<1>7. CASE Rename(s)
  BY <1>7 DEF Rename, SoleInv
<1>8. CASE SaveFails(s)
  BY <1>8 DEF SaveFails
<1>9. CASE UNCHANGED vars
  BY <1>9 DEF vars
<1>. QED
  BY <1>1, <1>2, <1>3, <1>4, <1>5, <1>6, <1>7, <1>8, <1>9 DEF Next

\* With one settings request at a time, save as it is written implements a file that
\* is replaced atomically.
THEOREM SoleSaverImplementsAtomicFile ==
  ASSUME NEW s, Savers = {s} PROVE Spec => ImplementsAtomicFile
<1>. s \in Savers
  OBVIOUS
<1>1. Init => TypeOK /\ SoleInv(s) /\ File!Init
  BY TypeInitially DEF Init, SoleInv, Idle, NoFile, TypeOK, File!Init
<1>2. TypeOK /\ SoleInv(s) /\ [Next]_vars => (TypeOK /\ SoleInv(s))'
  BY TypeInductive, SoleInvInductive
<1>3. TypeOK /\ SoleInv(s) /\ [Next]_vars => [File!Next]_(File!fvars)
  BY SoleSaverSteps
<1>. QED  BY <1>1, <1>2, <1>3, PTL DEF Spec, ImplementsAtomicFile, File!Spec

-----------------------------------------------------------------------------
(***************************************************************************)
(* The handlers over the store: each of them edits it, is refused with it  *)
(* edited, or leaves it alone.                                             *)
(***************************************************************************)
LEMMA StepOfConfigStore == [SettingsNext]_settingsVars => [Next]_vars
<1>. SUFFICES ASSUME [SettingsNext]_settingsVars  PROVE [Next]_vars
  OBVIOUS
<1>1. ASSUME NEW s \in Savers,
             \/ ProviderKeys(s) \/ AddProvider(s) \/ RemoveProvider(s)
             \/ UpsertAlias(s) \/ RemoveAlias(s)
             \/ Mint(s) \/ \E who \in Operators, tail \in Tails : Revoke(s, who, tail)
             \/ Limits(s)
      PROVE  Edit(s) \/ Refused(s)
  BY <1>1
     DEF ProviderKeys, AddProvider, RemoveProvider, UpsertAlias, RemoveAlias, Mint, Revoke, Limits,
         Tuned, SavesIfItServes, Saves, RefusesWith
<1>2. ASSUME NEW s \in Savers, Saving(s)
      PROVE  OpenTmp(s) \/ Write(s) \/ MakePrivate(s) \/ Rename(s) \/ SaveFails(s)
  BY <1>2 DEF Saving, Swapped
<1>3. CASE Killed \/ Started \/ UNCHANGED settingsVars
  BY <1>3 DEF Killed, Started, settingsVars, Next
<1>. QED
  BY <1>1, <1>2, <1>3 DEF SettingsNext, Next

\* The handlers write the configuration in no other way than ConfigStore says, so
\* what is proved of it holds of them.
THEOREM SettingsUseConfigStore == SettingsSpec => Spec
<1>1. SettingsInit => Init
  BY DEF SettingsInit
<1>. QED  BY <1>1, StepOfConfigStore, PTL DEF SettingsSpec, Spec

-----------------------------------------------------------------------------
(***************************************************************************)
(* What is in a configuration.  Every one of them is whole, and none has   *)
(* an alias on a provider it does not have.                                *)
(***************************************************************************)
Whole(c) ==
  /\ c = [providers |-> c.providers, aliases |-> c.aliases, clients |-> c.clients,
          ttl |-> c.ttl, allow |-> c.allow]
  /\ c.providers \in [Providers -> {"absent", "disabled", "enabled"}]
  /\ c.aliases \in [Aliases -> SUBSET Providers]
  /\ c.allow \subseteq Rules

Sound(c) == \A a \in Aliases : \A p \in c.aliases[a] : c.providers[p] # "absent"

ConfInv ==
  /\ conf = [i \in 0..MaxEdits |-> conf[i]]
  /\ \A i \in 0..MaxEdits : Whole(conf[i]) /\ Sound(conf[i])

\* What the handlers of providers and keys make of a configuration.
LEMMA ProviderEdits ==
  ASSUME NEW c, Whole(c), Sound(c), NEW p \in Providers
  PROVE  /\ \A keys \in {"disabled", "enabled"} :
              \A d : d = [c EXCEPT !.providers[p] = keys] =>
                  Whole(d) /\ Sound(d) /\ d.ttl = c.ttl
         /\ \A d : d = Without(c, p) =>
                Whole(d) /\ Sound(d) /\ d.ttl = c.ttl
<1>1. ASSUME NEW keys \in {"disabled", "enabled"}, NEW d, d = [c EXCEPT !.providers[p] = keys]
      PROVE  Whole(d) /\ Sound(d) /\ d.ttl = c.ttl
  <2>1. /\ d = [providers |-> [c.providers EXCEPT ![p] = keys], aliases |-> c.aliases,
                clients |-> c.clients, ttl |-> c.ttl, allow |-> c.allow]
    BY <1>1 DEF Whole
  <2>. QED  BY <2>1 DEF Whole, Sound
<1>2. ASSUME NEW d, d = Without(c, p)
      PROVE  Whole(d) /\ Sound(d) /\ d.ttl = c.ttl
  <2>1. /\ d = [providers |-> [c.providers EXCEPT ![p] = "absent"],
                aliases |-> [a \in Aliases |-> c.aliases[a] \ {p}],
                clients |-> c.clients, ttl |-> c.ttl, allow |-> c.allow]
    BY <1>2 DEF Without, Whole
  <2>. QED  BY <2>1 DEF Whole, Sound
<1>. QED  BY <1>1, <1>2

\* And those of aliases, of client keys and of limits.
LEMMA AliasEdit ==
  ASSUME NEW c, Whole(c), Sound(c), NEW a \in Aliases, NEW targets \in SUBSET Providers,
         \A p \in targets : c.providers[p] # "absent",
         NEW d, d = [c EXCEPT !.aliases[a] = targets]
  PROVE  Whole(d) /\ Sound(d) /\ d.ttl = c.ttl
<1>1. d = [providers |-> c.providers, aliases |-> [c.aliases EXCEPT ![a] = targets],
           clients |-> c.clients, ttl |-> c.ttl, allow |-> c.allow]
  BY DEF Whole
<1>. QED  BY <1>1 DEF Whole, Sound

LEMMA ClientsEdit ==
  ASSUME NEW c, Whole(c), Sound(c), NEW clients,
         NEW d, d = [c EXCEPT !.clients = clients]
  PROVE  Whole(d) /\ Sound(d) /\ d.ttl = c.ttl
<1>1. d = [providers |-> c.providers, aliases |-> c.aliases, clients |-> clients,
           ttl |-> c.ttl, allow |-> c.allow]
  BY DEF Whole
<1>. QED  BY <1>1 DEF Whole, Sound

LEMMA LimitsEdit ==
  ASSUME NEW c, Whole(c), Sound(c), NEW t, NEW list \in SUBSET Rules,
         NEW d, d = [c EXCEPT !.ttl = t, !.allow = list]
  PROVE  Whole(d) /\ Sound(d) /\ d.ttl = t
<1>1. d = [providers |-> c.providers, aliases |-> c.aliases, clients |-> c.clients,
           ttl |-> t, allow |-> list]
  BY DEF Whole
<1>. QED  BY <1>1 DEF Whole, Sound

LEMMA TtlEdit ==
  ASSUME NEW c, Whole(c), Sound(c), NEW t,
         NEW d, d = [c EXCEPT !.ttl = t]
  PROVE  Whole(d) /\ Sound(d) /\ d.ttl = t
<1>1. d = [providers |-> c.providers, aliases |-> c.aliases, clients |-> c.clients,
           ttl |-> t, allow |-> c.allow]
  BY DEF Whole
<1>. QED  BY <1>1 DEF Whole, Sound

(***************************************************************************)
(* What every handler that changes the store does, saved or refused: the   *)
(* store becomes c, which has the TTL the catalog has been told.           *)
(***************************************************************************)
StoreBecomes(c) ==
  /\ Whole(c) /\ Sound(c)
  /\ up' = up
  /\ store' = store + 1 /\ store' \in 0..MaxEdits
  /\ conf' = [conf EXCEPT ![store'] = c]
  /\ UNCHANGED <<inodes, target, served>>
  /\ ttl' = c.ttl \/ (ttl' = ttl /\ c.ttl = conf[store].ttl)

Handler(s) ==
  \/ ProviderKeys(s) \/ AddProvider(s) \/ RemoveProvider(s)
  \/ UpsertAlias(s) \/ RemoveAlias(s)
  \/ Mint(s) \/ \E who \in Operators, tail \in Tails : Revoke(s, who, tail)
  \/ Limits(s)

LEMMA HandlerEdits ==
  ASSUME TypeOK, ConfInv, NEW s \in Savers, Handler(s)
  PROVE  \E c : StoreBecomes(c)
<1>1. Whole(Memory) /\ Sound(Memory)
  BY DEF TypeOK, ConfInv, Memory
\* Saved or refused, it is the same to the store.
<1>2. ASSUME NEW c, (\E finish \in BOOLEAN : Saves(s, c, finish)) \/ RefusesWith(s, c),
             Whole(c), Sound(c), ttl' = c.ttl \/ (ttl' = ttl /\ c.ttl = Memory.ttl)
      PROVE  StoreBecomes(c)
  BY <1>2, ConfigStoreAssumption DEF Saves, RefusesWith, Edit, Refused, StoreBecomes, TypeOK, Memory
<1>3. ASSUME NEW c, SavesIfItServes(s, c), Whole(c), Sound(c), c.ttl = Memory.ttl
      PROVE  StoreBecomes(c)
  BY <1>2, <1>3 DEF SavesIfItServes
<1>4. CASE ProviderKeys(s)
  <2>1. PICK p \in Providers, keys \in {"disabled", "enabled"} :
          SavesIfItServes(s, [Memory EXCEPT !.providers[p] = keys])
    BY <1>4 DEF ProviderKeys
  <2>. QED  BY <1>1, <1>3, <2>1, ProviderEdits
<1>5. CASE AddProvider(s)
  <2>1. PICK p \in Providers : SavesIfItServes(s, [Memory EXCEPT !.providers[p] = "enabled"])
    BY <1>5 DEF AddProvider
  <2>. QED  BY <1>1, <1>3, <2>1, ProviderEdits
<1>6. CASE RemoveProvider(s)
  <2>1. PICK p \in Providers : SavesIfItServes(s, Without(Memory, p))
    BY <1>6 DEF RemoveProvider
  <2>. QED  BY <1>1, <1>3, <2>1, ProviderEdits
<1>7. CASE UpsertAlias(s)
  <2>1. PICK a \in Aliases, targets \in SUBSET Providers :
          /\ \A p \in targets : Memory.providers[p] # "absent"
          /\ Saves(s, [Memory EXCEPT !.aliases[a] = targets], TRUE)
          /\ UNCHANGED ttl
    BY <1>7 DEF UpsertAlias
  <2>. DEFINE d == [Memory EXCEPT !.aliases[a] = targets]
  <2>2. Whole(d) /\ Sound(d) /\ d.ttl = Memory.ttl
    BY <1>1, <2>1, AliasEdit
  <2>. HIDE DEF d
  <2>. QED  BY <1>2, <2>1, <2>2 DEF d
<1>8. CASE RemoveAlias(s)
  <2>1. PICK a \in Aliases :
          /\ Saves(s, [Memory EXCEPT !.aliases[a] = {}], TRUE)
          /\ UNCHANGED ttl
    BY <1>8 DEF RemoveAlias
  <2>2. PICK none \in SUBSET Providers : none = {}
    OBVIOUS
  <2>. DEFINE d == [Memory EXCEPT !.aliases[a] = none]
  <2>3. Saves(s, d, TRUE) /\ d = [Memory EXCEPT !.aliases[a] = none]
    BY <2>1, <2>2
  <2>. HIDE DEF d
  <2>4. Whole(d) /\ Sound(d) /\ d.ttl = Memory.ttl
    BY <1>1, <2>2, <2>3, AliasEdit
  <2>. QED  BY <1>2, <2>1, <2>3, <2>4
<1>9. CASE Mint(s) \/ \E who \in Operators, tail \in Tails : Revoke(s, who, tail)
  <2>1. PICK clients : /\ Saves(s, [Memory EXCEPT !.clients = clients], FALSE)
                       /\ UNCHANGED ttl
    BY <1>9 DEF Mint, Revoke
  <2>. DEFINE d == [Memory EXCEPT !.clients = clients]
  <2>2. Saves(s, d, FALSE) /\ d = [Memory EXCEPT !.clients = clients]
    BY <2>1
  <2>. HIDE DEF d
  <2>3. Whole(d) /\ Sound(d) /\ d.ttl = Memory.ttl
    BY <1>1, <2>2, ClientsEdit
  <2>. QED  BY <1>2, <2>1, <2>2, <2>3
<1>10. CASE Limits(s)
  <2>1. PICK t, list : Tuned(s, t, list) /\ ttl' = t
    BY <1>10 DEF Limits
  <2>2. CASE list \subseteq Rules
    <3>. DEFINE d == [Memory EXCEPT !.ttl = t, !.allow = list]
    <3>1. Saves(s, d, FALSE) /\ d = [Memory EXCEPT !.ttl = t, !.allow = list]
      BY <2>1, <2>2 DEF Tuned
    <3>. HIDE DEF d
    <3>2. \A c : Whole(c) /\ Sound(c) /\ d = [c EXCEPT !.ttl = t, !.allow = list]
                  => Whole(d) /\ Sound(d) /\ d.ttl = t
      BY <2>2, LimitsEdit
    <3>3. Whole(d) /\ Sound(d) /\ d.ttl = t
      BY <1>1, <3>1, <3>2
    <3>. QED  BY <1>2, <2>1, <3>1, <3>3
  <2>3. CASE ~(list \subseteq Rules)
    <3>. DEFINE e == [Memory EXCEPT !.ttl = t]
    <3>1. RefusesWith(s, e) /\ e = [Memory EXCEPT !.ttl = t]
      BY <2>1, <2>3 DEF Tuned
    <3>. HIDE DEF e
    <3>2. Whole(e) /\ Sound(e) /\ e.ttl = t
      BY <1>1, <3>1, TtlEdit
    <3>. QED  BY <1>2, <2>1, <3>1, <3>2
  <2>. QED  BY <2>2, <2>3
<1>. QED
  BY <1>4, <1>5, <1>6, <1>7, <1>8, <1>9, <1>10 DEF Handler

\* The other steps leave what is in the configurations alone.
LEMMA StepCases ==
  ASSUME SettingsNext
  PROVE  \/ \E s \in Savers : Handler(s)
         \/ \E s \in Savers : Saving(s)
         \/ Killed \/ Started
BY DEF SettingsNext, Handler

LEMMA ConfInvInductive == TypeOK /\ ConfInv /\ [SettingsNext]_settingsVars => ConfInv'
<1>. SUFFICES ASSUME TypeOK, ConfInv, [SettingsNext]_settingsVars  PROVE ConfInv'
  OBVIOUS
<1>1. ASSUME NEW s \in Savers, Handler(s)  PROVE ConfInv'
  <2>1. PICK c : StoreBecomes(c)
    BY <1>1, HandlerEdits
  <2>2. conf' = [conf EXCEPT ![store'] = c] /\ Whole(c) /\ Sound(c)
    BY <2>1 DEF StoreBecomes
  <2>. QED  BY <2>2 DEF ConfInv
<1>2. ASSUME conf' = conf  PROVE ConfInv'
  BY <1>2 DEF ConfInv
<1>3. ASSUME NEW s \in Savers, Saving(s)  PROVE ConfInv'
  BY <1>2, <1>3 DEF Saving
<1>4. CASE Killed \/ Started \/ UNCHANGED settingsVars
  BY <1>2, <1>4 DEF Killed, Started, settingsVars
<1>. QED  BY <1>1, <1>3, <1>4, StepCases

LEMMA ConfStarts == SettingsInit => TypeOK /\ ConfInv /\ ttl = Memory.ttl
<1>. SUFFICES ASSUME SettingsInit  PROVE TypeOK /\ ConfInv /\ ttl = Memory.ttl
  OBVIOUS
<1>1. TypeOK /\ store = 0 /\ 0 \in 0..MaxEdits
  BY TypeInitially, ConfigStoreAssumption DEF SettingsInit, Init
<1>2. PICK p \in Providers, t \in Ttls :
        /\ conf = [i \in 0..MaxEdits |->
             [providers |-> [q \in Providers |-> IF q = p THEN "enabled" ELSE "absent"],
              aliases |-> [a \in Aliases |-> {}], clients |-> <<>>, ttl |-> t, allow |-> {}]]
        /\ ttl = t
  BY DEF SettingsInit
<1>3. ASSUME NEW i \in 0..MaxEdits
      PROVE  Whole(conf[i]) /\ Sound(conf[i]) /\ conf[i].ttl = t
  <2>1. conf[i] = [providers |-> [q \in Providers |-> IF q = p THEN "enabled" ELSE "absent"],
                   aliases |-> [a \in Aliases |-> {}], clients |-> <<>>, ttl |-> t, allow |-> {}]
    BY <1>2
  <2>. QED  BY <2>1 DEF Whole, Sound
<1>4. ConfInv
  BY <1>2, <1>3 DEF ConfInv
<1>. QED  BY <1>1, <1>2, <1>3, <1>4 DEF Memory

\* While requests come one at a time, no alias names a provider that is gone, in
\* memory or on disk, whatever is refused, lost or read back.
THEOREM AliasesNeverDangle ==
  ASSUME NEW s, Savers = {s} PROVE SettingsSpec => []AliasTargetsExist
<1>. s \in Savers
  OBVIOUS
<1>. DEFINE IInv == TypeOK /\ SoleInv(s) /\ ConfInv
<1>1. SettingsInit => IInv
  BY ConfStarts, SoleStarts DEF SettingsInit
<1>2. IInv /\ [SettingsNext]_settingsVars => IInv'
  BY StepOfConfigStore, TypeInductive, SoleInvInductive, ConfInvInductive
<1>3. IInv => AliasTargetsExist
  <2>1. IInv => store \in 0..MaxEdits /\ inodes[target].data \in 0..MaxEdits
    BY ConfigStoreAssumption DEF TypeOK, SoleInv
  <2>. QED  BY <2>1 DEF ConfInv, Sound, AliasTargetsExist
<1>. QED  BY <1>1, <1>2, <1>3, PTL DEF SettingsSpec

\* The catalog has the TTL the store has, however requests overlap: a refused
\* request that has stored one has also told the catalog.
THEOREM ComponentsStayWithStore == SettingsSpec => []ComponentsFollowStore
<1>. DEFINE IInv == TypeOK /\ ConfInv /\ ComponentsFollowStore
<1>1. SettingsInit => IInv
  BY ConfStarts DEF ComponentsFollowStore
<1>2. IInv /\ [SettingsNext]_settingsVars => IInv'
  <2>. SUFFICES ASSUME IInv, [SettingsNext]_settingsVars  PROVE ComponentsFollowStore'
    BY StepOfConfigStore, TypeInductive, ConfInvInductive
  <2>1. ASSUME NEW s \in Savers, Handler(s)  PROVE ComponentsFollowStore'
    <3>1. PICK c : StoreBecomes(c)
      BY <2>1, HandlerEdits
    <3>2. conf'[store'] = c
      BY <3>1 DEF StoreBecomes, ConfInv
    <3>. QED  BY <3>1, <3>2 DEF StoreBecomes, ComponentsFollowStore, Memory
  <2>2. ASSUME NEW s \in Savers, Saving(s)  PROVE ComponentsFollowStore'
    BY <2>2
       DEF Saving, Swapped, OpenTmp, Write, MakePrivate, Rename, SaveFails,
           ComponentsFollowStore, Memory
  <2>3. CASE Killed \/ Started
    BY <2>3 DEF Killed, Crash, Started, ComponentsFollowStore, Memory
  <2>4. CASE UNCHANGED settingsVars
    BY <2>4 DEF settingsVars, vars, ComponentsFollowStore, Memory
  <2>. QED  BY <2>1, <2>2, <2>3, <2>4, StepCases
<1>. QED  BY <1>1, <1>2, PTL DEF SettingsSpec

\* While requests come one at a time, the pool that serves was never built from a
\* configuration newer than the file's.
THEOREM PoolFollowsFile ==
  ASSUME NEW s, Savers = {s} PROVE SettingsSpec => []PoolNotAheadOfFile
<1>. s \in Savers
  OBVIOUS
<1>. DEFINE ServedInv == served \in Nat /\ PoolNotAheadOfFile
            IInv == TypeOK /\ SoleInv(s) /\ ConfInv /\ ServedInv
<1>1. SettingsInit => IInv
  <2>1. SettingsInit => TypeOK /\ SoleInv(s) /\ ConfInv
    BY ConfStarts, SoleStarts DEF SettingsInit
  <2>2. SettingsInit => ServedInv
    BY ConfigStoreAssumption, TypeInitially DEF SettingsInit, Init, PoolNotAheadOfFile, TypeOK
  <2>. QED  BY <2>1, <2>2
<1>2. IInv /\ [SettingsNext]_settingsVars => IInv'
  <2>. SUFFICES ASSUME IInv, [SettingsNext]_settingsVars  PROVE ServedInv'
    BY StepOfConfigStore, TypeInductive, SoleInvInductive, ConfInvInductive
  <2>. USE DEF PoolNotAheadOfFile, TypeOK, SoleInv
  <2>1. ASSUME Handler(s)  PROVE ServedInv'
    <3>1. PICK c : StoreBecomes(c)
      BY <2>1, HandlerEdits
    <3>. QED  BY <3>1 DEF StoreBecomes
  <2>2. ASSUME Saving(s)  PROVE ServedInv'
    <3>1. CASE Rename(s)
      BY <2>2, <3>1, ConfigStoreAssumption DEF Saving, Swapped, Rename, At, SaveFails
    <3>2. CASE SaveFails(s)
      BY <2>2, <3>2, ConfigStoreAssumption DEF Saving, Swapped, Rename, SaveFails
    <3>3. CASE OpenTmp(s) \/ Write(s) \/ MakePrivate(s)
      <4>1. UNCHANGED <<store, up, served>>
        BY <2>2, <3>3 DEF Saving, Swapped, OpenTmp, Write, MakePrivate, Rename, SaveFails, At
      <4>2. inodes'[target'].data \in {inodes[target].data, store}
        BY <3>3, <4>1, SoleSaverSteps
           DEF Next, File!Next, File!Edit, File!Save, File!Reload, File!fvars
      <4>. QED  BY <4>1, <4>2, ConfigStoreAssumption
    <3>. QED  BY <2>2, <3>1, <3>2, <3>3 DEF Saving, Swapped
  <2>3. CASE Killed
    BY <2>3 DEF Killed, Crash
  <2>4. CASE Started
    BY <2>4, ConfigStoreAssumption DEF Started, Boot
  <2>5. CASE UNCHANGED settingsVars
    BY <2>5 DEF settingsVars, vars
  <2>. QED  BY <2>1, <2>2, <2>3, <2>4, <2>5, StepCases
<1>3. IInv => PoolNotAheadOfFile
  OBVIOUS
<1>. QED  BY <1>1, <1>2, <1>3, PTL DEF SettingsSpec

-----------------------------------------------------------------------------
(***************************************************************************)
(* The address filter.  A comparison under a mask is one of the blocks two *)
(* addresses are in, for addresses of any width.                           *)
(***************************************************************************)
LEMMA LeastElement ==
  ASSUME NEW S \in SUBSET Nat, S # {}
  PROVE  \E i \in S : \A j \in S : i <= j
<1> DEFINE R == {ss \in Nat \X Nat : ss[1] < ss[2]}
<1>1. IsWellFoundedOn(R, Nat)
  BY NatLessThanWellFounded DEF OpToRel
<1>2. PICK i \in S : \A j \in S : ~(<<j, i>> \in R)
  <2> HIDE DEF R
  <2>. QED  BY <1>1, WFMin
<1>3. \A j \in S : ~(j < i)
  <2>1. ASSUME NEW j \in S, j < i  PROVE <<j, i>> \in R
    BY <2>1, SMT
  <2>. QED  BY <1>2, <2>1
<1>4. \A j \in S : j \in Nat /\ i \in Nat
  OBVIOUS
<1>. HIDE DEF R
<1>. QED  BY <1>3, <1>4

\* What TwoTo is defined by holds of it.
LEMMA TwoToDoubles ==
  /\ TwoTo[0] = 1
  /\ \A n \in 1..(Width4 + 1) : TwoTo[n] = 2 * TwoTo[n - 1]
<1>. DEFINE Dbl(g, i) == IF i = 0 THEN 1 ELSE 2 * g[i - 1]
            On(g, n) == g = [i \in 0..n |-> Dbl(g, i)]
            W == Width4 + 1
            Lacks == {n \in 0..W : ~ \E g : On(g, n)}
<1>0. W \in Nat
  BY WidthAssumption
<1>1. \E g : On(g, 0)
  <2>. DEFINE g == [i \in 0..0 |-> 1]
  <2>1. \A i \in 0..0 : Dbl(g, i) = 1
    OBVIOUS
  <2>2. On(g, 0)
    BY <2>1
  <2>. HIDE DEF On, g
  <2>. QED  BY <2>2
<1>2. ASSUME NEW n \in 1..W, NEW h, On(h, n - 1)  PROVE \E g : On(g, n)
  <2>. DEFINE g == [i \in 0..n |-> Dbl(h, i)]
  <2>1. \A i \in 0..(n - 1) : h[i] = Dbl(h, i)
    BY <1>2
  <2>2. \A i \in 0..(n - 1) : g[i] = h[i]
    BY <2>1
  <2>. HIDE DEF g
  <2>3. ASSUME NEW i \in 0..n  PROVE Dbl(g, i) = Dbl(h, i)
    <3>1. CASE i = 0
      BY <3>1
    <3>2. CASE i # 0
      <4>1. i - 1 \in 0..(n - 1)
        BY <3>2
      <4>2. g[i - 1] = h[i - 1]
        BY <2>2, <4>1
      <4>. QED  BY <4>2
    <3>. QED  BY <3>1, <3>2
  <2>4. On(g, n)
    <3>1. g = [i \in 0..n |-> Dbl(h, i)]
      BY DEF g
    <3>. HIDE DEF Dbl
    <3>. QED  BY <2>3, <3>1
  <2>. HIDE DEF On
  <2>. QED  BY <2>4
<1>3. Lacks = {}
  <2>. SUFFICES ASSUME Lacks # {}  PROVE FALSE
    OBVIOUS
  <2>. HIDE DEF On, W
  <2>1. PICK n \in Lacks : \A m \in Lacks : n <= m
    <3>1. Lacks \in SUBSET Nat
      OBVIOUS
    <3>. HIDE DEF Lacks
    <3>. QED  BY <3>1, LeastElement
  <2>2. n \in 1..W /\ n - 1 \in 0..W
    <3>1. n \in 0..W /\ n # 0
      BY <1>1
    <3>. HIDE DEF Lacks
    <3>. QED  BY <1>0, <3>1
  <2>3. n - 1 \notin Lacks
    <3>. HIDE DEF Lacks
    <3>. QED  BY <2>1, <2>2
  <2>4. (\E h : On(h, n - 1)) /\ ~ \E g : On(g, n)
    BY <2>2, <2>3
  <2>. QED  BY <1>2, <2>2, <2>4
<1>4. \E g : On(g, W)
  <2>1. W \in 0..W
    BY <1>0
  <2>. HIDE DEF On, W
  <2>. QED  BY <1>3, <2>1
<1>5. TwoTo = CHOOSE g : On(g, W)
  BY Zenon DEF TwoTo
<1>6. On(TwoTo, W)
  <2>. HIDE DEF On
  <2>. QED  BY <1>4, <1>5
<1>7. \A n \in 0..W : TwoTo[n] = Dbl(TwoTo, n)
  BY <1>6
<1>. QED  BY <1>0, <1>7

LEMMA TwoToPositive == \A n \in 0..(Width4 + 1) : TwoTo[n] \in Nat \ {0}
<1>. DEFINE W == Width4 + 1
            Bad == {n \in 0..W : TwoTo[n] \notin Nat \ {0}}
<1>0. W \in Nat
  BY WidthAssumption
<1>. SUFFICES ASSUME Bad # {}  PROVE FALSE
  OBVIOUS
<1>. HIDE DEF W
<1>1. PICK n \in Bad : \A m \in Bad : n <= m
  <2>1. Bad \in SUBSET Nat
    OBVIOUS
  <2>. HIDE DEF Bad
  <2>. QED  BY <2>1, LeastElement
<1>2. n \in 0..W /\ TwoTo[n] \notin Nat \ {0}
  OBVIOUS
<1>3. n \in 1..W /\ n - 1 \in 0..W
  <2>1. n # 0
    BY <1>2, TwoToDoubles
  <2>. HIDE DEF Bad
  <2>. QED  BY <1>0, <1>2, <2>1
<1>4. n - 1 \notin Bad
  <2>. HIDE DEF Bad
  <2>. QED  BY <1>1, <1>3
<1>5. TwoTo[n - 1] \in Nat \ {0}
  BY <1>3, <1>4
<1>6. TwoTo[n] = 2 * TwoTo[n - 1]
  BY <1>3, TwoToDoubles DEF W
<1>. DEFINE below == TwoTo[n - 1]
<1>. HIDE DEF below, Bad
<1>7. 2 * below \in Nat \ {0}
  BY <1>5 DEF below
<1>. QED  BY <1>2, <1>6, <1>7 DEF below

\* Two addresses are the same above the prefix when they are in the same block.
LEMMA SameBlock ==
  ASSUME NEW block \in Nat \ {0}, NEW x \in Nat, NEW y \in Nat
  PROVE  x - (x % block) = y - (y % block) <=> x \div block = y \div block
OBVIOUS

LEMMA CoversIsDivision ==
  ASSUME NEW rule \in Rules, NEW peer \in Peers, rule.family = peer.family
  PROVE  LET block == TwoTo[Width[rule.family] - rule.bits]
         IN Covers(rule, peer) <=> rule.addr \div block = peer.addr \div block
<1>. DEFINE width == Width[rule.family]
            bits  == rule.bits
            block == TwoTo[width - bits]
            top   == TwoTo[width]
            x     == rule.addr
            y     == peer.addr
<1>1. /\ rule.family \in {"v4", "v6"} /\ x \in Words(rule.family) /\ bits \in 0..width
      /\ y \in Words(rule.family)
  BY DEF Rules, Peers
<1>2. width \in 1..(Width4 + 1) /\ width \in Nat \ {0}
  BY <1>1, WidthAssumption DEF Width
<1>3. x \in 0..(top - 1) /\ y \in 0..(top - 1)
  BY <1>1 DEF Words
<1>. HIDE DEF width, bits, x, y
<1>4. width - bits \in 0..(Width4 + 1)
  BY <1>1, <1>2, WidthAssumption
<1>5. block \in Nat \ {0} /\ top \in Nat \ {0}
  BY <1>2, <1>4, TwoToPositive
<1>6. CASE bits = 0
  <2>1. block = top
    BY <1>2, <1>6
  <2>. HIDE DEF top, block
  <2>2. x \div top = 0 /\ y \div top = 0
    BY <1>3, <1>5
  <2>3. Covers(rule, peer)
    BY <1>6 DEF Covers, bits
  <2>. QED  BY <2>1, <2>2, <2>3 DEF block, x, y, width, bits
<1>7. CASE bits # 0
  <2>1. (width - bits) % width = width - bits
    BY <1>1, <1>2, <1>7
  <2>2. Mask(width, bits) = top - block
    BY <2>1 DEF Mask
  <2>. HIDE DEF top, block
  <2>3. top - (top - block) = block
    BY <1>5
  <2>4. \A z : Masked(width, z, Mask(width, bits)) = z - (z % block)
    BY <2>2, <2>3 DEF Masked, top
  <2>5. Covers(rule, peer) <=> x - (x % block) = y - (y % block)
    BY <1>7, <2>4, Zenon DEF Covers, SameMasked, width, bits, x, y
  <2>6. x \in Nat /\ y \in Nat
    BY <1>3, <1>5
  <2>7. Covers(rule, peer) <=> x \div block = y \div block
    BY <1>5, <2>5, <2>6, SameBlock
  <2>. QED  BY <2>7, Zenon DEF block, x, y, width, bits
<1>. QED  BY <1>6, <1>7

\* A mapped address has a v4 address in it.
LEMMA UnmappedIsPeer ==
  ASSUME NEW peer \in Peers, Mapped(peer)
  PROVE  Unmapped(peer) \in Peers /\ Unmapped(peer).family = "v4"
<1>. DEFINE top == TwoTo[Width4]
            y   == peer.addr
<1>1. y \in 0..(TwoTo[Width4 + 1] - 1) /\ y >= top
  BY DEF Peers, Words, Width, Mapped
<1>2. TwoTo[Width4 + 1] = 2 * top
  BY WidthAssumption, TwoToDoubles
<1>3. top \in Nat \ {0}
  BY WidthAssumption, TwoToPositive
<1>4. y - top \in 0..(top - 1)
  <2>. HIDE DEF top, y
  <2>. QED  BY <1>1, <1>2, <1>3
<1>5. Unmapped(peer) = [family |-> "v4", addr |-> y - top]
  BY DEF Unmapped
<1>6. [family |-> "v4", addr |-> y - top] \in [family : {"v4"}, addr : Words("v4")]
  <2>1. Words("v4") = 0..(top - 1)
    BY DEF Words, Width
  <2>. HIDE DEF top, y
  <2>. QED  BY <1>4, <2>1
<1>. HIDE DEF top, y
<1>. QED  BY <1>5, <1>6 DEF Peers

LEMMA MatchesIsInNetwork ==
  ASSUME NEW rule \in Rules, NEW peer \in Peers
  PROVE  Matches(rule, peer) <=> InNetwork(rule, peer)
<1>. DEFINE block == TwoTo[Width[rule.family] - rule.bits]
            Agree(addr) == rule.addr \div block = addr \div block
<1>1. InNetwork(rule, peer) <=>
        \/ rule.family = peer.family /\ Agree(peer.addr)
        \/ rule.family = "v4" /\ Mapped(peer) /\ Agree(Unmapped(peer).addr)
  BY Zenon DEF InNetwork
<1>2. \A p \in Peers : Covers(rule, p) <=> rule.family = p.family /\ Agree(p.addr)
  <2>. SUFFICES ASSUME NEW p \in Peers
                PROVE  Covers(rule, p) <=> rule.family = p.family /\ Agree(p.addr)
    BY Zenon
  <2>1. CASE rule.family = p.family
    <3>1. Covers(rule, p) <=> Agree(p.addr)
      BY <2>1, CoversIsDivision, Zenon
    <3>. QED  BY <2>1, <3>1, Zenon
  <2>2. CASE rule.family # p.family
    BY <2>2, Zenon DEF Covers
  <2>. QED  BY <2>1, <2>2, Zenon
<1>. HIDE DEF block, Agree
<1>3. Covers(rule, peer) <=> rule.family = peer.family /\ Agree(peer.addr)
  BY <1>2, Zenon
<1>4. CASE Mapped(peer)
  <2>1. Unmapped(peer) \in Peers /\ Unmapped(peer).family = "v4"
    BY <1>4, UnmappedIsPeer
  <2>2. Covers(rule, Unmapped(peer)) <=> rule.family = "v4" /\ Agree(Unmapped(peer).addr)
    BY <1>2, <2>1, Zenon
  <2>. QED  BY <1>1, <1>3, <2>2, Zenon DEF Matches
<1>5. CASE ~Mapped(peer)
  BY <1>1, <1>3, <1>5, Zenon DEF Matches
<1>. QED  BY <1>4, <1>5, Zenon

\* Whatever lists are sent, taken or refused, the filter lets in just whom the
\* list in the store names, and loopback.
THEOREM FilterMeansTheList == SettingsSpec => []FilterIsAsConfigured
<1>1. SettingsInit => TypeOK /\ ConfInv
  BY ConfStarts
<1>2. TypeOK /\ ConfInv /\ [SettingsNext]_settingsVars => (TypeOK /\ ConfInv)'
  BY StepOfConfigStore, TypeInductive, ConfInvInductive
<1>3. TypeOK /\ ConfInv => FilterIsAsConfigured
  <2>. SUFFICES ASSUME TypeOK, ConfInv, NEW peer \in Peers
                PROVE  Permitted(Memory.allow, peer) <=>
                         \/ Memory.allow = {} \/ IsLoopback(peer)
                         \/ \E rule \in Memory.allow : InNetwork(rule, peer)
    BY Zenon DEF FilterIsAsConfigured
  <2>. DEFINE list == Memory.allow
  <2>1. list \in SUBSET Rules
    BY DEF TypeOK, ConfInv, Whole, Memory
  <2>. HIDE DEF list
  <2>2. Parsed(list) = list
    BY <2>1 DEF Parsed
  <2>3. \A rule \in list : Matches(rule, peer) <=> InNetwork(rule, peer)
    BY <2>1, MatchesIsInNetwork
  <2>4. Permitted(list, peer) <=> \/ list = {} \/ IsLoopback(peer)
                                  \/ \E rule \in list : InNetwork(rule, peer)
    BY <2>2, <2>3, Zenon DEF Permitted
  <2>. QED  BY <2>4, Zenon DEF list
<1>. QED  BY <1>1, <1>2, <1>3, PTL DEF SettingsSpec

=============================================================================

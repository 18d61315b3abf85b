--------------------------- MODULE Accounts_proofs ---------------------------
(***************************************************************************)
(* The claim of the proxy, its superuser, its sessions and its throttle,   *)
(* for any visitors, any calls under way at once, any number of restarts   *)
(* and of passwords ever set.                                              *)
(***************************************************************************)
EXTENDS Accounts, FiniteSetTheorems, TLAPS

(***************************************************************************)
(* The claim.  What is on disk is in memory too; a claim on its way past   *)
(* its save is the one on disk; the gate is open only with a claim on disk.*)
(***************************************************************************)
SetupInv ==
  /\ disk # NOBODY => store = disk
  /\ \A v \in Visitors : pc[v] \in {"saved", "opened"} => disk = v
  /\ claimed # {} => disk # NOBODY /\ claimed = {disk}
  /\ ~required => disk # NOBODY

(***************************************************************************)
(* Accounts.  A login past its password check names the account it         *)
(* checked; the superuser in memory and on disk is the one who claimed;    *)
(* nobody is past a console guard before the gate is open.                 *)
(***************************************************************************)
PassedKnown ==
  \A c \in Callers : call[c].step = "passed" => call[c].user \in Visitors /\ call[c].hash # 0

SessionKnown ==
  \A c \in Callers : call[c].step \in {"session", "admin"} => ~required

SuperuserOf(users, v) == users[v].hash # 0 /\ users[v].role = "superuser"

RolesInv ==
  /\ \A v \in Visitors : SuperuserOf(mem, v) <=> v = store
  /\ \A v \in Visitors : SuperuserOf(file, v) <=> v = disk

(***************************************************************************)
(* Sessions.  No password hash in use is newer than the last one made, so  *)
(* a session whose hash is still its account's was minted for the account  *)
(* as it is.                                                               *)
(***************************************************************************)
HashesMade ==
  /\ \A v \in Visitors : mem[v].hash <= hashes /\ file[v].hash <= hashes
  /\ \A t \in cookies : t.hash <= hashes
  /\ \A c \in Callers : call[c].hash <= hashes

Current(t) == mem[t.user].hash = t.hash => t.epoch = epoch[t.user]

SessionInv ==
  /\ \A t \in cookies : t.boot <= crashes /\ (t.boot = crashes => Current(t))
  /\ \A c \in Callers : call[c].step = "passed" => Current(call[c])

(***************************************************************************)
(* The throttle.  While its window runs, every attempt that was let        *)
(* through and has not been counted yet has its place below the bound.     *)
(***************************************************************************)
LetThrough == {c \in Callers : call[c].step \in {"asked", "failed", "passed"}}

ThrottleInv ==
  /\ fails < MaxFails + Cardinality(Callers)
  /\ ~windowOver => fails + Cardinality(LetThrough) < MaxFails + Cardinality(Callers)

-----------------------------------------------------------------------------
(***************************************************************************)
(* Every step of the accounts is a step of the claim or leaves it alone.   *)
(***************************************************************************)
LEMMA StepOfSetup == [AccountsNext]_allVars => [Next]_vars
<1>. SUFFICES ASSUME [AccountsNext]_allVars  PROVE Next \/ UNCHANGED vars
  OBVIOUS
<1>1. CASE RestartAccounts
  BY <1>1 DEF RestartAccounts, Next
<1>2. CASE ClaimGoesOn
  BY <1>2 DEF ClaimGoesOn, Next
<1>3. ASSUME NEW v \in Visitors, EnterAccount(v)  PROVE Next
  BY <1>3 DEF EnterAccount, Next
<1>4. ASSUME NEW c \in Callers, LoginStep(c)  PROVE UNCHANGED vars
  BY <1>4 DEF LoginStep, CheckPassword, RecordFailure, MintSession
<1>5. ASSUME NEW c \in Callers, AskLogin(c) \/ RequireAdmin(c) \/ Refused(c)
      PROVE  UNCHANGED vars
  BY <1>5 DEF AskLogin, RequireAdmin, Refused
<1>6. ASSUME NEW c \in Callers, NEW u \in Visitors,
             AddUser(c, u) \/ RemoveUser(c, u) \/ SetPassword(c, u)
      PROVE  UNCHANGED vars
  BY <1>6 DEF AddUser, RemoveUser, SetPassword
<1>7. ASSUME NEW c \in Callers, NEW t \in cookies, RequireSession(c, t)  PROVE UNCHANGED vars
  BY <1>7 DEF RequireSession
<1>8. ASSUME NEW t \in cookies, Forget(t)  PROVE UNCHANGED vars
  BY <1>8 DEF Forget
<1>9. CASE WindowEnds \/ UNCHANGED allVars
  BY <1>9 DEF WindowEnds, allVars
<1>. QED
  BY <1>1, <1>2, <1>3, <1>4, <1>5, <1>6, <1>7, <1>8, <1>9 DEF AccountsNext

LEMMA SetupInvInductive ==
  TypeOK /\ SetupInv /\ [Next]_vars => TypeOK' /\ SetupInv'
<1>. SUFFICES ASSUME TypeOK, SetupInv, [Next]_vars  PROVE TypeOK' /\ SetupInv'
  OBVIOUS
<1>. USE SetupAssumption DEF TypeOK, SetupInv, Goes
<1>1. CASE Restart
  BY <1>1 DEF Restart
<1>2. ASSUME NEW v \in Visitors, Post(v) \/ Conflict(v)  PROVE TypeOK' /\ SetupInv'
  BY <1>2 DEF Post, Conflict
<1>3. ASSUME NEW v \in Visitors, Enter(v)  PROVE TypeOK' /\ SetupInv'
  BY <1>3 DEF Enter, Unclaimed
<1>4. ASSUME NEW v \in Visitors, EnterFails(v)  PROVE TypeOK' /\ SetupInv'
  BY <1>4 DEF EnterFails, Unclaimed
<1>5. ASSUME NEW v \in Visitors, OpenGate(v)  PROVE TypeOK' /\ SetupInv'
  BY <1>5 DEF OpenGate
<1>6. ASSUME NEW v \in Visitors, SwapPool(v)  PROVE TypeOK' /\ SetupInv'
  <2>1. disk = v /\ claimed' = {v}
    BY <1>6 DEF SwapPool
  <2>. QED  BY <1>6, <2>1 DEF SwapPool
<1>7. CASE UNCHANGED vars
  BY <1>7 DEF vars
<1>. QED
  BY <1>1, <1>2, <1>3, <1>4, <1>5, <1>6, <1>7 DEF Next

LEMMA SetupStarts == Init => TypeOK /\ SetupInv
<1>. SUFFICES ASSUME Init  PROVE TypeOK /\ SetupInv
  OBVIOUS
<1>1. /\ required = TRUE /\ lanes = FALSE /\ store = NOBODY /\ disk = NOBODY
      /\ pc = [v \in Visitors |-> "idle"] /\ claimed = {} /\ crashes = 0
  BY DEF Init
<1>2. TypeOK
  <2>1. {required, lanes} \subseteq BOOLEAN
    BY <1>1, Zenon
  <2>2. crashes \in 0 .. MaxCrashes
    BY <1>1, SetupAssumption
  <2>. QED  BY <1>1, <2>1, <2>2 DEF TypeOK
<1>3. SetupInv
  BY <1>1 DEF SetupInv
<1>. QED  BY <1>2, <1>3

\* Whatever visitors race for it, and through any number of restarts, one claim of
\* the proxy is ever accepted, and it is the superuser's, in memory and on disk.
THEOREM ClaimedOnce == AccountsSpec => []OneClaimOnly
<1>1. AccountsInit => TypeOK /\ SetupInv
  BY SetupStarts DEF AccountsInit
<1>2. TypeOK /\ SetupInv /\ [AccountsNext]_allVars => TypeOK' /\ SetupInv'
  BY StepOfSetup, SetupInvInductive
<1>3. TypeOK /\ SetupInv => OneClaimOnly
  <2>1. Cardinality({}) = 0 /\ Cardinality({disk}) = 1
    BY FS_EmptySet, FS_Singleton
  <2>. QED  BY <2>1 DEF SetupInv, OneClaimOnly
<1>. QED  BY <1>1, <1>2, <1>3, PTL DEF AccountsSpec

-----------------------------------------------------------------------------
(***************************************************************************)
(* Types.                                                                  *)
(***************************************************************************)
Steps == {"idle", "asked", "failed", "passed", "session", "admin"}

CallsOK(calls) ==
  /\ calls \in [Callers -> [step : Steps, user : Visitors \cup {NOBODY},
                            hash : 0..MaxHashes, epoch : Nat]]
  /\ \A c \in Callers : calls[c].step = "passed" => calls[c].user \in Visitors /\ calls[c].hash # 0

\* AccountsTypeOK and PassedKnown, taken apart by what a step may touch.
TypeInv ==
  /\ TypeOK
  /\ mem \in Users /\ file \in Users
  /\ hashes \in 0..MaxHashes
  /\ epoch \in [Visitors -> Nat]
  /\ cookies \subseteq [user : Visitors, hash : 1..MaxHashes, boot : 0..MaxCrashes, epoch : Nat]
  /\ fails \in Nat
  /\ windowOver \in BOOLEAN
  /\ CallsOK(call)

LEMMA CallsStayOK ==
  ASSUME CallsOK(call), NEW c \in Callers
  PROVE  /\ Answered(c) => CallsOK(call')
         /\ \A step \in Steps \ {"passed"} : Becomes(c, step) => CallsOK(call')
<1>1. Answered(c) => CallsOK(call')
  BY AccountsAssumption DEF Answered, CallsOK, Idle, Steps
<1>2. ASSUME NEW step \in Steps \ {"passed"}, Becomes(c, step)  PROVE CallsOK(call')
  BY <1>2 DEF Becomes, CallsOK, Steps
<1>. QED  BY <1>1, <1>2

LEMMA HashedTypes ==
  ASSUME TypeInv, NEW u \in Visitors, NEW role \in Roles, Hashed(u, role)
  PROVE  mem' \in Users /\ hashes' \in 0..MaxHashes /\ epoch' \in [Visitors -> Nat]
<1>. USE DEF TypeInv
<1>1. hashes + 1 \in 0..MaxHashes
  BY AccountsAssumption DEF Hashed
<1>2. mem' = [mem EXCEPT ![u] = [hash |-> hashes + 1, role |-> role]]
  BY DEF Hashed
<1>3. mem' \in Users
  BY <1>1, <1>2 DEF Users
<1>. QED  BY <1>1, <1>3 DEF Hashed

LEMMA TypeInvInductive == TypeInv /\ SetupInv /\ [AccountsNext]_allVars => TypeInv'
<1>. SUFFICES ASSUME TypeInv, SetupInv, [AccountsNext]_allVars  PROVE TypeInv'
  OBVIOUS
<1>. USE DEF TypeInv
<1>1. TypeOK'
  BY StepOfSetup, SetupInvInductive
<1>2. CASE RestartAccounts
  <2>1. CallsOK(call')
    BY <1>2, AccountsAssumption DEF RestartAccounts, CallsOK, Idle, Steps
  <2>. QED  BY <1>1, <1>2, <2>1 DEF RestartAccounts
<1>3. CASE ClaimGoesOn
  BY <1>1, <1>3 DEF ClaimGoesOn, accVars
<1>4. ASSUME NEW v \in Visitors, EnterAccount(v)  PROVE TypeInv'
  <2>1. Hashed(v, "superuser") /\ file' \in {mem', file} /\ UNCHANGED <<cookies, fails, windowOver, call>>
    BY <1>4 DEF EnterAccount, Saved
  <2>. QED  BY <1>1, <2>1, HashedTypes DEF Roles
<1>5. ASSUME NEW c \in Callers, CheckPassword(c)  PROVE TypeInv'
  <2>1. CallsOK(call')
    <3>1. CASE Becomes(c, "failed")
      BY <3>1, CallsStayOK DEF Steps
    <3>2. ASSUME NEW u \in Visitors, Exists(u),
                 call' = [call EXCEPT ![c] = [step |-> "passed", user |-> u,
                                              hash |-> mem[u].hash, epoch |-> epoch[u]]]
          PROVE  CallsOK(call')
      <4>1. mem[u].hash \in 0..MaxHashes /\ mem[u].hash # 0 /\ epoch[u] \in Nat
        BY <3>2 DEF Exists, Users
      <4>. QED  BY <3>2, <4>1 DEF CallsOK, Steps
    <3>. QED  BY <1>5, <3>1, <3>2 DEF CheckPassword
  <2>. QED  BY <1>1, <1>5, <2>1 DEF CheckPassword
<1>6. ASSUME NEW c \in Callers, RecordFailure(c)  PROVE TypeInv'
  <2>1. fails' = (IF windowOver THEN 0 ELSE fails) + 1 /\ windowOver' = FALSE /\ Answered(c)
    BY <1>6 DEF RecordFailure
  <2>2. fails' \in Nat
    <3>1. fails' = 0 + 1 \/ fails' = fails + 1
      BY <2>1, Zenon
    <3>. QED  BY <3>1
  <2>3. windowOver' \in BOOLEAN
    BY <2>1, Zenon
  <2>. QED  BY <1>1, <1>6, <2>1, <2>2, <2>3, CallsStayOK DEF RecordFailure
<1>7. ASSUME NEW c \in Callers, MintSession(c)  PROVE TypeInv'
  <2>1. Token(c) \in [user : Visitors, hash : 1..MaxHashes, boot : 0..MaxCrashes, epoch : Nat]
    <3>1. call[c].user \in Visitors /\ call[c].hash \in 1..MaxHashes /\ call[c].epoch \in Nat
      BY <1>7, AccountsAssumption DEF MintSession, At, CallsOK
    <3>. QED  BY <3>1 DEF Token, TypeOK
  <2>2. /\ fails' = 0
        /\ cookies' = cookies \cup {Token(c)}
        /\ Answered(c)
        /\ UNCHANGED <<vars, mem, file, hashes, epoch, windowOver>>
    BY <1>7 DEF MintSession
  <2>. QED  BY <1>1, <2>1, <2>2, CallsStayOK
<1>8. ASSUME NEW c \in Callers, AskLogin(c) \/ RequireAdmin(c) \/ Refused(c)  PROVE TypeInv'
  <2>1. CallsOK(call')
    BY <1>8, CallsStayOK DEF AskLogin, RequireAdmin, Refused, Steps
  <2>. QED  BY <1>1, <1>8, <2>1 DEF AskLogin, RequireAdmin, Refused
<1>9. ASSUME NEW c \in Callers, NEW t \in cookies, RequireSession(c, t)  PROVE TypeInv'
  <2>1. call' = [call EXCEPT ![c] = [Idle EXCEPT !.step = "session", !.user = t.user]]
    BY <1>9 DEF RequireSession
  <2>2. Idle \in [step : Steps, user : Visitors \cup {NOBODY}, hash : 0..MaxHashes, epoch : Nat]
    BY AccountsAssumption DEF Idle, Steps
  <2>3. call'[c] = [step |-> "session", user |-> t.user, hash |-> Idle.hash, epoch |-> Idle.epoch]
    BY <2>1, <2>2 DEF CallsOK
  <2>4. CallsOK(call')
    BY <2>1, <2>2, <2>3 DEF CallsOK, Steps
  <2>. QED  BY <1>1, <1>9, <2>4 DEF RequireSession
<1>10. ASSUME NEW c \in Callers, NEW u \in Visitors,
              AddUser(c, u) \/ SetPassword(c, u) \/ RemoveUser(c, u)
       PROVE  TypeInv'
  <2>1. mem' \in Users /\ hashes' \in 0..MaxHashes /\ epoch' \in [Visitors -> Nat]
    <3>1. CASE AddUser(c, u)
      BY <3>1, HashedTypes DEF AddUser, Roles
    <3>2. CASE SetPassword(c, u)
      <4>1. mem[u].role \in Roles
        BY DEF Users
      <4>. QED  BY <3>2, <4>1, HashedTypes DEF SetPassword
    <3>3. CASE RemoveUser(c, u)
      <4>1. NoAccount \in [hash : 0..MaxHashes, role : Roles]
        BY AccountsAssumption DEF NoAccount, Roles
      <4>2. mem' = [mem EXCEPT ![u] = NoAccount] /\ hashes' = hashes
            /\ epoch' = [epoch EXCEPT ![u] = epoch[u] + 1]
        BY <3>3 DEF RemoveUser
      <4>3. mem' \in Users
        BY <4>1, <4>2 DEF Users
      <4>. QED  BY <4>2, <4>3
    <3>. QED  BY <1>10, <3>1, <3>2, <3>3
  <2>2. SavedOrNot /\ Answered(c) /\ UNCHANGED <<cookies, fails, windowOver>>
    BY <1>10 DEF AddUser, SetPassword, RemoveUser
  <2>. QED  BY <1>1, <2>1, <2>2, CallsStayOK DEF SavedOrNot
<1>11. CASE WindowEnds \/ (\E t \in cookies : Forget(t)) \/ UNCHANGED allVars
  BY <1>1, <1>11 DEF WindowEnds, Forget, allVars, accVars
<1>. QED
  BY <1>2, <1>3, <1>4, <1>5, <1>6, <1>7, <1>8, <1>9, <1>10, <1>11
     DEF AccountsNext, LoginStep

LEMMA TypesStart == AccountsInit => TypeInv /\ SetupInv
<1>. SUFFICES ASSUME AccountsInit  PROVE TypeInv /\ SetupInv
  OBVIOUS
<1>1. TypeOK /\ SetupInv
  BY SetupStarts DEF AccountsInit
<1>2. mem \in Users /\ file \in Users
  BY AccountsAssumption DEF AccountsInit, Users, NoAccount, Roles
<1>3. CallsOK(call)
  BY AccountsAssumption DEF AccountsInit, CallsOK, Idle, Steps
<1>4. hashes = 0 /\ 0 \in 0..MaxHashes /\ epoch \in [Visitors -> Nat] /\ cookies = {}
      /\ fails = 0 /\ windowOver = FALSE
  BY AccountsAssumption DEF AccountsInit
<1>. QED  BY <1>1, <1>2, <1>3, <1>4 DEF TypeInv

\* Accounts, sessions and calls are well typed in every reachable state.
THEOREM AccountsTypes == AccountsSpec => []AccountsTypeOK
<1>1. TypeInv /\ SetupInv /\ [AccountsNext]_allVars => TypeInv' /\ SetupInv'
  BY TypeInvInductive, StepOfSetup, SetupInvInductive DEF TypeInv
<1>2. TypeInv => AccountsTypeOK
  BY DEF TypeInv, AccountsTypeOK, CallsOK, Steps
<1>. QED  BY TypesStart, <1>1, <1>2, PTL DEF AccountsSpec

-----------------------------------------------------------------------------
(***************************************************************************)
(* The superuser.  A handler that changes the accounts runs behind the     *)
(* console's guards, so the gate is open and memory and disk agree on who  *)
(* the superuser is; each of them leaves that account its role.            *)
(***************************************************************************)
LEMMA SessionKnownInductive ==
  TypeInv /\ SetupInv /\ SessionKnown /\ [AccountsNext]_allVars => SessionKnown'
<1>. SUFFICES ASSUME TypeInv, SetupInv, SessionKnown, [AccountsNext]_allVars
              PROVE  SessionKnown'
  OBVIOUS
<1>. USE DEF TypeInv, CallsOK, SessionKnown
<1>1. CASE RestartAccounts
  BY <1>1 DEF RestartAccounts, Idle
<1>2. CASE ClaimGoesOn
  BY <1>2 DEF ClaimGoesOn, accVars, Post, Conflict, OpenGate, SwapPool
<1>3. ASSUME NEW v \in Visitors, EnterAccount(v)  PROVE SessionKnown'
  BY <1>3 DEF EnterAccount, Enter, EnterFails
<1>4. ASSUME NEW c \in Callers, required' = required,
             \/ call'[c].step \notin {"session", "admin"}
             \/ ~required,
             \A d \in Callers : d # c => call'[d] = call[d]
      PROVE  SessionKnown'
  BY <1>4
<1>5. ASSUME NEW c \in Callers, AskLogin(c) \/ LoginStep(c) \/ RequireAdmin(c) \/ Refused(c)
      PROVE  SessionKnown'
  BY <1>4, <1>5
     DEF AskLogin, LoginStep, CheckPassword, RecordFailure, MintSession, RequireAdmin, Refused,
         Answered, Becomes, At, Idle, vars
<1>6. ASSUME NEW c \in Callers, NEW u \in Visitors,
             AddUser(c, u) \/ SetPassword(c, u) \/ RemoveUser(c, u)
      PROVE  SessionKnown'
  BY <1>4, <1>6 DEF AddUser, SetPassword, RemoveUser, Answered, At, vars
<1>7. ASSUME NEW c \in Callers, NEW t \in cookies, RequireSession(c, t)  PROVE SessionKnown'
  BY <1>4, <1>7 DEF RequireSession, vars
<1>8. CASE WindowEnds \/ (\E t \in cookies : Forget(t)) \/ UNCHANGED allVars
  BY <1>8 DEF WindowEnds, Forget, allVars, accVars, vars
<1>. QED
  BY <1>1, <1>2, <1>3, <1>5, <1>6, <1>7, <1>8 DEF AccountsNext

\* What a handler makes of the accounts: a new one, one without, one with a new password.
LEMMA RolesKept ==
  ASSUME TypeInv, SetupInv, SessionKnown, RolesInv,
         NEW c \in Callers, NEW u \in Visitors,
         AddUser(c, u) \/ SetPassword(c, u) \/ RemoveUser(c, u)
  PROVE  \A v \in Visitors : SuperuserOf(mem', v) <=> v = store
<1>. USE DEF TypeInv, RolesInv, SuperuserOf
<1>1. mem \in Users /\ hashes + 1 # 0 /\ \A v \in Visitors : SuperuserOf(mem, v) <=> v = store
  OBVIOUS
<1>2. CASE AddUser(c, u)
  <2>1. PICK role \in {"admin", "user"} :
          mem' = [mem EXCEPT ![u] = [hash |-> hashes + 1, role |-> role]]
    BY <1>2 DEF AddUser, Hashed
  <2>2. u # store
    BY <1>1, <1>2 DEF AddUser, Exists
  <2>. QED  BY <1>1, <2>1, <2>2 DEF Users
<1>3. CASE SetPassword(c, u)
  <2>1. /\ mem' = [mem EXCEPT ![u] = [hash |-> hashes + 1, role |-> mem[u].role]]
        /\ mem[u].hash # 0
    BY <1>3 DEF SetPassword, Hashed, Exists
  <2>. QED  BY <1>1, <2>1 DEF Users
<1>4. CASE RemoveUser(c, u)
  <2>1. mem' = [mem EXCEPT ![u] = NoAccount] /\ u # store
    BY <1>1, <1>4 DEF RemoveUser, Removable, Exists
  <2>. QED  BY <1>1, <2>1 DEF Users, NoAccount
<1>. QED  BY <1>2, <1>3, <1>4

LEMMA RolesInvInductive ==
  TypeInv /\ SetupInv /\ SessionKnown /\ RolesInv /\ [AccountsNext]_allVars => RolesInv'
<1>. SUFFICES ASSUME TypeInv, SetupInv, SessionKnown, RolesInv, [AccountsNext]_allVars
              PROVE  RolesInv'
  OBVIOUS
<1>1. CASE RestartAccounts
  BY <1>1 DEF RestartAccounts, Restart, RolesInv, SuperuserOf
<1>2. CASE ClaimGoesOn
  BY <1>2 DEF ClaimGoesOn, accVars, Post, Conflict, OpenGate, SwapPool, RolesInv, SuperuserOf
<1>3. ASSUME NEW v \in Visitors, EnterAccount(v)  PROVE RolesInv'
  <2>1. /\ store = NOBODY /\ store' = v /\ disk = NOBODY
        /\ mem' = [mem EXCEPT ![v] = [hash |-> hashes + 1, role |-> "superuser"]]
        /\ (file' = mem' /\ disk' = v) \/ (file' = file /\ disk' = disk)
    BY <1>3, SetupAssumption
       DEF EnterAccount, Enter, EnterFails, Unclaimed, Hashed, Saved, SetupInv, TypeInv, TypeOK
  <2>2. \A u \in Visitors : ~SuperuserOf(mem, u)
    BY <2>1, SetupAssumption DEF RolesInv
  <2>3. \A u \in Visitors : SuperuserOf(mem', u) <=> u = v
    BY <2>1, <2>2 DEF SuperuserOf, TypeInv, Users
  <2>. QED  BY <2>1, <2>3 DEF RolesInv, SuperuserOf
<1>4. ASSUME NEW c \in Callers, NEW u \in Visitors,
             AddUser(c, u) \/ SetPassword(c, u) \/ RemoveUser(c, u)
      PROVE  RolesInv'
  <2>1. store' = store /\ disk' = disk /\ file' \in {mem', file} /\ call[c].step = "admin"
    BY <1>4 DEF AddUser, SetPassword, RemoveUser, SavedOrNot, At, vars
  <2>2. store = disk
    BY <2>1 DEF SessionKnown, SetupInv
  <2>3. \A v \in Visitors : SuperuserOf(mem', v) <=> v = store
    BY <1>4, RolesKept
  <2>. QED  BY <2>1, <2>2, <2>3 DEF RolesInv, SuperuserOf
<1>5. ASSUME UNCHANGED <<mem, file, vars>>  PROVE RolesInv'
  BY <1>5 DEF vars, RolesInv, SuperuserOf
<1>6. ASSUME NEW c \in Callers, AskLogin(c) \/ LoginStep(c) \/ RequireAdmin(c) \/ Refused(c)
      PROVE  RolesInv'
  BY <1>5, <1>6
     DEF AskLogin, LoginStep, CheckPassword, RecordFailure, MintSession, RequireAdmin, Refused
<1>7. ASSUME NEW c \in Callers, NEW t \in cookies, RequireSession(c, t)  PROVE RolesInv'
  BY <1>5, <1>7 DEF RequireSession
<1>8. CASE WindowEnds \/ (\E t \in cookies : Forget(t)) \/ UNCHANGED allVars
  BY <1>5, <1>8 DEF WindowEnds, Forget, allVars, accVars
<1>. QED
  BY <1>1, <1>2, <1>3, <1>4, <1>6, <1>7, <1>8 DEF AccountsNext

\* From the moment the data plane is open exactly one account is a superuser's, in
\* memory and on disk, and it is the account the proxy was claimed with.
THEOREM SuperuserStays == AccountsSpec => []OneSuperuser
<1>. DEFINE IInv == TypeInv /\ SetupInv /\ SessionKnown /\ RolesInv
<1>1. AccountsInit => IInv
  <2>1. AccountsInit => TypeInv /\ SetupInv
    BY TypesStart
  <2>2. AccountsInit => SessionKnown
    BY DEF AccountsInit, SessionKnown, Idle
  <2>3. AccountsInit => RolesInv
    BY SetupAssumption DEF AccountsInit, Init, RolesInv, SuperuserOf, NoAccount
  <2>. QED  BY <2>1, <2>2, <2>3
<1>2. IInv /\ [AccountsNext]_allVars => IInv'
  <2>1. TypeInv /\ SetupInv /\ [AccountsNext]_allVars => SetupInv'
    BY StepOfSetup, SetupInvInductive DEF TypeInv
  <2>. QED  BY <2>1, TypeInvInductive, SessionKnownInductive, RolesInvInductive
<1>3. IInv => OneSuperuser
  <2>1. SUFFICES ASSUME IInv, ~required  PROVE OneSuperuser
    BY DEF OneSuperuser
  <2>2. store = disk /\ store \in Visitors
    BY <2>1 DEF SetupInv, TypeInv, TypeOK
  <2>. QED  BY <2>1, <2>2 DEF RolesInv, SuperuserOf, OneSuperuser
<1>. QED  BY <1>1, <1>2, <1>3, PTL DEF AccountsSpec

-----------------------------------------------------------------------------
(***************************************************************************)
(* Sessions.  A new password, and a new account of an old name, take a     *)
(* hash no session holds; a removed account has none; a restart leaves no  *)
(* session of the process that runs.                                       *)
(***************************************************************************)
\* The accounts after a handler: their hashes are still of those made, and an account
\* that still has the hash it had is unchanged in its history.
LEMMA HashesAdvance ==
  ASSUME TypeInv, HashesMade, NEW u \in Visitors,
         \/ \E role \in Roles : Hashed(u, role)
         \/ /\ mem' = [mem EXCEPT ![u] = NoAccount]
            /\ epoch' = [epoch EXCEPT ![u] = @ + 1]
            /\ hashes' = hashes,
         file' = mem' \/ file' = file
  PROVE  /\ hashes <= hashes'
         /\ \A v \in Visitors : mem'[v].hash <= hashes' /\ file'[v].hash <= hashes'
         /\ \A v \in Visitors, h \in Nat \ {0} :
              h <= hashes /\ mem'[v].hash = h => mem[v].hash = h /\ epoch'[v] = epoch[v]
<1>. USE DEF TypeInv, HashesMade
<1>0. \A v \in Visitors : mem[v].hash \in Nat /\ file[v].hash \in Nat
  BY DEF Users
<1>1. ASSUME NEW role \in Roles, Hashed(u, role)
      PROVE  /\ hashes <= hashes'
             /\ \A v \in Visitors : mem'[v].hash <= hashes'
             /\ \A v \in Visitors, h \in Nat \ {0} :
                  h <= hashes /\ mem'[v].hash = h => mem[v].hash = h /\ epoch'[v] = epoch[v]
  <2>1. /\ hashes' = hashes + 1
        /\ mem' = [mem EXCEPT ![u] = [hash |-> hashes + 1, role |-> role]]
        /\ epoch' = [epoch EXCEPT ![u] = epoch[u] + 1]
    BY <1>1 DEF Hashed
  <2>2. mem'[u].hash = hashes + 1 /\ \A v \in Visitors : v # u => mem'[v] = mem[v] /\ epoch'[v] = epoch[v]
    BY <2>1 DEF Users
  <2>. QED  BY <1>0, <2>1, <2>2
<1>2. ASSUME mem' = [mem EXCEPT ![u] = NoAccount],
             epoch' = [epoch EXCEPT ![u] = epoch[u] + 1],
             hashes' = hashes
      PROVE  /\ hashes <= hashes'
             /\ \A v \in Visitors : mem'[v].hash <= hashes'
             /\ \A v \in Visitors, h \in Nat \ {0} :
                  h <= hashes /\ mem'[v].hash = h => mem[v].hash = h /\ epoch'[v] = epoch[v]
  <2>1. mem'[u].hash = 0 /\ \A v \in Visitors : v # u => mem'[v] = mem[v] /\ epoch'[v] = epoch[v]
    BY <1>2 DEF Users, NoAccount
  <2>. QED  BY <1>0, <1>2, <2>1
<1>3. /\ hashes <= hashes'
      /\ \A v \in Visitors : mem'[v].hash <= hashes'
      /\ \A v \in Visitors, h \in Nat \ {0} :
           h <= hashes /\ mem'[v].hash = h => mem[v].hash = h /\ epoch'[v] = epoch[v]
  BY <1>1, <1>2
<1>4. hashes' \in Nat
  BY <1>1, <1>2, AccountsAssumption DEF Hashed
<1>5. \A v \in Visitors : file'[v].hash <= hashes'
  BY <1>0, <1>3, <1>4
<1>. QED  BY <1>3, <1>5

LEMMA SessionInvInductive ==
  TypeInv /\ SetupInv /\ HashesMade /\ SessionInv /\ [AccountsNext]_allVars
    => HashesMade' /\ SessionInv'
<1>. SUFFICES ASSUME TypeInv, SetupInv, HashesMade, SessionInv, [AccountsNext]_allVars
              PROVE  HashesMade' /\ SessionInv'
  OBVIOUS
<1>. USE DEF TypeInv, CallsOK
<1>1. CASE RestartAccounts
  <2>1. /\ crashes' = crashes + 1 /\ mem' = file
        /\ call' = [c \in Callers |-> Idle]
        /\ UNCHANGED <<file, hashes, epoch, cookies>>
    BY <1>1 DEF RestartAccounts, Restart
  <2>2. HashesMade'
    BY <2>1 DEF HashesMade, Idle
  <2>3. \A t \in cookies : t.boot < crashes'
    BY <2>1 DEF SessionInv, TypeOK
  <2>4. \A t \in cookies : t.boot <= crashes' /\ t.boot # crashes'
    BY <2>1, <2>3 DEF TypeOK
  <2>. QED  BY <2>1, <2>2, <2>4 DEF SessionInv, Idle
\* The accounts change under calls that end or stay where they are.
<1>2. ASSUME NEW u \in Visitors,
             \/ \E role \in Roles : Hashed(u, role)
             \/ /\ mem' = [mem EXCEPT ![u] = NoAccount]
                /\ epoch' = [epoch EXCEPT ![u] = @ + 1]
                /\ hashes' = hashes,
             file' = mem' \/ file' = file,
             UNCHANGED <<crashes, cookies>>,
             call' = call \/ \E c \in Callers : Answered(c)
      PROVE  HashesMade' /\ SessionInv'
  <2>1. /\ hashes <= hashes'
        /\ \A v \in Visitors : mem'[v].hash <= hashes' /\ file'[v].hash <= hashes'
        /\ \A v \in Visitors, h \in Nat \ {0} :
             h <= hashes /\ mem'[v].hash = h => mem[v].hash = h /\ epoch'[v] = epoch[v]
    BY <1>2, HashesAdvance
  <2>2. \A c \in Callers : call'[c] = call[c] \/ call'[c] = Idle
    BY <1>2 DEF Answered
  <2>3. hashes \in Nat /\ hashes' \in Nat
    BY <1>2, AccountsAssumption DEF Hashed
  <2>4. HashesMade'
    <3>1. \A t \in cookies : t.hash <= hashes'
      BY <2>1, <2>3, AccountsAssumption DEF HashesMade
    <3>2. \A c \in Callers : call'[c].hash <= hashes'
      BY <2>1, <2>2, <2>3, AccountsAssumption DEF HashesMade, Idle
    <3>. QED  BY <1>2, <2>1, <3>1, <3>2 DEF HashesMade
  <2>5. \A t \in cookies : t.boot = crashes => Current(t)'
    <3>1. SUFFICES ASSUME NEW t \in cookies, t.boot = crashes, mem'[t.user].hash = t.hash
                   PROVE  t.epoch = epoch'[t.user]
      BY DEF Current
    <3>2. t.user \in Visitors /\ t.hash \in Nat \ {0} /\ t.hash <= hashes
      BY DEF HashesMade
    <3>. QED  BY <2>1, <3>1, <3>2 DEF SessionInv, Current
  <2>6. ASSUME NEW c \in Callers, call'[c].step = "passed",
               mem'[call'[c].user].hash = call'[c].hash
        PROVE  call'[c].epoch = epoch'[call'[c].user]
    <3>1. call'[c] = call[c]
      BY <2>2, <2>6 DEF Idle
    <3>2. call[c].user \in Visitors /\ call[c].hash \in Nat \ {0} /\ call[c].hash <= hashes
      BY <2>6, <3>1 DEF HashesMade
    <3>. QED  BY <2>1, <2>6, <3>1, <3>2 DEF SessionInv, Current
  <2>. QED  BY <1>2, <2>4, <2>5, <2>6 DEF SessionInv, Current
\* The accounts stay and no session is added.
<1>3. ASSUME UNCHANGED <<mem, file, hashes, epoch, crashes>>, cookies' \subseteq cookies,
             \A c \in Callers : call'[c].hash <= hashes,
             \A c \in Callers : call'[c].step = "passed" => Current(call'[c])
      PROVE  HashesMade' /\ SessionInv'
  BY <1>3 DEF HashesMade, SessionInv, Current
<1>4. CASE ClaimGoesOn
  BY <1>3, <1>4
     DEF ClaimGoesOn, accVars, Post, Conflict, OpenGate, SwapPool, HashesMade, SessionInv
<1>5. ASSUME NEW v \in Visitors, EnterAccount(v)  PROVE HashesMade' /\ SessionInv'
  BY <1>2, <1>5 DEF EnterAccount, Enter, EnterFails, Saved, Roles
<1>6. ASSUME NEW c \in Callers, NEW u \in Visitors,
             AddUser(c, u) \/ SetPassword(c, u) \/ RemoveUser(c, u)
      PROVE  HashesMade' /\ SessionInv'
  <2>1. /\ \/ \E role \in Roles : Hashed(u, role)
           \/ /\ mem' = [mem EXCEPT ![u] = NoAccount]
              /\ epoch' = [epoch EXCEPT ![u] = @ + 1]
              /\ hashes' = hashes
        /\ SavedOrNot /\ Answered(c) /\ UNCHANGED <<vars, cookies>>
    <3>1. mem[u].role \in Roles
      BY DEF Users
    <3>. QED  BY <1>6, <3>1 DEF AddUser, SetPassword, RemoveUser, Roles
  <2>. QED  BY <1>2, <2>1 DEF SavedOrNot, vars
<1>7. ASSUME NEW c \in Callers, CheckPassword(c)  PROVE HashesMade' /\ SessionInv'
  <2>1. CASE Becomes(c, "failed")
    BY <1>3, <1>7, <2>1 DEF CheckPassword, Becomes, vars, HashesMade, SessionInv
  <2>2. ASSUME NEW u \in Visitors,
               call' = [call EXCEPT ![c] = [step |-> "passed", user |-> u,
                                            hash |-> mem[u].hash, epoch |-> epoch[u]]]
        PROVE  HashesMade' /\ SessionInv'
    <3>1. \A d \in Callers : call'[d].hash <= hashes
      BY <2>2 DEF HashesMade
    <3>2. \A d \in Callers : call'[d].step = "passed" => Current(call'[d])
      BY <2>2 DEF SessionInv, Current
    <3>. QED  BY <1>3, <1>7, <3>1, <3>2 DEF CheckPassword, vars
  <2>. QED  BY <1>7, <2>1, <2>2 DEF CheckPassword
<1>8. ASSUME NEW c \in Callers, MintSession(c)  PROVE HashesMade' /\ SessionInv'
  <2>1. /\ cookies' = cookies \cup {Token(c)} /\ Answered(c) /\ call[c].step = "passed"
        /\ UNCHANGED <<mem, file, hashes, epoch, crashes>>
    BY <1>8 DEF MintSession, At, vars
  <2>2. Token(c).hash <= hashes /\ Token(c).boot <= crashes /\ Current(Token(c))
    BY <2>1 DEF Token, Current, SessionInv, HashesMade, TypeOK
  <2>3. \A d \in Callers : call'[d] = call[d] \/ call'[d] = Idle
    BY <2>1 DEF Answered
  <2>4. Idle.hash <= hashes /\ Idle.step # "passed"
    BY AccountsAssumption DEF Idle
  <2>. QED  BY <2>1, <2>2, <2>3, <2>4 DEF HashesMade, SessionInv, Current
<1>9. ASSUME NEW c \in Callers, AskLogin(c) \/ RecordFailure(c) \/ RequireAdmin(c) \/ Refused(c)
      PROVE  HashesMade' /\ SessionInv'
  <2>1. \A d \in Callers : \/ call'[d] = Idle
                           \/ call'[d].hash = call[d].hash /\ call'[d].step # "passed"
                           \/ call'[d] = call[d]
    BY <1>9 DEF AskLogin, RecordFailure, RequireAdmin, Refused, Answered, Becomes
  <2>2. Idle.hash <= hashes /\ Idle.step # "passed"
    BY AccountsAssumption DEF Idle
  <2>3. UNCHANGED <<mem, file, hashes, epoch, crashes, cookies>>
    BY <1>9 DEF AskLogin, RecordFailure, RequireAdmin, Refused, vars
  <2>. QED  BY <1>3, <2>1, <2>2, <2>3 DEF HashesMade, SessionInv
<1>10. ASSUME NEW c \in Callers, NEW t \in cookies, RequireSession(c, t)
       PROVE  HashesMade' /\ SessionInv'
  <2>1. call' = [call EXCEPT ![c] = [Idle EXCEPT !.step = "session", !.user = t.user]]
    BY <1>10 DEF RequireSession
  <2>2. call'[c].hash = 0 /\ call'[c].step = "session"
    BY <2>1 DEF Idle
  <2>. QED  BY <1>3, <1>10, <2>1, <2>2 DEF RequireSession, vars, HashesMade, SessionInv
<1>11. CASE WindowEnds \/ (\E t \in cookies : Forget(t)) \/ UNCHANGED allVars
  BY <1>3, <1>11 DEF WindowEnds, Forget, allVars, accVars, vars, HashesMade, SessionInv
<1>. QED
  BY <1>1, <1>4, <1>5, <1>6, <1>7, <1>8, <1>9, <1>10, <1>11 DEF AccountsNext, LoginStep

\* A request is let through only on a session of the account as it is now: no
\* session survives a reset, a removal, a second account of its name or a restart.
THEOREM SessionsEndWithTheirAccount == AccountsSpec => EndedSessionsStayEnded
<1>. DEFINE IInv == TypeInv /\ SetupInv /\ HashesMade /\ SessionInv
<1>1. AccountsInit => IInv
  <2>1. AccountsInit => TypeInv /\ SetupInv
    BY TypesStart
  <2>2. AccountsInit => HashesMade /\ SessionInv
    BY DEF AccountsInit, HashesMade, SessionInv, NoAccount, Idle
  <2>. QED  BY <2>1, <2>2
<1>2. IInv /\ [AccountsNext]_allVars => IInv'
  <2>1. TypeInv /\ SetupInv /\ [AccountsNext]_allVars => SetupInv'
    BY StepOfSetup, SetupInvInductive DEF TypeInv
  <2>. QED  BY <2>1, TypeInvInductive, SessionInvInductive
<1>3. IInv /\ [AccountsNext]_allVars
        => [\A c \in Callers : At(c, "idle") /\ call'[c].step = "session" =>
              \E t \in cookies : t.user = call'[c].user /\ t.epoch = epoch[t.user]]_allVars
  <2>1. SUFFICES ASSUME IInv, AccountsNext, NEW c \in Callers,
                        At(c, "idle"), call'[c].step = "session"
                 PROVE  \E t \in cookies : t.user = call'[c].user /\ t.epoch = epoch[t.user]
    OBVIOUS
  <2>2. PICK t \in cookies : RequireSession(c, t)
    <3>1. call'[c] # call[c]
      BY <2>1 DEF At
    <3>2. ASSUME NEW d \in Callers, Answered(d) \/ (\E step \in Steps \ {"session"} : Becomes(d, step))
          PROVE  FALSE
      BY <2>1, <3>1, <3>2 DEF Answered, Becomes, Idle, TypeInv, CallsOK
    <3>3. ASSUME NEW d \in Callers, CheckPassword(d)  PROVE FALSE
      BY <2>1, <3>1, <3>2, <3>3 DEF CheckPassword, TypeInv, CallsOK, Steps
    <3>4. ASSUME NEW d \in Callers, RequireAdmin(d) \/ AskLogin(d)  PROVE FALSE
      BY <3>2, <3>4 DEF RequireAdmin, AskLogin, Steps
    <3>5. ASSUME NEW d \in Callers, NEW t \in cookies, RequireSession(d, t)
          PROVE  d = c
      BY <3>1, <3>5 DEF RequireSession, TypeInv, CallsOK
    <3>6. ~RestartAccounts
      BY <2>1 DEF RestartAccounts, Idle
    <3>7. ASSUME NEW d \in Callers, NEW u \in Visitors,
                 AddUser(d, u) \/ RemoveUser(d, u) \/ SetPassword(d, u)
          PROVE  FALSE
      BY <3>2, <3>7 DEF AddUser, RemoveUser, SetPassword
    <3>8. ASSUME NEW d \in Callers, RecordFailure(d) \/ MintSession(d) \/ Refused(d)
          PROVE  FALSE
      BY <3>2, <3>8 DEF RecordFailure, MintSession, Refused
    <3>9. /\ ~ClaimGoesOn /\ ~WindowEnds
          /\ \A v \in Visitors : ~EnterAccount(v)
          /\ \A t \in cookies : ~Forget(t)
      BY <3>1 DEF ClaimGoesOn, accVars, WindowEnds, EnterAccount, Forget
    <3>. QED
      BY <2>1, <3>3, <3>4, <3>5, <3>6, <3>7, <3>8, <3>9 DEF AccountsNext, LoginStep
  <2>3. t.boot = crashes /\ mem[t.user].hash = t.hash
    BY <2>2 DEF RequireSession, Valid
  <2>4. t.epoch = epoch[t.user]
    BY <2>1, <2>3 DEF SessionInv, Current
  <2>5. call'[c].user = t.user
    BY <2>1, <2>2 DEF RequireSession, TypeInv, CallsOK, Idle
  <2>. QED  BY <2>4, <2>5
<1>. QED  BY <1>1, <1>2, <1>3, PTL DEF AccountsSpec, EndedSessionsStayEnded

-----------------------------------------------------------------------------
(***************************************************************************)
(* The throttle.  An attempt is let through below the bound, counts once   *)
(* when it fails, and stops being under way at that step.                  *)
(***************************************************************************)
\* How the attempts under way are counted as calls come and go.
LEMMA LetThroughCounts ==
  /\ LetThrough \subseteq Callers
  /\ IsFiniteSet(LetThrough)
  /\ Cardinality(LetThrough) \in Nat /\ Cardinality(Callers) \in Nat
  /\ Cardinality(LetThrough) <= Cardinality(Callers)
<1>1. LetThrough \subseteq Callers
  BY DEF LetThrough
<1>. QED  BY <1>1, AccountsAssumption, FS_Subset, FS_CardinalityType

LEMMA ThrottleInvInductive ==
  TypeInv /\ SetupInv /\ ThrottleInv /\ [AccountsNext]_allVars => ThrottleInv'
<1>. SUFFICES ASSUME TypeInv, SetupInv, ThrottleInv, [AccountsNext]_allVars
              PROVE  ThrottleInv'
  OBVIOUS
<1>. DEFINE n == Cardinality(Callers)
            a == Cardinality(LetThrough)
            b == Cardinality(LetThrough')
<1>1. /\ fails \in Nat /\ n \in Nat /\ a \in Nat /\ b \in Nat /\ a <= n /\ b <= n
      /\ MaxFails \in Nat \ {0}
  <2>1. /\ LetThrough' \subseteq Callers
        /\ Cardinality(LetThrough') \in Nat
        /\ Cardinality(LetThrough') <= Cardinality(Callers)
    <3>1. LetThrough' \subseteq Callers
      BY DEF LetThrough
    <3>. QED  BY <3>1, AccountsAssumption, FS_Subset, FS_CardinalityType
  <2>. QED  BY <2>1, LetThroughCounts, AccountsAssumption DEF TypeInv
<1>. HIDE DEF n, a, b
\* Nothing is counted and nobody is let through.
<1>2. ASSUME UNCHANGED <<fails, windowOver>>, LetThrough' \subseteq LetThrough
      PROVE  ThrottleInv'
  <2>1. b <= a
    BY <1>2, LetThroughCounts, FS_Subset DEF a, b
  <2>2. fails < MaxFails + n
    BY DEF ThrottleInv, n
  <2>3. ~windowOver => fails + a < MaxFails + n
    BY DEF ThrottleInv, n, a, b
  <2>4. ~windowOver' => fails' + b < MaxFails + n
    BY <1>1, <1>2, <2>1, <2>3
  <2>. QED  BY <1>2, <2>2, <2>4 DEF ThrottleInv, n, a, b
\* The throttle is clear.
<1>3. ASSUME fails' = 0  PROVE ThrottleInv'
  <2>1. fails' < MaxFails + n /\ fails' + b < MaxFails + n
    BY <1>1, <1>3
  <2>. QED  BY <2>1 DEF ThrottleInv, n, a, b
<1>4. CASE RestartAccounts
  BY <1>3, <1>4 DEF RestartAccounts
<1>5. CASE ClaimGoesOn \/ (\E t \in cookies : Forget(t)) \/ UNCHANGED allVars
  BY <1>2, <1>5 DEF ClaimGoesOn, Forget, allVars, accVars, LetThrough
<1>6. ASSUME NEW v \in Visitors, EnterAccount(v)  PROVE ThrottleInv'
  BY <1>2, <1>6 DEF EnterAccount, LetThrough
<1>7. ASSUME NEW c \in Callers, AskLogin(c)  PROVE ThrottleInv'
  <2>1. UNCHANGED <<fails, windowOver>> /\ ~Throttled
    BY <1>7 DEF AskLogin
  <2>2. ~windowOver => fails < MaxFails
    BY <1>1, <2>1 DEF Throttled
  <2>3. fails' < MaxFails + n /\ (~windowOver' => fails' + b < MaxFails + n)
    <3>1. fails < MaxFails + n
      BY DEF ThrottleInv, n
    <3>2. fails < MaxFails => fails + b < MaxFails + n
      BY <1>1
    <3>. QED  BY <2>1, <2>2, <3>1, <3>2
  <2>. QED  BY <2>3 DEF ThrottleInv, n, a, b
<1>8. ASSUME NEW c \in Callers, CheckPassword(c)  PROVE ThrottleInv'
  <2>1. LetThrough' \subseteq LetThrough
    BY <1>8 DEF CheckPassword, LetThrough, At, Becomes, TypeInv, CallsOK
  <2>. QED  BY <1>2, <1>8, <2>1 DEF CheckPassword
<1>9. ASSUME NEW c \in Callers, RecordFailure(c)  PROVE ThrottleInv'
  <2>1. /\ c \in LetThrough /\ LetThrough' = LetThrough \ {c}
        /\ fails' = (IF windowOver THEN 0 ELSE fails) + 1 /\ windowOver' = FALSE
    BY <1>9 DEF RecordFailure, At, Answered, Idle, LetThrough, TypeInv, CallsOK
  <2>2. b = a - 1
    BY <2>1, LetThroughCounts, FS_RemoveElement DEF a, b
  <2>3. CASE windowOver
    <3>1. fails' = 0 + 1
      BY <2>1, <2>3, Zenon
    <3>2. fails' < MaxFails + n /\ fails' + b < MaxFails + n
      BY <1>1, <2>2, <3>1
    <3>. QED  BY <3>2 DEF ThrottleInv, n, a, b
  <2>4. CASE ~windowOver
    <3>1. fails' = fails + 1
      BY <2>1, <2>4, Zenon
    <3>2. fails + a < MaxFails + n
      BY <2>4 DEF ThrottleInv, n, a, b
    <3>3. fails' < MaxFails + n /\ fails' + b < MaxFails + n
      BY <1>1, <2>2, <3>1, <3>2
    <3>. QED  BY <3>3 DEF ThrottleInv, n, a, b
  <2>. QED  BY <2>3, <2>4
<1>10. ASSUME NEW c \in Callers, MintSession(c)  PROVE ThrottleInv'
  BY <1>3, <1>10 DEF MintSession
<1>11. CASE WindowEnds
  <2>1. fails' = fails /\ windowOver' = TRUE
    BY <1>11 DEF WindowEnds
  <2>. QED  BY <2>1 DEF ThrottleInv
<1>12. ASSUME NEW c \in Callers, RequireAdmin(c) \/ Refused(c)  PROVE ThrottleInv'
  <2>1. LetThrough' \subseteq LetThrough
    BY <1>12 DEF RequireAdmin, Refused, LetThrough, At, Becomes, Answered, Idle, TypeInv, CallsOK
  <2>. QED  BY <1>2, <1>12, <2>1 DEF RequireAdmin, Refused
<1>13. ASSUME NEW c \in Callers, NEW u \in Visitors,
              AddUser(c, u) \/ RemoveUser(c, u) \/ SetPassword(c, u)
       PROVE  ThrottleInv'
  <2>1. Answered(c) /\ UNCHANGED <<fails, windowOver>>
    BY <1>13 DEF AddUser, RemoveUser, SetPassword
  <2>2. LetThrough' \subseteq LetThrough
    BY <2>1 DEF LetThrough, Answered, Idle, TypeInv, CallsOK
  <2>. QED  BY <1>2, <2>1, <2>2
<1>14. ASSUME NEW c \in Callers, NEW t \in cookies, RequireSession(c, t)  PROVE ThrottleInv'
  <2>1. LetThrough' \subseteq LetThrough
    BY <1>14 DEF RequireSession, LetThrough, Idle, TypeInv, CallsOK
  <2>. QED  BY <1>2, <1>14, <2>1 DEF RequireSession
<1>. QED
  BY <1>4, <1>5, <1>6, <1>7, <1>8, <1>9, <1>10, <1>11, <1>12, <1>13, <1>14
     DEF AccountsNext, LoginStep

\* However the attempts interleave between asking the throttle and feeding it, the
\* failures it counts overshoot its bound by fewer than there are callers.
THEOREM ThrottleOvershootBounded == AccountsSpec => []ThrottleHolds
<1>. DEFINE IInv == TypeInv /\ SetupInv /\ ThrottleInv
<1>1. AccountsInit => IInv
  <2>1. SUFFICES ASSUME AccountsInit  PROVE IInv
    OBVIOUS
  <2>2. LetThrough = {} /\ fails = 0
    BY <2>1 DEF AccountsInit, LetThrough, Idle
  <2>3. Cardinality(LetThrough) = 0
    BY <2>2, FS_EmptySet
  <2>4. ThrottleInv
    BY <2>2, <2>3, LetThroughCounts, AccountsAssumption DEF ThrottleInv
  <2>. QED  BY <2>1, <2>4, TypesStart
<1>2. IInv /\ [AccountsNext]_allVars => IInv'
  <2>1. TypeInv /\ SetupInv /\ [AccountsNext]_allVars => SetupInv'
    BY StepOfSetup, SetupInvInductive DEF TypeInv
  <2>. QED  BY <2>1, TypeInvInductive, ThrottleInvInductive
<1>3. IInv => ThrottleHolds
  BY DEF ThrottleInv, ThrottleHolds
<1>. QED  BY <1>1, <1>2, <1>3, PTL DEF AccountsSpec

=============================================================================

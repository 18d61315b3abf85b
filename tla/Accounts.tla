------------------------------ MODULE Accounts ------------------------------
(***************************************************************************)
(* Who may use the console (src/src/auth.rs) and the handlers that change  *)
(* the accounts (users in src/src/settings.rs), from the claim of the     *)
(* proxy on (Setup).                                                       *)
(*                                                                         *)
(* A password hash is a number that is never given twice, as it is salted. *)
(* A session cookie holds its user, the hash it was minted against and the *)
(* process that signed it; it also carries, as history, which incarnation  *)
(* of the account it was minted for.  A handler and its save are one step, *)
(* ConfigStore opens it up; the guards in front of it are steps before it. *)
(***************************************************************************)
EXTENDS Setup

CONSTANTS
  Callers,     \* the logins and console requests under way at once
  MaxFails,    \* MAX_LOGIN_FAILS
  MaxHashes,   \* bound on the passwords ever set
  MaxCookies   \* bound on the sessions alive at once

ASSUME AccountsAssumption ==
  /\ IsFiniteSet(Callers)
  /\ {MaxFails, MaxHashes, MaxCookies} \subseteq Nat \ {0}

VARIABLES
  mem,         \* users of AppState.store
  file,        \* the same in config.json
  hashes,      \* password hashes made so far
  epoch,       \* history: [Visitors -> changes made to that account so far]
  cookies,     \* the session cookies browsers hold that have not expired
  fails,       \* LoginThrottle.fails
  windowOver,  \* the throttle's window began LOGIN_WINDOW ago or longer
  call         \* [Callers -> where its login or request is]

accVars == <<mem, file, hashes, epoch, cookies, fails, windowOver, call>>
allVars == <<vars, accVars>>

Roles == {"superuser", "admin", "user"}
NoAccount == [hash |-> 0, role |-> "user"]
Idle == [step |-> "idle", user |-> NOBODY, hash |-> 0, epoch |-> 0]

Users == [Visitors -> [hash : 0..MaxHashes, role : Roles]]

AccountsTypeOK ==
  /\ TypeOK
  /\ {mem, file} \subseteq Users
  /\ hashes \in 0..MaxHashes
  /\ epoch \in [Visitors -> Nat]
  /\ cookies \subseteq [user : Visitors, hash : 1..MaxHashes, boot : 0..MaxCrashes, epoch : Nat]
  /\ fails \in Nat
  /\ windowOver \in BOOLEAN
  /\ call \in [Callers -> [step : {"idle", "asked", "failed", "passed", "session", "admin"},
                           user : Visitors \cup {NOBODY}, hash : 0..MaxHashes,
                           epoch : Nat]]

AccountsInit ==
  /\ Init
  /\ mem = [v \in Visitors |-> NoAccount]
  /\ file = mem
  /\ hashes = 0
  /\ epoch = [v \in Visitors |-> 0]
  /\ cookies = {}
  /\ fails = 0 /\ windowOver = FALSE
  /\ call = [c \in Callers |-> Idle]

Exists(u) == mem[u].hash # 0
IsAdmin(u) == Exists(u) /\ mem[u].role \in {"superuser", "admin"}

Hashed(u, role) ==
  /\ hashes < MaxHashes
  /\ hashes' = hashes + 1
  /\ mem' = [mem EXCEPT ![u] = [hash |-> hashes + 1, role |-> role]]
  /\ epoch' = [epoch EXCEPT ![u] = @ + 1]

\* config::save of what the handler has left in memory, or an error.
Saved == file' = mem'
SavedOrNot == file' \in {mem', file}

-----------------------------------------------------------------------------
(***************************************************************************)
(* The claim, and the start of a process                                   *)
(***************************************************************************)

\* setup_submit enters the superuser; the client key it mints is left out.
EnterAccount(v) ==
  /\ \/ Enter(v) /\ Hashed(v, "superuser") /\ Saved
     \/ EnterFails(v) /\ Hashed(v, "superuser") /\ UNCHANGED file
  /\ UNCHANGED <<cookies, fails, windowOver, call>>

ClaimGoesOn ==
  /\ \E v \in Visitors : Post(v) \/ Conflict(v) \/ OpenGate(v) \/ SwapPool(v)
  /\ UNCHANGED accVars

\* The store is read back; Admin::new makes a new signing key and a new throttle.
RestartAccounts ==
  /\ Restart
  /\ mem' = file
  /\ fails' = 0 /\ windowOver' = FALSE
  /\ call' = [c \in Callers |-> Idle]
  /\ UNCHANGED <<file, hashes, epoch, cookies>>

-----------------------------------------------------------------------------
(***************************************************************************)
(* Login                                                                   *)
(***************************************************************************)
At(c, step) == call[c].step = step

Becomes(c, step) == call' = [call EXCEPT ![c].step = step]
Answered(c) == call' = [call EXCEPT ![c] = Idle]

\* Mutant of Throttled: one failure more is let through.
ThrottledLate == fails > MaxFails /\ ~windowOver

Throttled == fails >= MaxFails /\ ~windowOver

\* login_submit, first lock section: the throttle is asked.
AskLogin(c) ==
  /\ At(c, "idle")
  /\ Cardinality(cookies) < MaxCookies
  /\ ~Throttled
  /\ Becomes(c, "asked")
  /\ UNCHANGED <<vars, mem, file, hashes, epoch, cookies, fails, windowOver>>

\* Second: the password of the user the form names, right or wrong, is compared under
\* the store's lock.
CheckPassword(c) ==
  /\ At(c, "asked")
  /\ \/ Becomes(c, "failed")
     \/ \E u \in Visitors :
          /\ Exists(u)
          /\ call' = [call EXCEPT ![c] = [step |-> "passed", user |-> u,
                                          hash |-> mem[u].hash, epoch |-> epoch[u]]]
  /\ UNCHANGED <<vars, mem, file, hashes, epoch, cookies, fails, windowOver>>

\* Third: record_login_failure.
RecordFailure(c) ==
  /\ At(c, "failed")
  /\ fails' = (IF windowOver THEN 0 ELSE fails) + 1
  /\ windowOver' = FALSE
  /\ Answered(c)
  /\ UNCHANGED <<vars, mem, file, hashes, epoch, cookies>>

\* sign_token, over the witness of the hash the login was checked against.
Token(c) == [user |-> call[c].user, hash |-> call[c].hash,
             boot |-> crashes, epoch |-> call[c].epoch]

\* Or reset_login_failures, which leaves the window where it began, and mint.
MintSession(c) ==
  /\ At(c, "passed")
  /\ fails' = 0
  /\ cookies' = cookies \cup {Token(c)}
  /\ Answered(c)
  /\ UNCHANGED <<vars, mem, file, hashes, epoch, windowOver>>

WindowEnds ==
  /\ ~windowOver
  /\ windowOver' = TRUE
  /\ UNCHANGED <<vars, mem, file, hashes, epoch, cookies, fails, call>>

\* The session is past its expiry, or the browser logs out and drops the cookie.
Forget(t) ==
  /\ cookies' = cookies \ {t}
  /\ UNCHANGED <<vars, mem, file, hashes, epoch, fails, windowOver, call>>

-----------------------------------------------------------------------------
(***************************************************************************)
(* Console requests                                                        *)
(***************************************************************************)

\* Mutant of Valid: the signature of an earlier process will do.
ValidForAnyProcess(t) == mem[t.user].hash = t.hash

Valid(t) == t.boot = crashes /\ mem[t.user].hash = t.hash

\* The request is let through; its handler looks the user up by name from here on.
RequireSession(c, t) ==
  /\ At(c, "idle")
  /\ ~required
  /\ Valid(t)
  /\ call' = [call EXCEPT ![c] = [Idle EXCEPT !.step = "session", !.user = t.user]]
  /\ UNCHANGED <<vars, mem, file, hashes, epoch, cookies, fails, windowOver>>

RequireAdmin(c) ==
  /\ At(c, "session")
  /\ IF IsAdmin(call[c].user) THEN Becomes(c, "admin") ELSE Answered(c)
  /\ UNCHANGED <<vars, mem, file, hashes, epoch, cookies, fails, windowOver>>

AddUser(c, u) ==
  /\ At(c, "admin")
  /\ ~Exists(u)
  /\ \E role \in {"admin", "user"} : Hashed(u, role)
  /\ SavedOrNot
  /\ Answered(c)
  /\ UNCHANGED <<vars, cookies, fails, windowOver>>

\* Mutant of Removable: the superuser is like any other account.
RemovableAnyone(u) == Exists(u)

Removable(u) == Exists(u) /\ mem[u].role # "superuser"

RemoveUser(c, u) ==
  /\ At(c, "admin")
  /\ Removable(u)
  /\ mem' = [mem EXCEPT ![u] = NoAccount]
  /\ epoch' = [epoch EXCEPT ![u] = @ + 1]
  /\ SavedOrNot
  /\ Answered(c)
  /\ UNCHANGED <<vars, hashes, cookies, fails, windowOver>>

SetPassword(c, u) ==
  /\ At(c, "admin")
  /\ Exists(u)
  /\ Hashed(u, mem[u].role)
  /\ SavedOrNot
  /\ Answered(c)
  /\ UNCHANGED <<vars, cookies, fails, windowOver>>

\* The request is refused by its handler's other checks, or asked for a page.
Refused(c) ==
  /\ At(c, "admin")
  /\ Answered(c)
  /\ UNCHANGED <<vars, mem, file, hashes, epoch, cookies, fails, windowOver>>

-----------------------------------------------------------------------------
LoginStep(c) == CheckPassword(c) \/ RecordFailure(c) \/ MintSession(c)

AccountsNext ==
  \/ ClaimGoesOn \/ RestartAccounts \/ WindowEnds
  \/ \E v \in Visitors : EnterAccount(v)
  \/ \E t \in cookies : Forget(t)
  \/ \E c \in Callers :
       \/ AskLogin(c) \/ LoginStep(c) \/ RequireAdmin(c) \/ Refused(c)
       \/ \E u \in Visitors : AddUser(c, u) \/ RemoveUser(c, u) \/ SetPassword(c, u)
       \/ \E t \in cookies : RequireSession(c, t)

\* A form that was posted is handled to its end, unless the process is killed.
AccountsSpec ==
  /\ AccountsInit /\ [][AccountsNext]_allVars
  /\ \A v \in Visitors :
       WF_allVars(\/ (Conflict(v) \/ OpenGate(v) \/ SwapPool(v)) /\ UNCHANGED accVars
                  \/ EnterAccount(v))

-----------------------------------------------------------------------------
(***************************************************************************)
(* Properties                                                              *)
(***************************************************************************)

\* "A reset or a deletion ends it here" (require_session): a request is let through
\* only on a session minted for the account as it is now, whatever resets, removals,
\* second accounts of the same name, failed saves and restarts lie in between.
EndedSessionsStayEnded ==
  [][\A c \in Callers : At(c, "idle") /\ call'[c].step = "session" =>
       \E t \in cookies : t.user = call'[c].user /\ t.epoch = epoch[t.user]]_allVars

\* The superuser "is the account that always exists": from the moment the data plane is
\* open there is exactly one, who claimed the proxy, in memory and on disk, so that a
\* restart finds it claimed: nothing is opened by a claim that was not saved.
OneSuperuser ==
  ~required => store \in Visitors /\ \A s \in {mem, file} :
    \A v \in Visitors : (s[v].hash # 0 /\ s[v].role = "superuser") <=> v = store

\* The throttle is checked in one lock section and fed in another: attempts that were
\* let through together may overshoot it, and by no more than there are of them.
ThrottleHolds == fails < MaxFails + Cardinality(Callers)

=============================================================================

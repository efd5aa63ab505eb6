-------------------------------- MODULE Auth --------------------------------
(***************************************************************************)
(* Sign-in of dashd: agent/internal/auth (auth.go, limiter.go, totp.go).   *)
(*                                                                         *)
(* A login runs in one HTTP goroutine and is NOT atomic: it asks the       *)
(* limiter (Arrive), runs the slow password hash with no lock held, reads  *)
(* the clock to match the TOTP code (MatchCode), and only then takes a.mu  *)
(* to decide (Accept, Reject).  Any number of logins, logouts, session     *)
(* lookups, clock ticks and process restarts interleave with it.           *)
(*                                                                         *)
(* Abstractions.  The password hash and the TOTP HMAC are perfect: a       *)
(* request has user and password right or not, and a code that belongs to  *)
(* one time step or to none.  Session tokens are fresh values.  The clock  *)
(* is monotone.  randomToken cannot fail: the module is built with Go      *)
(* 1.26, where crypto/rand.Read never returns an error.                    *)
(***************************************************************************)
EXTENDS Integers, Sequences, FiniteSets

CONSTANTS
  Keys,         \* rate-limiting keys, normally client IPs
  Requests,     \* login requests that may run at the same time
  Tokens,       \* session tokens that can be drawn
  Users,        \* values cfg.Username takes over restarts
  PerKey,       \* failures of one key that lock it (5 in the code)
  Global,       \* failures of all keys that lock everyone (30 in the code)
  Window,       \* limiter window, in ticks (15 minutes in the code)
  TTL,          \* session lifetime, in ticks
  Period,       \* ticks per TOTP step (30 seconds in the code)
  MaxTime       \* bound on the clock, for model checking

ASSUME LimitsAssumption ==
  /\ IsFiniteSet(Requests)
  /\ PerKey \in Nat \ {0} /\ Global \in Nat \ {0}
  /\ Window \in Nat /\ TTL \in Nat
  /\ Period \in Nat \ {0} /\ MaxTime \in Nat

VARIABLES
  now,          \* the clock
  persist,      \* cfg.SessionsPath is set
  hashOK,       \* cfg.PasswordHash parses
  user,         \* cfg.Username
  fails,        \* Limiter.fails: times of failures per key, oldest first
  allFails,     \* Limiter.allFails
  sessions,     \* Authenticator.sessions
  lastStep,     \* Authenticator.lastStep
  disk,         \* the sessions file (stateFile)
  req,          \* the login running in each goroutine
  unsaved,      \* history: the last save() did not reach the disk
  forgot,       \* history: a restart lost state that was never saved, or not read again
  grants,       \* history: number of sessions granted per TOTP step
  revoked,      \* history: tokens logged out or found expired
  issued        \* history: tokens handed out

config  == <<persist, hashOK>>
limiter == <<fails, allFails>>
history == <<unsaved, forgot, grants, revoked, issued>>
vars    == <<now, config, user, limiter, sessions, lastStep, disk, req, history>>

\* Steps are counted from 2, so that every step within drift of the clock is
\* above the zero value of lastStep, as it is in any real year.
Start   == 2 * Period
Times   == Start .. MaxTime
Steps   == 1 .. MaxTime + 1
NoCode  == 0            \* a code that belongs to no step in reach
Session == [token : Tokens, user : Users, expires : Nat]
NoFile  == [sessions |-> {}, lastStep |-> 0]
Idle    == [pc |-> "idle"]
Inquiry == [pc : {"hashing"}, key : Keys]
Matched == [pc : {"matched"}, key : Keys, step : Steps \cup {NoCode}]

-----------------------------------------------------------------------------
(* The limiter.                                                            *)

\* prune: drop the leading times before the cutoff.
Prune(ts, cutoff) ==
  LET old == {i \in DOMAIN ts : \A j \in 1 .. i : ts[j] < cutoff}
  IN  SubSeq(ts, Cardinality(old) + 1, Len(ts))

Recent(ts) == Prune(ts, now - Window)

\* Mutant of Allowed: the limits are off by one.
MAllowed(k) == Len(Recent(fails[k])) <= PerKey /\ Len(Recent(allFails)) <= Global

\* Allow's verdict, on lists it has just pruned.
Allowed(k) ==
  /\ Len(Recent(fails[k])) < PerKey
  /\ Len(Recent(allFails)) < Global

Fail(k) ==
  /\ fails' = [fails EXCEPT ![k] = Append(@, now)]
  /\ allFails' = Append(allFails, now)

\* Mutant of Reset: a login clears everybody's failures.
MReset(k) == fails' = [fails EXCEPT ![k] = <<>>] /\ allFails' = <<>>

Reset(k) ==
  /\ fails' = [fails EXCEPT ![k] = <<>>]
  /\ UNCHANGED allFails

-----------------------------------------------------------------------------
(* Saving.  Called with a.mu held, so nobody but a crash can see the state *)
(* between the change and the save; a crash there leaves the old file,     *)
(* exactly as a crash before the change.  A failed write is only logged.   *)

Save(ss, step) ==
  \/ /\ persist
     /\ disk' = [sessions |-> ss, lastStep |-> step]
     /\ unsaved' = FALSE
  \/ /\ UNCHANGED disk
     /\ unsaved' = TRUE

-----------------------------------------------------------------------------
(* Login.                                                                  *)

InStep == now \div Period

\* matchTOTP: the current step and one either side.
InDrift(code) == code \in {InStep, InStep - 1, InStep + 1}

\* limiter.Allow, which prunes whether or not it lets the request in.
Arrive(r, k) ==
  /\ req[r] = Idle
  /\ fails' = [fails EXCEPT ![k] = Recent(@)]
  /\ allFails' = Recent(allFails)
  /\ \/ /\ Allowed(k)
        /\ req' = [req EXCEPT ![r] = [pc |-> "hashing", key |-> k]]
     \/ /\ ~Allowed(k)                                        \* ErrLocked
        /\ UNCHANGED req
  /\ UNCHANGED <<now, config, user, sessions, lastStep, disk, history>>

\* The hash does not parse: an error that is not counted as a failure.
HashError(r) ==
  /\ req[r].pc = "hashing"
  /\ ~hashOK
  /\ req' = [req EXCEPT ![r] = Idle]
  /\ UNCHANGED <<now, config, user, limiter, sessions, lastStep, disk, history>>

\* What was typed is chosen here, where it is first looked at: good says that
\* user and password are right, code which step's code it is.  A request with
\* any factor wrong goes on with NoCode: it can only be rejected.
MatchCode(r, good, code) ==
  /\ req[r].pc = "hashing"
  /\ hashOK
  /\ req' = [req EXCEPT ![r] = [pc |-> "matched", key |-> req[r].key,
                                step |-> IF good /\ InDrift(code) THEN code ELSE NoCode]]
  /\ UNCHANGED <<now, config, user, limiter, sessions, lastStep, disk, history>>

\* Mutant of Correct: the step of the last login is let in again.
MCorrect(r) == req[r].step # NoCode /\ req[r].step >= lastStep

\* A code that matched is refused when its step is not past the last one used.
Correct(r) == req[r].step # NoCode /\ req[r].step > lastStep

Reject(r) ==
  /\ req[r].pc = "matched"
  /\ ~Correct(r)
  /\ Fail(req[r].key)
  /\ req' = [req EXCEPT ![r] = Idle]
  /\ UNCHANGED <<now, config, user, sessions, lastStep, disk, history>>

\* Mutant of Accept: the file is written before the session is added.
MAccept(r, t) ==
  /\ req[r].pc = "matched"
  /\ Correct(r)
  /\ t \notin issued
  /\ lastStep' = req[r].step
  /\ Reset(req[r].key)
  /\ Save(sessions, lastStep')
  /\ sessions' = sessions \cup {[token |-> t, user |-> user, expires |-> now + TTL]}
  /\ req' = [req EXCEPT ![r] = Idle]
  /\ issued' = issued \cup {t}
  /\ grants' = [grants EXCEPT ![req[r].step] = @ + 1]
  /\ UNCHANGED <<now, config, user, forgot, revoked>>

Accept(r, t) ==
  /\ req[r].pc = "matched"
  /\ Correct(r)
  /\ t \notin issued
  /\ lastStep' = req[r].step
  /\ Reset(req[r].key)
  /\ sessions' = sessions \cup {[token |-> t, user |-> user, expires |-> now + TTL]}
  /\ Save(sessions', lastStep')
  /\ req' = [req EXCEPT ![r] = Idle]
  /\ issued' = issued \cup {t}
  /\ grants' = [grants EXCEPT ![req[r].step] = @ + 1]
  /\ UNCHANGED <<now, config, user, forgot, revoked>>

-----------------------------------------------------------------------------
(* Sessions.                                                               *)

Without(t) == {s \in sessions : s.token # t}

\* Session: a lookup that finds the session expired deletes it; any other
\* lookup changes nothing.
ExpireSession(s) ==
  /\ s \in sessions
  /\ now > s.expires
  /\ sessions' = Without(s.token)
  /\ Save(sessions', lastStep)
  /\ revoked' = revoked \cup {s.token}
  /\ UNCHANGED <<now, config, user, limiter, lastStep, req, forgot, grants, issued>>

\* Mutant of Logout: the session is only removed from memory.
MLogout(t) ==
  /\ sessions' = Without(t)
  /\ revoked' = revoked \cup ({t} \cap issued)
  /\ UNCHANGED <<now, config, user, limiter, lastStep, disk, req, unsaved, forgot, grants, issued>>

Logout(t) ==
  /\ sessions' = Without(t)
  /\ Save(sessions', lastStep)
  /\ revoked' = revoked \cup ({t} \cap issued)
  /\ UNCHANGED <<now, config, user, limiter, lastStep, req, forgot, grants, issued>>

-----------------------------------------------------------------------------
(* Time and restarts.                                                      *)

Tick ==
  /\ now < MaxTime
  /\ now' = now + 1
  /\ UNCHANGED <<config, user, limiter, sessions, lastStep, disk, req, history>>

\* load: sessions of another user, or past their expiry, do not come back.
Live(ss, u) == {s \in ss : s.user = u /\ now < s.expires}

\* The process dies (crash, stop or reboot) with whatever was running, and
\* New builds an Authenticator from the file, or from nothing when there is one
\* that cannot be read or does not parse; the limiter starts empty.
Restart(u, readable) ==
  /\ readable \/ (persist /\ disk # NoFile)
  /\ user' = u
  /\ fails' = [k \in Keys |-> <<>>]
  /\ allFails' = <<>>
  /\ req' = [r \in Requests |-> Idle]
  /\ sessions' = IF persist /\ readable THEN Live(disk.sessions, u) ELSE {}
  /\ lastStep' = IF persist /\ readable THEN disk.lastStep ELSE 0
  /\ forgot' = (forgot \/ unsaved \/ ~readable)
  /\ unsaved' = FALSE
  /\ UNCHANGED <<now, config, disk, grants, revoked, issued>>

-----------------------------------------------------------------------------
Init ==
  /\ now = Start
  /\ persist \in BOOLEAN
  /\ hashOK \in BOOLEAN
  /\ user \in Users
  /\ fails = [k \in Keys |-> <<>>]
  /\ allFails = <<>>
  /\ sessions = {}
  /\ lastStep = 0
  /\ disk = NoFile
  /\ req = [r \in Requests |-> Idle]
  /\ unsaved = FALSE
  /\ forgot = FALSE
  /\ grants = [s \in Steps |-> 0]
  /\ revoked = {}
  /\ issued = {}

Next ==
  \/ \E r \in Requests, k \in Keys : Arrive(r, k)
  \/ \E r \in Requests : HashError(r)
  \/ \E r \in Requests, good \in BOOLEAN, code \in Steps \cup {NoCode} : MatchCode(r, good, code)
  \/ \E r \in Requests : Reject(r)
  \/ \E r \in Requests, t \in Tokens : Accept(r, t)
  \/ \E s \in sessions : ExpireSession(s)
  \/ \E t \in Tokens : Logout(t)
  \/ \E u \in Users, readable \in BOOLEAN : Restart(u, readable)
  \/ Tick

Spec == Init /\ [][Next]_vars
-----------------------------------------------------------------------------
(* Properties.                                                             *)

\* Every variable has its type.
TypeOK ==
  /\ now \in Nat /\ persist \in BOOLEAN /\ hashOK \in BOOLEAN /\ user \in Users
  /\ fails \in [Keys -> Seq(Nat)] /\ allFails \in Seq(Nat)
  /\ sessions \in SUBSET Session
  /\ lastStep \in Nat
  /\ disk \in [sessions : SUBSET Session, lastStep : Nat]
  /\ req \in [Requests -> {Idle} \cup Inquiry \cup Matched]
  /\ unsaved \in BOOLEAN /\ forgot \in BOOLEAN
  /\ grants \in [Steps -> Nat]
  /\ revoked \in SUBSET Tokens /\ issued \in SUBSET Tokens

\* A TOTP code opens at most one session, however logins race between the
\* match and a.mu, and across restarts, as long as no restart came while the
\* file was behind the memory, or could not read it (Login's replay check, save
\* and load).
CodeOnce == ~forgot => \A s \in Steps : grants[s] <= 1

InFlight(k) == {r \in Requests : req[r] # Idle /\ req[r].key = k}
Running     == {r \in Requests : req[r] # Idle}

\* Allow and Fail are separate calls around an unlocked hash, so more than
\* PerKey attempts can be evaluated; the overshoot is bounded by the number of
\* logins running at once, for each key and for all keys together.
RateLimit ==
  /\ \A k \in Keys : Len(fails[k]) + Cardinality(InFlight(k)) < PerKey + Cardinality(Requests)
  /\ Len(allFails) + Cardinality(Running) < Global + Cardinality(Requests)

Locked(k)    == Len(Recent(fails[k])) >= PerKey
GlobalLocked == Len(Recent(allFails)) >= Global
Restarting   == \E u \in Users, readable \in BOOLEAN : Restart(u, readable)
LoggedIn(k)  == \E r \in InFlight(k) : req'[r] = Idle /\ issued' # issued

\* A lock ends by the passing of time or a restart of the process; that of one
\* key also by a login of the same key that was let in before the lock, and
\* the global one by no login at all (Reset clears one key only).
LockHolds ==
  [][now' = now /\ ~Restarting =>
       /\ GlobalLocked => GlobalLocked'
       /\ \A k \in Keys : Locked(k) => Locked(k)' \/ LoggedIn(k)]_vars

\* A session that was logged out, or found expired, never comes back, not even
\* from the file after a restart, unless its removal was never saved (or a
\* restart without the file made dashd forget what was).
LogoutFinal == ~forgot => \A s \in sessions : s.token \notin revoked

\* What was saved survives: a restart of a dashd whose last save succeeded, and
\* which can read the file, keeps every live session of the configured user.
SurvivesRestart ==
  [][\A u \in Users : Restart(u, TRUE) /\ persist /\ ~unsaved => Live(sessions, u) \subseteq sessions']_vars

\* README.md:65 says that five wrong attempts lock the key out for 15 minutes:
\* a lock that ends by the passing of time has lasted the whole window since
\* the failure that completed it.
LockoutLastsWindow ==
  [][\A k \in Keys : now' > now /\ Locked(k) /\ ~Locked(k)' =>
       now' >= Recent(fails[k])[PerKey] + Window]_vars

=============================================================================

----------------------------- MODULE AuthProofs -----------------------------
(***************************************************************************)
(* Theorems about Auth, for any number of keys, concurrent logins, tokens, *)
(* users, limits and durations.                                            *)
(***************************************************************************)
EXTENDS Auth, FiniteSetTheorems, WellFoundedInduction, TLAPS

-----------------------------------------------------------------------------
(* Lemmas about the limiter's lists.                                       *)

\* Pruning a list of times gives a list of times that is no longer.
LEMMA PruneShrinks ==
  ASSUME NEW ts \in Seq(Nat), NEW cutoff \in Int
  PROVE  Prune(ts, cutoff) \in Seq(Nat) /\ Len(Prune(ts, cutoff)) <= Len(ts)
<1> DEFINE old == {i \in DOMAIN ts : \A j \in 1 .. i : ts[j] < cutoff}
<1>1. DOMAIN ts = 1 .. Len(ts) /\ Len(ts) \in Nat
  OBVIOUS
<1>2. IsFiniteSet(1 .. Len(ts)) /\ Cardinality(1 .. Len(ts)) = Len(ts)
  BY <1>1, FS_Interval, SMTT(30)
<1>3. old \in SUBSET (1 .. Len(ts))
  BY <1>1
<1>4. Cardinality(old) \in Nat /\ Cardinality(old) <= Len(ts)
  BY <1>2, <1>3, FS_Subset, FS_CardinalityType
<1> HIDE DEF old
<1>5. /\ SubSeq(ts, Cardinality(old) + 1, Len(ts)) \in Seq(Nat)
      /\ Len(SubSeq(ts, Cardinality(old) + 1, Len(ts))) <= Len(ts)
  BY <1>1, <1>4
<1>6. Prune(ts, cutoff) = SubSeq(ts, Cardinality(old) + 1, Len(ts))
  BY DEF Prune, old
<1>. QED  BY <1>5, <1>6

\* The requests in flight are finitely many, and no more than all of them.
LEMMA InFlightFinite ==
  ASSUME NEW k
  PROVE  /\ IsFiniteSet(InFlight(k)) /\ Cardinality(InFlight(k)) \in Nat
         /\ Cardinality(InFlight(k)) <= Cardinality(Requests)
         /\ IsFiniteSet(Running) /\ Cardinality(Running) \in Nat
         /\ Cardinality(Running) <= Cardinality(Requests)
         /\ Cardinality(Requests) \in Nat
<1>1. InFlight(k) \in SUBSET Requests /\ Running \in SUBSET Requests
  BY DEF InFlight, Running
<1>. QED  BY <1>1, FS_Subset, FS_CardinalityType, LimitsAssumption

-----------------------------------------------------------------------------
(* Types.                                                                  *)

LEMMA TypeInit == Init => TypeOK
<1> SUFFICES ASSUME Init PROVE TypeOK
  OBVIOUS
<1>1. now \in Nat /\ lastStep \in Nat /\ allFails \in Seq(Nat) /\ fails \in [Keys -> Seq(Nat)]
  BY LimitsAssumption DEF Init, Start
<1>2. /\ sessions \in SUBSET Session
      /\ disk \in [sessions : SUBSET Session, lastStep : Nat]
      /\ revoked \in SUBSET Tokens /\ issued \in SUBSET Tokens
  BY DEF Init, NoFile
<1>3. req \in [Requests -> {Idle} \cup Inquiry \cup Matched] /\ grants \in [Steps -> Nat]
  BY DEF Init
<1>4. unsaved \in BOOLEAN /\ forgot \in BOOLEAN /\ user \in Users
  BY DEF Init
<1>5. persist \in BOOLEAN /\ hashOK \in BOOLEAN
  BY DEF Init
<1>. QED  BY <1>1, <1>2, <1>3, <1>4, <1>5 DEF TypeOK

\* A request whose pc is known has the fields that go with it.
LEMMA RequestType ==
  ASSUME TypeOK, NEW r \in Requests
  PROVE  /\ req[r].pc = "hashing" => req[r] \in Inquiry
         /\ req[r].pc = "matched" => req[r] \in Matched
  BY DEF TypeOK, Idle, Inquiry, Matched

LEMMA SaveType ==
  ASSUME TypeOK, NEW ss \in SUBSET Session, NEW step \in Nat, Save(ss, step)
  PROVE  disk' \in [sessions : SUBSET Session, lastStep : Nat] /\ unsaved' \in BOOLEAN
<1>1. CASE /\ disk' = [sessions |-> ss, lastStep |-> step]
           /\ unsaved' = FALSE
  BY <1>1
<1>2. CASE UNCHANGED disk /\ unsaved' = TRUE
  BY <1>2 DEF TypeOK
<1>. QED  BY <1>1, <1>2 DEF Save

LEMMA TypeNext == TypeOK /\ [Next]_vars => TypeOK'
<1> SUFFICES ASSUME TypeOK, [Next]_vars
             PROVE  TypeOK'
  OBVIOUS
<1> USE LimitsAssumption
<1>1. ASSUME NEW r \in Requests, NEW k \in Keys, Arrive(r, k)
      PROVE  TypeOK'
  <2>1. fails' \in [Keys -> Seq(Nat)] /\ allFails' \in Seq(Nat)
    <3>1. Recent(fails[k]) \in Seq(Nat) /\ Recent(allFails) \in Seq(Nat)
      BY PruneShrinks DEF TypeOK, Recent
    <3>. QED  BY <1>1, <3>1 DEF TypeOK, Arrive
  <2>2. req' \in [Requests -> {Idle} \cup Inquiry \cup Matched]
    BY <1>1 DEF TypeOK, Arrive, Inquiry
  <2>. QED  BY <1>1, <2>1, <2>2 DEF TypeOK, Arrive, config, history
<1>2. ASSUME NEW r \in Requests, HashError(r)
      PROVE  TypeOK'
  BY <1>2 DEF TypeOK, HashError, config, limiter, history
<1>3. ASSUME NEW r \in Requests, NEW good \in BOOLEAN, NEW code \in Steps \cup {NoCode},
             MatchCode(r, good, code)
      PROVE  TypeOK'
  <2>1. req[r].key \in Keys
    BY <1>3, RequestType DEF MatchCode, Inquiry
  <2>2. req' \in [Requests -> {Idle} \cup Inquiry \cup Matched]
    BY <1>3, <2>1 DEF TypeOK, MatchCode, Matched
  <2>. QED  BY <1>3, <2>2 DEF TypeOK, MatchCode, config, limiter, history
<1>4. ASSUME NEW r \in Requests, Reject(r)
      PROVE  TypeOK'
  <2>1. req[r].key \in Keys
    BY <1>4, RequestType DEF Reject, Matched
  <2>2. fails' \in [Keys -> Seq(Nat)] /\ allFails' \in Seq(Nat)
    BY <1>4, <2>1 DEF TypeOK, Reject, Fail
  <2>. QED  BY <1>4, <2>2 DEF TypeOK, Reject, config, history
<1>5. ASSUME NEW r \in Requests, NEW t \in Tokens, Accept(r, t)
      PROVE  TypeOK'
  <2>1. req[r].key \in Keys /\ req[r].step \in Steps /\ req[r].step \in Nat
    BY <1>5, RequestType DEF Accept, Correct, Matched, Steps
  <2>2. sessions' \in SUBSET Session
    BY <1>5 DEF TypeOK, Accept, Session
  <2>3. disk' \in [sessions : SUBSET Session, lastStep : Nat] /\ unsaved' \in BOOLEAN
    BY <1>5, <2>1, <2>2, SaveType DEF Accept
  <2>4. fails' \in [Keys -> Seq(Nat)] /\ allFails' \in Seq(Nat)
    BY <1>5, <2>1 DEF TypeOK, Accept, Reset
  <2>5. grants' \in [Steps -> Nat]
    BY <1>5, <2>1 DEF TypeOK, Accept
  <2>. QED  BY <1>5, <2>1, <2>2, <2>3, <2>4, <2>5 DEF TypeOK, Accept, config
<1>6. ASSUME NEW s \in sessions, ExpireSession(s)
      PROVE  TypeOK'
  <2>1. s.token \in Tokens
    BY DEF TypeOK, Session
  <2>2. sessions' \in SUBSET Session
    BY <1>6 DEF TypeOK, ExpireSession, Without
  <2>3. disk' \in [sessions : SUBSET Session, lastStep : Nat] /\ unsaved' \in BOOLEAN
    BY <1>6, <2>2, SaveType DEF ExpireSession, TypeOK
  <2>. QED  BY <1>6, <2>1, <2>2, <2>3 DEF TypeOK, ExpireSession, config, limiter
<1>7. ASSUME NEW t \in Tokens, Logout(t)
      PROVE  TypeOK'
  <2>1. sessions' \in SUBSET Session
    BY <1>7 DEF TypeOK, Logout, Without
  <2>2. disk' \in [sessions : SUBSET Session, lastStep : Nat] /\ unsaved' \in BOOLEAN
    BY <1>7, <2>1, SaveType DEF Logout, TypeOK
  <2>. QED  BY <1>7, <2>1, <2>2 DEF TypeOK, Logout, config, limiter
<1>8. ASSUME NEW u \in Users, NEW readable \in BOOLEAN, Restart(u, readable)
      PROVE  TypeOK'
  <2>1. fails' \in [Keys -> Seq(Nat)] /\ allFails' \in Seq(Nat)
    BY <1>8 DEF Restart
  <2>2. sessions' \in SUBSET Session /\ lastStep' \in Nat
    BY <1>8 DEF TypeOK, Restart, Live
  <2>. QED  BY <1>8, <2>1, <2>2 DEF TypeOK, Restart, config
<1>9. CASE Tick
  BY <1>9 DEF TypeOK, Tick, config, limiter, history
<1>10. CASE UNCHANGED vars
  BY <1>10 DEF TypeOK, vars, config, limiter, history
<1>. QED  BY <1>1, <1>2, <1>3, <1>4, <1>5, <1>6, <1>7, <1>8, <1>9, <1>10 DEF Next

\* Every variable of sign-in keeps its type.
THEOREM TypeCorrect == Spec => []TypeOK
<1>. QED  BY TypeInit, TypeNext, PTL DEF Spec

-----------------------------------------------------------------------------
(* A TOTP code is used once.  CodeOnce is not inductive: it needs that no  *)
(* granted step is above lastStep, in memory, and, when the last save      *)
(* succeeded, above the one in the file that a restart will load.          *)

FileStep == IF persist THEN disk.lastStep ELSE 0

CodeInv ==
  /\ TypeOK
  /\ CodeOnce
  /\ ~forgot => \A s \in Steps : grants[s] > 0 => s <= lastStep
  /\ ~forgot /\ ~unsaved => \A s \in Steps : grants[s] > 0 => s <= FileStep

LEMMA CodeInit == Init => CodeInv
<1> SUFFICES ASSUME Init PROVE CodeInv
  OBVIOUS
<1>1. \A s \in Steps : grants[s] = 0
  BY DEF Init
<1>. QED  BY <1>1, TypeInit DEF CodeInv, CodeOnce

LEMMA CodeNext == CodeInv /\ [Next]_vars => CodeInv'
<1> SUFFICES ASSUME CodeInv, [Next]_vars
             PROVE  CodeInv'
  OBVIOUS
<1>0. TypeOK /\ TypeOK'
  BY TypeNext DEF CodeInv
<1> USE DEF CodeInv, CodeOnce, FileStep
<1>1. CASE UNCHANGED <<persist, lastStep, disk, unsaved, forgot, grants>>
  BY <1>0, <1>1
<1>2. ASSUME NEW r \in Requests, NEW t \in Tokens, Accept(r, t)
      PROVE  CodeInv'
  <2> DEFINE step == req[r].step
  <2>1. step \in Steps /\ step \in Nat /\ step > lastStep
    BY <1>0, <1>2, RequestType DEF Accept, Correct, Matched, Steps
  <2>2. /\ lastStep' = step /\ grants' = [grants EXCEPT ![step] = @ + 1]
        /\ persist' = persist /\ forgot' = forgot
    BY <1>2 DEF Accept, config
  <2>3. ASSUME ~forgot, NEW s \in Steps, grants'[s] > 0
        PROVE  grants'[s] <= 1 /\ s <= lastStep'
    <3>1. CASE s = step
      <4>1. grants[step] = 0
        BY <2>1, <2>3, <3>1, <1>0 DEF TypeOK, Steps
      <4>. QED  BY <2>1, <2>2, <3>1, <4>1, <1>0 DEF TypeOK
    <3>2. CASE s # step
      <4>1. grants'[s] = grants[s]
        BY <2>1, <2>2, <3>2, <1>0 DEF TypeOK
      <4>. QED  BY <2>1, <2>2, <2>3, <4>1, <1>0 DEF TypeOK, Steps
    <3>. QED  BY <3>1, <3>2
  <2>4. ~unsaved' => persist' /\ disk'.lastStep = lastStep'
    BY <1>2, <2>2 DEF Accept, Save
  <2>5. ASSUME ~forgot', NEW s \in Steps
        PROVE  grants'[s] <= 1
    <3>1. grants'[s] \in Nat
      BY <1>0 DEF TypeOK
    <3>. QED  BY <2>2, <2>3, <2>5, <3>1
  <2>. QED  BY <1>0, <2>2, <2>3, <2>4, <2>5
<1>3. ASSUME Save(sessions', lastStep), UNCHANGED <<persist, lastStep, forgot, grants>>
      PROVE  CodeInv'
  <2>1. ~unsaved' => persist' /\ disk'.lastStep = lastStep'
    BY <1>3 DEF Save
  <2>. QED  BY <1>0, <1>3, <2>1
<1>4. ASSUME NEW u \in Users, NEW readable \in BOOLEAN, Restart(u, readable)
      PROVE  CodeInv'
  <2>1. ~forgot' => ~forgot /\ ~unsaved /\ lastStep' = FileStep
    BY <1>4 DEF Restart
  <2>2. FileStep' = FileStep /\ grants' = grants
    BY <1>4 DEF Restart, config
  <2>. QED  BY <1>0, <2>1, <2>2
<1>5. ASSUME NEW r \in Requests, NEW k \in Keys, Arrive(r, k)
      PROVE  CodeInv'
  BY <1>1, <1>5 DEF Arrive, config, history
<1>6. ASSUME NEW r \in Requests, HashError(r)
      PROVE  CodeInv'
  BY <1>1, <1>6 DEF HashError, config, history
<1>7. ASSUME NEW r \in Requests, NEW good \in BOOLEAN, NEW code \in Steps \cup {NoCode},
             MatchCode(r, good, code)
      PROVE  CodeInv'
  BY <1>1, <1>7 DEF MatchCode, config, history
<1>8. ASSUME NEW r \in Requests, Reject(r)
      PROVE  CodeInv'
  BY <1>1, <1>8 DEF Reject, config, history
<1>9. ASSUME NEW s \in sessions, ExpireSession(s)
      PROVE  CodeInv'
  BY <1>3, <1>9 DEF ExpireSession, config
<1>10. ASSUME NEW t \in Tokens, Logout(t)
       PROVE  CodeInv'
  BY <1>3, <1>10 DEF Logout, config
<1>11. CASE Tick
  BY <1>1, <1>11 DEF Tick, config, history
<1>12. CASE UNCHANGED vars
  BY <1>1, <1>12 DEF vars, config, history
<1>. QED  BY <1>2, <1>4, <1>5, <1>6, <1>7, <1>8, <1>9, <1>10, <1>11, <1>12 DEF Next

\* However logins race and whenever the process restarts, a TOTP code opens at
\* most one session until a restart meets a file that a failed save left behind.
THEOREM CodesAreUsedOnce == Spec => []CodeOnce
<1>1. CodeInv => CodeOnce
  BY DEF CodeInv
<1>. QED  BY CodeInit, CodeNext, <1>1, PTL DEF Spec

-----------------------------------------------------------------------------
(* Logouts are final, and what was saved survives.  A restart replaces the *)
(* memory by the file, so both facts rest on how the two relate when the   *)
(* last save succeeded: no revoked token is in the file, and every session *)
(* in memory is.  Tokens in either were issued, so a new one is not among  *)
(* the revoked.                                                            *)

SessionInv ==
  /\ TypeOK
  /\ \A s \in sessions \cup disk.sessions : s.token \in issued
  /\ revoked \subseteq issued
  /\ LogoutFinal
  /\ ~forgot /\ ~unsaved /\ persist => \A s \in disk.sessions : s.token \notin revoked
  /\ ~unsaved /\ persist => sessions \subseteq disk.sessions

LEMMA SessionInit == Init => SessionInv
<1> SUFFICES ASSUME Init PROVE SessionInv
  OBVIOUS
<1>1. sessions = {} /\ disk.sessions = {} /\ revoked = {}
  BY DEF Init, NoFile
<1>. QED  BY <1>1, TypeInit DEF SessionInv, LogoutFinal

\* Removing the sessions of a token, recording it as revoked and saving.
LEMMA RemovalKeepsSessionInv ==
  ASSUME SessionInv, TypeOK', NEW t, sessions' = Without(t), Save(sessions', lastStep),
         revoked' = revoked \cup ({t} \cap issued),
         UNCHANGED <<persist, forgot, issued>>
  PROVE  SessionInv'
<1>1. sessions' \subseteq sessions /\ \A s \in sessions' : s.token # t
  BY DEF Without
<1>2. \A s \in sessions' : s.token \in issued' /\ (~forgot' => s.token \notin revoked')
  BY <1>1 DEF SessionInv, LogoutFinal
<1>3. revoked' \subseteq issued'
  BY DEF SessionInv
<1>4. CASE persist /\ disk' = [sessions |-> sessions', lastStep |-> lastStep] /\ unsaved' = FALSE
  BY <1>2, <1>3, <1>4 DEF SessionInv, LogoutFinal
<1>5. CASE UNCHANGED disk /\ unsaved' = TRUE
  BY <1>2, <1>3, <1>5 DEF SessionInv, LogoutFinal
<1>. QED  BY <1>4, <1>5 DEF Save

LEMMA SessionNext == SessionInv /\ [Next]_vars => SessionInv'
<1> SUFFICES ASSUME SessionInv, [Next]_vars
             PROVE  SessionInv'
  OBVIOUS
<1>0. TypeOK /\ TypeOK'
  BY TypeNext DEF SessionInv
<1>1. CASE UNCHANGED <<persist, sessions, disk, unsaved, forgot, revoked, issued>>
  BY <1>0, <1>1 DEF SessionInv, LogoutFinal
<1>2. ASSUME NEW r \in Requests, NEW t \in Tokens, Accept(r, t)
      PROVE  SessionInv'
  <2> DEFINE new == [token |-> t, user |-> user, expires |-> now + TTL]
  <2>1. /\ sessions' = sessions \cup {new} /\ new.token = t /\ t \notin issued
        /\ issued' = issued \cup {t} /\ revoked' = revoked /\ forgot' = forgot
        /\ persist' = persist
    BY <1>2 DEF Accept, config
  <2> HIDE DEF new
  <2>2. \A s \in sessions' : s.token \in issued' /\ (~forgot' => s.token \notin revoked')
    BY <2>1 DEF SessionInv, LogoutFinal
  <2>3. CASE persist /\ disk' = [sessions |-> sessions', lastStep |-> lastStep'] /\ unsaved' = FALSE
    BY <1>0, <2>1, <2>2, <2>3 DEF SessionInv, LogoutFinal
  <2>4. CASE UNCHANGED disk /\ unsaved' = TRUE
    BY <1>0, <2>1, <2>2, <2>4 DEF SessionInv, LogoutFinal
  <2>. QED  BY <1>2, <2>3, <2>4 DEF Accept, Save
<1>3. ASSUME NEW s \in sessions, ExpireSession(s)
      PROVE  SessionInv'
  <2>1. s.token \in issued
    BY DEF SessionInv
  <2>. QED  BY <1>0, <1>3, <2>1, RemovalKeepsSessionInv DEF ExpireSession, config
<1>4. ASSUME NEW t \in Tokens, Logout(t)
      PROVE  SessionInv'
  BY <1>0, <1>4, RemovalKeepsSessionInv DEF Logout, config
<1>5. ASSUME NEW u \in Users, NEW readable \in BOOLEAN, Restart(u, readable)
      PROVE  SessionInv'
  <2>1. /\ sessions' \subseteq disk.sessions /\ disk' = disk
        /\ persist \/ sessions' = {}
        /\ issued' = issued /\ revoked' = revoked /\ persist' = persist
        /\ ~forgot' => ~forgot /\ ~unsaved
    BY <1>5 DEF Restart, Live, config
  <2>. QED  BY <1>0, <2>1 DEF SessionInv, LogoutFinal
<1>6. ASSUME NEW r \in Requests, NEW k \in Keys, Arrive(r, k)
      PROVE  SessionInv'
  BY <1>1, <1>6 DEF Arrive, config, history
<1>7. ASSUME NEW r \in Requests, HashError(r)
      PROVE  SessionInv'
  BY <1>1, <1>7 DEF HashError, config, history
<1>8. ASSUME NEW r \in Requests, NEW good \in BOOLEAN, NEW code \in Steps \cup {NoCode},
             MatchCode(r, good, code)
      PROVE  SessionInv'
  BY <1>1, <1>8 DEF MatchCode, config, history
<1>9. ASSUME NEW r \in Requests, Reject(r)
      PROVE  SessionInv'
  BY <1>1, <1>9 DEF Reject, config, history
<1>10. CASE Tick
  BY <1>1, <1>10 DEF Tick, config, history
<1>11. CASE UNCHANGED vars
  BY <1>1, <1>11 DEF vars, config, history
<1>. QED  BY <1>2, <1>3, <1>4, <1>5, <1>6, <1>7, <1>8, <1>9, <1>10, <1>11 DEF Next

\* A session that was logged out, or found expired, is never honoured again,
\* unless a restart met a file its removal never reached.
THEOREM LogoutsAreFinal == Spec => []LogoutFinal
<1>1. SessionInv => LogoutFinal
  BY DEF SessionInv
<1>. QED  BY SessionInit, SessionNext, <1>1, PTL DEF Spec

\* A restart after a save that succeeded brings back every live session.
THEOREM SessionsSurviveRestart == Spec => SurvivesRestart
<1>1. SessionInv /\ [Next]_vars =>
        [\A u \in Users : Restart(u, TRUE) /\ persist /\ ~unsaved => Live(sessions, u) \subseteq sessions']_vars
  <2> SUFFICES ASSUME SessionInv, NEW u \in Users, Restart(u, TRUE), persist, ~unsaved
               PROVE  Live(sessions, u) \subseteq sessions'
    OBVIOUS
  <2>. QED  BY DEF SessionInv, Restart, Live
<1>. QED  BY SessionInit, SessionNext, <1>1, PTL DEF Spec, SurvivesRestart

-----------------------------------------------------------------------------
(* The limiter.  RateLimit bounds the failures on record plus the logins   *)
(* still running.  With TypeOK it is inductive as it stands: letting a     *)
(* login in needs fewer than PerKey failures and adds at most one of the   *)
(* requests; a rejected login only moves from running to on record.        *)

RateInv == TypeOK /\ RateLimit

LEMMA RateInit == Init => RateInv
<1> SUFFICES ASSUME Init PROVE RateInv
  OBVIOUS
<1>1. \A k \in Keys : Len(fails[k]) = 0 /\ InFlight(k) = {}
  BY DEF Init, InFlight
<1>2. Len(allFails) = 0 /\ Running = {}
  BY DEF Init, Running
<1>3. Cardinality(Requests) \in Nat /\ Cardinality({}) = 0
  BY FS_CardinalityType, FS_EmptySet, LimitsAssumption
<1>4. ASSUME NEW k \in Keys
      PROVE  Len(fails[k]) + Cardinality(InFlight(k)) < PerKey + Cardinality(Requests)
  <2>1. Cardinality(InFlight(k)) = 0
    BY <1>1, <1>3, Zenon
  <2>. QED  BY <1>1, <1>3, <2>1, LimitsAssumption
<1>5. Len(allFails) + Cardinality(Running) < Global + Cardinality(Requests)
  BY <1>2, <1>3, LimitsAssumption
<1>. QED  BY <1>4, <1>5, TypeInit DEF RateInv, RateLimit

\* A step after which no list is longer and no more logins run is harmless.
LEMMA FewerKeepsRateInv ==
  ASSUME RateInv, TypeOK',
         \A k \in Keys : Len(fails'[k]) <= Len(fails[k]) /\ InFlight(k)' \subseteq InFlight(k),
         Len(allFails') <= Len(allFails) /\ Running' \subseteq Running
  PROVE  RateInv'
<1>0. fails \in [Keys -> Seq(Nat)] /\ fails' \in [Keys -> Seq(Nat)]
      /\ allFails \in Seq(Nat) /\ allFails' \in Seq(Nat)
  BY DEF RateInv, TypeOK
<1>1. ASSUME NEW k \in Keys
      PROVE  Len(fails'[k]) + Cardinality(InFlight(k)') < PerKey + Cardinality(Requests)
  <2>1. IsFiniteSet(InFlight(k)) /\ Cardinality(InFlight(k)) \in Nat /\ Cardinality(Requests) \in Nat
    BY InFlightFinite
  <2>2. Cardinality(InFlight(k)') \in Nat /\ Cardinality(InFlight(k)') <= Cardinality(InFlight(k))
    BY <2>1, FS_Subset, FS_CardinalityType
  <2>3. Len(fails[k]) + Cardinality(InFlight(k)) < PerKey + Cardinality(Requests)
    BY DEF RateInv, RateLimit
  <2>4. Len(fails[k]) \in Nat /\ Len(fails'[k]) \in Nat /\ Len(fails'[k]) <= Len(fails[k])
    BY <1>0
  <2>. QED  BY <2>1, <2>2, <2>3, <2>4, LimitsAssumption
<1>2. Len(allFails') + Cardinality(Running') < Global + Cardinality(Requests)
  <2>1. IsFiniteSet(Running) /\ Cardinality(Running) \in Nat /\ Cardinality(Requests) \in Nat
    BY InFlightFinite
  <2>2. Cardinality(Running') \in Nat /\ Cardinality(Running') <= Cardinality(Running)
    BY <2>1, FS_Subset, FS_CardinalityType
  <2>3. Len(allFails) + Cardinality(Running) < Global + Cardinality(Requests)
    BY DEF RateInv, RateLimit
  <2>4. Len(allFails) \in Nat /\ Len(allFails') \in Nat
    BY <1>0
  <2>. QED  BY <2>1, <2>2, <2>3, <2>4, LimitsAssumption
<1>. QED  BY <1>1, <1>2 DEF RateInv, RateLimit

LEMMA ArriveKeepsRateInv ==
  ASSUME RateInv, TypeOK', NEW r \in Requests, NEW k \in Keys, Arrive(r, k)
  PROVE  RateInv'
<1>0. /\ fails \in [Keys -> Seq(Nat)] /\ allFails \in Seq(Nat)
      /\ req \in [Requests -> {Idle} \cup Inquiry \cup Matched] /\ now \in Nat
  BY DEF RateInv, TypeOK
<1>1. /\ Recent(fails[k]) \in Seq(Nat) /\ Len(Recent(fails[k])) <= Len(fails[k])
      /\ Recent(allFails) \in Seq(Nat) /\ Len(Recent(allFails)) <= Len(allFails)
  BY <1>0, PruneShrinks, LimitsAssumption DEF Recent
<1>2. fails' = [fails EXCEPT ![k] = Recent(fails[k])] /\ allFails' = Recent(allFails)
  BY DEF Arrive
<1>3. CASE UNCHANGED req
  <2>1. /\ \A j \in Keys : Len(fails'[j]) <= Len(fails[j]) /\ InFlight(j)' = InFlight(j)
        /\ Len(allFails') <= Len(allFails) /\ Running' = Running
    BY <1>0, <1>1, <1>2, <1>3 DEF InFlight, Running
  <2>. QED  BY <2>1, FewerKeepsRateInv
<1>4. CASE Allowed(k) /\ req' = [req EXCEPT ![r] = [pc |-> "hashing", key |-> k]]
  <2>1. Cardinality(Requests) \in Nat /\ Cardinality(InFlight(k)') \in Nat
        /\ Cardinality(InFlight(k)') <= Cardinality(Requests)
    <3>1. InFlight(k)' \in SUBSET Requests
      BY DEF InFlight
    <3>. QED  BY <3>1, FS_Subset, FS_CardinalityType, LimitsAssumption
  <2>2. Cardinality(Running') \in Nat /\ Cardinality(Running') <= Cardinality(Requests)
    <3>1. Running' \in SUBSET Requests
      BY DEF Running
    <3>. QED  BY <3>1, FS_Subset, FS_CardinalityType, LimitsAssumption
  <2>3. Len(fails'[k]) < PerKey /\ Len(allFails') < Global
    BY <1>0, <1>2, <1>4 DEF Allowed
  <2>4. ASSUME NEW j \in Keys
        PROVE  Len(fails'[j]) + Cardinality(InFlight(j)') < PerKey + Cardinality(Requests)
    <3>1. CASE j = k
      <4>1. Len(fails'[k]) \in Nat
        BY <1>0, <1>1, <1>2
      <4>. QED  BY <2>1, <2>3, <3>1, <4>1, LimitsAssumption
    <3>2. CASE j # k
      <4>1. fails'[j] = fails[j] /\ InFlight(j)' = InFlight(j)
        BY <1>0, <1>2, <1>4, <3>2 DEF InFlight, Arrive, Idle
      <4>. QED  BY <4>1 DEF RateInv, RateLimit
    <3>. QED  BY <3>1, <3>2
  <2>5. Len(allFails') \in Nat
    BY <1>1, <1>2
  <2>. QED  BY <2>2, <2>1, <2>3, <2>4, <2>5, LimitsAssumption DEF RateInv, RateLimit
<1>. QED  BY <1>3, <1>4 DEF Arrive

LEMMA RejectKeepsRateInv ==
  ASSUME RateInv, TypeOK', NEW r \in Requests, Reject(r)
  PROVE  RateInv'
<1>0. /\ fails \in [Keys -> Seq(Nat)] /\ allFails \in Seq(Nat) /\ now \in Nat
      /\ req \in [Requests -> {Idle} \cup Inquiry \cup Matched]
  BY DEF RateInv, TypeOK
<1>1. PICK k \in Keys : k = req[r].key /\ req[r] # Idle
  <2>1. req[r].key \in Keys /\ req[r] # Idle
    BY RequestType DEF Reject, RateInv, Matched, Idle
  <2>. QED  BY <2>1
<1>2. /\ fails' = [fails EXCEPT ![k] = Append(fails[k], now)] /\ allFails' = Append(allFails, now)
      /\ req' = [req EXCEPT ![r] = Idle]
  BY <1>1 DEF Reject, Fail
<1>3. ASSUME NEW j \in Keys
      PROVE  Len(fails'[j]) + Cardinality(InFlight(j)') < PerKey + Cardinality(Requests)
  <2>0. Len(fails[j]) + Cardinality(InFlight(j)) < PerKey + Cardinality(Requests)
    BY DEF RateInv, RateLimit
  <2>1. CASE j = k
    <3>1. InFlight(k)' = InFlight(k) \ {r} /\ r \in InFlight(k)
      BY <1>0, <1>1, <1>2 DEF InFlight
    <3>2. IsFiniteSet(InFlight(k)) /\ Cardinality(InFlight(k)) \in Nat
      BY InFlightFinite
    <3>3. Cardinality(InFlight(k)') = Cardinality(InFlight(k)) - 1
      BY <3>1, <3>2, FS_RemoveElement
    <3>4. Len(fails'[k]) = Len(fails[k]) + 1 /\ Len(fails[k]) \in Nat
      BY <1>0, <1>1, <1>2
    <3>. QED  BY <2>0, <2>1, <3>2, <3>3, <3>4
  <2>2. CASE j # k
    <3>1. fails'[j] = fails[j] /\ InFlight(j)' = InFlight(j)
      BY <1>0, <1>1, <1>2, <2>2 DEF InFlight
    <3>. QED  BY <2>0, <3>1
  <2>. QED  BY <2>1, <2>2
<1>4. Len(allFails') + Cardinality(Running') < Global + Cardinality(Requests)
  <2>1. Running' = Running \ {r} /\ r \in Running
    BY <1>0, <1>1, <1>2 DEF Running
  <2>2. IsFiniteSet(Running) /\ Cardinality(Running) \in Nat
    BY InFlightFinite
  <2>3. Cardinality(Running') = Cardinality(Running) - 1
    BY <2>1, <2>2, FS_RemoveElement
  <2>4. Len(allFails') = Len(allFails) + 1 /\ Len(allFails) \in Nat
    BY <1>0, <1>2
  <2>5. Len(allFails) + Cardinality(Running) < Global + Cardinality(Requests)
    BY DEF RateInv, RateLimit
  <2>. QED  BY <2>2, <2>3, <2>4, <2>5
<1>. QED  BY <1>3, <1>4 DEF RateInv, RateLimit

LEMMA RateNext == RateInv /\ [Next]_vars => RateInv'
<1> SUFFICES ASSUME RateInv, [Next]_vars
             PROVE  RateInv'
  OBVIOUS
<1>0. TypeOK /\ TypeOK'
  BY TypeNext DEF RateInv
<1>a. /\ fails \in [Keys -> Seq(Nat)] /\ allFails \in Seq(Nat)
      /\ req \in [Requests -> {Idle} \cup Inquiry \cup Matched]
      /\ \A k \in Keys : Len(fails[k]) \in Nat
      /\ Len(allFails) \in Nat
  BY <1>0 DEF TypeOK
<1>1. CASE UNCHANGED <<fails, allFails, req>>
  <2>1. \A k \in Keys : Len(fails'[k]) <= Len(fails[k]) /\ InFlight(k)' = InFlight(k)
    BY <1>1, <1>a DEF InFlight
  <2>2. Len(allFails') <= Len(allFails) /\ Running' = Running
    BY <1>1, <1>a DEF Running
  <2>. QED  BY <1>0, <2>1, <2>2, FewerKeepsRateInv
<1>2. ASSUME NEW r \in Requests, NEW k \in Keys, Arrive(r, k)
      PROVE  RateInv'
  BY <1>0, <1>2, ArriveKeepsRateInv
<1>3. ASSUME NEW r \in Requests, HashError(r)
      PROVE  RateInv'
  <2>1. req' = [req EXCEPT ![r] = Idle] /\ fails' = fails /\ allFails' = allFails
    BY <1>3 DEF HashError, limiter
  <2>2. \A k \in Keys : Len(fails'[k]) <= Len(fails[k]) /\ InFlight(k)' \subseteq InFlight(k)
    BY <1>a, <2>1 DEF InFlight
  <2>3. Len(allFails') <= Len(allFails) /\ Running' \subseteq Running
    BY <1>a, <2>1 DEF Running
  <2>. QED  BY <1>0, <2>2, <2>3, FewerKeepsRateInv
<1>4. ASSUME NEW r \in Requests, NEW good \in BOOLEAN, NEW code \in Steps \cup {NoCode},
             MatchCode(r, good, code)
      PROVE  RateInv'
  <2>1. /\ req[r] # Idle /\ req'[r].key = req[r].key
        /\ \A q \in Requests \ {r} : req'[q] = req[q]
        /\ fails' = fails /\ allFails' = allFails
    BY <1>4, <1>a DEF MatchCode, limiter, Idle
  <2>2. \A k \in Keys : Len(fails'[k]) <= Len(fails[k])
    BY <1>a, <2>1
  <2>3. ASSUME NEW k \in Keys, NEW q \in InFlight(k)'
        PROVE  q \in InFlight(k)
    <3>1. CASE q = r
      BY <2>1, <2>3, <3>1 DEF InFlight
    <3>2. CASE q # r
      BY <2>1, <2>3, <3>2 DEF InFlight
    <3>. QED  BY <3>1, <3>2
  <2>4. Len(allFails') <= Len(allFails) /\ Running' \subseteq Running
    BY <1>a, <2>1 DEF Running
  <2>. QED  BY <1>0, <2>2, <2>3, <2>4, FewerKeepsRateInv
<1>5. ASSUME NEW r \in Requests, Reject(r)
      PROVE  RateInv'
  BY <1>0, <1>5, RejectKeepsRateInv
<1>6. ASSUME NEW r \in Requests, NEW t \in Tokens, Accept(r, t)
      PROVE  RateInv'
  <2>1. /\ req' = [req EXCEPT ![r] = Idle] /\ allFails' = allFails
        /\ fails' = [fails EXCEPT ![req[r].key] = <<>>]
    BY <1>6 DEF Accept, Reset
  <2>2. \A k \in Keys : Len(fails'[k]) <= Len(fails[k]) /\ InFlight(k)' \subseteq InFlight(k)
    BY <1>a, <2>1 DEF InFlight
  <2>3. Len(allFails') <= Len(allFails) /\ Running' \subseteq Running
    BY <1>a, <2>1 DEF Running
  <2>. QED  BY <1>0, <2>2, <2>3, FewerKeepsRateInv
<1>7. ASSUME NEW s \in sessions, ExpireSession(s)
      PROVE  RateInv'
  BY <1>1, <1>7 DEF ExpireSession, limiter
<1>8. ASSUME NEW t \in Tokens, Logout(t)
      PROVE  RateInv'
  BY <1>1, <1>8 DEF Logout, limiter
<1>9. ASSUME NEW u \in Users, NEW readable \in BOOLEAN, Restart(u, readable)
      PROVE  RateInv'
  <2>1. /\ req' = [r \in Requests |-> Idle] /\ allFails' = <<>>
        /\ fails' = [k \in Keys |-> <<>>]
    BY <1>9 DEF Restart
  <2>2. \A k \in Keys : Len(fails'[k]) <= Len(fails[k]) /\ InFlight(k)' \subseteq InFlight(k)
    BY <1>a, <2>1 DEF InFlight
  <2>3. Len(allFails') <= Len(allFails) /\ Running' \subseteq Running
    BY <1>a, <2>1 DEF Running
  <2>. QED  BY <1>0, <2>2, <2>3, FewerKeepsRateInv
<1>10. CASE Tick
  BY <1>1, <1>10 DEF Tick, limiter
<1>11. CASE UNCHANGED vars
  BY <1>1, <1>11 DEF vars, limiter
<1>. QED  BY <1>2, <1>3, <1>4, <1>5, <1>6, <1>7, <1>8, <1>9, <1>10, <1>11 DEF Next

\* At most PerKey - 1 failures of a key are on record when a login of that key
\* is let in, so the attempts evaluated in a window, those still running
\* included, exceed the limit by less than the number of concurrent logins.
THEOREM AttemptsAreLimited == Spec => []RateLimit
<1>1. RateInv => RateLimit
  BY DEF RateInv
<1>. QED  BY RateInit, RateNext, <1>1, PTL DEF Spec

-----------------------------------------------------------------------------
(* A lock holds.  The limiter's verdict counts the recent failures of a    *)
(* list; the lists change by Arrive, which prunes them, by Reject, which   *)
(* adds to them, and by Accept, which empties one.                         *)

\* A set of natural numbers that is not empty has a least element.  (Stated here
\* with sets, because the library's SmallestNatural takes an operator.)
LEMMA LeastElement ==
  ASSUME NEW S \in SUBSET Nat, S # {}
  PROVE  \E m \in S : \A n \in S : m <= n
<1>. DEFINE T == {1..k : k \in S}
            R == StrictSubsetOrdering(Nat)
<1>1. T \subseteq FiniteSubsetsOf(Nat) /\ T # {}
  <2>1. \A k \in S : 1..k \in SUBSET Nat /\ IsFiniteSet(1..k)
    BY FS_Interval
  <2>2. \E k \in S : 1..k \in T
    OBVIOUS
  <2>. QED  BY <2>1, <2>2 DEF FiniteSubsetsOf
<1>2. IsWellFoundedOn(R, FiniteSubsetsOf(Nat))
  BY FS_StrictSubsetOrderingWellFounded
<1>. HIDE DEF T, R
<1>3. PICK x \in T : \A y \in T : <<y, x>> \notin R
  BY <1>1, <1>2, WFMin
<1>4. PICK m \in S : x = 1..m
  BY DEF T
<1>5. ASSUME NEW n \in S, n < m
      PROVE  FALSE
  <2>1. 1..n \in T
    BY DEF T
  <2>2. 1..n \subseteq 1..m /\ m \in 1..m /\ m \notin 1..n
    BY <1>5
  <2>3. <<1..n, 1..m>> \in R
    BY <2>2 DEF R, StrictSubsetOrdering
  <2>. QED  BY <1>3, <1>4, <2>1, <2>3
<1>. QED  BY <1>5

\* A set of indexes that holds all smaller ones of each of its own is an interval.
LEMMA DownwardClosed ==
  ASSUME NEW n \in Nat, NEW D \in SUBSET (1..n), \A i \in D : \A j \in 1..i : j \in D
  PROVE  \E m \in 0..n : D = 1..m /\ Cardinality(D) = m
<1>. DEFINE S == {k \in 1..(n + 1) : k \notin D}
<1>1. n + 1 \in S
  OBVIOUS
<1>2. PICK l \in S : \A k \in S : l <= k
  
  <2>. S \in SUBSET Nat
    OBVIOUS
  <2>. QED BY <1>1, LeastElement
<1>3. D = 1..(l - 1)
  <2>1. \A i \in 1..(l - 1) : i \in D
    BY <1>2
  <2>2. \A i \in D : i < l
    BY <1>2
  <2>3. l \in 1..(n + 1)
    OBVIOUS
  <2>4. \A i \in D : i \in 1..(l - 1)
    BY <2>2, <2>3
  <2>. HIDE DEF S
  <2>. QED  BY <2>1, <2>4
<1>4. Cardinality(1..(l - 1)) = l - 1
  BY FS_Interval
<1>. QED  BY <1>3, <1>4

\* Prune cuts off exactly the leading times before the cutoff.
LEMMA PruneCuts ==
  ASSUME NEW ts \in Seq(Nat), NEW cutoff \in Int
  PROVE  \E m \in 0..Len(ts) :
           /\ Prune(ts, cutoff) = SubSeq(ts, m + 1, Len(ts))
           /\ \A i \in 1..m : ts[i] < cutoff
           /\ m < Len(ts) => ts[m + 1] >= cutoff
<1>. DEFINE old == {i \in DOMAIN ts : \A j \in 1 .. i : ts[j] < cutoff}
<1>1. DOMAIN ts = 1..Len(ts) /\ Len(ts) \in Nat /\ \A i \in 1..Len(ts) : ts[i] \in Nat
  OBVIOUS
<1>2. old \in SUBSET (1..Len(ts)) /\ \A i \in old : \A j \in 1..i : j \in old
  BY <1>1
<1>3. PICK m \in 0..Len(ts) : old = 1..m /\ Cardinality(old) = m
  <2>. HIDE DEF old
  <2>. QED  BY <1>1, <1>2, DownwardClosed
<1>4. Prune(ts, cutoff) = SubSeq(ts, m + 1, Len(ts))
  BY <1>3 DEF Prune
<1>5. \A i \in 1..m : ts[i] < cutoff
  BY <1>1, <1>3
<1>6. ASSUME m < Len(ts), ~(ts[m + 1] >= cutoff)
      PROVE  FALSE
  <2>1. m + 1 \in 1..Len(ts) /\ ts[m + 1] < cutoff
    BY <1>1, <1>6
  <2>2. \A j \in 1..(m + 1) : j \in 1..m \/ j = m + 1
    OBVIOUS
  <2>3. m + 1 \in old
    BY <1>1, <1>5, <2>1, <2>2
  <2>. HIDE DEF old
  <2>. QED  BY <1>3, <2>3
<1>. QED  BY <1>4, <1>5, <1>6

\* What was pruned is not pruned again by the same cutoff.
LEMMA PruneTwice ==
  ASSUME NEW ts \in Seq(Nat), NEW cutoff \in Int
  PROVE  Len(Prune(Prune(ts, cutoff), cutoff)) = Len(Prune(ts, cutoff))
<1>1. PICK m \in 0..Len(ts) :
         /\ Prune(ts, cutoff) = SubSeq(ts, m + 1, Len(ts))
         /\ m < Len(ts) => ts[m + 1] >= cutoff
  BY PruneCuts
<1>. DEFINE us == Prune(ts, cutoff)
<1>2. us \in Seq(Nat) /\ Len(us) = Len(ts) - m /\ (m < Len(ts) => us[1] = ts[m + 1])
  BY <1>1, SMTT(30)
<1>. HIDE DEF us
<1>3. PICK n \in 0..Len(us) :
         /\ Prune(us, cutoff) = SubSeq(us, n + 1, Len(us))
         /\ \A i \in 1..n : us[i] < cutoff
  BY <1>2, PruneCuts
<1>4. n = 0
  <2>1. CASE n > 0
    <3>1. 1 \in 1..n /\ us[1] < cutoff /\ m < Len(ts)
      BY <2>1, <1>2, <1>3
    <3>. QED  BY <3>1, <1>1, <1>2, ts[m + 1] \in Nat, SMTT(30)
  <2>. QED  BY <2>1
<1>5. Len(Prune(us, cutoff)) = Len(us)
  BY <1>2, <1>3, <1>4
<1>. QED  BY <1>5 DEF us

\* A failure added to a list leaves no fewer recent ones.
LEMMA PruneAppend ==
  ASSUME NEW ts \in Seq(Nat), NEW n \in Nat, NEW cutoff \in Int
  PROVE  Len(Prune(Append(ts, n), cutoff)) >= Len(Prune(ts, cutoff))
<1>1. PICK m \in 0..Len(ts) :
         /\ Prune(ts, cutoff) = SubSeq(ts, m + 1, Len(ts))
         /\ \A i \in 1..m : ts[i] < cutoff
         /\ m < Len(ts) => ts[m + 1] >= cutoff
  BY PruneCuts
<1>. DEFINE us == Append(ts, n)
<1>2. /\ us \in Seq(Nat) /\ Len(us) = Len(ts) + 1
      /\ \A i \in 1..Len(ts) : us[i] = ts[i] /\ ts[i] \in Nat
  OBVIOUS
<1>. HIDE DEF us
<1>3. PICK l \in 0..Len(us) :
         /\ Prune(us, cutoff) = SubSeq(us, l + 1, Len(us))
         /\ \A i \in 1..l : us[i] < cutoff
  BY <1>2, PruneCuts
<1>4. Len(Prune(ts, cutoff)) = Len(ts) - m /\ Len(Prune(us, cutoff)) = Len(us) - l
  BY <1>1, <1>2, <1>3
<1>5. l <= m + 1
  <2>. SUFFICES ASSUME l > m + 1 PROVE FALSE
    OBVIOUS
  <2>1. m < Len(ts) /\ m + 1 \in 1..l /\ m + 1 \in 1..Len(ts)
    BY <1>2
  <2>. QED  BY <2>1, <1>1, <1>2, <1>3, SMTT(30)
<1>6. Len(Prune(us, cutoff)) >= Len(Prune(ts, cutoff))
  BY <1>2, <1>4, <1>5
<1>. QED  BY <1>6 DEF us

\* What a step may do to a list, none of which takes a recent failure out of it.
LEMMA PruneKeepsRecent ==
  ASSUME NEW ts \in Seq(Nat), NEW us, NEW t \in Nat, NEW cutoff \in Int,
         us = ts \/ us = Prune(ts, cutoff) \/ us = Append(ts, t)
  PROVE  Len(Prune(us, cutoff)) >= Len(Prune(ts, cutoff))
<1>1. Prune(ts, cutoff) \in Seq(Nat)
  BY PruneShrinks
<1>2. Len(Prune(ts, cutoff)) \in Nat
  BY <1>1
<1>3. CASE us = ts
  BY <1>2, <1>3
<1>4. CASE us = Prune(ts, cutoff)
  BY <1>2, <1>4, PruneTwice
<1>5. CASE us = Append(ts, t)
  BY <1>5, PruneAppend
<1>. QED  BY <1>3, <1>4, <1>5

\* A step that changes each list like this keeps every lock.
LEMMA ListsKeepLocks ==
  ASSUME TypeOK, TypeOK', now' = now,
         \/ allFails' = allFails \/ allFails' = Recent(allFails)
         \/ allFails' = Append(allFails, now)
  PROVE  /\ GlobalLocked => GlobalLocked'
         /\ \A k \in Keys :
              \/ fails'[k] = fails[k] \/ fails'[k] = Recent(fails[k])
              \/ fails'[k] = Append(fails[k], now)
              => (Locked(k) => Locked(k)')
<1>1. /\ allFails \in Seq(Nat) /\ allFails' \in Seq(Nat)
      /\ \A k \in Keys : fails[k] \in Seq(Nat) /\ fails'[k] \in Seq(Nat)
  BY DEF TypeOK
<1>2. now \in Nat /\ now - Window \in Int /\ now' - Window \in Int
  BY LimitsAssumption DEF TypeOK
<1>3. Len(Recent(allFails)') >= Len(Recent(allFails))
  <2>. DEFINE us == allFails'
  <2>1. us \in Seq(Nat) /\ (us = allFails \/ us = Recent(allFails) \/ us = Append(allFails, now))
    BY <1>1
  <2>2. Recent(allFails)' = Prune(us, now - Window)
    BY DEF Recent
  <2>3. Recent(allFails) = Prune(allFails, now - Window)
    BY DEF Recent
  <2>. HIDE DEF us
  <2>4. Len(Prune(us, now - Window)) >= Len(Prune(allFails, now - Window))
    BY <1>1, <1>2, <2>1, <2>3, PruneKeepsRecent
  <2>. QED  BY <2>2, <2>3, <2>4
<1>4. ASSUME NEW k \in Keys,
             \/ fails'[k] = fails[k] \/ fails'[k] = Recent(fails[k])
             \/ fails'[k] = Append(fails[k], now)
      PROVE  Len(Recent(fails[k])') >= Len(Recent(fails[k]))
  <2>. DEFINE us == fails'[k]
              ts == fails[k]
  <2>1. us \in Seq(Nat) /\ ts \in Seq(Nat) /\ (us = ts \/ us = Recent(ts) \/ us = Append(ts, now))
    BY <1>1, <1>4
  <2>2. Recent(fails[k])' = Prune(us, now - Window)
    BY DEF Recent
  <2>3. Recent(ts) = Prune(ts, now - Window)
    BY DEF Recent
  <2>. HIDE DEF us
  <2>4. Len(Prune(us, now - Window)) >= Len(Prune(ts, now - Window))
    <3>. HIDE DEF ts
    <3>. QED  BY <1>2, <2>1, <2>3, PruneKeepsRecent
  <2>. QED  BY <2>2, <2>3, <2>4
<1>5. /\ Len(Recent(allFails)) \in Nat /\ Len(Recent(allFails)') \in Nat
      /\ \A k \in Keys : Len(Recent(fails[k])) \in Nat /\ Len(Recent(fails[k])') \in Nat
  BY <1>1, <1>2, PruneShrinks DEF Recent
<1>. QED  BY <1>3, <1>4, <1>5, LimitsAssumption DEF Locked, GlobalLocked

LEMMA LockStep ==
  TypeOK /\ [Next]_vars =>
    (now' = now /\ ~Restarting =>
       /\ GlobalLocked => GlobalLocked'
       /\ \A k \in Keys : Locked(k) => Locked(k)' \/ LoggedIn(k))
<1>. SUFFICES ASSUME TypeOK, [Next]_vars, now' = now, ~Restarting
              PROVE  /\ GlobalLocked => GlobalLocked'
                     /\ \A k \in Keys : Locked(k) => Locked(k)' \/ LoggedIn(k)
  OBVIOUS
<1>0. TypeOK' /\ now \in Nat
  BY TypeNext DEF TypeOK
<1>1. CASE UNCHANGED limiter
  BY <1>0, <1>1, ListsKeepLocks DEF limiter
<1>2. ASSUME NEW r \in Requests, NEW k \in Keys, Arrive(r, k)
      PROVE  /\ GlobalLocked => GlobalLocked'
             /\ \A c \in Keys : Locked(c) => Locked(c)'
  <2>1. \A c \in Keys : fails'[c] = fails[c] \/ fails'[c] = Recent(fails[c])
    BY <1>2 DEF Arrive, TypeOK
  <2>2. allFails' = Recent(allFails)
    BY <1>2 DEF Arrive
  <2>. QED  BY <1>0, <2>1, <2>2, ListsKeepLocks
<1>3. ASSUME NEW r \in Requests, Reject(r)
      PROVE  /\ GlobalLocked => GlobalLocked'
             /\ \A c \in Keys : Locked(c) => Locked(c)'
  <2>1. \A c \in Keys : fails'[c] = fails[c] \/ fails'[c] = Append(fails[c], now)
    BY <1>3 DEF Reject, Fail, TypeOK
  <2>2. allFails' = Append(allFails, now)
    BY <1>3 DEF Reject, Fail
  <2>. QED  BY <1>0, <2>1, <2>2, ListsKeepLocks
<1>4. ASSUME NEW r \in Requests, NEW t \in Tokens, Accept(r, t)
      PROVE  /\ GlobalLocked => GlobalLocked'
             /\ \A c \in Keys : Locked(c) => Locked(c)' \/ LoggedIn(c)
  <2>1. allFails' = allFails /\ \A c \in Keys : c # req[r].key => fails'[c] = fails[c]
    BY <1>4 DEF Accept, Reset, TypeOK
  <2>2. LoggedIn(req[r].key)
    <3>1. r \in InFlight(req[r].key)
      BY <1>4 DEF Accept, InFlight, Idle
    <3>2. req'[r] = Idle
      BY <1>4 DEF Accept, TypeOK
    <3>3. t \in issued' /\ t \notin issued
      BY <1>4 DEF Accept
    <3>. QED  BY <3>1, <3>2, <3>3 DEF LoggedIn
  <2>. QED  BY <1>0, <2>1, <2>2, ListsKeepLocks
<1>5. ASSUME NEW s \in sessions, ExpireSession(s)
      PROVE  UNCHANGED limiter
  BY <1>5 DEF ExpireSession, limiter
<1>6. ASSUME NEW t \in Tokens, Logout(t)
      PROVE  UNCHANGED limiter
  BY <1>6 DEF Logout, limiter
<1>7. ASSUME NEW r \in Requests, HashError(r)
      PROVE  UNCHANGED limiter
  BY <1>7 DEF HashError, limiter
<1>8. ASSUME NEW r \in Requests, NEW good \in BOOLEAN, NEW code \in Steps \cup {NoCode},
             MatchCode(r, good, code)
      PROVE  UNCHANGED limiter
  BY <1>8 DEF MatchCode, limiter
<1>9. CASE UNCHANGED vars
  BY <1>9, <1>1 DEF vars, limiter
<1>10. \A u \in Users, readable \in BOOLEAN : ~Restart(u, readable)
  BY DEF Restarting
<1>11. ~Tick
  BY <1>0 DEF Tick
<1>. QED  BY <1>1, <1>2, <1>3, <1>4, <1>5, <1>6, <1>7, <1>8, <1>9, <1>10, <1>11 DEF Next

\* A lock is left by no request: not by pruning, not by further attempts, not by
\* sessions that end, and not by the login of another key; only by time, by a
\* restart, or by a login of the locked key that was let in before.
THEOREM LocksHold == Spec => LockHolds
<1>. QED  BY TypeInit, TypeNext, LockStep, PTL DEF Spec, LockHolds
=============================================================================

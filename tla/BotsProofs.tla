----------------------------- MODULE BotsProofs -----------------------------
(***************************************************************************)
(* Theorems about what dashd knows of the bots.  The snapshots: the age of *)
(* the file tells a live helper from a dead one, no kick is lost, and the  *)
(* name cache is right.  The names of the bots: they tell the bots apart   *)
(* and hold still.  Their logs: however the bytes fall into reads, and     *)
(* whatever happens to the file, lines come once, whole and in order, and  *)
(* nothing comes again.                                                    *)
(***************************************************************************)
EXTENDS Bots, SequenceTheorems, FiniteSetTheorems, WellFoundedInduction, TLAPS

\* pm2 is read only while it is asked, and that takes no longer than it is waited for.
Reads ==
  /\ pc \in {"off", "wait"} => taken.error
  /\ pc = "list" => taken.lag <= busy

TypeInv == TypeOK /\ Reads

\* What reading the names leaves alone keeps its type.
LEMMA NamesType ==
  ASSUME SnapshotsAssumption, TypeInv,
         UNCHANGED <<every, world, timer, kicked, taken, file, missed, acted>>,
         pc' \in {"stat", "read", "write"},
         cache' \in [name : 0 .. MaxLogins, fresh : BOOLEAN], marked' \in BOOLEAN
  PROVE  TypeInv'
<1>1. /\ every' \in Everys /\ busy' \in 0 .. ListWait /\ toTick' \in 1 .. every'
      /\ ticked' \in BOOLEAN /\ kicked' \in BOOLEAN
      /\ table' \in [version : 0 .. MaxChanges, listed : BOOLEAN]
      /\ log' \in [login : 0 .. MaxLogins, near : BOOLEAN]
      /\ missed' \in 0 .. 2 /\ acted' \in 0 .. MaxChanges
  BY DEF TypeInv, TypeOK, world, timer
<1>2. taken' \in Snaps /\ Reads'
  BY DEF TypeInv, TypeOK, Reads
<1>3. file' \in [there : BOOLEAN, age : 0 .. MaxAge, snap : Snaps]
  BY DEF TypeInv, TypeOK
<1>4. pc' \in {"off", "list", "stat", "read", "write", "wait"}
  OBVIOUS
<1>5. QED
  BY <1>1, <1>2, <1>3, <1>4 DEF TypeInv, TypeOK, Snaps

\* Every step keeps the types.
LEMMA TypeStep ==
  ASSUME SnapshotsAssumption PROVE TypeInv /\ [Next]_vars => TypeInv'
<1> SUFFICES ASSUME TypeInv, [Next]_vars PROVE TypeInv'
  OBVIOUS
<1> USE DEF SnapshotsAssumption, TypeInv, TypeOK, Reads, Snaps, Nothing, Unknown,
                                world, timer, names
<1>1. CASE TableChanges
  BY <1>1 DEF TableChanges
<1>2. CASE LogChanges
  <2>1. log' \in [login : 0 .. MaxLogins, near : BOOLEAN]
    <3>1. CASE log.login < MaxLogins /\ log' = [login |-> log.login + 1, near |-> TRUE]
      BY <3>1
    <3>2. CASE log.near /\ log' = [log EXCEPT !.near = FALSE]
      BY <3>2
    <3>3. QED
      BY <1>2, <3>1, <3>2 DEF LogChanges
  <2>2. cache' \in [name : 0 .. MaxLogins, fresh : BOOLEAN]
    BY <1>2 DEF LogChanges
  <2>3. QED
    BY <1>2, <2>1, <2>2, ZenonT(60) DEF LogChanges
<1>3. CASE Answer
  BY <1>3 DEF Answer
<1>4. CASE Tick
  <2>1. taken' \in Snaps
    BY <1>4 DEF Tick
  <2>2. Reads'
    BY <1>4 DEF Tick
  <2>3. file' \in [there : BOOLEAN, age : 0 .. MaxAge, snap : Snaps]
    BY <1>4 DEF Tick, Older
  <2>4. busy' \in 0 .. ListWait
    BY <1>4 DEF Tick
  <2>5. toTick' \in 1 .. every' /\ every' \in Everys
    BY <1>4 DEF Tick
  <2>6. ticked' \in BOOLEAN
    BY <1>4 DEF Tick
  <2>7. QED
    BY <1>4, <2>1, <2>2, <2>3, <2>4, <2>5, <2>6 DEF Tick
<1>5. CASE Start
  BY <1>5 DEF Start, Begin
<1>6. CASE Crash
  <2>1. toTick' \in 1 .. every' /\ every' \in Everys
    BY <1>6 DEF Crash
  <2>2. taken' \in Snaps /\ Reads'
    BY <1>6 DEF Crash
  <2>3. cache' \in [name : 0 .. MaxLogins, fresh : BOOLEAN]
    BY <1>6 DEF Crash
  <2>4. busy' \in 0 .. ListWait /\ missed' \in 0 .. 2 /\ acted' \in 0 .. MaxChanges
    BY <1>6 DEF Crash
  <2>5. ticked' \in BOOLEAN /\ kicked' \in BOOLEAN /\ marked' \in BOOLEAN
    BY <1>6 DEF Crash
  <2>6. QED
    BY <1>6, <2>1, <2>2, <2>3, <2>4, <2>5 DEF Crash
<1>7. CASE ListFails
  BY <1>7 DEF ListFails
<1>8. CASE ListBots
  <2>1. cache' \in [name : 0 .. MaxLogins, fresh : BOOLEAN] /\ marked' \in BOOLEAN
    <3>1. CASE taken.listed
      BY <1>8, <3>1 DEF ListBots
    <3>2. CASE ~taken.listed
      <4>1. cache' = Unknown /\ marked' = marked
        BY <1>8, <3>2 DEF ListBots
      <4>2. QED
        BY <4>1
    <3>3. QED
      BY <3>1, <3>2
  <2>2. pc' \in {"stat", "write"}
    BY <1>8 DEF ListBots
  <2>3. QED
    BY <1>8, <2>1, <2>2, NamesType DEF ListBots
<1>9. CASE StatLog
  <2>1. pc' \in {"read", "write"} /\ marked' \in BOOLEAN
    BY <1>9 DEF StatLog
  <2>2. QED
    BY <1>9, <2>1, NamesType DEF StatLog
<1>10. CASE ReadLog
  <2>1. cache' \in [name : 0 .. MaxLogins, fresh : BOOLEAN]
    BY <1>10 DEF ReadLog, Found
  <2>2. QED
    BY <1>10, <2>1, NamesType DEF ReadLog
<1>11. CASE Write
  <2>1. file' \in [there : BOOLEAN, age : 0 .. MaxAge, snap : Snaps]
    <3>1. CASE file' = [there |-> TRUE, age |-> 0, snap |-> taken]
      BY <3>1
    <3>2. QED
      BY <1>11, <3>1 DEF Write
  <2>2. missed' \in 0 .. 2
    BY <1>11 DEF Write, Smaller
  <2>3. taken' \in Snaps /\ Reads'
    BY <1>11 DEF Write
  <2>4. QED
    BY <1>11, <2>1, <2>2, <2>3 DEF Write
<1>12. CASE Wake
  <2>1. ticked' \in BOOLEAN /\ kicked' \in BOOLEAN
    BY <1>12 DEF Wake
  <2>2. taken' \in Snaps /\ Reads' /\ pc' = "list" /\ busy' \in 0 .. ListWait
    BY <1>12 DEF Wake, Begin
  <2>3. QED
    BY <1>12, <2>1, <2>2 DEF Wake
<1>13. CASE Kick
  BY <1>13 DEF Kick
<1>14. CASE UNCHANGED vars
  BY <1>14 DEF vars
<1>15. QED
  BY <1>1, <1>2, <1>3, <1>4, <1>5, <1>6, <1>7, <1>8, <1>9, <1>10, <1>11, <1>12, <1>13, <1>14
     DEF Next

LEMMA SnapshotsInitType ==
  ASSUME SnapshotsAssumption PROVE Init => TypeInv
<1> SUFFICES ASSUME Init PROVE TypeInv
  OBVIOUS
<1> USE DEF SnapshotsAssumption, Init
<1>1. every \in Everys /\ busy \in 0 .. ListWait /\ toTick \in 1 .. every
  OBVIOUS
<1>2. table \in [version : 0 .. MaxChanges, listed : BOOLEAN]
  OBVIOUS
<1>3. /\ log \in [login : 0 .. MaxLogins, near : BOOLEAN]
      /\ cache \in [name : 0 .. MaxLogins, fresh : BOOLEAN]
  BY DEF Unknown
<1>4. taken \in Snaps /\ Reads
  BY DEF Snaps, Nothing, Reads
<1>5. file \in [there : BOOLEAN, age : 0 .. MaxAge, snap : Snaps]
  BY DEF Snaps, Nothing, NoFile
<1>6. ticked \in BOOLEAN /\ kicked \in BOOLEAN /\ marked \in BOOLEAN
  OBVIOUS
<1>7. missed \in 0 .. 2 /\ acted \in 0 .. MaxChanges
  OBVIOUS
<1>8. QED
  BY <1>1, <1>2, <1>3, <1>4, <1>5, <1>6, <1>7 DEF TypeInv, TypeOK

\* Type correctness, and that pm2 is not waited for longer than ListWait.
THEOREM TypeCorrect ==
  ASSUME SnapshotsAssumption PROVE Spec => []TypeInv
BY SnapshotsInitType, TypeStep, PTL DEF Spec

-----------------------------------------------------------------------------
(* No kick is lost.                                                        *)

\* A kick that does not wait any more has begun a snapshot, and what that
\* snapshot reads, or has read, is no older than the action.
KickInv ==
  /\ acted <= table.version
  /\ ~kicked =>
       /\ pc \in {"list", "stat", "read", "write"} /\ ~taken.error => acted <= taken.version
       /\ pc = "wait" /\ missed = 0 /\ ~file.snap.error => acted <= file.snap.version

\* Once the helper has come to rest after an action, the file shows it.
THEOREM ActionsAreShown ==
  ASSUME SnapshotsAssumption PROVE Spec => []ActionIsShown
<1>1. Init => KickInv
  BY DEF SnapshotsAssumption, Init, KickInv, Nothing, NoFile
<1>2. TypeInv /\ KickInv /\ [Next]_vars => KickInv'
  <2> SUFFICES ASSUME TypeInv, KickInv, [Next]_vars PROVE KickInv'
    OBVIOUS
  <2> USE DEF SnapshotsAssumption, TypeInv, TypeOK, Reads, Snaps, Nothing,
                                  world, timer, names, KickInv
  <2>1. CASE TableChanges
    BY <2>1 DEF TableChanges
  <2>2. CASE LogChanges
    BY <2>2 DEF LogChanges
  <2>3. CASE Answer
    BY <2>3 DEF Answer
  <2>4. CASE Tick
    BY <2>4 DEF Tick
  <2>5. CASE Start
    BY <2>5 DEF Start, Begin
  <2>6. CASE Crash
    BY <2>6 DEF Crash
  <2>7. CASE ListFails
    BY <2>7 DEF ListFails
  <2>8. CASE ListBots
    BY <2>8 DEF ListBots
  <2>9. CASE StatLog
    BY <2>9 DEF StatLog
  <2>10. CASE ReadLog
    BY <2>10 DEF ReadLog
  <2>11. CASE Write
    BY <2>11 DEF Write, Smaller
  <2>12. CASE Wake
    BY <2>12 DEF Wake, Begin
  <2>13. CASE Kick
    BY <2>13 DEF Kick
  <2>14. CASE UNCHANGED vars
    BY <2>14 DEF vars
  <2>15. QED
    BY <2>1, <2>2, <2>3, <2>4, <2>5, <2>6, <2>7, <2>8, <2>9, <2>10, <2>11, <2>12, <2>13, <2>14
       DEF Next
<1>3. KickInv => ActionIsShown
  BY DEF KickInv, ActionIsShown
<1>4. QED
  BY <1>1, <1>2, <1>3, TypeCorrect, PTL DEF Spec

-----------------------------------------------------------------------------
(* A helper that lives is not taken for dead.                              *)

Since == every - toTick
Two   == Larger(2 * every, every + ListWait)

\* How old the file may be, by where the helper is and how many writes failed.  A
\* snapshot starts no later than the tick before it, so the time since the last
\* tick bounds the age while no other tick waits.
TimeInv ==
  /\ pc = "off" => missed = 2
  /\ missed <= 1 => file.there
  /\ missed = 0 /\ pc = "wait" => file.age <= IF ticked THEN every ELSE Since
  /\ missed = 1 /\ pc = "wait" => file.age <= IF ticked THEN Two ELSE Since + every
  /\ missed = 0 /\ pc # "wait" /\ ~ticked => file.age <= Since + every
  /\ missed = 0 /\ pc = "list" => file.age <= every + busy
  /\ missed = 1 /\ pc = "list" => file.age <= Two + busy
  /\ missed = 0 /\ pc \in {"stat", "read", "write"} => file.age <= every + ListWait
  /\ missed = 1 /\ pc \in {"stat", "read", "write"} => file.age <= Two + ListWait

\* StaleAfter leaves room for two waits for pm2 and two intervals.
LEMMA StaleIsLong == ASSUME SnapshotsAssumption, TypeOK PROVE Two + ListWait <= StaleAfter(every)
<1>1. every \in Nat /\ every <= Hour
  BY DEF SnapshotsAssumption, TypeOK
<1>2. QED
  BY <1>1 DEF SnapshotsAssumption, Two, StaleAfter, Larger, Smaller

\* The age of the file tells a helper that lives from one that does not.
THEOREM FreshnessIsKept ==
  ASSUME SnapshotsAssumption PROVE Spec => []FreshnessIsRight
<1>1. Init => TimeInv
  BY DEF SnapshotsAssumption, Init, TimeInv
<1>2. TypeInv /\ TimeInv /\ [Next]_vars => TimeInv'
  <2> SUFFICES ASSUME TypeInv, TimeInv, [Next]_vars PROVE TimeInv'
    OBVIOUS
  <2> USE DEF SnapshotsAssumption, TypeInv, TypeOK,
                                  world, timer, names, TimeInv, Since, Two, Larger
  <2>1. CASE TableChanges
    BY <2>1 DEF TableChanges
  <2>2. CASE LogChanges
    BY <2>2 DEF LogChanges
  <2>3. CASE Answer
    BY <2>3 DEF Answer
  <2>4. CASE Tick
    BY <2>4 DEF Tick, Older
  <2>5. CASE Start
    BY <2>5 DEF Start, Begin
  <2>6. CASE Crash
    BY <2>6 DEF Crash
  <2>7. CASE ListFails
    BY <2>7 DEF ListFails
  <2>8. CASE ListBots
    BY <2>8 DEF ListBots
  <2>9. CASE StatLog
    BY <2>9 DEF StatLog
  <2>10. CASE ReadLog
    BY <2>10 DEF ReadLog
  <2>11. CASE Write
    BY <2>11 DEF Write, Smaller
  <2>12. CASE Wake
    BY <2>12 DEF Wake, Begin
  <2>13. CASE Kick
    BY <2>13 DEF Kick
  <2>14. CASE UNCHANGED vars
    BY <2>14 DEF vars
  <2>15. QED
    BY <2>1, <2>2, <2>3, <2>4, <2>5, <2>6, <2>7, <2>8, <2>9, <2>10, <2>11, <2>12, <2>13, <2>14
       DEF Next
<1>3. TypeInv /\ TimeInv => FreshnessIsRight
  <2> SUFFICES ASSUME TypeInv, TimeInv PROVE FreshnessIsRight
    OBVIOUS
  <2>1. /\ every \in Nat /\ ListWait \in Nat /\ busy \in 0 .. ListWait
        /\ toTick \in 1 .. every /\ missed \in 0 .. 2
        /\ file.age \in Nat /\ file.snap.lag \in 0 .. ListWait
        /\ pc \in {"off", "list", "stat", "read", "write", "wait"}
    BY DEF SnapshotsAssumption, TypeInv, TypeOK, Snaps
  <2>2. missed <= 1 => file.age <= Two + ListWait
    BY <2>1 DEF TimeInv, Two, Larger, Since
  <2>3. StaleAfter(every) \in Nat
    BY <2>1 DEF SnapshotsAssumption, StaleAfter, Larger, Smaller
  <2>4. Two \in Nat
    BY <2>1 DEF Two, Larger
  <2>5. Two + ListWait <= StaleAfter(every)
    BY StaleIsLong DEF TypeInv
  <2>6. QED
    BY <2>1, <2>2, <2>3, <2>4, <2>5 DEF FreshnessIsRight, TooOld, Listed
<1>4. QED
  BY <1>1, <1>2, <1>3, TypeCorrect, PTL DEF Spec

-----------------------------------------------------------------------------
(* The names.                                                              *)

\* What the log shows near its end is its last login, and no name is of a login
\* that has not been.
NameInv ==
  /\ log.near => log.login > 0
  /\ cache.name <= log.login
  /\ cache.fresh /\ log.near => cache.name = log.login

\* A name that the log's mark vouches for is the one the log says.
LEMMA NameStep ==
  ASSUME SnapshotsAssumption PROVE TypeInv /\ NameInv /\ [Next]_vars => NameInv'
<1> SUFFICES ASSUME TypeInv, NameInv, [Next]_vars PROVE NameInv'
  OBVIOUS
<1> USE DEF SnapshotsAssumption, TypeInv, TypeOK, Unknown,
                                world, timer, names, NameInv
<1>1. CASE TableChanges
  BY <1>1 DEF TableChanges
<1>2. CASE LogChanges
  BY <1>2 DEF LogChanges
<1>3. CASE Answer
  BY <1>3 DEF Answer
<1>4. CASE Tick
  BY <1>4 DEF Tick
<1>5. CASE Start
  BY <1>5 DEF Start
<1>6. CASE Crash
  BY <1>6 DEF Crash
<1>7. CASE ListFails
  BY <1>7 DEF ListFails
<1>8. CASE ListBots
  BY <1>8 DEF ListBots
<1>9. CASE StatLog
  BY <1>9 DEF StatLog
<1>10. CASE ReadLog
  BY <1>10 DEF ReadLog, Found
<1>11. CASE Write
  BY <1>11 DEF Write
<1>12. CASE Wake
  BY <1>12 DEF Wake
<1>13. CASE Kick
  BY <1>13 DEF Kick
<1>14. CASE UNCHANGED vars
  BY <1>14 DEF vars
<1>15. QED
  BY <1>1, <1>2, <1>3, <1>4, <1>5, <1>6, <1>7, <1>8, <1>9, <1>10, <1>11, <1>12, <1>13, <1>14
     DEF Next

\* A name in memory that the log's mark vouches for is the one the log says.
THEOREM NamesStayCurrent ==
  ASSUME SnapshotsAssumption PROVE Spec => []NamesAreCurrent
<1>1. Init => NameInv
  BY DEF SnapshotsAssumption, Init, NameInv, Unknown
<1>2. NameInv => NamesAreCurrent
  BY DEF NameInv, NamesAreCurrent
<1>3. QED
  BY <1>1, <1>2, NameStep, TypeCorrect, PTL DEF Spec

\* A name that was found is not lost while the helper runs and pm2 lists the bot.
THEOREM NamesAreKept ==
  ASSUME SnapshotsAssumption PROVE Spec => NameIsKept
<1>1. Init => NameInv
  BY DEF SnapshotsAssumption, Init, NameInv, Unknown
<1>2. TypeInv /\ NameInv /\ [Next]_vars =>
        [cache'.name < cache.name => pc' = "off" \/ (pc = "list" /\ ~taken.listed)]_vars
  <2> SUFFICES ASSUME TypeInv, NameInv, [Next]_vars, cache'.name < cache.name
               PROVE  pc' = "off" \/ (pc = "list" /\ ~taken.listed)
    OBVIOUS
  <2> USE DEF SnapshotsAssumption, TypeInv, TypeOK, world, timer, names, NameInv
  <2>1. CASE TableChanges
    BY <2>1 DEF TableChanges
  <2>2. CASE LogChanges
    BY <2>2 DEF LogChanges
  <2>3. CASE Answer
    BY <2>3 DEF Answer
  <2>4. CASE Tick
    BY <2>4 DEF Tick
  <2>5. CASE Start
    BY <2>5 DEF Start
  <2>6. CASE Crash
    BY <2>6 DEF Crash
  <2>7. CASE ListFails
    BY <2>7 DEF ListFails
  <2>8. CASE ListBots
    BY <2>8 DEF ListBots
  <2>9. CASE StatLog
    BY <2>9 DEF StatLog
  <2>10. CASE ReadLog
    BY <2>10 DEF ReadLog, Found
  <2>11. CASE Write
    BY <2>11 DEF Write
  <2>12. CASE Wake
    BY <2>12 DEF Wake
  <2>13. CASE Kick
    BY <2>13 DEF Kick
  <2>14. CASE UNCHANGED vars
    BY <2>14 DEF vars
  <2>15. QED
    BY <2>1, <2>2, <2>3, <2>4, <2>5, <2>6, <2>7, <2>8, <2>9, <2>10, <2>11, <2>12, <2>13, <2>14
       DEF Next
<1>3. QED
  BY <1>1, <1>2, NameStep, TypeCorrect, PTL DEF Spec, NameIsKept

-----------------------------------------------------------------------------
(* The names of bots.  bind is followed from process to process: BindInv   *)
(* says of the units made of the first i processes what IdsHoldStill needs *)
(* of all of them.                                                         *)

\* What names and ids are made of.
Alphabet == (UNION {{n[i] : i \in DOMAIN n} : n \in ProcNames}) \cup {"-", "~"} \cup Nat
Ids      == Seq(Alphabet)
Unit     == [id : Ids, proc : Units!Procs]

\* The step bind makes for its i-th process, after the units in b.
BindStep(t, i, b) ==
  IF t[i].name \in Exclude THEN b
  ELSE Append(b, [id   |-> Units!FreeId(Units!BaseId(t, t[i]), {u.id : u \in Units!ToSet(b)}),
                  proc |-> t[i]])

\* No process that is listed is named like an id that bind makes up.
PlainTable(t) == \A k \in 1 .. Len(t) : t[k].name \notin Exclude => Len(t[k].name) = 1

BindInv(t, b, i) ==
  /\ b \in Seq(Unit)
  /\ \A j, k \in DOMAIN b : j # k => b[j].id # b[k].id
  /\ \A u \in Units!ToSet(b) : \E k \in 1 .. i : u.proc = t[k] /\ t[k].name \notin Exclude
  /\ \A k \in 1 .. i : t[k].name \notin Exclude => \E u \in Units!ToSet(b) : u.proc = t[k]
  /\ PlainTable(t) /\ Units!IsTable(t) => \A u \in Units!ToSet(b) : u.id = Units!BaseId(t, u.proc)

LEMMA LeastElement ==
  ASSUME NEW S \in SUBSET Nat, S # {}
  PROVE  \E m \in S : \A n \in S : m <= n
<1>. DEFINE T == {1..k : k \in S}
            R == StrictSubsetOrdering(Nat)
<1>1. T \subseteq FiniteSubsetsOf(Nat) /\ T # {}
  <2>1. \A k \in S : 1..k \in SUBSET Nat /\ IsFiniteSet(1..k)
    BY FS_Interval
  <2>2. \E k \in S : 1..k \in T
    OBVIOUS
  <2>. QED  BY <2>1, <2>2 DEF FiniteSubsetsOf
<1>2. IsWellFoundedOn(R, FiniteSubsetsOf(Nat))
  BY FS_StrictSubsetOrderingWellFounded
<1>. HIDE DEF T, R
<1>3. PICK x \in T : \A y \in T : <<y, x>> \notin R
  BY <1>1, <1>2, WFMin
<1>4. PICK m \in S : x = 1..m
  BY DEF T
<1>5. ASSUME NEW n \in S, n < m
      PROVE  FALSE
  <2>1. 1..n \in T
    BY DEF T
  <2>2. 1..n \subseteq 1..m /\ m \in 1..m /\ m \notin 1..n
    BY <1>5
  <2>3. <<1..n, 1..m>> \in R
    BY <2>2 DEF R, StrictSubsetOrdering
  <2>. QED  BY <1>3, <1>4, <2>1, <2>3
<1>. QED  BY <1>5

LEMMA SameCardinality == \A S : Units!Cardinality(S) = Cardinality(S)
BY DEF Units!Cardinality, Cardinality

\* e starts with x and takes n steps, the i-th as G[i] says.
Steps(e, x, n, G) == \A i \in 0 .. n : e[i] = IF i = 0 THEN x ELSE G[i][e[i - 1]]

\* A function defined by a step from each number to the next exists.
LEMMA Recursion ==
  ASSUME NEW V, NEW x \in V, NEW n \in Nat, NEW G \in [1 .. n -> [V -> V]]
  PROVE  \E e \in [0 .. n -> V] : Steps(e, x, n, G)
<1>. USE DEF Steps
<1>. DEFINE Folds(m) == \E e \in [0 .. m -> V] : \A i \in 0 .. m : e[i] = IF i = 0 THEN x ELSE G[i][e[i - 1]]
            Bad == {m \in 0 .. n : ~Folds(m)}
<1>. SUFFICES ASSUME Bad # {} PROVE FALSE
  OBVIOUS
<1>0. Bad \in SUBSET Nat
  OBVIOUS
<1>1. PICK m \in Bad : \A k \in Bad : m <= k
  BY <1>0, LeastElement
<1>2. m \in 0 .. n /\ ~Folds(m)
  OBVIOUS
<1>3. CASE m = 0
  <2>. DEFINE e == [i \in 0 .. 0 |-> x]
  <2>1. e \in [0 .. 0 -> V] /\ \A i \in 0 .. 0 : e[i] = IF i = 0 THEN x ELSE G[i][e[i - 1]]
    OBVIOUS
  <2>. QED  BY <1>2, <1>3, <2>1
<1>4. CASE m # 0
  <2>0. m - 1 \notin Bad
    <3>. HIDE DEF Bad
    <3>. QED  BY <1>0, <1>1, <1>2, <1>4
  <2>1. m - 1 \in 0 .. n /\ m \in 1 .. n /\ m - 1 \in 0 .. m - 1
    <3>. HIDE DEF Folds
    <3>. QED  BY <1>2, <1>4
  <2>2. PICK e \in [0 .. m - 1 -> V] : \A i \in 0 .. m - 1 : e[i] = IF i = 0 THEN x ELSE G[i][e[i - 1]]
    <3>1. Folds(m - 1)
      <4>. HIDE DEF Folds
      <4>. QED  BY <2>0, <2>1
    <3>. QED  BY <3>1
  <2>. DEFINE g == [i \in 0 .. m |-> IF i = m THEN G[m][e[m - 1]] ELSE e[i]]
  <2>3. e[m - 1] \in V /\ G[m] \in [V -> V]
    BY <2>1
  <2>4. g \in [0 .. m -> V]
    <3>1. \A i \in 0 .. m : i # m => i \in 0 .. m - 1
      BY <1>2
    <3>. QED  BY <2>3, <3>1
  <2>5. \A i \in 0 .. m : g[i] = IF i = 0 THEN x ELSE G[i][g[i - 1]]
    <3>. SUFFICES ASSUME NEW i \in 0 .. m
                  PROVE  g[i] = IF i = 0 THEN x ELSE G[i][g[i - 1]]
      OBVIOUS
    <3>1. CASE i = m
      <4>1. m - 1 \in 0 .. m /\ m - 1 # m /\ m \in 0 .. m
        BY <1>2, <1>4
      <4>. QED  BY <1>4, <3>1, <4>1
    <3>2. CASE i # m /\ i # 0
      <4>1. i \in 0 .. m - 1 /\ i - 1 \in 0 .. m /\ i - 1 # m
        BY <1>2, <3>2
      <4>. QED  BY <2>2, <3>2, <4>1
    <3>3. CASE i # m /\ i = 0
      <4>1. 0 \in 0 .. m - 1
        BY <1>2, <1>4
      <4>. QED  BY <2>2, <3>3, <4>1
    <3>. QED  BY <3>1, <3>2, <3>3
  <2>. HIDE DEF g
  <2>6. Folds(m)
    BY <2>4, <2>5
  <2>. QED  BY <1>2, <2>6
<1>. QED  BY <1>3, <1>4

LEMMA UnitConstants ==
  /\ Pids \subseteq Nat /\ MaxProcs \in Nat
  /\ \A n \in ProcNames : Len(n) \in Nat /\ n = [i \in 1 .. Len(n) |-> n[i]]
BY BotsAssumption DEF BotsAssumption, Units!BotUnitsAssumption

LEMMA NamesAreIds == ProcNames \subseteq Ids
<1>. SUFFICES ASSUME NEW n \in ProcNames PROVE n \in Ids
  OBVIOUS
<1>1. Len(n) \in Nat /\ n = [i \in 1 .. Len(n) |-> n[i]]
  BY UnitConstants
<1>. DEFINE L == Len(n)
<1>2. L \in Nat /\ n = [i \in 1 .. L |-> n[i]] /\ DOMAIN n = 1 .. L
  BY <1>1
<1>. HIDE DEF L
<1>3. \A i \in 1 .. L : n[i] \in Alphabet
  BY <1>2 DEF Alphabet
<1>4. n \in [1 .. L -> Alphabet]
  BY <1>2, <1>3
<1>. QED  BY <1>2, <1>4, SeqDef DEF Ids

\* An id with a suffix is an id; the suffix is at its end.
LEMMA Suffixed ==
  ASSUME NEW base \in Ids, NEW mark \in {"-", "~"}, NEW k \in Nat
  PROVE  /\ base \o <<mark, k>> \in Ids
         /\ Len(base \o <<mark, k>>) = Len(base) + 2
         /\ (base \o <<mark, k>>)[Len(base) + 2] = k
         /\ \A i \in 1 .. Len(base) : (base \o <<mark, k>>)[i] = base[i]
<1>0. mark \in Alphabet /\ k \in Alphabet
  BY DEF Alphabet
<1>1. <<mark, k>> \in Seq(Alphabet) /\ Len(<<mark, k>>) = 2 /\ <<mark, k>>[2] = k
  BY <1>0
<1>2. base \in Seq(Alphabet) /\ Len(base) \in Nat
  BY DEF Ids
<1>3. Len(base) + 2 \in Len(base) + 1 .. Len(base) + Len(<<mark, k>>) /\ (Len(base) + 2) - Len(base) = 2
  BY <1>1, <1>2
<1>. DEFINE s == <<mark, k>>
<1>. HIDE DEF s
<1>4. /\ base \o s \in Seq(Alphabet) /\ Len(base \o s) = Len(base) + Len(s)
      /\ \A i \in 1 .. Len(base) + Len(s) : (base \o s)[i] = IF i <= Len(base) THEN base[i] ELSE s[i - Len(base)]
  BY <1>1, <1>2, ConcatProperties DEF s
<1>5. (base \o s)[Len(base) + 2] = s[2]
  BY <1>1, <1>2, <1>3, <1>4 DEF s
<1>6. \A i \in 1 .. Len(base) : (base \o s)[i] = base[i]
  BY <1>1, <1>2, <1>4 DEF s
<1>. QED  BY <1>1, <1>4, <1>5, <1>6 DEF s, Ids

LEMMA BaseIsId ==
  ASSUME NEW t, NEW p \in Units!Procs
  PROVE  Units!BaseId(t, p) \in Ids
<1>1. p.name \in Ids /\ p.id \in Nat
  BY NamesAreIds, UnitConstants DEF Units!Procs
<1>. QED  BY <1>1, Suffixed DEF Units!BaseId

\* There is always an id that is free, because one more is tried than are used.
LEMMA FreeIdIsFree ==
  ASSUME NEW base \in Ids, NEW used, IsFiniteSet(used)
  PROVE  /\ Units!FreeId(base, used) \in Ids /\ Units!FreeId(base, used) \notin used
         /\ base \notin used => Units!FreeId(base, used) = base
<1>1. CASE base \notin used
  BY <1>1 DEF Units!FreeId
<1>2. CASE base \in used
  <2>. DEFINE c == Cardinality(used)
              K == {k \in 2 .. c + 2 : base \o <<"~", k>> \notin used}
  <2>1. c \in Nat
    BY FS_CardinalityType
  <2>. HIDE DEF c
  <2>2. K # {}
    <3>. SUFFICES ASSUME K = {} PROVE FALSE
      OBVIOUS
    <3>. DEFINE g == [k \in 2 .. c + 2 |-> base \o <<"~", k>>]
    <3>1. g \in [2 .. c + 2 -> used]
      OBVIOUS
    <3>2. IsFiniteSet(2 .. c + 2) /\ Cardinality(2 .. c + 2) = c + 1
      BY <2>1, FS_Interval
    <3>3. Cardinality(used) < Cardinality(2 .. c + 2)
      BY <2>1, <3>2 DEF c
    <3>. HIDE DEF g
    <3>4. PICK x, y \in 2 .. c + 2 : x # y /\ g[x] = g[y]
      <4>. DEFINE S == 2 .. c + 2
      <4>1. IsFiniteSet(S) /\ IsFiniteSet(used) /\ Cardinality(used) < Cardinality(S) /\ g \in [S -> used]
        BY <3>1, <3>2, <3>3
      <4>. HIDE DEF S
      <4>2. ASSUME \A x, y \in S : g[x] = g[y] => x = y PROVE FALSE
        <5>1. g \in Injection(S, used)
          BY <4>1, <4>2 DEF Injection, IsInjective
        <5>2. Cardinality(S) <= Cardinality(used)
          BY <4>1, <5>1, FS_Injection
        <5>3. Cardinality(S) \in Nat /\ Cardinality(used) \in Nat
          BY <4>1, FS_CardinalityType
        <5>. QED  BY <4>1, <5>2, <5>3
      <4>. QED  BY <4>2 DEF S
    <3>5. g[x] = base \o <<"~", x>> /\ g[y] = base \o <<"~", y>>
      BY DEF g
    <3>6. (base \o <<"~", x>>)[Len(base) + 2] = x /\ (base \o <<"~", y>>)[Len(base) + 2] = y
      BY <2>1, Suffixed
    <3>. QED  BY <3>4, <3>5, <3>6
  <2>3. K \in SUBSET Nat
    BY <2>1
  <2>4. PICK m \in K : \A n \in K : m <= n
    BY <2>2, <2>3, LeastElement
  <2>5. Units!Min(K) \in K
    BY <2>4 DEF Units!Min
  <2>6. Units!FreeId(base, used) = base \o <<"~", Units!Min(K)>>
    BY <1>2, SameCardinality DEF Units!FreeId, c
  <2>7. base \o <<"~", Units!Min(K)>> \notin used /\ Units!Min(K) \in Nat
    BY <2>3, <2>5
  <2>. QED  BY <1>2, <2>6, <2>7, Suffixed
<1>. QED  BY <1>1, <1>2

\* Two processes with plain names have different ids to begin with.
LEMMA BaseIdsDiffer ==
  ASSUME NEW t \in Seq(Units!Procs), Units!IsTable(t),
         NEW i \in DOMAIN t, NEW j \in DOMAIN t, i # j,
         Len(t[i].name) = 1, Len(t[j].name) = 1
  PROVE  Units!BaseId(t, t[i]) # Units!BaseId(t, t[j])
<1>1. t[i] \in Units!Procs /\ t[j] \in Units!Procs /\ DOMAIN t = 1 .. Len(t) /\ Len(t) \in Nat
  BY ElementOfSeq, LenProperties
<1>2. /\ t[i].name \in Ids /\ t[j].name \in Ids /\ t[i].id \in Nat /\ t[j].id \in Nat
      /\ t[i].id # t[j].id
  BY <1>1, NamesAreIds, UnitConstants DEF Units!Procs, Units!IsTable
<1>3. ASSUME t[i].name = t[j].name PROVE Units!Count(t, t[i].name) > 1
  <2>. DEFINE I == {k \in DOMAIN t : t[k].name = t[i].name}
  <2>1. IsFiniteSet(I)
    <3>1. IsFiniteSet(1 .. Len(t))
      BY <1>1, FS_Interval
    <3>. QED  BY <1>1, <3>1, FS_Subset
  <2>2. {i, j} \subseteq I
    BY <1>3
  <2>. HIDE DEF I
  <2>3. IsFiniteSet({i, j}) /\ Cardinality({i, j}) = 2
    <3>1. IsFiniteSet({i}) /\ Cardinality({i}) = 1
      BY FS_Singleton
    <3>2. j \notin {i} /\ {i} \cup {j} = {i, j}
      OBVIOUS
    <3>. DEFINE A == {i}
    <3>. HIDE DEF A
    <3>3. IsFiniteSet(A \cup {j}) /\ Cardinality(A \cup {j}) = Cardinality(A) + 1
      <4>1. IsFiniteSet(A) /\ j \notin A
        BY <3>1, <3>2 DEF A
      <4>2. /\ IsFiniteSet(A \cup {j})
            /\ Cardinality(A \cup {j}) = IF j \in A THEN Cardinality(A) ELSE Cardinality(A) + 1
        BY <4>1, FS_AddElement, Zenon
      <4>. QED  BY <4>1, <4>2
    <3>4. A \cup {j} = {i, j} /\ Cardinality(A) = 1
      BY <3>1, <3>2 DEF A
    <3>5. Cardinality({i, j}) = Cardinality(A) + 1 /\ IsFiniteSet({i, j})
      BY <3>3, <3>4, Zenon
    <3>. QED  BY <3>4, <3>5
  <2>4. Cardinality({i, j}) <= Cardinality(I) /\ Cardinality(I) \in Nat
    BY <2>1, <2>2, FS_Subset, FS_CardinalityType
  <2>. QED  BY <2>3, <2>4, SameCardinality DEF Units!Count, I
<1>. DEFINE a == t[i].name \o <<"-", t[i].id>>
            b == t[j].name \o <<"-", t[j].id>>
<1>4. /\ Len(a) = 3 /\ a[3] = t[i].id /\ a[1] = t[i].name[1]
      /\ Len(b) = 3 /\ b[3] = t[j].id /\ b[1] = t[j].name[1]
  <2>1. ASSUME NEW n \in Ids, NEW k \in Nat, Len(n) = 1
        PROVE  /\ Len(n \o <<"-", k>>) = 3 /\ (n \o <<"-", k>>)[3] = k
               /\ (n \o <<"-", k>>)[1] = n[1]
    <3>1. Len(n) + 2 = 3 /\ 1 \in 1 .. Len(n)
      BY <2>1
    <3>. QED  BY <3>1, Suffixed
  <2>. QED  BY <1>2, <2>1
<1>5. Units!BaseId(t, t[i]) = IF Units!Count(t, t[i].name) > 1 THEN a ELSE t[i].name
  BY DEF Units!BaseId
<1>6. Units!BaseId(t, t[j]) = IF Units!Count(t, t[j].name) > 1 THEN b ELSE t[j].name
  BY DEF Units!BaseId
<1>. HIDE DEF a, b
<1>7. CASE t[i].name = t[j].name
  <2>1. Units!BaseId(t, t[i]) = a /\ Units!BaseId(t, t[j]) = b
    BY <1>3, <1>5, <1>6, <1>7
  <2>. QED  BY <1>2, <1>4, <2>1
<1>8. CASE t[i].name # t[j].name
  <2>1. a # t[j].name /\ b # t[i].name
    BY <1>4
  <2>2. a # b
    BY <1>2, <1>4
  <2>. QED  BY <1>5, <1>6, <1>8, <2>1, <2>2
<1>. QED  BY <1>7, <1>8

LEMMA UsedIsFinite ==
  ASSUME NEW b \in Seq(Unit)
  PROVE  IsFiniteSet({u.id : u \in Units!ToSet(b)})
<1>. DEFINE g == [k \in 1 .. Len(b) |-> b[k].id]
            used == {u.id : u \in Units!ToSet(b)}
<1>1. Len(b) \in Nat /\ DOMAIN b = 1 .. Len(b)
  OBVIOUS
<1>2. IsFiniteSet(1 .. Len(b))
  BY <1>1, FS_Interval
<1>3. used = {g[k] : k \in 1 .. Len(b)}
  BY <1>1 DEF Units!ToSet
<1>. HIDE DEF used
<1>4. g \in Surjection(1 .. Len(b), used)
  BY <1>3 DEF Surjection
<1>5. IsFiniteSet(used)
  BY <1>2, <1>4, FS_Surjection
<1>. QED  BY <1>5 DEF used

LEMMA StepType ==
  ASSUME NEW t \in Seq(Units!Procs), NEW i \in 1 .. Len(t), NEW b \in Seq(Unit)
  PROVE  BindStep(t, i, b) \in Seq(Unit)
<1>1. t[i] \in Units!Procs
  BY ElementOfSeq
<1>2. Units!FreeId(Units!BaseId(t, t[i]), {u.id : u \in Units!ToSet(b)}) \in Ids
  BY <1>1, UsedIsFinite, BaseIsId, FreeIdIsFree
<1>3. [id   |-> Units!FreeId(Units!BaseId(t, t[i]), {u.id : u \in Units!ToSet(b)}),
       proc |-> t[i]] \in Unit
  BY <1>1, <1>2 DEF Unit
<1>. QED  BY <1>3, AppendProperties DEF BindStep

\* What bind defines by recursion exists, and can be followed from step to step.
LEMMA BindFolds ==
  ASSUME NEW t \in Seq(Units!Procs)
  PROVE  \E b : /\ Units!Bind(t) = b[Len(t)] /\ b[0] = <<>>
                /\ \A i \in 1 .. Len(t) : b[i] = BindStep(t, i, b[i - 1])
<1>. DEFINE G == [i \in 1 .. Len(t) |-> [b \in Seq(Unit) |-> BindStep(t, i, b)]]
<1>1. Len(t) \in Nat /\ <<>> \in Seq(Unit)
  OBVIOUS
<1>2. G \in [1 .. Len(t) -> [Seq(Unit) -> Seq(Unit)]]
  <2>1. \A i \in 1 .. Len(t) : [b \in Seq(Unit) |-> BindStep(t, i, b)] \in [Seq(Unit) -> Seq(Unit)]
    BY StepType
  <2>. QED  BY <2>1
<1>3. \E e : e = [i \in 0 .. Len(t) |-> IF i = 0 THEN <<>> ELSE BindStep(t, i, e[i - 1])]
  <2>. HIDE DEF G
  <2>1. PICK e \in [0 .. Len(t) -> Seq(Unit)] :
               \A i \in 0 .. Len(t) : e[i] = IF i = 0 THEN <<>> ELSE G[i][e[i - 1]]
    <3>. DEFINE W == Seq(Unit)
                y == <<>>
                m == Len(t)
    <3>1. y \in W /\ m \in Nat /\ G \in [1 .. m -> [W -> W]]
      BY <1>1, <1>2
    <3>. HIDE DEF W, y, m
    <3>2. \E e \in [0 .. m -> W] : Steps(e, y, m, G)
      BY <3>1, Recursion
    <3>. QED  BY <3>2 DEF W, y, m, Steps
  <2>2. \A i \in 1 .. Len(t) : e[i - 1] \in Seq(Unit)
    <3>1. \A i \in 1 .. Len(t) : i - 1 \in 0 .. Len(t)
      BY <1>1
    <3>2. \A i \in 0 .. Len(t) : e[i] \in Seq(Unit)
      OBVIOUS
    <3>. QED  BY <3>1, <3>2
  <2>3. \A i \in 1 .. Len(t) : G[i][e[i - 1]] = BindStep(t, i, e[i - 1])
    BY <2>2 DEF G
  <2>4. \A i \in 0 .. Len(t) : e[i] = IF i = 0 THEN <<>> ELSE BindStep(t, i, e[i - 1])
    <3>. SUFFICES ASSUME NEW i \in 0 .. Len(t)
                  PROVE  e[i] = IF i = 0 THEN <<>> ELSE BindStep(t, i, e[i - 1])
      OBVIOUS
    <3>1. i = 0 \/ i \in 1 .. Len(t)
      BY <1>1
    <3>. QED  BY <2>1, <2>3, <3>1
  <2>5. e = [i \in 0 .. Len(t) |-> e[i]]
    OBVIOUS
  <2>. QED  BY <2>4, <2>5
<1>. DEFINE b[i \in 0 .. Len(t)] ==
              IF i = 0 THEN <<>>
              ELSE IF t[i].name \in Exclude THEN b[i - 1]
              ELSE Append(b[i - 1], [id   |-> Units!FreeId(Units!BaseId(t, t[i]), {u.id : u \in Units!ToSet(b[i - 1])}),
                                     proc |-> t[i]])
<1>4. Units!Bind(t) = b[Len(t)]
  BY SMTT(30) DEF Units!Bind
<1>5. b = [i \in 0 .. Len(t) |-> IF i = 0 THEN <<>> ELSE BindStep(t, i, b[i - 1])]
  <2>1. \E e : e = [i \in 0 .. Len(t) |->
              IF i = 0 THEN <<>>
              ELSE IF t[i].name \in Exclude THEN e[i - 1]
              ELSE Append(e[i - 1], [id   |-> Units!FreeId(Units!BaseId(t, t[i]), {u.id : u \in Units!ToSet(e[i - 1])}),
                                     proc |-> t[i]])]
    BY <1>3 DEF BindStep
  <2>2. b = [i \in 0 .. Len(t) |->
              IF i = 0 THEN <<>>
              ELSE IF t[i].name \in Exclude THEN b[i - 1]
              ELSE Append(b[i - 1], [id   |-> Units!FreeId(Units!BaseId(t, t[i]), {u.id : u \in Units!ToSet(b[i - 1])}),
                                     proc |-> t[i]])]
    BY <2>1
  <2>. QED  BY <2>2 DEF BindStep
<1>. HIDE DEF b
<1>6. b[0] = <<>> /\ \A i \in 1 .. Len(t) : b[i] = BindStep(t, i, b[i - 1])
  BY <1>1, <1>5
<1>. QED  BY <1>4, <1>6

\* Another process keeps what is said of the units so far.
LEMMA BindKeeps ==
  ASSUME NEW t \in Seq(Units!Procs), NEW i \in 1 .. Len(t), NEW b, BindInv(t, b, i - 1)
  PROVE  BindInv(t, BindStep(t, i, b), i)
<1>. DEFINE c == BindStep(t, i, b)
            p == t[i]
            used == {u.id : u \in Units!ToSet(b)}
            id == Units!FreeId(Units!BaseId(t, p), used)
            unit == [id |-> id, proc |-> p]
<1>n. Len(t) \in Nat /\ i \in Int /\ (\A k \in 1 .. i - 1 : k \in 1 .. i /\ k # i) /\ i \in 1 .. i
      /\ \A k \in 1 .. i : k \in 1 .. i - 1 \/ k = i
  OBVIOUS
<1>t. p \in Units!Procs /\ b \in Seq(Unit) /\ DOMAIN t = 1 .. Len(t) /\ \A k \in 1 .. i : k \in DOMAIN t
  BY ElementOfSeq DEF BindInv
<1>1. CASE p.name \in Exclude
  <2>1. c = b
    BY <1>1 DEF BindStep
  <2>2. /\ \A u \in Units!ToSet(b) : \E k \in 1 .. i : u.proc = t[k] /\ t[k].name \notin Exclude
        /\ \A k \in 1 .. i : t[k].name \notin Exclude => \E u \in Units!ToSet(b) : u.proc = t[k]
    BY <1>1, <1>n DEF BindInv
  <2>3. BindInv(t, b, i)
    BY <2>2 DEF BindInv
  <2>. QED  BY <2>1, <2>3
<1>2. CASE p.name \notin Exclude
  <2>1. c = Append(b, unit)
    BY <1>2 DEF BindStep
  <2>2. IsFiniteSet(used)
    BY <1>t, UsedIsFinite
  <2>3. Units!BaseId(t, p) \in Ids
    BY <1>t, BaseIsId
  <2>. HIDE DEF used
  <2>4. id \in Ids /\ id \notin used /\ (Units!BaseId(t, p) \notin used => id = Units!BaseId(t, p))
    BY <2>2, <2>3, FreeIdIsFree
  <2>. HIDE DEF id
  <2>5. unit \in Unit /\ unit.id = id /\ unit.proc = p
    BY <1>t, <2>4 DEF Unit
  <2>. HIDE DEF unit, c
  <2>6. /\ c \in Seq(Unit) /\ Len(c) = Len(b) + 1 /\ c[Len(b) + 1] = unit
        /\ \A k \in 1 .. Len(b) : c[k] = b[k]
    BY <1>t, <2>1, <2>5, AppendProperties
  <2>7. Len(b) \in Nat /\ DOMAIN b = 1 .. Len(b) /\ DOMAIN c = 1 .. Len(b) + 1
    BY <1>t, <2>6
  <2>8. /\ \A k \in DOMAIN c : (k \in DOMAIN b /\ c[k] = b[k]) \/ (k = Len(b) + 1 /\ c[k] = unit)
        /\ \A k \in DOMAIN b : k \in DOMAIN c /\ c[k] = b[k]
        /\ Len(b) + 1 \in DOMAIN c
    BY <2>6, <2>7
  <2>9. Units!ToSet(c) = Units!ToSet(b) \cup {unit}
    BY <2>6, <2>8 DEF Units!ToSet
  <2>10. \A k \in DOMAIN b : b[k].id \in used
    BY DEF used, Units!ToSet
  <2>11. \A j, k \in DOMAIN c : j # k => c[j].id # c[k].id
    BY <2>4, <2>5, <2>8, <2>10 DEF BindInv
  <2>12. \A u \in Units!ToSet(c) : \E k \in 1 .. i : u.proc = t[k] /\ t[k].name \notin Exclude
    BY <1>2, <1>n, <2>5, <2>9 DEF BindInv
  <2>13. \A k \in 1 .. i : t[k].name \notin Exclude => \E u \in Units!ToSet(c) : u.proc = t[k]
    BY <1>n, <2>5, <2>9 DEF BindInv
  <2>14. ASSUME PlainTable(t), Units!IsTable(t), NEW u \in Units!ToSet(c) PROVE u.id = Units!BaseId(t, u.proc)
    <3>1. \A v \in Units!ToSet(b) : v.id = Units!BaseId(t, v.proc)
      BY <2>14 DEF BindInv
    <3>2. Units!BaseId(t, p) \notin used
      <4>. SUFFICES ASSUME NEW v \in Units!ToSet(b), v.id = Units!BaseId(t, p) PROVE FALSE
        BY DEF used
      <4>1. PICK k \in 1 .. i - 1 : v.proc = t[k] /\ t[k].name \notin Exclude
        BY DEF BindInv
      <4>2. k \in DOMAIN t /\ i \in DOMAIN t /\ k # i /\ k \in 1 .. Len(t)
        BY <1>n, <1>t
      <4>3. Len(t[k].name) = 1 /\ Len(t[i].name) = 1
        BY <1>2, <2>14, <4>1, <4>2 DEF PlainTable
      <4>4. Units!BaseId(t, t[k]) # Units!BaseId(t, t[i])
        BY <2>14, <4>2, <4>3, BaseIdsDiffer
      <4>. QED  BY <3>1, <4>1, <4>4
    <3>. QED  BY <2>4, <2>5, <2>9, <3>1, <3>2
  <2>15. BindInv(t, c, i)
    BY <2>6, <2>11, <2>12, <2>13, <2>14 DEF BindInv
  <2>. QED  BY <2>15 DEF c
<1>. QED  BY <1>1, <1>2

LEMMA Bound ==
  ASSUME NEW t \in Seq(Units!Procs)
  PROVE  BindInv(t, Units!Bind(t), Len(t))
<1>1. PICK b : /\ Units!Bind(t) = b[Len(t)] /\ b[0] = <<>>
               /\ \A i \in 1 .. Len(t) : b[i] = BindStep(t, i, b[i - 1])
  BY BindFolds
<1>2. Len(t) \in Nat
  OBVIOUS
<1>. DEFINE Bad == {i \in 0 .. Len(t) : ~BindInv(t, b[i], i)}
<1>3. Bad = {}
  <2>. SUFFICES ASSUME Bad # {} PROVE FALSE
    OBVIOUS
  <2>0. Bad \in SUBSET Nat
    BY <1>2
  <2>1. PICK m \in Bad : \A n \in Bad : m <= n
    BY <2>0, LeastElement
  <2>2. m \in 0 .. Len(t) /\ ~BindInv(t, b[m], m)
    OBVIOUS
  <2>3. CASE m = 0
    <3>1. Units!ToSet(b[0]) = {} /\ DOMAIN b[0] = {} /\ b[0] \in Seq(Unit) /\ 1 .. 0 = {}
      BY <1>1 DEF Units!ToSet
    <3>2. BindInv(t, b[0], 0)
      BY <3>1 DEF BindInv
    <3>. QED  BY <2>2, <2>3, <3>2
  <2>4. CASE m # 0
    <3>1. m \in 1 .. Len(t) /\ m - 1 \in 0 .. Len(t) /\ ~(m <= m - 1)
      BY <1>2, <2>2, <2>4
    <3>2. BindInv(t, b[m - 1], m - 1)
      BY <2>1, <3>1
    <3>3. BindInv(t, BindStep(t, m, b[m - 1]), m)
      BY <3>1, <3>2, BindKeeps
    <3>. QED  BY <1>1, <2>2, <3>1, <3>3
  <2>. QED  BY <2>3, <2>4
<1>4. Len(t) \in 0 .. Len(t)
  BY <1>2
<1>. QED  BY <1>1, <1>3, <1>4

\* Removing or adding a process leaves a sequence of processes, and ids apart.
LEMMA Removed ==
  ASSUME NEW t \in Seq(Units!Procs), NEW i \in DOMAIN t, Units!IsTable(t)
  PROVE  Units!RemoveAt(t, i) \in Seq(Units!Procs) /\ Units!IsTable(Units!RemoveAt(t, i))
<1>. DEFINE a == SubSeq(t, 1, i - 1)
            z == SubSeq(t, i + 1, Len(t))
            r == a \o z
<1>1. Len(t) \in Nat /\ DOMAIN t = 1 .. Len(t) /\ i \in 1 .. Len(t)
  BY LenProperties
<1>2. \A k \in 1 .. Len(t) : t[k] \in Units!Procs
  BY ElementOfSeq
<1>3. a \in Seq(Units!Procs) /\ Len(a) = i - 1 /\ \A k \in 1 .. i - 1 : a[k] = t[k]
  <2>1. 1 \in Int /\ i - 1 \in Int /\ \A k \in 1 .. i - 1 : t[k] \in Units!Procs
    BY <1>1, <1>2
  <2>2. /\ a \in Seq(Units!Procs) /\ Len(a) = (IF 1 <= i - 1 THEN (i - 1) - 1 + 1 ELSE 0)
        /\ \A k \in 1 .. (i - 1) - 1 + 1 : a[k] = t[1 + k - 1]
    BY <2>1, SubSeqProperties
  <2>. QED  BY <1>1, <2>2
<1>4. z \in Seq(Units!Procs) /\ Len(z) = Len(t) - i /\ \A k \in 1 .. Len(t) - i : z[k] = t[i + k]
  <2>1. i + 1 \in Int /\ Len(t) \in Int /\ \A k \in i + 1 .. Len(t) : t[k] \in Units!Procs
    BY <1>1, <1>2
  <2>2. /\ z \in Seq(Units!Procs) /\ Len(z) = (IF i + 1 <= Len(t) THEN Len(t) - (i + 1) + 1 ELSE 0)
        /\ \A k \in 1 .. Len(t) - (i + 1) + 1 : z[k] = t[i + 1 + k - 1]
    BY <2>1, SubSeqProperties
  <2>. QED  BY <1>1, <2>2
<1>. HIDE DEF a, z
<1>5. /\ r \in Seq(Units!Procs) /\ Len(r) = Len(a) + Len(z)
      /\ \A k \in 1 .. Len(a) + Len(z) : r[k] = IF k <= Len(a) THEN a[k] ELSE z[k - Len(a)]
  BY <1>3, <1>4, ConcatProperties
<1>. HIDE DEF r
<1>6. DOMAIN r = 1 .. Len(t) - 1 /\ Len(r) = Len(t) - 1
  BY <1>1, <1>3, <1>4, <1>5
<1>7. \A k \in 1 .. Len(t) - 1 : r[k] = IF k < i THEN t[k] ELSE t[k + 1]
  <2>. SUFFICES ASSUME NEW k \in 1 .. Len(t) - 1 PROVE r[k] = IF k < i THEN t[k] ELSE t[k + 1]
    OBVIOUS
  <2>0. k \in 1 .. Len(a) + Len(z) /\ Len(a) = i - 1
    BY <1>1, <1>3, <1>4
  <2>1. CASE k < i
    <3>1. k <= Len(a) /\ k \in 1 .. i - 1
      BY <1>1, <2>0, <2>1
    <3>. QED  BY <1>3, <1>5, <2>0, <2>1, <3>1
  <2>2. CASE ~(k < i)
    <3>1. ~(k <= Len(a)) /\ k - (i - 1) \in 1 .. Len(t) - i /\ i + (k - (i - 1)) = k + 1
      BY <1>1, <2>0, <2>2
    <3>2. r[k] = z[k - Len(a)] /\ z[k - (i - 1)] = t[i + (k - (i - 1))]
      BY <1>4, <1>5, <2>0, <3>1
    <3>. QED  BY <2>0, <2>2, <3>1, <3>2
  <2>. QED  BY <2>1, <2>2
<1>8. Len(r) <= MaxProcs
  BY <1>1, <1>6, UnitConstants DEF Units!IsTable
<1>9. \A j, k \in DOMAIN r : j # k => r[j].id # r[k].id
  <2>. SUFFICES ASSUME NEW j \in 1 .. Len(t) - 1, NEW k \in 1 .. Len(t) - 1, j # k PROVE r[j].id # r[k].id
    BY <1>6
  <2>1. \E m, n \in DOMAIN t : m # n /\ r[j] = t[m] /\ r[k] = t[n]
    <3>1. /\ (IF j < i THEN j ELSE j + 1) \in 1 .. Len(t) /\ (IF k < i THEN k ELSE k + 1) \in 1 .. Len(t)
          /\ (IF j < i THEN j ELSE j + 1) # (IF k < i THEN k ELSE k + 1)
      BY <1>1
    <3>2. r[j] = t[IF j < i THEN j ELSE j + 1] /\ r[k] = t[IF k < i THEN k ELSE k + 1]
      BY <1>7
    <3>. QED  BY <1>1, <3>1, <3>2
  <2>. QED  BY <2>1 DEF Units!IsTable
<1>10. r \in Seq(Units!Procs) /\ Units!IsTable(r)
  BY <1>5, <1>8, <1>9 DEF Units!IsTable
<1>. QED  BY <1>10 DEF Units!RemoveAt, r, a, z

LEMMA Inserted ==
  ASSUME NEW t \in Seq(Units!Procs), NEW i \in 1 .. Len(t) + 1, NEW p \in Units!Procs
  PROVE  Units!InsertAt(t, i, p) \in Seq(Units!Procs)
<1>. DEFINE a == SubSeq(t, 1, i - 1)
            z == SubSeq(t, i, Len(t))
<1>1. Len(t) \in Nat /\ i \in Int /\ 1 \in Int /\ i - 1 \in Int /\ \A k \in 1 .. Len(t) : t[k] \in Units!Procs
  BY ElementOfSeq
<1>2. a \in Seq(Units!Procs)
  BY <1>1, SubSeqProperties
<1>3. z \in Seq(Units!Procs)
  BY <1>1, SubSeqProperties
<1>. HIDE DEF a, z
<1>4. <<p>> \in Seq(Units!Procs)
  OBVIOUS
<1>5. a \o <<p>> \in Seq(Units!Procs)
  BY <1>2, <1>4, ConcatProperties
<1>6. (a \o <<p>>) \o z \in Seq(Units!Procs)
  BY <1>3, <1>5, ConcatProperties
<1>. QED  BY <1>6 DEF Units!InsertAt, a, z

\* What the page shows was made of a table; what was asked of the helper is what
\* the id of a unit on the page finds in the table of that moment, which is still
\* the table.
UnitsInv ==
  /\ procs \in Seq(Units!Procs) /\ Units!IsTable(procs)
  /\ \E t \in Seq(Units!Procs) : Units!IsTable(t) /\ shown = Units!Bind(t)
  /\ \A s \in Units!ToSet(sent) :
       /\ s.unit \in Units!ToSet(shown)
       /\ \E u \in Units!ToSet(Units!Bind(procs)) : u.id = s.unit.id /\ s.proc = u.proc

LEMMA UnitsInit == Units!Init => UnitsInv
<1>. SUFFICES ASSUME Units!Init PROVE UnitsInv
  OBVIOUS
<1>1. procs = <<>> /\ shown = <<>> /\ sent = <<>>
  BY DEF Units!Init, Units!NoRequest
<1>2. <<>> \in Seq(Units!Procs) /\ Len(<<>>) = 0 /\ DOMAIN <<>> = {}
  OBVIOUS
<1>3. Units!IsTable(<<>>)
  BY <1>2, UnitConstants DEF Units!IsTable
<1>4. Units!Bind(<<>>) = <<>>
  <2>1. PICK b : Units!Bind(<<>>) = b[Len(<<>>)] /\ b[0] = <<>>
    BY <1>2, BindFolds
  <2>. QED  BY <1>2, <2>1
<1>5. Units!ToSet(sent) = {}
  BY <1>1, <1>2 DEF Units!ToSet
<1>. QED  BY <1>1, <1>2, <1>3, <1>4, <1>5 DEF UnitsInv

LEMMA UnitsStep == UnitsInv /\ [Units!Next]_(Units!vars) => UnitsInv'
<1>. SUFFICES ASSUME UnitsInv, [Units!Next]_(Units!vars) PROVE UnitsInv'
  OBVIOUS
<1>n. ASSUME sent' = Units!NoRequest PROVE Units!ToSet(sent') = {}
  <2>1. DOMAIN <<>> = {}
    OBVIOUS
  <2>. QED  BY <1>n, <2>1 DEF Units!NoRequest, Units!ToSet
<1>1. CASE Units!NewSnapshot
  <2>1. procs' \in Seq(Units!Procs) /\ Units!IsTable(procs')
    <3>1. ASSUME NEW i \in DOMAIN procs, procs' = Units!RemoveAt(procs, i)
          PROVE  procs' \in Seq(Units!Procs) /\ Units!IsTable(procs')
      BY <3>1, Removed DEF UnitsInv
    <3>2. ASSUME NEW i \in 1 .. Len(procs) + 1, NEW p \in Units!Procs,
                 procs' = Units!InsertAt(procs, i, p), Units!IsTable(procs')
          PROVE  procs' \in Seq(Units!Procs) /\ Units!IsTable(procs')
      BY <3>2, Inserted DEF UnitsInv
    <3>. QED  BY <1>1, <3>1, <3>2 DEF Units!NewSnapshot
  <2>2. shown' = shown /\ Units!ToSet(sent') = {}
    BY <1>1, <1>n DEF Units!NewSnapshot
  <2>. QED  BY <2>1, <2>2 DEF UnitsInv
<1>2. CASE Units!List
  <2>1. shown' = Units!Bind(procs) /\ procs' = procs /\ Units!ToSet(sent') = {}
    BY <1>2, <1>n DEF Units!List
  <2>. QED  BY <2>1 DEF UnitsInv
<1>3. ASSUME NEW unit \in Units!ToSet(shown), Units!Do(unit) PROVE UnitsInv'
  <2>1. PICK u \in Units!ToSet(Units!Bind(procs)) : u.id = unit.id /\ sent' = <<[unit |-> unit, proc |-> u.proc]>>
    BY <1>3 DEF Units!Do
  <2>2. procs' = procs /\ shown' = shown
    BY <1>3 DEF Units!Do
  <2>3. Units!ToSet(sent') = {[unit |-> unit, proc |-> u.proc]}
    BY <2>1 DEF Units!ToSet
  <2>. QED  BY <1>3, <2>1, <2>2, <2>3 DEF UnitsInv
<1>4. CASE UNCHANGED Units!vars
  BY <1>4 DEF Units!vars, UnitsInv
<1>. QED  BY <1>1, <1>2, <1>3, <1>4 DEF Units!Next

\* The id of a plain name tells the name and, if it is longer, the instance.
LEMMA PlainIdTells ==
  ASSUME NEW t, NEW s, NEW p \in Units!Procs, NEW q \in Units!Procs,
         Len(p.name) = 1, Len(q.name) = 1,
         Units!BaseId(t, p) = Units!BaseId(s, q)
  PROVE  p.name = q.name /\ (Len(Units!BaseId(t, p)) = 1 \/ p.id = q.id)
<1>1. p.name \in Ids /\ q.name \in Ids /\ p.id \in Nat /\ q.id \in Nat
  BY NamesAreIds, UnitConstants DEF Units!Procs
<1>2. ASSUME NEW n \in Ids, NEW k \in Nat, Len(n) = 1
      PROVE  /\ Len(n \o <<"-", k>>) = 3 /\ (n \o <<"-", k>>)[3] = k
             /\ (n \o <<"-", k>>)[1] = n[1]
  <2>1. Len(n) + 2 = 3 /\ 1 \in 1 .. Len(n)
    BY <1>2
  <2>. QED  BY <2>1, Suffixed
<1>. DEFINE a == p.name \o <<"-", p.id>>
            b == q.name \o <<"-", q.id>>
<1>3. /\ Len(a) = 3 /\ a[3] = p.id /\ a[1] = p.name[1]
      /\ Len(b) = 3 /\ b[3] = q.id /\ b[1] = q.name[1]
  BY <1>1, <1>2
<1>4. Units!BaseId(t, p) \in {a, p.name} /\ Units!BaseId(s, q) \in {b, q.name}
  BY DEF Units!BaseId
<1>5. ASSUME p.name[1] = q.name[1] PROVE p.name = q.name
  BY <1>1, <1>5, SeqEqual DEF Ids
<1>. HIDE DEF a, b
<1>6. CASE Units!BaseId(t, p) = a
  <2>1. Units!BaseId(s, q) = b
    BY <1>3, <1>4, <1>6
  <2>. QED  BY <1>3, <1>5, <1>6, <2>1
<1>7. CASE Units!BaseId(t, p) = p.name
  <2>1. Units!BaseId(s, q) = q.name
    BY <1>3, <1>4, <1>7
  <2>. QED  BY <1>7, <2>1
<1>. QED  BY <1>4, <1>6, <1>7

LEMMA UnitsHold == UnitsInv => Units!IdsHoldStill
<1>. SUFFICES ASSUME UnitsInv PROVE Units!IdsHoldStill
  OBVIOUS
<1>1. \A i, j \in DOMAIN Units!Bind(procs) : i # j => Units!Bind(procs)[i].id # Units!Bind(procs)[j].id
  <2>1. BindInv(procs, Units!Bind(procs), Len(procs))
    BY Bound DEF UnitsInv
  <2>. QED  BY <2>1 DEF BindInv
<1>2. ASSUME NEW s \in Units!ToSet(sent),
             Units!Plain({p.name : p \in Units!ToSet(procs)} \cup {u.proc.name : u \in Units!ToSet(shown)})
      PROVE  /\ s.proc.name = s.unit.proc.name
             /\ Units!Plain({s.unit.id}) \/ s.proc.id = s.unit.proc.id
  <2>1. PICK t \in Seq(Units!Procs) : Units!IsTable(t) /\ shown = Units!Bind(t)
    BY DEF UnitsInv
  <2>2. BindInv(t, shown, Len(t)) /\ BindInv(procs, Units!Bind(procs), Len(procs))
    BY <2>1, Bound DEF UnitsInv
  <2>3. s.unit \in Units!ToSet(shown)
    BY DEF UnitsInv
  <2>4. PICK u \in Units!ToSet(Units!Bind(procs)) : u.id = s.unit.id /\ s.proc = u.proc
    BY DEF UnitsInv
  <2>5. PICK j \in 1 .. Len(t) : s.unit.proc = t[j] /\ t[j].name \notin Exclude
    BY <2>2, <2>3 DEF BindInv
  <2>6. PICK k \in 1 .. Len(procs) : u.proc = procs[k] /\ procs[k].name \notin Exclude
    BY <2>2, <2>4 DEF BindInv
  <2>7. PlainTable(t)
    BY <1>2, <2>2 DEF BindInv, PlainTable, Units!Plain
  <2>8. \A m \in 1 .. Len(procs) : procs[m] \in Units!ToSet(procs)
    BY DEF UnitsInv, Units!ToSet
  <2>9. PlainTable(procs)
    BY <1>2, <2>8 DEF PlainTable, Units!Plain
  <2>10. s.unit.id = Units!BaseId(t, s.unit.proc)
    BY <2>1, <2>2, <2>3, <2>7 DEF BindInv
  <2>11. u.id = Units!BaseId(procs, u.proc)
    BY <2>2, <2>4, <2>9 DEF BindInv, UnitsInv
  <2>12. s.unit.proc \in Units!Procs /\ u.proc \in Units!Procs
    BY <2>5, <2>6, ElementOfSeq DEF UnitsInv
  <2>13. Len(s.unit.proc.name) = 1 /\ Len(u.proc.name) = 1
    BY <2>5, <2>6, <2>7, <2>9 DEF PlainTable
  <2>14. u.proc.name = s.unit.proc.name /\ (Len(Units!BaseId(procs, u.proc)) = 1 \/ u.proc.id = s.unit.proc.id)
    BY <2>4, <2>10, <2>11, <2>12, <2>13, PlainIdTells
  <2>. QED  BY <2>4, <2>11, <2>14 DEF Units!Plain
<1>. QED  BY <1>1, <1>2 DEF Units!IdsHoldStill

\* The page can tell the bots apart, whatever their names; and where no bot, shown
\* or in the snapshot, is named like an id that bind makes up (Plain), what is
\* pressed on a page that is out of date reaches the bot it was pressed for, or
\* none (bind and Do of pm2.go).
THEOREM IdsStayTrue == PartsSpec => []IdsHoldStill
<1>1. PartsInit => UnitsInv
  BY UnitsInit DEF PartsInit
<1>2. UnitsInv /\ [PartsNext]_<<part, vars, units, logs>> => UnitsInv'
  <2>1. [PartsNext]_<<part, vars, units, logs>> => [Units!Next]_(Units!vars)
    BY DEF PartsNext, units, Units!vars
  <2>. QED  BY <2>1, UnitsStep
<1>3. UnitsInv => IdsHoldStill
  BY UnitsHold DEF IdsHoldStill
<1>. QED  BY <1>1, <1>2, <1>3, PTL DEF PartsSpec

-----------------------------------------------------------------------------
(* Lines.  What splitLines makes of a text is followed from byte to byte,  *)
(* and from one text to the next: Rest is all that has to be kept.         *)

\* What holds of the empty sequence, and of a longer one if of the shorter, holds.
LEMMA SequenceInduction ==
  ASSUME NEW S, NEW Good, <<>> \in Good,
         \A s \in Seq(S), c \in S : s \in Good => Append(s, c) \in Good
  PROVE  Seq(S) \subseteq Good
<1>. DEFINE Bad == {n \in Nat : \E s \in Seq(S) : Len(s) = n /\ s \notin Good}
<1>1. ASSUME NEW s \in Seq(S), s \notin Good
      PROVE  FALSE
  <2>1. Len(s) \in Bad
    BY <1>1
  <2>2. PICK n \in Bad : \A m \in Bad : n <= m
    <3>1. Bad \in SUBSET Nat /\ Bad # {}
      BY <2>1
    <3>. HIDE DEF Bad
    <3>. QED  BY <3>1, LeastElement
  <2>3. PICK t \in Seq(S) : Len(t) = n /\ t \notin Good
    OBVIOUS
  <2>4. PICK r \in Seq(S), c \in S : t = Append(r, c)
    BY <2>3, SequenceEmptyOrAppend
  <2>5. Len(r) \in Nat /\ Len(t) = Len(r) + 1
    BY <2>4, AppendProperties
  <2>6. r \notin Good
    BY <2>3, <2>4
  <2>7. Len(r) \in Bad
    BY <2>5, <2>6
  <2>8. n <= Len(r)
    <3>. HIDE DEF Bad
    <3>. QED  BY <2>2, <2>7
  <2>. QED  BY <2>3, <2>5, <2>8
<1>. QED  BY <1>1

\* What Breaks does at a byte.
BreakStep(b, n, s) == IF b[n] = 0 THEN Append(s, n) ELSE s

LEMMA BreakFolds ==
  ASSUME NEW b \in Seq(Int)
  PROVE  \E e \in [0 .. Len(b) -> Seq(Nat)] :
           /\ Follow!Breaks(b) = e[Len(b)] /\ e[0] = <<>>
           /\ \A n \in 1 .. Len(b) : e[n] = BreakStep(b, n, e[n - 1])
<1>. DEFINE G == [n \in 1 .. Len(b) |-> [s \in Seq(Nat) |-> BreakStep(b, n, s)]]
<1>1. Len(b) \in Nat /\ <<>> \in Seq(Nat)
  OBVIOUS
<1>2. G \in [1 .. Len(b) -> [Seq(Nat) -> Seq(Nat)]]
  <2>1. \A n \in 1 .. Len(b) : \A s \in Seq(Nat) : BreakStep(b, n, s) \in Seq(Nat)
    <3>. SUFFICES ASSUME NEW n \in 1 .. Len(b), NEW s \in Seq(Nat)
                  PROVE  BreakStep(b, n, s) \in Seq(Nat)
      OBVIOUS
    <3>1. n \in Nat
      BY <1>1
    <3>. QED  BY <3>1, AppendProperties DEF BreakStep
  <2>. QED  BY <2>1
<1>3. PICK e \in [0 .. Len(b) -> Seq(Nat)] : Steps(e, <<>>, Len(b), G)
  <2>. DEFINE W == Seq(Nat)
              y == <<>>
              m == Len(b)
  <2>1. y \in W /\ m \in Nat /\ G \in [1 .. m -> [W -> W]]
    BY <1>1, <1>2
  <2>. HIDE DEF W, y, m, G
  <2>2. \E e \in [0 .. m -> W] : Steps(e, y, m, G)
    BY <2>1, Recursion
  <2>. QED  BY <2>2 DEF W, y, m
<1>4. \A n \in 1 .. Len(b) : e[n] = BreakStep(b, n, e[n - 1])
  <2>. SUFFICES ASSUME NEW n \in 1 .. Len(b)
                PROVE  e[n] = BreakStep(b, n, e[n - 1])
    OBVIOUS
  <2>1. n \in 0 .. Len(b) /\ n - 1 \in 0 .. Len(b) /\ n # 0
    BY <1>1
  <2>2. e[n] = G[n][e[n - 1]]
    <3>. HIDE DEF G
    <3>. QED  BY <1>3, <2>1 DEF Steps
  <2>3. e[n - 1] \in Seq(Nat)
    BY <2>1
  <2>. QED  BY <2>2, <2>3
<1>5. e[0] = <<>>
  <2>1. 0 \in 0 .. Len(b)
    BY <1>1
  <2>. QED  BY <1>3, <2>1 DEF Steps
<1>. DEFINE h[n \in 0 .. Len(b)] ==
              IF n = 0 THEN <<>> ELSE IF b[n] = 0 THEN Append(h[n - 1], n) ELSE h[n - 1]
<1>6. Follow!Breaks(b) = h[Len(b)]
  BY SMTT(30) DEF Follow!Breaks, Follow!Newline
<1>7. h = [n \in 0 .. Len(b) |->
             IF n = 0 THEN <<>> ELSE IF b[n] = 0 THEN Append(h[n - 1], n) ELSE h[n - 1]]
  <2>1. e = [n \in 0 .. Len(b) |->
               IF n = 0 THEN <<>> ELSE IF b[n] = 0 THEN Append(e[n - 1], n) ELSE e[n - 1]]
    <3>1. \A n \in 0 .. Len(b) :
            e[n] = IF n = 0 THEN <<>> ELSE IF b[n] = 0 THEN Append(e[n - 1], n) ELSE e[n - 1]
      <4>. SUFFICES ASSUME NEW n \in 0 .. Len(b)
                    PROVE  e[n] = IF n = 0 THEN <<>>
                                  ELSE IF b[n] = 0 THEN Append(e[n - 1], n) ELSE e[n - 1]
        OBVIOUS
      <4>1. n = 0 \/ n \in 1 .. Len(b)
        BY <1>1
      <4>. QED  BY <1>4, <1>5, <4>1 DEF BreakStep
    <3>. QED  BY <3>1
  <2>2. \E g : g = [n \in 0 .. Len(b) |->
             IF n = 0 THEN <<>> ELSE IF b[n] = 0 THEN Append(g[n - 1], n) ELSE g[n - 1]]
    BY <2>1
  <2>. QED  BY <2>2
<1>. HIDE DEF h
<1>8. \A n \in 0 .. Len(b) : h[n] = e[n]
  <2>. DEFINE Bad == {n \in 0 .. Len(b) : h[n] # e[n]}
  <2>. SUFFICES ASSUME Bad # {} PROVE FALSE
    OBVIOUS
  <2>1. PICK n \in Bad : \A m \in Bad : n <= m
    <3>1. Bad \in SUBSET Nat
      OBVIOUS
    <3>. HIDE DEF Bad
    <3>. QED  BY <3>1, LeastElement
  <2>2. n \in 0 .. Len(b) /\ h[n] # e[n]
    OBVIOUS
  <2>3. n # 0
    BY <1>5, <1>7, <2>2
  <2>4. n \in 1 .. Len(b) /\ n - 1 \in 0 .. Len(b) /\ n - 1 < n
    BY <2>2, <2>3
  <2>5. n - 1 \notin Bad
    <3>1. Bad \subseteq Int
      OBVIOUS
    <3>. HIDE DEF Bad
    <3>. QED  BY <2>1, <2>2, <2>4, <3>1
  <2>6. h[n - 1] = e[n - 1]
    BY <2>4, <2>5
  <2>7. h[n] = IF b[n] = 0 THEN Append(h[n - 1], n) ELSE h[n - 1]
    BY <1>7, <2>2, <2>3
  <2>8. e[n] = IF b[n] = 0 THEN Append(e[n - 1], n) ELSE e[n - 1]
    BY <1>4, <2>4 DEF BreakStep
  <2>. QED  BY <2>2, <2>6, <2>7, <2>8
<1>9. Len(b) \in 0 .. Len(b)
  BY <1>1
<1>. QED  BY <1>4, <1>5, <1>6, <1>8, <1>9

\* A byte more.
LEMMA BreaksAppend ==
  ASSUME NEW b \in Seq(Int), NEW c \in Int
  PROVE  Follow!Breaks(Append(b, c)) =
           IF c = 0 THEN Append(Follow!Breaks(b), Len(b) + 1) ELSE Follow!Breaks(b)
<1>. DEFINE a == Append(b, c)
<1>1. a \in Seq(Int) /\ Len(b) \in Nat /\ Len(a) = Len(b) + 1 /\ a[Len(b) + 1] = c
  BY AppendProperties
<1>2. \A n \in 1 .. Len(b) : a[n] = b[n]
  BY AppendProperties
<1>. HIDE DEF a
<1>3. PICK e \in [0 .. Len(b) -> Seq(Nat)] :
        /\ Follow!Breaks(b) = e[Len(b)] /\ e[0] = <<>>
        /\ \A n \in 1 .. Len(b) : e[n] = BreakStep(b, n, e[n - 1])
  BY BreakFolds
<1>4. PICK g \in [0 .. Len(a) -> Seq(Nat)] :
        /\ Follow!Breaks(a) = g[Len(a)] /\ g[0] = <<>>
        /\ \A n \in 1 .. Len(a) : g[n] = BreakStep(a, n, g[n - 1])
  BY <1>1, BreakFolds
<1>5. \A n \in 0 .. Len(b) : g[n] = e[n]
  <2>. DEFINE Bad == {n \in 0 .. Len(b) : g[n] # e[n]}
  <2>. SUFFICES ASSUME Bad # {} PROVE FALSE
    OBVIOUS
  <2>1. PICK n \in Bad : \A m \in Bad : n <= m
    <3>1. Bad \in SUBSET Nat
      OBVIOUS
    <3>. HIDE DEF Bad
    <3>. QED  BY <3>1, LeastElement
  <2>2. n \in 0 .. Len(b) /\ g[n] # e[n]
    OBVIOUS
  <2>3. n # 0
    BY <1>3, <1>4, <2>2
  <2>4. n \in 1 .. Len(b) /\ n \in 1 .. Len(a) /\ n - 1 \in 0 .. Len(b) /\ n - 1 < n
    BY <1>1, <2>2, <2>3
  <2>5. n - 1 \notin Bad
    <3>1. Bad \subseteq Int
      OBVIOUS
    <3>. HIDE DEF Bad
    <3>. QED  BY <2>1, <2>2, <2>4, <3>1
  <2>6. g[n - 1] = e[n - 1]
    BY <2>4, <2>5
  <2>. QED  BY <1>2, <1>3, <1>4, <2>2, <2>4, <2>6 DEF BreakStep
<1>6. Len(b) \in 0 .. Len(b) /\ Len(b) + 1 \in 1 .. Len(a) /\ (Len(b) + 1) - 1 = Len(b)
  BY <1>1
<1>7. g[Len(b) + 1] = BreakStep(a, Len(b) + 1, g[(Len(b) + 1) - 1])
  BY <1>4, <1>6
<1>8. g[Len(b)] = Follow!Breaks(b)
  BY <1>3, <1>5, <1>6
<1>9. Follow!Breaks(a) = BreakStep(a, Len(b) + 1, Follow!Breaks(b))
  BY <1>1, <1>4, <1>6, <1>7, <1>8
<1>. QED  BY <1>1, <1>9 DEF BreakStep, a

LEMMA NoBreaks == Follow!Breaks(<<>>) = <<>>
<1>1. <<>> \in Seq(Int) /\ Len(<<>>) = 0
  OBVIOUS
<1>2. PICK e \in [0 .. Len(<<>>) -> Seq(Nat)] : Follow!Breaks(<<>>) = e[Len(<<>>)] /\ e[0] = <<>>
  BY <1>1, BreakFolds
<1>. QED  BY <1>1, <1>2

\* The line that has begun: what follows the last newline, cut at MaxLogLine.
Rest(b) == Follow!CapLine(Follow!After(b, Follow!LastBreak(b)))

\* Bytes without a newline.
Plain(b) == \A i \in 1 .. Len(b) : b[i] # 0

\* e has the places of the newlines of b, all of them, in order.
BreaksOK(b, e) ==
  /\ e \in Seq(Nat)
  /\ \A k \in 1 .. Len(e) : e[k] \in 1 .. Len(b) /\ b[e[k]] = 0
  /\ \A j, k \in 1 .. Len(e) : j < k => e[j] < e[k]
  /\ \A i \in 1 .. Len(b) : b[i] = 0 => \E k \in 1 .. Len(e) : e[k] = i

\* The newlines, all of them, in order.
LEMMA BreaksAre ==
  ASSUME NEW b \in Seq(Int)
  PROVE  BreaksOK(b, Follow!Breaks(b))
<1>. DEFINE Good == {s \in Seq(Int) : BreaksOK(s, Follow!Breaks(s))}
<1>1. <<>> \in Good
  <2>1. <<>> \in Seq(Int) /\ <<>> \in Seq(Nat) /\ Len(<<>>) = 0
    OBVIOUS
  <2>2. BreaksOK(<<>>, <<>>)
    <3>1. 1 .. 0 = {}
      OBVIOUS
    <3>. QED  BY <2>1, <3>1 DEF BreaksOK
  <2>. QED  BY <2>1, <2>2, NoBreaks
<1>2. ASSUME NEW s \in Seq(Int), NEW c \in Int, s \in Good
      PROVE  Append(s, c) \in Good
  <2>. DEFINE a == Append(s, c)
              e == Follow!Breaks(s)
              g == Follow!Breaks(a)
  <2>1. a \in Seq(Int) /\ Len(s) \in Nat /\ Len(a) = Len(s) + 1 /\ a[Len(s) + 1] = c
    BY AppendProperties
  <2>2. \A i \in 1 .. Len(s) : a[i] = s[i]
    BY AppendProperties
  <2>3. g = IF c = 0 THEN Append(e, Len(s) + 1) ELSE e
    BY BreaksAppend
  <2>4. BreaksOK(s, e)
    BY <1>2
  <2>. HIDE DEF a, e, g
  <2>5. e \in Seq(Nat) /\ Len(e) \in Nat
    BY <2>4 DEF BreaksOK
  <2>. SUFFICES BreaksOK(a, g)
    BY <2>1 DEF a, g
  <2>6. CASE c # 0
    <3>1. g = e
      BY <2>3, <2>6
    <3>2. \A k \in 1 .. Len(e) : e[k] \in 1 .. Len(a) /\ a[e[k]] = 0
      <4>1. \A k \in 1 .. Len(e) : e[k] \in 1 .. Len(s) /\ s[e[k]] = 0
        BY <2>4 DEF BreaksOK
      <4>2. \A i \in 1 .. Len(s) : i \in 1 .. Len(a)
        BY <2>1
      <4>. QED  BY <2>2, <4>1, <4>2
    <3>3. ASSUME NEW i \in 1 .. Len(a), a[i] = 0
          PROVE  \E k \in 1 .. Len(e) : e[k] = i
      <4>1. i \in 1 .. Len(s)
        BY <2>1, <2>6, <3>3
      <4>. QED  BY <2>2, <2>4, <3>3, <4>1 DEF BreaksOK
    <3>. QED  BY <2>4, <3>1, <3>2, <3>3 DEF BreaksOK
  <2>7. CASE c = 0
    <3>1. g = Append(e, Len(s) + 1) /\ Len(s) + 1 \in Nat
      BY <2>1, <2>3, <2>7
    <3>2. g \in Seq(Nat) /\ Len(g) = Len(e) + 1 /\ g[Len(e) + 1] = Len(s) + 1
      BY <2>5, <3>1, AppendProperties
    <3>3. \A k \in 1 .. Len(e) : g[k] = e[k]
      BY <2>5, <3>1, AppendProperties
    <3>4. ASSUME NEW k \in 1 .. Len(g)
          PROVE  g[k] \in 1 .. Len(a) /\ a[g[k]] = 0
      <4>1. CASE k \in 1 .. Len(e)
        <5>1. e[k] \in 1 .. Len(s) /\ s[e[k]] = 0
          BY <2>4, <4>1 DEF BreaksOK
        <5>. QED  BY <2>1, <2>2, <3>3, <4>1, <5>1
      <4>2. CASE k = Len(e) + 1
        <5>1. Len(s) + 1 \in 1 .. Len(a)
          BY <2>1
        <5>. QED  BY <2>1, <2>7, <3>2, <4>2, <5>1
      <4>. QED  BY <2>5, <3>2, <4>1, <4>2
    <3>5. ASSUME NEW j \in 1 .. Len(g), NEW k \in 1 .. Len(g), j < k
          PROVE  g[j] < g[k]
      <4>0. j \in 1 .. Len(e)
        BY <2>5, <3>2, <3>5
      <4>1. CASE k \in 1 .. Len(e)
        BY <2>4, <3>3, <3>5, <4>0, <4>1 DEF BreaksOK
      <4>2. CASE k = Len(e) + 1
        <5>1. e[j] \in 1 .. Len(s)
          BY <2>4, <4>0 DEF BreaksOK
        <5>2. e[j] < Len(s) + 1
          BY <2>1, <5>1
        <5>. QED  BY <3>2, <3>3, <4>0, <4>2, <5>2
      <4>. QED  BY <2>5, <3>2, <4>1, <4>2
    <3>6. ASSUME NEW i \in 1 .. Len(a), a[i] = 0
          PROVE  \E k \in 1 .. Len(g) : g[k] = i
      <4>0. Len(e) + 1 \in 1 .. Len(g) /\ \A k \in 1 .. Len(e) : k \in 1 .. Len(g)
        BY <2>5, <3>2
      <4>1. CASE i = Len(s) + 1
        BY <3>2, <4>0, <4>1
      <4>2. CASE i \in 1 .. Len(s)
        <5>1. PICK k \in 1 .. Len(e) : e[k] = i
          BY <2>2, <2>4, <3>6, <4>2 DEF BreaksOK
        <5>. QED  BY <3>3, <4>0, <5>1
      <4>. QED  BY <2>1, <4>1, <4>2
    <3>. QED  BY <3>2, <3>4, <3>5, <3>6 DEF BreaksOK
  <2>. QED  BY <2>6, <2>7
<1>3. Seq(Int) \subseteq Good
  <2>. HIDE DEF Good
  <2>. QED  BY <1>1, <1>2, SequenceInduction
<1>. QED  BY <1>3

LEMMA LastBreakIs ==
  ASSUME NEW b \in Seq(Int)
  PROVE  /\ Follow!LastBreak(b) \in 0 .. Len(b)
         /\ Follow!Breaks(b) = <<>> <=> Follow!LastBreak(b) = 0
         /\ Len(Follow!Breaks(b)) # 0 =>
              Follow!LastBreak(b) = Follow!Breaks(b)[Len(Follow!Breaks(b))]
         /\ Follow!LastBreak(b) # 0 => b[Follow!LastBreak(b)] = 0
         /\ \A i \in 1 .. Len(b) : b[i] = 0 => i <= Follow!LastBreak(b)
<1>. DEFINE e == Follow!Breaks(b)
<1>1. BreaksOK(b, e)
  BY BreaksAre
<1>. HIDE DEF e
<1>2. Len(b) \in Nat /\ e \in Seq(Nat) /\ Len(e) \in Nat /\ (e = <<>> <=> Len(e) = 0)
  BY <1>1 DEF BreaksOK
<1>3. Follow!LastBreak(b) = IF Len(e) = 0 THEN 0 ELSE e[Len(e)]
  BY <1>2 DEF Follow!LastBreak, Follow!Last, e
<1>4. CASE Len(e) = 0
  <2>1. \A i \in 1 .. Len(b) : b[i] # 0
    BY <1>1, <1>4 DEF BreaksOK
  <2>. QED  BY <1>2, <1>3, <1>4, <2>1 DEF e
<1>5. CASE Len(e) # 0
  <2>1. Len(e) \in 1 .. Len(e)
    BY <1>2, <1>5
  <2>2. e[Len(e)] \in 1 .. Len(b) /\ b[e[Len(e)]] = 0
    BY <1>1, <2>1 DEF BreaksOK
  <2>3. ASSUME NEW i \in 1 .. Len(b), b[i] = 0
        PROVE  i <= e[Len(e)]
    <3>1. PICK k \in 1 .. Len(e) : e[k] = i
      BY <1>1, <2>3 DEF BreaksOK
    <3>2. k = Len(e) \/ k < Len(e)
      BY <1>2
    <3>3. k < Len(e) => e[k] < e[Len(e)]
      BY <1>1, <2>1 DEF BreaksOK
    <3>. QED  BY <2>2, <3>1, <3>2, <3>3
  <2>. QED  BY <1>2, <1>3, <1>5, <2>2, <2>3 DEF e
<1>. QED  BY <1>2, <1>4, <1>5

LEMMA FirstBreakIs ==
  ASSUME NEW b \in Seq(Int), Follow!Breaks(b) # <<>>
  PROVE  /\ Follow!FirstBreak(b) \in 1 .. Len(b)
         /\ b[Follow!FirstBreak(b)] = 0
         /\ \A i \in 1 .. Follow!FirstBreak(b) - 1 : b[i] # 0
<1>. DEFINE e == Follow!Breaks(b)
<1>1. BreaksOK(b, e) /\ e # <<>>
  BY BreaksAre
<1>2. Follow!FirstBreak(b) = Head(e)
  BY DEF Follow!FirstBreak
<1>. HIDE DEF e
<1>3. Len(b) \in Nat /\ e \in Seq(Nat) /\ Len(e) \in Nat /\ Len(e) # 0 /\ Head(e) = e[1]
  BY <1>1 DEF BreaksOK
<1>4. 1 \in 1 .. Len(e)
  BY <1>3
<1>5. e[1] \in 1 .. Len(b) /\ b[e[1]] = 0
  BY <1>1, <1>4 DEF BreaksOK
<1>6. ASSUME NEW i \in 1 .. e[1] - 1, b[i] = 0
      PROVE  FALSE
  <2>1. i \in 1 .. Len(b) /\ i < e[1]
    BY <1>3, <1>5
  <2>2. PICK k \in 1 .. Len(e) : e[k] = i
    BY <1>1, <1>6, <2>1 DEF BreaksOK
  <2>3. k = 1 \/ 1 < k
    BY <1>3
  <2>4. 1 < k => e[1] < e[k]
    BY <1>1, <1>4 DEF BreaksOK
  <2>. QED  BY <1>5, <2>1, <2>2, <2>3, <2>4
<1>. QED  BY <1>2, <1>3, <1>5, <1>6

\* Where the k-th line of b starts.
From(b, k) == IF k = 1 THEN 1 ELSE Follow!Breaks(b)[k - 1] + 1

LEMMA LineSizes ==
  /\ MaxLogLine \in Nat \ {0} /\ N \in Nat \ {0} /\ Window \in Nat \ {0}
  /\ LogTail \in Nat \ {0} /\ MaxLogRead \in Nat \ {0} /\ MaxBytes \in Nat
  /\ 0 \notin Inodes
BY BotsAssumption DEF Follow!FollowAssumption

LEMMA SubSeqSame ==
  ASSUME NEW a \in Seq(Int), NEW b \in Seq(Int), NEW m \in Nat, NEW n \in Int,
         m # 0, n <= Len(a), n <= Len(b), \A i \in m .. n : a[i] = b[i]
  PROVE  SubSeq(a, m, n) = SubSeq(b, m, n)
<1>1. Len(a) \in Nat /\ Len(b) \in Nat
  OBVIOUS
<1>2. \A i \in m .. n : i \in 1 .. Len(a) /\ i \in 1 .. Len(b)
  BY <1>1
<1>3. \A i \in m .. n : a[i] \in Int /\ b[i] \in Int
  BY <1>2, ElementOfSeq
<1>4. /\ SubSeq(a, m, n) \in Seq(Int)
      /\ Len(SubSeq(a, m, n)) = IF m <= n THEN n - m + 1 ELSE 0
      /\ \A i \in 1 .. n - m + 1 : SubSeq(a, m, n)[i] = a[m + i - 1]
  BY <1>3, SubSeqProperties
<1>5. /\ SubSeq(b, m, n) \in Seq(Int)
      /\ Len(SubSeq(b, m, n)) = IF m <= n THEN n - m + 1 ELSE 0
      /\ \A i \in 1 .. n - m + 1 : SubSeq(b, m, n)[i] = b[m + i - 1]
  BY <1>3, SubSeqProperties
<1>. DEFINE r == SubSeq(a, m, n)
            s == SubSeq(b, m, n)
<1>6. \A i \in 1 .. Len(r) : r[i] = s[i]
  <2>. SUFFICES ASSUME NEW i \in 1 .. Len(r) PROVE r[i] = s[i]
    OBVIOUS
  <2>1. i \in 1 .. n - m + 1 /\ m + i - 1 \in m .. n
    <3>. HIDE DEF r, s
    <3>1. Len(r) = IF m <= n THEN n - m + 1 ELSE 0
      BY <1>4 DEF r
    <3>. QED  BY <3>1
  <2>. QED  BY <1>4, <1>5, <2>1
<1>7. Len(r) = Len(s) /\ r \in Seq(Int) /\ s \in Seq(Int)
  BY <1>4, <1>5
<1>. HIDE DEF r, s
<1>8. r = s
  BY <1>6, <1>7, SeqEqual
<1>. QED  BY <1>8 DEF r, s

LEMMA PartIs ==
  ASSUME NEW S, NEW b \in Seq(S), NEW m \in Nat, NEW n \in Int, m # 0, n <= Len(b)
  PROVE  /\ SubSeq(b, m, n) \in Seq(S)
         /\ Len(SubSeq(b, m, n)) = IF m <= n THEN n - m + 1 ELSE 0
         /\ \A i \in 1 .. n - m + 1 : SubSeq(b, m, n)[i] = b[m + i - 1]
<1>1. Len(b) \in Nat
  OBVIOUS
<1>2. \A i \in m .. n : i \in 1 .. Len(b)
  BY <1>1
<1>3. \A i \in m .. n : b[i] \in S
  BY <1>2, ElementOfSeq
<1>. QED  BY <1>3, SubSeqProperties

LEMMA CapIs ==
  ASSUME NEW b \in Seq(Int)
  PROVE  /\ Follow!CapLine(b) \in Seq(Int)
         /\ Len(Follow!CapLine(b)) = IF Len(b) > MaxLogLine THEN MaxLogLine ELSE Len(b)
         /\ \A i \in 1 .. Len(Follow!CapLine(b)) : i \in 1 .. Len(b) /\ Follow!CapLine(b)[i] = b[i]
<1>. DEFINE n == IF Len(b) > MaxLogLine THEN MaxLogLine ELSE Len(b)
<1>1. n \in Nat /\ n <= Len(b) /\ Len(b) \in Nat
  BY LineSizes
<1>2. Follow!CapLine(b) = SubSeq(b, 1, n)
  BY DEF Follow!CapLine
<1>. HIDE DEF n
<1>3. /\ SubSeq(b, 1, n) \in Seq(Int) /\ Len(SubSeq(b, 1, n)) = IF 1 <= n THEN n - 1 + 1 ELSE 0
      /\ \A i \in 1 .. n - 1 + 1 : SubSeq(b, 1, n)[i] = b[1 + i - 1]
  BY <1>1, PartIs
<1>4. (IF 1 <= n THEN n - 1 + 1 ELSE 0) = n /\ n - 1 + 1 = n
  BY <1>1
<1>5. \A i \in 1 .. n : i \in 1 .. Len(b) /\ 1 + i - 1 = i
  BY <1>1
<1>. QED  BY <1>2, <1>3, <1>4, <1>5 DEF n

LEMMA CapAppend ==
  ASSUME NEW b \in Seq(Int), NEW c \in Int
  PROVE  Follow!CapLine(Append(Follow!CapLine(b), c)) = Follow!CapLine(Append(b, c))
<1>. DEFINE d == Follow!CapLine(b)
            a == Append(b, c)
            g == Append(d, c)
<1>1. Len(b) \in Nat /\ MaxLogLine \in Nat /\ MaxLogLine # 0
  BY LineSizes
<1>2. /\ d \in Seq(Int) /\ Len(d) = IF Len(b) > MaxLogLine THEN MaxLogLine ELSE Len(b)
      /\ \A i \in 1 .. Len(d) : i \in 1 .. Len(b) /\ d[i] = b[i]
  BY CapIs
<1>. HIDE DEF d
<1>3. /\ a \in Seq(Int) /\ Len(a) = Len(b) + 1 /\ a[Len(b) + 1] = c
      /\ \A i \in 1 .. Len(b) : a[i] = b[i]
  BY AppendProperties
<1>4. /\ g \in Seq(Int) /\ Len(g) = Len(d) + 1 /\ g[Len(d) + 1] = c
      /\ \A i \in 1 .. Len(d) : g[i] = d[i]
  BY <1>2, AppendProperties
<1>. HIDE DEF a, g
<1>5. CASE Len(b) <= MaxLogLine
  <2>1. Len(d) = Len(b)
    BY <1>1, <1>2, <1>5
  <2>2. d = b
    BY <1>2, <2>1, SeqEqual
  <2>. QED  BY <2>2 DEF d
<1>6. CASE Len(b) > MaxLogLine
  <2>1. Len(d) = MaxLogLine /\ Len(g) > MaxLogLine /\ Len(a) > MaxLogLine
    BY <1>1, <1>2, <1>3, <1>4, <1>6
  <2>2. Follow!CapLine(a) = SubSeq(a, 1, MaxLogLine) /\ Follow!CapLine(g) = SubSeq(g, 1, MaxLogLine)
    BY <2>1 DEF Follow!CapLine
  <2>3. \A i \in 1 .. MaxLogLine : g[i] = a[i]
    BY <1>2, <1>3, <1>4, <2>1
  <2>4. MaxLogLine <= Len(a) /\ MaxLogLine <= Len(g) /\ MaxLogLine \in Int /\ 1 \in Nat /\ 1 # 0
    BY <1>1, <1>3, <1>4, <2>1
  <2>5. SubSeq(g, 1, MaxLogLine) = SubSeq(a, 1, MaxLogLine)
    BY <1>3, <1>4, <2>3, <2>4, SubSeqSame
  <2>. QED  BY <2>2, <2>5 DEF a, g, d
<1>. QED  BY <1>1, <1>5, <1>6

LEMMA AfterIs ==
  ASSUME NEW S, NEW b \in Seq(S), NEW k \in Nat
  PROVE  /\ Follow!After(b, k) \in Seq(S)
         /\ Len(Follow!After(b, k)) = IF k <= Len(b) THEN Len(b) - k ELSE 0
         /\ \A i \in 1 .. Len(b) - k : k + i \in 1 .. Len(b) /\ Follow!After(b, k)[i] = b[k + i]
<1>1. Len(b) \in Nat /\ k + 1 \in Nat /\ k + 1 # 0 /\ Len(b) \in Int /\ Len(b) <= Len(b)
  OBVIOUS
<1>2. /\ SubSeq(b, k + 1, Len(b)) \in Seq(S)
      /\ Len(SubSeq(b, k + 1, Len(b))) = IF k + 1 <= Len(b) THEN Len(b) - (k + 1) + 1 ELSE 0
      /\ \A i \in 1 .. Len(b) - (k + 1) + 1 : SubSeq(b, k + 1, Len(b))[i] = b[(k + 1) + i - 1]
  BY <1>1, PartIs
<1>3. (IF k + 1 <= Len(b) THEN Len(b) - (k + 1) + 1 ELSE 0) = IF k <= Len(b) THEN Len(b) - k ELSE 0
  BY <1>1
<1>4. \A i \in 1 .. Len(b) - k : i \in 1 .. Len(b) - (k + 1) + 1 /\ (k + 1) + i - 1 = k + i /\ k + i \in 1 .. Len(b)
  BY <1>1
<1>. QED  BY <1>2, <1>3, <1>4 DEF Follow!After

LEMMA AfterAppend ==
  ASSUME NEW b \in Seq(Int), NEW c \in Int, NEW k \in 0 .. Len(b)
  PROVE  Follow!After(Append(b, c), k) = Append(Follow!After(b, k), c)
<1>. DEFINE a == Append(b, c)
            r == Follow!After(b, k)
            s == Follow!After(a, k)
            t == Append(r, c)
<1>1. Len(b) \in Nat /\ k \in Nat
  OBVIOUS
<1>2. /\ a \in Seq(Int) /\ Len(a) = Len(b) + 1 /\ a[Len(b) + 1] = c
      /\ \A i \in 1 .. Len(b) : a[i] = b[i]
  BY AppendProperties
<1>. HIDE DEF a
<1>3. /\ r \in Seq(Int) /\ Len(r) = Len(b) - k
      /\ \A i \in 1 .. Len(b) - k : k + i \in 1 .. Len(b) /\ r[i] = b[k + i]
  <2>1. Len(r) = IF k <= Len(b) THEN Len(b) - k ELSE 0
    BY <1>1, AfterIs
  <2>2. Len(r) = Len(b) - k
    <3>. HIDE DEF r
    <3>. QED  BY <2>1
  <2>. QED  BY <1>1, <2>2, AfterIs
<1>4. /\ s \in Seq(Int) /\ Len(s) = Len(b) + 1 - k
      /\ \A i \in 1 .. Len(a) - k : k + i \in 1 .. Len(a) /\ s[i] = a[k + i]
  <2>1. /\ s \in Seq(Int) /\ Len(s) = IF k <= Len(a) THEN Len(a) - k ELSE 0
        /\ \A i \in 1 .. Len(a) - k : k + i \in 1 .. Len(a) /\ s[i] = a[k + i]
    <3>1. a \in Seq(Int) /\ k \in Nat
      BY <1>1, <1>2
    <3>. QED  BY <3>1, AfterIs
  <2>. HIDE DEF s
  <2>2. Len(s) = Len(b) + 1 - k
    BY <1>1, <1>2, <2>1
  <2>. QED  BY <2>1, <2>2
<1>. HIDE DEF r, s
<1>5. /\ t \in Seq(Int) /\ Len(t) = Len(r) + 1 /\ t[Len(r) + 1] = c
      /\ \A i \in 1 .. Len(r) : t[i] = r[i]
  BY <1>3, AppendProperties
<1>. HIDE DEF t
<1>6. Len(s) = Len(t)
  BY <1>1, <1>3, <1>4, <1>5
<1>7. ASSUME NEW i \in 1 .. Len(s)
      PROVE  s[i] = t[i]
  <2>1. s[i] = a[k + i]
    BY <1>1, <1>2, <1>4
  <2>2. CASE i <= Len(b) - k
    <3>1. i \in 1 .. Len(b) - k /\ i \in 1 .. Len(r)
      BY <1>1, <1>3, <2>2
    <3>. QED  BY <1>2, <1>3, <1>5, <2>1, <3>1
  <2>3. CASE i = Len(b) - k + 1
    <3>1. i = Len(r) + 1 /\ k + i = Len(b) + 1
      BY <1>1, <1>3, <2>3
    <3>. QED  BY <1>2, <1>5, <2>1, <3>1
  <2>. QED  BY <1>1, <1>4, <2>2, <2>3
<1>8. s = t
  BY <1>4, <1>5, <1>6, <1>7, SeqEqual
<1>. QED  BY <1>8 DEF s, t, a, r

\* The k-th line, uncut.
Line(b, k) == SubSeq(b, From(b, k), Follow!Breaks(b)[k] - 1)

LEMMA LineIs ==
  ASSUME NEW b \in Seq(Int), NEW k \in 1 .. Len(Follow!Breaks(b))
  PROVE  /\ From(b, k) \in Nat /\ From(b, k) # 0
         /\ Follow!Breaks(b)[k] \in 1 .. Len(b) /\ Follow!Breaks(b)[k] <= Follow!LastBreak(b)
         /\ \A i \in From(b, k) .. Follow!Breaks(b)[k] - 1 : i \in 1 .. Len(b) /\ b[i] # 0
         /\ Line(b, k) \in Seq(Int)
<1>. DEFINE e == Follow!Breaks(b)
<1>1. BreaksOK(b, e)
  BY BreaksAre
<1>2. k \in 1 .. Len(e)
  OBVIOUS
<1>3. From(b, k) = IF k = 1 THEN 1 ELSE e[k - 1] + 1
  BY DEF From
<1>. HIDE DEF e
<1>4. Len(b) \in Nat /\ Len(e) \in Nat
  BY <1>1 DEF BreaksOK
<1>5. e[k] \in 1 .. Len(b) /\ b[e[k]] = 0
  BY <1>1, <1>2 DEF BreaksOK
<1>6. k # 1 => k - 1 \in 1 .. Len(e)
  BY <1>2, <1>4
<1>7. From(b, k) \in Nat /\ From(b, k) # 0 /\ (k # 1 => e[k - 1] \in 1 .. Len(b))
  <2>1. k # 1 => e[k - 1] \in 1 .. Len(b)
    BY <1>1, <1>6 DEF BreaksOK
  <2>. QED  BY <1>3, <1>4, <2>1
<1>8. ASSUME NEW i \in From(b, k) .. e[k] - 1
      PROVE  i \in 1 .. Len(b) /\ b[i] # 0
  <2>. DEFINE a == From(b, k)
              d == e[k]
  <2>. HIDE DEF a, d
  <2>0. a \in Nat /\ a # 0 /\ d \in 1 .. Len(b) /\ i \in a .. d - 1
    BY <1>5, <1>7 DEF a, d
  <2>3. i \in 1 .. Len(b) /\ i < d /\ a <= i /\ i \in Int
    BY <1>4, <2>0
  <2>4. k # 1 => e[k - 1] < i
    <3>. SUFFICES ASSUME k # 1 PROVE e[k - 1] < i
      OBVIOUS
    <3>1. a = e[k - 1] + 1 /\ e[k - 1] \in 1 .. Len(b)
      BY <1>3, <1>7 DEF a
    <3>. QED  BY <1>4, <2>3, <3>1
  <2>1. i \in 1 .. Len(b) /\ i < e[k] /\ (k # 1 => e[k - 1] < i)
    BY <2>3, <2>4 DEF d
  <2>2. ASSUME b[i] = 0 PROVE FALSE
    <3>1. PICK m \in 1 .. Len(e) : e[m] = i
      BY <1>1, <2>1, <2>2 DEF BreaksOK
    <3>2. m < k
      <4>1. k < m => e[k] < e[m]
        BY <1>1, <1>2 DEF BreaksOK
      <4>2. m = k \/ k < m \/ m < k
        BY <1>2, <1>4
      <4>. QED  BY <1>5, <2>1, <3>1, <4>1, <4>2
    <3>3. k # 1 /\ (m = k - 1 \/ m < k - 1)
      BY <1>2, <1>4, <3>2
    <3>4. m < k - 1 => e[m] < e[k - 1]
      BY <1>1, <1>6, <3>3 DEF BreaksOK
    <3>. QED  BY <1>7, <2>1, <3>1, <3>3, <3>4
  <2>. QED  BY <2>1, <2>2
<1>9. Line(b, k) \in Seq(Int)
  <2>1. e[k] - 1 \in Int /\ e[k] - 1 <= Len(b)
    BY <1>4, <1>5
  <2>2. SubSeq(b, From(b, k), e[k] - 1) \in Seq(Int)
    BY <1>7, <2>1, PartIs
  <2>. QED  BY <2>2 DEF Line, e
<1>10. e[k] <= Follow!LastBreak(b)
  BY <1>5, LastBreakIs
<1>. QED  BY <1>5, <1>7, <1>8, <1>9, <1>10 DEF e

LEMMA SplitIs ==
  ASSUME NEW b \in Seq(Int)
  PROVE  /\ Follow!SplitLines(b) \in Seq(Seq(Int))
         /\ Len(Follow!SplitLines(b)) = Len(Follow!Breaks(b))
         /\ Len(Follow!SplitLines(b)) \in Nat
         /\ \A k \in 1 .. Len(Follow!SplitLines(b)) :
              Follow!SplitLines(b)[k] = Follow!CapLine(Line(b, k))
<1>. DEFINE n == Len(Follow!Breaks(b))
            s == [k \in 1 .. n |-> Follow!CapLine(Line(b, k))]
<1>1. Follow!SplitLines(b) = s
  BY DEF Follow!SplitLines, Line, From
<1>2. n \in Nat
  <2>1. Follow!Breaks(b) \in Seq(Nat)
    BY BreaksAre DEF BreaksOK
  <2>. QED  BY <2>1
<1>3. \A k \in 1 .. n : Follow!CapLine(Line(b, k)) \in Seq(Int)
  BY LineIs, CapIs
<1>. HIDE DEF n
<1>4. s \in Seq(Seq(Int)) /\ Len(s) = n /\ \A k \in 1 .. n : s[k] = Follow!CapLine(Line(b, k))
  BY <1>2, <1>3
<1>. HIDE DEF s
<1>. QED  BY <1>1, <1>2, <1>4 DEF n

LEMMA RestIs ==
  ASSUME NEW b \in Seq(Int)
  PROVE  /\ Rest(b) \in Seq(Int) /\ Plain(Rest(b))
         /\ \A i \in 1 .. Len(Rest(b)) : Follow!LastBreak(b) + i \in 1 .. Len(b)
                                         /\ Rest(b)[i] = b[Follow!LastBreak(b) + i]
<1>. DEFINE l == Follow!LastBreak(b)
            r == Follow!After(b, l)
<1>1. l \in 0 .. Len(b) /\ \A i \in 1 .. Len(b) : b[i] = 0 => i <= l
  BY LastBreakIs
<1>. HIDE DEF l
<1>2. Len(b) \in Nat /\ l \in Nat /\ l <= Len(b)
  BY <1>1
<1>3. /\ r \in Seq(Int) /\ Len(r) = IF l <= Len(b) THEN Len(b) - l ELSE 0
      /\ \A i \in 1 .. Len(b) - l : l + i \in 1 .. Len(b) /\ r[i] = b[l + i]
  BY <1>2, AfterIs
<1>. HIDE DEF r
<1>4. Len(r) = Len(b) - l
  BY <1>2, <1>3
<1>5. /\ Follow!CapLine(r) \in Seq(Int)
      /\ \A i \in 1 .. Len(Follow!CapLine(r)) : i \in 1 .. Len(r) /\ Follow!CapLine(r)[i] = r[i]
  BY <1>3, CapIs
<1>6. Rest(b) = Follow!CapLine(r)
  BY DEF Rest, r, l
<1>7. \A i \in 1 .. Len(Rest(b)) : l + i \in 1 .. Len(b) /\ Rest(b)[i] = b[l + i]
  BY <1>3, <1>4, <1>5, <1>6
<1>8. \A i \in 1 .. Len(Rest(b)) : b[l + i] # 0
  <2>. SUFFICES ASSUME NEW i \in 1 .. Len(Rest(b)) PROVE b[l + i] # 0
    OBVIOUS
  <2>1. i \in Nat /\ i # 0
    BY <1>5, <1>6
  <2>2. ~(l + i <= l)
    BY <1>2, <2>1
  <2>. QED  BY <1>1, <1>7, <2>2
<1>. QED  BY <1>5, <1>6, <1>7, <1>8 DEF Plain, l

\* A newline ends the line that has begun.
LEMMA EndOfLine ==
  ASSUME NEW b \in Seq(Int)
  PROVE  /\ Follow!SplitLines(Append(b, 0)) = Append(Follow!SplitLines(b), Rest(b))
         /\ Rest(Append(b, 0)) = <<>>
<1>. DEFINE a == Append(b, 0)
            e == Follow!Breaks(b)
            g == Follow!Breaks(a)
            s == Follow!SplitLines(b)
            r == Follow!SplitLines(a)
            t == Append(s, Rest(b))
<1>1. /\ a \in Seq(Int) /\ Len(a) = Len(b) + 1 /\ a[Len(b) + 1] = 0 /\ Len(b) \in Nat
      /\ \A i \in 1 .. Len(b) : a[i] = b[i]
  BY AppendProperties
<1>2. g = Append(e, Len(b) + 1)
  BY BreaksAppend
<1>. HIDE DEF a
<1>3. BreaksOK(b, e)
  BY BreaksAre
<1>. HIDE DEF e, g
<1>4. e \in Seq(Nat) /\ Len(e) \in Nat /\ Len(b) + 1 \in Nat
  BY <1>1, <1>3 DEF BreaksOK
<1>5. /\ Len(g) = Len(e) + 1 /\ g[Len(e) + 1] = Len(b) + 1 /\ g # <<>> /\ g \in Seq(Nat)
      /\ \A k \in 1 .. Len(e) : g[k] = e[k]
  BY <1>2, <1>4, AppendProperties
<1>6. s \in Seq(Seq(Int)) /\ Len(s) = Len(e) /\ \A k \in 1 .. Len(e) : s[k] = Follow!CapLine(Line(b, k))
  BY SplitIs DEF e
<1>7. r \in Seq(Seq(Int)) /\ Len(r) = Len(g) /\ \A k \in 1 .. Len(g) : r[k] = Follow!CapLine(Line(a, k))
  BY <1>1, SplitIs DEF g
<1>. HIDE DEF r, s
<1>8. Rest(b) \in Seq(Int)
  BY RestIs
<1>9. /\ t \in Seq(Seq(Int)) /\ Len(t) = Len(s) + 1 /\ t[Len(s) + 1] = Rest(b)
      /\ \A k \in 1 .. Len(s) : t[k] = s[k]
  BY <1>6, <1>8, AppendProperties
<1>. HIDE DEF t
<1>10. Len(r) = Len(t)
  BY <1>5, <1>6, <1>7, <1>9
<1>11. ASSUME NEW k \in 1 .. Len(e)
       PROVE  Line(a, k) = Line(b, k)
  <2>1. g[k] = e[k] /\ e[k] \in 1 .. Len(b)
    BY <1>3, <1>5 DEF BreaksOK
  <2>2. From(a, k) = From(b, k)
    <3>1. k # 1 => k - 1 \in 1 .. Len(e)
      BY <1>4
    <3>2. k # 1 => g[k - 1] = e[k - 1]
      BY <1>5, <3>1
    <3>. QED  BY <3>2 DEF From, e, g
  <2>3. From(b, k) \in Nat /\ From(b, k) # 0
    BY LineIs DEF e
  <2>4. e[k] - 1 \in Int /\ e[k] - 1 <= Len(b) /\ e[k] - 1 <= Len(a)
    BY <1>1, <2>1
  <2>5. \A i \in From(b, k) .. e[k] - 1 : i \in 1 .. Len(b)
    BY <1>1, <2>3, <2>4
  <2>6. \A i \in From(b, k) .. e[k] - 1 : a[i] = b[i]
    BY <1>1, <2>5
  <2>7. SubSeq(a, From(b, k), e[k] - 1) = SubSeq(b, From(b, k), e[k] - 1)
    BY <1>1, <2>3, <2>4, <2>6, SubSeqSame
  <2>. QED  BY <2>1, <2>2, <2>7 DEF Line, e, g
<1>12. Line(a, Len(e) + 1) = Follow!After(b, Follow!LastBreak(b))
  <2>. DEFINE l == Follow!LastBreak(b)
  <2>0. l \in 0 .. Len(b) /\ (e = <<>> <=> l = 0) /\ (Len(e) # 0 => l = e[Len(e)])
    BY LastBreakIs DEF e
  <2>. HIDE DEF l
  <2>1. From(a, Len(e) + 1) = l + 1
    <3>1. CASE Len(e) = 0
      <4>1. l = 0
        BY <1>4, <2>0, <3>1
      <4>. QED  BY <3>1, <4>1 DEF From
    <3>2. CASE Len(e) # 0
      <4>1. Len(e) + 1 # 1 /\ (Len(e) + 1) - 1 = Len(e) /\ Len(e) \in 1 .. Len(e)
        BY <1>4, <3>2
      <4>2. g[(Len(e) + 1) - 1] = l
        BY <1>5, <2>0, <3>2, <4>1
      <4>. QED  BY <4>1, <4>2 DEF From, g
    <3>. QED  BY <3>1, <3>2
  <2>2. g[Len(e) + 1] - 1 = Len(b)
    BY <1>1, <1>5
  <2>3. l + 1 \in Nat /\ l + 1 # 0 /\ Len(b) \in Int /\ Len(b) <= Len(b) /\ Len(b) <= Len(a)
    BY <1>1, <2>0
  <2>4. \A i \in l + 1 .. Len(b) : a[i] = b[i]
    <3>1. \A i \in l + 1 .. Len(b) : i \in 1 .. Len(b)
      BY <2>3
    <3>. QED  BY <1>1, <3>1
  <2>5. SubSeq(a, l + 1, Len(b)) = SubSeq(b, l + 1, Len(b))
    BY <1>1, <2>3, <2>4, SubSeqSame
  <2>. QED  BY <2>1, <2>2, <2>5 DEF Line, g, l, Follow!After
<1>13. ASSUME NEW k \in 1 .. Len(r)
       PROVE  r[k] = t[k]
  <2>1. CASE k \in 1 .. Len(e)
    BY <1>5, <1>6, <1>7, <1>9, <1>11, <2>1
  <2>2. CASE k = Len(e) + 1
    <3>1. r[k] = Follow!CapLine(Line(a, Len(e) + 1))
      BY <1>7, <2>2
    <3>. QED  BY <1>6, <1>9, <1>12, <2>2, <3>1 DEF Rest
  <2>. QED  BY <1>4, <1>5, <1>7, <2>1, <2>2
<1>14. r = t
  BY <1>7, <1>9, <1>10, <1>13, SeqEqual
<1>15. Rest(a) = <<>>
  <2>1. Follow!LastBreak(a) = Len(a)
    <3>1. Len(g) # 0
      BY <1>4, <1>5
    <3>2. Follow!LastBreak(a) = g[Len(g)]
      BY <1>1, <3>1, LastBreakIs DEF g
    <3>. QED  BY <1>1, <1>5, <3>2
  <2>2. \A i \in 1 .. Len(Rest(a)) : Len(a) + i \in 1 .. Len(a)
    BY <1>1, <2>1, RestIs
  <2>3. Rest(a) \in Seq(Int) /\ Len(a) \in Nat
    BY <1>1, RestIs
  <2>4. Len(Rest(a)) = 0
    <3>1. Len(Rest(a)) \in Nat
      BY <2>3
    <3>2. Len(Rest(a)) # 0 => Len(a) + 1 \in 1 .. Len(a)
      BY <2>2, <3>1
    <3>. QED  BY <2>3, <3>2
  <2>. QED  BY <2>3, <2>4, EmptySeq
<1>. QED  BY <1>14, <1>15 DEF r, t, s, a

\* Any other byte belongs to it.
LEMMA ByteOfLine ==
  ASSUME NEW b \in Seq(Int), NEW c \in Int, c # 0
  PROVE  /\ Follow!SplitLines(Append(b, c)) = Follow!SplitLines(b)
         /\ Rest(Append(b, c)) = Follow!CapLine(Append(Rest(b), c))
<1>. DEFINE a == Append(b, c)
            e == Follow!Breaks(b)
            s == Follow!SplitLines(b)
            r == Follow!SplitLines(a)
            l == Follow!LastBreak(b)
<1>1. /\ a \in Seq(Int) /\ Len(a) = Len(b) + 1 /\ Len(b) \in Nat
      /\ \A i \in 1 .. Len(b) : a[i] = b[i]
  BY AppendProperties
<1>2. Follow!Breaks(a) = e
  BY BreaksAppend
<1>3. Follow!LastBreak(a) = l /\ l \in 0 .. Len(b)
  BY <1>2, LastBreakIs DEF Follow!LastBreak
<1>4. Follow!After(a, l) = Append(Follow!After(b, l), c)
  BY <1>3, AfterAppend
<1>. HIDE DEF a, e, l
<1>5. s \in Seq(Seq(Int)) /\ Len(s) = Len(e) /\ \A k \in 1 .. Len(e) : s[k] = Follow!CapLine(Line(b, k))
  BY SplitIs DEF e
<1>6. r \in Seq(Seq(Int)) /\ Len(r) = Len(e) /\ \A k \in 1 .. Len(e) : r[k] = Follow!CapLine(Line(a, k))
  BY <1>1, <1>2, SplitIs
<1>. HIDE DEF r, s
<1>7. ASSUME NEW k \in 1 .. Len(e)
      PROVE  Line(a, k) = Line(b, k)
  <2>1. From(b, k) \in Nat /\ From(b, k) # 0 /\ e[k] \in 1 .. Len(b)
    BY LineIs DEF e
  <2>2. From(a, k) = From(b, k)
    BY <1>2 DEF From, e
  <2>4. e[k] - 1 \in Int /\ e[k] - 1 <= Len(b) /\ e[k] - 1 <= Len(a)
    BY <1>1, <2>1
  <2>5. \A i \in From(b, k) .. e[k] - 1 : i \in 1 .. Len(b)
    BY <1>1, <2>1, <2>4
  <2>6. \A i \in From(b, k) .. e[k] - 1 : a[i] = b[i]
    BY <1>1, <2>5
  <2>7. SubSeq(a, From(b, k), e[k] - 1) = SubSeq(b, From(b, k), e[k] - 1)
    BY <1>1, <2>1, <2>4, <2>6, SubSeqSame
  <2>. QED  BY <1>2, <2>2, <2>7 DEF Line, e
<1>8. \A k \in 1 .. Len(r) : r[k] = s[k]
  BY <1>5, <1>6, <1>7
<1>9. r = s
  BY <1>5, <1>6, <1>8, SeqEqual
<1>10. Rest(a) = Follow!CapLine(Append(Rest(b), c))
  <2>1. Follow!After(b, l) \in Seq(Int)
    <3>1. l \in Nat
      BY <1>3
    <3>. QED  BY <3>1, AfterIs
  <2>2. Follow!CapLine(Append(Follow!CapLine(Follow!After(b, l)), c)) = Follow!CapLine(Append(Follow!After(b, l), c))
    BY <2>1, CapAppend
  <2>. QED  BY <1>3, <1>4, <2>2 DEF Rest, l
<1>. QED  BY <1>9, <1>10 DEF r, s, a

LEMMA EmptyText == Follow!SplitLines(<<>>) = <<>> /\ Rest(<<>>) = <<>>
<1>1. <<>> \in Seq(Int) /\ Len(<<>>) = 0
  OBVIOUS
<1>2. Follow!SplitLines(<<>>) = <<>>
  <2>1. /\ Follow!SplitLines(<<>>) \in Seq(Seq(Int))
        /\ Len(Follow!SplitLines(<<>>)) = 0
    BY <1>1, NoBreaks, SplitIs
  <2>. QED  BY <2>1, EmptySeq
<1>3. Rest(<<>>) = <<>>
  <2>1. Rest(<<>>) \in Seq(Int) /\ \A i \in 1 .. Len(Rest(<<>>)) : Follow!LastBreak(<<>>) + i \in 1 .. 0
    BY <1>1, RestIs
  <2>2. Len(Rest(<<>>)) \in Nat /\ (Len(Rest(<<>>)) # 0 => 1 \in 1 .. Len(Rest(<<>>)))
    BY <2>1
  <2>3. \A i : i \notin 1 .. 0
    OBVIOUS
  <2>4. Len(Rest(<<>>)) = 0
    BY <2>1, <2>2, <2>3
  <2>. QED  BY <2>1, <2>4, EmptySeq
<1>. QED  BY <1>2, <1>3

LEMMA PlainText ==
  ASSUME NEW b \in Seq(Int), Plain(b)
  PROVE  Follow!Breaks(b) = <<>> /\ Follow!SplitLines(b) = <<>> /\ Rest(b) = Follow!CapLine(b)
<1>. DEFINE e == Follow!Breaks(b)
<1>1. BreaksOK(b, e)
  BY BreaksAre
<1>. HIDE DEF e
<1>2. e \in Seq(Nat) /\ Len(e) \in Nat
  BY <1>1 DEF BreaksOK
<1>3. Len(e) = 0
  <2>1. Len(e) # 0 => 1 \in 1 .. Len(e)
    BY <1>2
  <2>. QED  BY <1>1, <2>1 DEF BreaksOK, Plain
<1>4. e = <<>>
  BY <1>2, <1>3, EmptySeq
<1>5. Follow!SplitLines(b) = <<>>
  <2>1. Follow!SplitLines(b) \in Seq(Seq(Int)) /\ Len(Follow!SplitLines(b)) = 0
    BY <1>3, SplitIs DEF e
  <2>. QED  BY <2>1, EmptySeq
<1>6. Rest(b) = Follow!CapLine(b)
  <2>1. Follow!LastBreak(b) = 0
    BY <1>4 DEF Follow!LastBreak, e
  <2>2. Follow!After(b, 0) = b
    <3>1. Follow!After(b, 0) = SubSeq(b, 1, Len(b))
      BY DEF Follow!After
    <3>. QED  BY <3>1, SubSeqFull
  <2>. QED  BY <2>1, <2>2 DEF Rest
<1>. QED  BY <1>4, <1>5, <1>6 DEF e

LEMMA RestOfRest ==
  ASSUME NEW b \in Seq(Int)
  PROVE  Follow!SplitLines(Rest(b)) = <<>> /\ Rest(Rest(b)) = Rest(b)
<1>. DEFINE r == Rest(b)
            d == Follow!After(b, Follow!LastBreak(b))
<1>1. r \in Seq(Int) /\ Plain(r)
  BY RestIs
<1>2. Follow!SplitLines(r) = <<>> /\ Rest(r) = Follow!CapLine(r)
  BY <1>1, PlainText
<1>3. d \in Seq(Int)
  <2>1. Follow!LastBreak(b) \in Nat
    BY LastBreakIs
  <2>. QED  BY <2>1, AfterIs
<1>4. r = Follow!CapLine(d)
  BY DEF Rest
<1>. HIDE DEF d, r
<1>5. Follow!CapLine(r) = r
  <2>1. Len(r) = IF Len(d) > MaxLogLine THEN MaxLogLine ELSE Len(d)
    BY <1>3, <1>4, CapIs
  <2>2. Len(r) <= MaxLogLine /\ Len(r) \in Nat
    BY <1>1, <1>3, <2>1, LineSizes
  <2>3. Follow!CapLine(r) = SubSeq(r, 1, Len(r))
    BY <2>2, LineSizes DEF Follow!CapLine
  <2>. QED  BY <1>1, <2>3, SubSeqFull
<1>. QED  BY <1>2, <1>5 DEF r

LEMMA AppendToConcat ==
  ASSUME NEW S, NEW s \in Seq(S), NEW t \in Seq(S), NEW c \in S
  PROVE  s \o Append(t, c) = Append(s \o t, c)
<1>1. <<c>> \in Seq(S)
  OBVIOUS
<1>2. Append(t, c) = t \o <<c>>
  BY AppendIsConcat
<1>3. s \o t \in Seq(S)
  BY ConcatProperties
<1>4. Append(s \o t, c) = (s \o t) \o <<c>>
  BY <1>3, AppendIsConcat
<1>5. (s \o t) \o <<c>> = s \o (t \o <<c>>)
  BY <1>1, ConcatAssociative
<1>. QED  BY <1>2, <1>4, <1>5

LEMMA AppendByte ==
  \A s, t \in Seq(Int), c \in Int : s \o Append(t, c) = Append(s \o t, c)
<1>. DEFINE I == Int
<1>1. ASSUME NEW s \in Seq(I), NEW t \in Seq(I), NEW c \in I
      PROVE  s \o Append(t, c) = Append(s \o t, c)
  <2>. HIDE DEF I
  <2>. QED  BY AppendToConcat
<1>. QED  BY <1>1

\* Text read in two parts gives the lines it gives when read at once, when the
\* line that had begun is kept in between.
LEMMA InTwoParts ==
  ASSUME NEW x \in Seq(Int), NEW y \in Seq(Int)
  PROVE  /\ Follow!SplitLines(x \o y) = Follow!SplitLines(x) \o Follow!SplitLines(Rest(x) \o y)
         /\ Rest(x \o y) = Rest(Rest(x) \o y)
<1>. DEFINE r == Rest(x)
            L == Follow!SplitLines(x)
            Good == {z \in Seq(Int) : /\ Follow!SplitLines(x \o z) = L \o Follow!SplitLines(r \o z)
                                      /\ Rest(x \o z) = Rest(r \o z)}
<1>1. r \in Seq(Int) /\ Follow!SplitLines(r) = <<>> /\ Rest(r) = r
  BY RestIs, RestOfRest
<1>2. L \in Seq(Seq(Int))
  BY SplitIs
<1>3. <<>> \in Good
  <2>1. x \o <<>> = x /\ r \o <<>> = r /\ L \o <<>> = L /\ <<>> \in Seq(Int)
    BY <1>1, <1>2, ConcatEmptySeq
  <2>2. Follow!SplitLines(x \o <<>>) = L
    BY <2>1 DEF L
  <2>3. L \o Follow!SplitLines(r \o <<>>) = L
    BY <1>1, <2>1, Zenon
  <2>4. Rest(x \o <<>>) = r
    BY <2>1 DEF r
  <2>5. Rest(r \o <<>>) = r
    BY <1>1, <2>1, Zenon
  <2>. HIDE DEF r, L
  <2>. QED  BY <2>1, <2>2, <2>3, <2>4, <2>5
<1>4. ASSUME NEW z \in Seq(Int), NEW c \in Int, z \in Good
      PROVE  Append(z, c) \in Good
  <2>1. Follow!SplitLines(x \o z) = L \o Follow!SplitLines(r \o z) /\ Rest(x \o z) = Rest(r \o z)
    BY <1>4
  <2>. HIDE DEF r, L
  <2>2. x \o Append(z, c) = Append(x \o z, c) /\ r \o Append(z, c) = Append(r \o z, c)
    <3>1. x \o Append(z, c) = Append(x \o z, c)
      BY AppendByte
    <3>2. r \o Append(z, c) = Append(r \o z, c)
      BY <1>1, AppendByte
    <3>. QED  BY <3>1, <3>2
  <2>3. x \o z \in Seq(Int) /\ r \o z \in Seq(Int) /\ Append(z, c) \in Seq(Int)
    BY <1>1, ConcatProperties, AppendProperties
  <2>4. CASE c = 0
    <3>1. /\ Follow!SplitLines(Append(x \o z, c)) = Append(Follow!SplitLines(x \o z), Rest(x \o z))
          /\ Rest(Append(x \o z, c)) = <<>>
      BY <2>3, <2>4, EndOfLine
    <3>2. /\ Follow!SplitLines(Append(r \o z, c)) = Append(Follow!SplitLines(r \o z), Rest(r \o z))
          /\ Rest(Append(r \o z, c)) = <<>>
      BY <2>3, <2>4, EndOfLine
    <3>3. Follow!SplitLines(r \o z) \in Seq(Seq(Int)) /\ Rest(r \o z) \in Seq(Int)
      BY <2>3, SplitIs, RestIs
    <3>4. L \o Append(Follow!SplitLines(r \o z), Rest(r \o z)) = Append(L \o Follow!SplitLines(r \o z), Rest(r \o z))
      BY <1>2, <3>3, AppendToConcat, SMTT(30)
    <3>. QED  BY <2>1, <2>2, <2>3, <3>1, <3>2, <3>4
  <2>5. CASE c # 0
    <3>1. /\ Follow!SplitLines(Append(x \o z, c)) = Follow!SplitLines(x \o z)
          /\ Rest(Append(x \o z, c)) = Follow!CapLine(Append(Rest(x \o z), c))
      BY <2>3, <2>5, ByteOfLine
    <3>2. /\ Follow!SplitLines(Append(r \o z, c)) = Follow!SplitLines(r \o z)
          /\ Rest(Append(r \o z, c)) = Follow!CapLine(Append(Rest(r \o z), c))
      BY <2>3, <2>5, ByteOfLine
    <3>. QED  BY <2>1, <2>2, <2>3, <3>1, <3>2
  <2>. QED  BY <2>4, <2>5
<1>5. Seq(Int) \subseteq Good
  <2>. HIDE DEF Good
  <2>. QED  BY <1>3, <1>4, SequenceInduction
<1>. QED  BY <1>5

LEMMA PlainConcat ==
  ASSUME NEW x \in Seq(Int), NEW y \in Seq(Int), Plain(x), Plain(y)
  PROVE  Plain(x \o y)
<1>1. /\ x \o y \in Seq(Int) /\ Len(x \o y) = Len(x) + Len(y) /\ Len(x) \in Nat /\ Len(y) \in Nat
      /\ \A i \in 1 .. Len(x) + Len(y) : (x \o y)[i] = IF i <= Len(x) THEN x[i] ELSE y[i - Len(x)]
  BY ConcatProperties
<1>. DEFINE z == x \o y
<1>. HIDE DEF z
<1>2. ASSUME NEW i \in 1 .. Len(z)
      PROVE  z[i] # 0
  <2>1. /\ i \in 1 .. Len(x) + Len(y) /\ (i <= Len(x) => i \in 1 .. Len(x))
        /\ ~(i <= Len(x)) => i - Len(x) \in 1 .. Len(y)
    BY <1>1 DEF z
  <2>. QED  BY <1>1, <2>1 DEF Plain, z
<1>. QED  BY <1>2 DEF Plain, z

\* Bytes without a newline do not end a line.
LEMMA NoLineEnds ==
  ASSUME NEW x \in Seq(Int), NEW y \in Seq(Int), Plain(y)
  PROVE  Follow!SplitLines(x \o y) = Follow!SplitLines(x)
<1>1. Rest(x) \in Seq(Int) /\ Plain(Rest(x)) /\ Rest(x) \o y \in Seq(Int)
  BY RestIs, ConcatProperties
<1>2. Plain(Rest(x) \o y)
  BY <1>1, PlainConcat
<1>3. Follow!SplitLines(Rest(x) \o y) = <<>>
  BY <1>1, <1>2, PlainText
<1>4. Follow!SplitLines(x) \in Seq(Seq(Int))
  BY SplitIs
<1>5. Follow!SplitLines(x) \o <<>> = Follow!SplitLines(x)
  BY <1>4, ConcatEmptySeq
<1>. QED  BY <1>3, <1>5, InTwoParts

\* What the first newline of y ends is one line, whatever it started with, and what
\* follows is split by itself.
LEMMA FromFirstBreak ==
  ASSUME NEW x \in Seq(Int), NEW y \in Seq(Int), Follow!Breaks(y) # <<>>
  PROVE  LET z == Follow!After(y, Follow!FirstBreak(y))
         IN  /\ z \in Seq(Int)
             /\ Rest(x \o y) = Rest(z)
             /\ \E l \in Seq(Int) :
                  Follow!SplitLines(x \o y) = Append(Follow!SplitLines(x), l) \o Follow!SplitLines(z)
<1>. DEFINE p == Follow!FirstBreak(y)
            w == SubSeq(y, 1, p - 1)
            z == Follow!After(y, p)
<1>1. p \in 1 .. Len(y) /\ y[p] = 0 /\ \A i \in 1 .. p - 1 : y[i] # 0
  BY FirstBreakIs
<1>. HIDE DEF p
<1>2. Len(y) \in Nat /\ p \in Nat /\ p - 1 \in Int /\ p - 1 <= Len(y) /\ p - 1 \in Nat
  BY <1>1
<1>3. w \in Seq(Int) /\ Plain(w) /\ Len(w) = p - 1 /\ \A i \in 1 .. p - 1 : w[i] = y[i]
  <2>1. /\ w \in Seq(Int) /\ Len(w) = IF 1 <= p - 1 THEN p - 1 - 1 + 1 ELSE 0
        /\ \A i \in 1 .. p - 1 - 1 + 1 : w[i] = y[1 + i - 1]
    BY <1>2, PartIs
  <2>. HIDE DEF w
  <2>2. Len(w) = p - 1
    BY <1>2, <2>1
  <2>3. \A i \in 1 .. p - 1 : i \in 1 .. p - 1 - 1 + 1 /\ 1 + i - 1 = i
    BY <1>2
  <2>4. \A i \in 1 .. p - 1 : w[i] = y[i]
    BY <2>1, <2>3
  <2>. QED  BY <1>1, <2>1, <2>2, <2>4 DEF Plain
<1>4. z \in Seq(Int)
  BY <1>2, AfterIs
<1>5. Append(w, 0) \in Seq(Int) /\ y = Append(w, 0) \o z
  <2>1. Append(w, 0) \in Seq(Int)
    BY <1>3, AppendProperties
  <2>2. SubSeq(y, 1, p) = Append(w, 0)
    <3>. DEFINE a == SubSeq(y, 1, p)
                b == Append(w, 0)
    <3>1. a \in Seq(Int) /\ Len(a) = p /\ \A i \in 1 .. p : a[i] = y[i]
      <4>1. /\ a \in Seq(Int) /\ Len(a) = IF 1 <= p THEN p - 1 + 1 ELSE 0
            /\ \A i \in 1 .. p - 1 + 1 : a[i] = y[1 + i - 1]
        <5>1. p \in Int /\ p <= Len(y)
          BY <1>1, <1>2
        <5>. QED  BY <5>1, PartIs
      <4>. HIDE DEF a
      <4>2. \A i \in 1 .. p : i \in 1 .. p - 1 + 1 /\ 1 + i - 1 = i
        BY <1>2
      <4>3. (IF 1 <= p THEN p - 1 + 1 ELSE 0) = p
        BY <1>1, <1>2
      <4>. QED  BY <4>1, <4>2, <4>3
    <3>2. /\ b \in Seq(Int) /\ Len(b) = Len(w) + 1 /\ b[Len(w) + 1] = 0
          /\ \A i \in 1 .. Len(w) : b[i] = w[i]
      BY <1>3, AppendProperties
    <3>3. Len(w) = p - 1 /\ \A i \in 1 .. p - 1 : w[i] = y[i]
      BY <1>3
    <3>. HIDE DEF a, b, w
    <3>4. Len(b) = p
      BY <1>2, <3>2, <3>3
    <3>5. \A i \in 1 .. p : a[i] = b[i]
      <4>. SUFFICES ASSUME NEW i \in 1 .. p PROVE a[i] = b[i]
        OBVIOUS
      <4>1. i = p \/ i \in 1 .. p - 1
        BY <1>2
      <4>2. p = Len(w) + 1
        BY <1>2, <3>3
      <4>. QED  BY <1>1, <3>1, <3>2, <3>3, <4>1, <4>2
    <3>6. a = b
      BY <3>1, <3>2, <3>4, <3>5, SeqEqual
    <3>. QED  BY <3>6 DEF a, b
  <2>3. SubSeq(y, 1, p) \o SubSeq(y, p + 1, Len(y)) = SubSeq(y, 1, Len(y))
    <3>1. 1 \in 1 .. Len(y) + 1 /\ p \in 1 - 1 .. Len(y) /\ Len(y) \in p .. Len(y)
      BY <1>1, <1>2
    <3>. QED  BY <3>1, ConcatAdjacentSubSeq
  <2>4. SubSeq(y, 1, Len(y)) = y
    BY SubSeqFull
  <2>. QED  BY <2>1, <2>2, <2>3, <2>4 DEF Follow!After
<1>. HIDE DEF w, z
<1>. DEFINE v == x \o Append(w, 0)
<1>6. x \o y = v \o z
  <2>. DEFINE u == Append(w, 0)
  <2>1. u \in Seq(Int) /\ y = u \o z
    BY <1>5
  <2>. HIDE DEF u
  <2>2. (x \o u) \o z = x \o (u \o z)
    BY <1>4, <2>1, ConcatAssociative, SMTT(30)
  <2>3. x \o y = x \o (u \o z)
    BY <2>1
  <2>. QED  BY <2>2, <2>3 DEF u
<1>7. x \o w \in Seq(Int) /\ v = Append(x \o w, 0) /\ v \in Seq(Int)
  BY <1>3, <1>5, AppendToConcat, ConcatProperties
<1>8. /\ Follow!SplitLines(v) = Append(Follow!SplitLines(x \o w), Rest(x \o w))
      /\ Rest(v) = <<>>
  BY <1>7, EndOfLine
<1>9. Follow!SplitLines(x \o w) = Follow!SplitLines(x)
  BY <1>3, NoLineEnds
<1>10. Rest(x \o w) \in Seq(Int)
  BY <1>7, RestIs
<1>. HIDE DEF v
<1>11. <<>> \o z = z
  BY <1>4, ConcatEmptySeq
<1>12. /\ Follow!SplitLines(v \o z) = Follow!SplitLines(v) \o Follow!SplitLines(<<>> \o z)
       /\ Rest(v \o z) = Rest(<<>> \o z)
  <2>1. /\ Follow!SplitLines(v \o z) = Follow!SplitLines(v) \o Follow!SplitLines(Rest(v) \o z)
        /\ Rest(v \o z) = Rest(Rest(v) \o z)
    BY <1>4, <1>7, InTwoParts
  <2>. QED  BY <1>8, <2>1
<1>13. \E l \in Seq(Int) :
         Follow!SplitLines(x \o y) = Append(Follow!SplitLines(x), l) \o Follow!SplitLines(z)
  BY <1>6, <1>8, <1>9, <1>10, <1>11, <1>12
<1>14. Rest(x \o y) = Rest(z)
  BY <1>6, <1>11, <1>12
<1>. QED  BY <1>4, <1>13, <1>14 DEF z, p

LEMMA AfterConcat ==
  ASSUME NEW S, NEW x \in Seq(S), NEW y \in Seq(S), NEW k \in Nat, k <= Len(x)
  PROVE  Follow!After(x \o y, k) = Follow!After(x, k) \o y
<1>. DEFINE z == x \o y
            r == Follow!After(z, k)
            s == Follow!After(x, k)
            t == s \o y
<1>1. Len(x) \in Nat /\ Len(y) \in Nat
  OBVIOUS
<1>2. /\ z \in Seq(S) /\ Len(z) = Len(x) + Len(y)
      /\ \A i \in 1 .. Len(x) + Len(y) : z[i] = IF i <= Len(x) THEN x[i] ELSE y[i - Len(x)]
  BY ConcatProperties
<1>. HIDE DEF z
<1>3. /\ s \in Seq(S) /\ Len(s) = IF k <= Len(x) THEN Len(x) - k ELSE 0
      /\ \A i \in 1 .. Len(x) - k : k + i \in 1 .. Len(x) /\ s[i] = x[k + i]
  BY AfterIs
<1>. HIDE DEF s
<1>4. /\ r \in Seq(S) /\ Len(r) = IF k <= Len(z) THEN Len(z) - k ELSE 0
      /\ \A i \in 1 .. Len(z) - k : k + i \in 1 .. Len(z) /\ r[i] = z[k + i]
  BY <1>2, AfterIs
<1>. HIDE DEF r
<1>5. /\ t \in Seq(S) /\ Len(t) = Len(s) + Len(y)
      /\ \A i \in 1 .. Len(s) + Len(y) : t[i] = IF i <= Len(s) THEN s[i] ELSE y[i - Len(s)]
  BY <1>3, ConcatProperties
<1>. HIDE DEF t
<1>6. Len(s) = Len(x) - k /\ Len(r) = Len(x) + Len(y) - k /\ Len(r) = Len(t) /\ Len(z) - k = Len(r)
  BY <1>1, <1>2, <1>3, <1>4, <1>5
<1>7. ASSUME NEW i \in 1 .. Len(r)
      PROVE  r[i] = t[i]
  <2>1. r[i] = z[k + i] /\ k + i \in 1 .. Len(x) + Len(y) /\ i \in 1 .. Len(s) + Len(y)
    BY <1>1, <1>2, <1>4, <1>6
  <2>2. CASE i <= Len(s)
    <3>1. i \in 1 .. Len(x) - k /\ k + i <= Len(x)
      BY <1>1, <1>6, <2>2
    <3>. QED  BY <1>2, <1>3, <1>5, <2>1, <2>2, <3>1
  <2>3. CASE ~(i <= Len(s))
    <3>1. ~(k + i <= Len(x)) /\ (k + i) - Len(x) = i - Len(s)
      BY <1>1, <1>6, <2>3
    <3>. QED  BY <1>2, <1>5, <2>1, <2>3, <3>1
  <2>. QED  BY <2>2, <2>3
<1>8. r = t
  BY <1>4, <1>5, <1>6, <1>7, SeqEqual
<1>. QED  BY <1>8 DEF r, t, s, z

LEMMA AfterAll ==
  ASSUME NEW S, NEW x \in Seq(S), NEW k \in Nat, Len(x) <= k
  PROVE  Follow!After(x, k) = <<>>
<1>1. Len(x) \in Nat /\ Len(x) < k + 1
  OBVIOUS
<1>. QED  BY <1>1, SubSeqEmpty DEF Follow!After

\* Bytes, and what a line is made of.
Byte == 0 .. MaxBytes \cup {-1}

LEMMA LinesAre ==
  \A l : l \in Follow!Lines <=> l \in Seq(Byte) /\ Len(l) <= MaxLogLine
<1>1. ASSUME NEW l \in Follow!Lines
      PROVE  l \in Seq(Byte) /\ Len(l) <= MaxLogLine
  <2>1. PICK n \in 0 .. MaxLogLine : l \in [1 .. n -> Byte]
    BY DEF Follow!Lines, Byte, Follow!Nul
  <2>2. n \in Nat
    BY <2>1, LineSizes
  <2>. QED  BY <2>1, <2>2, LineSizes
<1>2. ASSUME NEW l \in Seq(Byte), Len(l) <= MaxLogLine
      PROVE  l \in Follow!Lines
  <2>1. Len(l) \in 0 .. MaxLogLine /\ l \in [1 .. Len(l) -> Byte]
    BY <1>2, LineSizes
  <2>. QED  BY <2>1 DEF Follow!Lines, Byte, Follow!Nul
<1>. QED  BY <1>1, <1>2

LEMMA ByteSeqs == \A b : b \in Seq(Byte) => b \in Seq(Int)
<1>1. Byte \subseteq Int
  BY LineSizes DEF Byte
<1>. QED  BY <1>1, SeqMonotonic

LEMMA BytesOf ==
  ASSUME NEW b \in Seq(Int), \A i \in 1 .. Len(b) : b[i] \in Byte
  PROVE  b \in Seq(Byte)
OBVIOUS

LEMMA CapType ==
  ASSUME NEW b \in Seq(Byte)
  PROVE  Follow!CapLine(b) \in Follow!Lines /\ Follow!CapLine(b) \in Seq(Byte)
<1>. DEFINE d == Follow!CapLine(b)
<1>0. b \in Seq(Int)
  BY ByteSeqs
<1>1. /\ d \in Seq(Int) /\ Len(d) = IF Len(b) > MaxLogLine THEN MaxLogLine ELSE Len(b)
      /\ \A i \in 1 .. Len(d) : i \in 1 .. Len(b) /\ d[i] = b[i]
  BY <1>0, CapIs
<1>. HIDE DEF d
<1>2. \A i \in 1 .. Len(d) : d[i] \in Byte
  BY <1>1
<1>3. d \in Seq(Byte)
  BY <1>1, <1>2, BytesOf
<1>4. Len(d) <= MaxLogLine
  BY <1>1, LineSizes
<1>. QED  BY <1>3, <1>4, LinesAre DEF d

LEMMA PartType ==
  \A S : \A b \in Seq(S) : \A m \in Nat, n \in Int :
    m # 0 /\ n <= Len(b) => SubSeq(b, m, n) \in Seq(S)
BY PartIs

LEMMA SplitType ==
  ASSUME NEW b \in Seq(Byte)
  PROVE  Follow!SplitLines(b) \in Seq(Follow!Lines)
<1>. DEFINE s == Follow!SplitLines(b)
<1>1. b \in Seq(Int)
  BY ByteSeqs
<1>2. /\ s \in Seq(Seq(Int)) /\ Len(s) = Len(Follow!Breaks(b)) /\ Len(s) \in Nat
      /\ \A k \in 1 .. Len(s) : s[k] = Follow!CapLine(Line(b, k))
  BY <1>1, SplitIs
<1>. HIDE DEF s
<1>3. ASSUME NEW k \in 1 .. Len(s)
      PROVE  s[k] \in Follow!Lines
  <2>1. From(b, k) \in Nat /\ From(b, k) # 0 /\ Follow!Breaks(b)[k] \in 1 .. Len(b)
    BY <1>1, <1>2, LineIs
  <2>2. Follow!Breaks(b)[k] - 1 \in Int /\ Follow!Breaks(b)[k] - 1 <= Len(b)
    BY <2>1
  <2>3. Line(b, k) \in Seq(Byte)
    <3>. DEFINE m == From(b, k)
                n == Follow!Breaks(b)[k] - 1
                B == Byte
    <3>1. m \in Nat /\ m # 0 /\ n \in Int /\ n <= Len(b) /\ b \in Seq(B)
      BY <2>1, <2>2
    <3>. HIDE DEF m, n, B
    <3>2. SubSeq(b, m, n) \in Seq(B)
      BY <3>1, PartType
    <3>. QED  BY <3>2 DEF Line, m, n, B
  <2>4. Follow!CapLine(Line(b, k)) \in Follow!Lines
    BY <2>3, CapType
  <2>. QED  BY <1>2, <2>4
<1>4. \A k \in 1 .. Len(s) : s[k] \in Follow!Lines
  BY <1>3
<1>5. s \in Seq(Follow!Lines)
  <2>1. \A B : \A t \in Seq(Seq(Int)) : (\A k \in 1 .. Len(t) : t[k] \in B) => t \in Seq(B)
    OBVIOUS
  <2>. QED  BY <1>2, <1>4, <2>1
<1>. QED  BY <1>5 DEF s

LEMMA AfterLastType ==
  ASSUME NEW b \in Seq(Byte)
  PROVE  /\ Follow!After(b, Follow!LastBreak(b)) \in Seq(Byte)
         /\ Rest(b) \in Follow!Lines
<1>1. Follow!LastBreak(b) \in Nat
  BY ByteSeqs, LastBreakIs
<1>2. Follow!After(b, Follow!LastBreak(b)) \in Seq(Byte)
  BY <1>1, AfterIs
<1>. QED  BY <1>2, CapType DEF Rest

LEMMA AfterFirstType ==
  ASSUME NEW b \in Seq(Byte), Follow!Breaks(b) # <<>>
  PROVE  Follow!After(b, Follow!FirstBreak(b)) \in Seq(Byte)
<1>1. Follow!FirstBreak(b) \in Nat
  BY ByteSeqs, FirstBreakIs
<1>. QED  BY <1>1, AfterIs

LEMMA NewestIs ==
  ASSUME NEW S, NEW s \in Seq(S), NEW n \in Nat
  PROVE  /\ Follow!Newest(s, n) \in Seq(S)
         /\ Len(Follow!Newest(s, n)) <= Len(s) /\ Len(Follow!Newest(s, n)) \in Nat
         /\ Follow!Newest(s, n) = Follow!After(s, Len(s) - Len(Follow!Newest(s, n)))
<1>. DEFINE k == IF Len(s) > n THEN Len(s) - n ELSE 0
<1>1. k \in Nat /\ k <= Len(s) /\ Len(s) \in Nat
  OBVIOUS
<1>2. Follow!Newest(s, n) = Follow!After(s, k)
  BY DEF Follow!Newest
<1>. HIDE DEF k
<1>3. Follow!After(s, k) \in Seq(S) /\ Len(Follow!After(s, k)) = IF k <= Len(s) THEN Len(s) - k ELSE 0
  BY <1>1, AfterIs
<1>4. Len(Follow!After(s, k)) = Len(s) - k
  BY <1>1, <1>3
<1>5. Len(s) - (Len(s) - k) = k /\ Len(s) - k \in Nat /\ Len(s) - k <= Len(s)
  BY <1>1
<1>. QED  BY <1>2, <1>3, <1>4, <1>5

\* A byte that is shown is one of the text, before its last newline.
LEMMA BytesShown ==
  ASSUME NEW b \in Seq(Int), NEW k \in 1 .. Len(Follow!SplitLines(b)),
         NEW c \in Follow!Range(Follow!SplitLines(b)[k])
  PROVE  \E i \in 1 .. Len(b) : i <= Follow!LastBreak(b) /\ b[i] = c /\ c # 0
<1>. DEFINE l == Line(b, k)
            d == Follow!CapLine(l)
            e == Follow!Breaks(b)[k]
<1>1. /\ From(b, k) \in Nat /\ From(b, k) # 0
      /\ e \in 1 .. Len(b) /\ e <= Follow!LastBreak(b)
      /\ \A i \in From(b, k) .. e - 1 : i \in 1 .. Len(b) /\ b[i] # 0
      /\ l \in Seq(Int)
  <2>1. k \in 1 .. Len(Follow!Breaks(b))
    BY SplitIs
  <2>. QED  BY <2>1, LineIs
<1>2. Follow!SplitLines(b)[k] = d
  BY SplitIs
<1>3. /\ d \in Seq(Int)
      /\ \A i \in 1 .. Len(d) : i \in 1 .. Len(l) /\ d[i] = l[i]
  BY <1>1, CapIs
<1>4. /\ Len(l) = IF From(b, k) <= e - 1 THEN e - 1 - From(b, k) + 1 ELSE 0
      /\ \A i \in 1 .. e - 1 - From(b, k) + 1 : l[i] = b[From(b, k) + i - 1]
  <2>1. e - 1 \in Int /\ e - 1 <= Len(b)
    BY <1>1
  <2>2. l = SubSeq(b, From(b, k), e - 1)
    BY DEF Line
  <2>. HIDE DEF e, l
  <2>. QED  BY <1>1, <2>1, <2>2, PartIs, SMTT(30)
<1>5. PICK j \in 1 .. Len(d) : c = d[j]
  <2>1. DOMAIN d = 1 .. Len(d)
    BY <1>3
  <2>. HIDE DEF d
  <2>. QED  BY <1>2, <2>1 DEF Follow!Range
<1>. HIDE DEF l, d, e
<1>6. j \in 1 .. Len(l) /\ c = l[j]
  BY <1>3, <1>5
<1>7. j \in 1 .. e - 1 - From(b, k) + 1 /\ From(b, k) + j - 1 \in From(b, k) .. e - 1
  <2>1. Len(b) \in Nat /\ e \in Nat
    BY <1>1
  <2>2. /\ From(b, k) \in Nat /\ From(b, k) # 0 /\ j \in 1 .. Len(l)
        /\ Len(l) = IF From(b, k) <= e - 1 THEN e - 1 - From(b, k) + 1 ELSE 0
    BY <1>1, <1>4, <1>6
  <2>3. From(b, k) <= e - 1
    BY <2>1, <2>2
  <2>4. Len(l) = e - 1 - From(b, k) + 1
    BY <2>2, <2>3
  <2>. QED  BY <2>1, <2>2, <2>4
<1>8. c = b[From(b, k) + j - 1]
  BY <1>4, <1>6, <1>7
<1>9. From(b, k) + j - 1 <= Follow!LastBreak(b)
  <2>1. Follow!LastBreak(b) \in Nat /\ e \in Nat
    BY <1>1, LastBreakIs
  <2>. QED  BY <1>1, <1>7, <2>1
<1>. QED  BY <1>1, <1>7, <1>8, <1>9

LEMMA GreatestElement ==
  \A S \in SUBSET Int : S # {} /\ (\E n \in Int : \A x \in S : x <= n) =>
    \E m \in S : \A x \in S : x <= m
<1>. SUFFICES ASSUME NEW S \in SUBSET Int, S # {}, NEW n \in Int, \A x \in S : x <= n
              PROVE  \E m \in S : \A x \in S : x <= m
  OBVIOUS
<1>. DEFINE T == {n - x : x \in S}
<1>1. T \in SUBSET Nat /\ T # {}
  <2>1. \A x \in S : n - x \in Nat
    OBVIOUS
  <2>. QED  BY <2>1
<1>. HIDE DEF T
<1>2. PICK t \in T : \A u \in T : t <= u
  BY <1>1, LeastElement
<1>3. PICK m \in S : t = n - m
  BY DEF T
<1>4. \A x \in S : n - x \in T
  BY DEF T
<1>5. \A x \in S : x <= m
  BY <1>2, <1>3, <1>4
<1>. QED  BY <1>5

-----------------------------------------------------------------------------
(* The types of a followed log.                                            *)

SameFile == f.ok /\ ~start.other /\ born[start.inode] = start.born

\* open comes first and once; what was found is a file, and what was read is in it.
OpenInv ==
  /\ (reader \in {"new", "opening", "sized"} => ~f.ok) /\ (reader = "polled" => f.ok)
  /\ ~f.ok => ~f.skip
  /\ reader = "sized" => /\ st.inode \in Inodes /\ start.born <= born[st.inode]
                         /\ born[st.inode] = start.born => st.size <= Len(content[st.inode])
  /\ f.ok => start.inode \in Inodes /\ start.born <= born[start.inode] /\ f.info = start.inode
  /\ SameFile => f.off <= Len(content[start.inode])
  /\ \A i \in Inodes : Len(content[i]) <= count.bytes

FollowType == Follow!TypeOK /\ OpenInv

\* What the world does to files: as long as one is the same, it grows.
Grown ==
  \A i \in Inodes :
    /\ born[i] <= born'[i]
    /\ born'[i] = born[i] => /\ Len(content[i]) <= Len(content'[i])
                             /\ \A k \in 1 .. Len(content[i]) : content'[i][k] = content[i][k]

LEMMA FilesAre ==
  ASSUME Follow!TypeOK, NEW i \in Inodes
  PROVE  /\ content[i] \in Seq(0 .. MaxBytes) /\ content[i] \in Seq(Byte) /\ content[i] \in Seq(Int)
         /\ Len(content[i]) \in Nat /\ born[i] \in Nat
<1>1. content[i] \in Seq(0 .. MaxBytes) /\ born[i] \in Nat
  BY DEF Follow!TypeOK
<1>2. 0 .. MaxBytes \subseteq Byte
  BY DEF Byte
<1>3. content[i] \in Seq(Byte)
  BY <1>1, <1>2, SeqMonotonic
<1>. QED  BY <1>1, <1>3, ByteSeqs

LEMMA WorldStep ==
  ASSUME FollowType,
         Follow!WriteByte \/ Follow!Truncate \/ Follow!MoveAway \/ \E i \in Inodes : Follow!Create(i)
  PROVE  /\ UNCHANGED <<reader, f, st, feed, start, told>>
         /\ path' \in Inodes \cup {0} /\ content' \in [Inodes -> Seq(0 .. MaxBytes)]
         /\ born' \in [Inodes -> Nat]
         /\ count' \in [bytes : 0 .. MaxBytes, swaps : 0 .. MaxSwaps, fails : 0 .. MaxFails]
         /\ \A i \in Inodes : Len(content'[i]) <= count'.bytes
         /\ Grown
<1>1. /\ path \in Inodes \cup {0} /\ content \in [Inodes -> Seq(0 .. MaxBytes)]
      /\ born \in [Inodes -> Nat]
      /\ count \in [bytes : 0 .. MaxBytes, swaps : 0 .. MaxSwaps, fails : 0 .. MaxFails]
      /\ \A i \in Inodes : Len(content[i]) <= count.bytes
  BY DEF FollowType, OpenInv, Follow!TypeOK
<1>2. count.bytes \in 0 .. MaxBytes /\ count.swaps \in 0 .. MaxSwaps /\ MaxBytes \in Nat /\ MaxSwaps \in Nat
  BY <1>1, BotsAssumption DEF Follow!FollowAssumption
<1>3. \A i \in Inodes : content[i] \in Seq(0 .. MaxBytes) /\ Len(content[i]) \in Nat /\ born[i] \in Nat
  BY FilesAre DEF FollowType
<1>4. CASE Follow!WriteByte
  <2>1. /\ path \in Inodes /\ count.bytes < MaxBytes
        /\ count' = [count EXCEPT !.bytes = @ + 1]
        /\ UNCHANGED <<path, born, reader, f, st, feed, start, told>>
    BY <1>1, <1>4 DEF Follow!WriteByte, Follow!reader
  <2>2. PICK b \in {0, count.bytes + 1} : content' = [content EXCEPT ![path] = Append(@, b)]
    BY <1>4 DEF Follow!WriteByte, Follow!Newline
  <2>3. count.bytes + 1 \in 0 .. MaxBytes /\ b \in 0 .. MaxBytes
    BY <1>2, <2>1
  <2>4. /\ count' \in [bytes : 0 .. MaxBytes, swaps : 0 .. MaxSwaps, fails : 0 .. MaxFails]
        /\ count'.bytes = count.bytes + 1
    BY <1>1, <2>1, <2>3
  <2>5. /\ Append(content[path], b) \in Seq(0 .. MaxBytes)
        /\ Len(Append(content[path], b)) = Len(content[path]) + 1
        /\ \A k \in 1 .. Len(content[path]) : Append(content[path], b)[k] = content[path][k]
    BY <1>3, <2>1, <2>3, AppendProperties
  <2>6. \A i \in Inodes : content'[i] = IF i = path THEN Append(content[path], b) ELSE content[i]
    BY <1>1, <2>2
  <2>7. content' \in [Inodes -> Seq(0 .. MaxBytes)]
    BY <1>1, <2>1, <2>2, <2>5
  <2>8. \A i \in Inodes : Len(content[i]) <= Len(content'[i]) /\ Len(content'[i]) <= count.bytes + 1
    <3>. SUFFICES ASSUME NEW i \in Inodes
                  PROVE  Len(content[i]) <= Len(content'[i]) /\ Len(content'[i]) <= count.bytes + 1
      OBVIOUS
    <3>1. Len(content'[i]) = Len(content[i]) + 1 \/ Len(content'[i]) = Len(content[i])
      BY <2>5, <2>6
    <3>. QED  BY <1>1, <1>2, <1>3, <3>1
  <2>9. \A i \in Inodes : \A k \in 1 .. Len(content[i]) : content'[i][k] = content[i][k]
    BY <2>5, <2>6
  <2>10. Grown
    <3>1. \A i \in Inodes : born[i] <= born'[i]
      BY <1>3, <2>1
    <3>. QED  BY <2>8, <2>9, <3>1 DEF Grown
  <2>. QED  BY <1>1, <2>1, <2>4, <2>7, <2>8, <2>10
<1>5. ASSUME NEW i \in Inodes, content' = [content EXCEPT ![i] = <<>>], born' = [born EXCEPT ![i] = @ + 1],
             count'.bytes = count.bytes
      PROVE  /\ content' \in [Inodes -> Seq(0 .. MaxBytes)] /\ born' \in [Inodes -> Nat]
             /\ \A j \in Inodes : Len(content'[j]) <= count'.bytes
             /\ Grown
  <2>1. content' \in [Inodes -> Seq(0 .. MaxBytes)] /\ born' \in [Inodes -> Nat]
    <3>1. <<>> \in Seq(0 .. MaxBytes) /\ born[i] + 1 \in Nat
      BY <1>3
    <3>. QED  BY <1>1, <1>5, <3>1
  <2>2. \A j \in Inodes : j # i => content'[j] = content[j] /\ born'[j] = born[j]
    BY <1>1, <1>5
  <2>3. content'[i] = <<>> /\ born'[i] = born[i] + 1 /\ Len(<<>>) = 0
    BY <1>1, <1>5
  <2>4. \A j \in Inodes : Len(content'[j]) <= count'.bytes
    <3>. SUFFICES ASSUME NEW j \in Inodes PROVE Len(content'[j]) <= count'.bytes
      OBVIOUS
    <3>1. Len(content'[j]) = 0 \/ Len(content'[j]) = Len(content[j])
      BY <2>2, <2>3
    <3>. QED  BY <1>1, <1>2, <1>5, <3>1
  <2>5. ASSUME NEW j \in Inodes
        PROVE  /\ born[j] <= born'[j]
               /\ born'[j] = born[j] => /\ Len(content[j]) <= Len(content'[j])
                                        /\ \A k \in 1 .. Len(content[j]) : content'[j][k] = content[j][k]
    <3>1. CASE j = i
      <4>1. born[j] < born'[j]
        BY <1>3, <2>3, <3>1
      <4>. QED  BY <1>3, <2>3, <3>1, <4>1
    <3>2. CASE j # i
      <4>1. content'[j] = content[j] /\ born'[j] = born[j]
        BY <2>2, <3>2
      <4>. QED  BY <1>3, <4>1
    <3>. QED  BY <3>1, <3>2
  <2>. QED  BY <2>1, <2>4, <2>5 DEF Grown
<1>6. CASE Follow!Truncate
  <2>1. /\ path \in Inodes /\ count.swaps < MaxSwaps /\ count' = [count EXCEPT !.swaps = @ + 1]
        /\ content' = [content EXCEPT ![path] = <<>>] /\ born' = [born EXCEPT ![path] = @ + 1]
        /\ UNCHANGED <<path, reader, f, st, feed, start, told>>
    BY <1>1, <1>6 DEF Follow!Truncate, Follow!reader
  <2>2. count.swaps + 1 \in 0 .. MaxSwaps
    BY <1>2, <2>1
  <2>3. count' \in [bytes : 0 .. MaxBytes, swaps : 0 .. MaxSwaps, fails : 0 .. MaxFails] /\ count'.bytes = count.bytes
    BY <1>1, <2>1, <2>2
  <2>. QED  BY <1>1, <1>5, <2>1, <2>3
<1>7. CASE Follow!MoveAway
  <2>1. /\ count.swaps < MaxSwaps /\ count' = [count EXCEPT !.swaps = @ + 1]
        /\ path' = 0 /\ UNCHANGED <<content, born, reader, f, st, feed, start, told>>
    BY <1>7 DEF Follow!MoveAway, Follow!reader
  <2>2. count.swaps + 1 \in 0 .. MaxSwaps
    BY <1>2, <2>1
  <2>3. count' \in [bytes : 0 .. MaxBytes, swaps : 0 .. MaxSwaps, fails : 0 .. MaxFails] /\ count'.bytes = count.bytes
    BY <1>1, <2>1, <2>2
  <2>4. Grown
    <3>1. \A i \in Inodes : born[i] <= born'[i] /\ Len(content[i]) <= Len(content'[i])
      BY <1>3, <2>1
    <3>. QED  BY <2>1, <3>1 DEF Grown
  <2>. QED  BY <1>1, <2>1, <2>3, <2>4
<1>8. CASE \E i \in Inodes : Follow!Create(i)
  <2>1. PICK i \in Inodes : Follow!Create(i)
    BY <1>8
  <2>2. /\ path' = i /\ content' = [content EXCEPT ![i] = <<>>] /\ born' = [born EXCEPT ![i] = @ + 1]
        /\ UNCHANGED <<count, reader, f, st, feed, start, told>>
    BY <2>1 DEF Follow!Create, Follow!reader
  <2>. QED  BY <1>1, <1>5, <2>2
<1>. QED  BY <1>4, <1>6, <1>7, <1>8

Shown(lines) == UNION {Follow!Range(lines[k]) : k \in 1 .. Len(lines)}

Telling == [top : 0 .. MaxBytes, again : BOOLEAN, swapped : BOOLEAN]

LEMMA ShownAre ==
  ASSUME NEW lines \in Seq(Follow!Lines)
  PROVE  Shown(lines) \subseteq Byte
<1>. SUFFICES ASSUME NEW k \in 1 .. Len(lines), NEW c \in Follow!Range(lines[k])
              PROVE  c \in Byte
  BY DEF Shown
<1>1. lines[k] \in Follow!Lines
  BY ElementOfSeq
<1>2. lines[k] \in Seq(Byte)
  BY <1>1, LinesAre
<1>3. PICK j \in 1 .. Len(lines[k]) : c = lines[k][j]
  BY <1>2 DEF Follow!Range
<1>. QED  BY <1>2, <1>3, ElementOfSeq

\* The greatest byte that was told, and whether one came again.
LEMMA TellIs ==
  ASSUME NEW lines \in Seq(Follow!Lines), NEW other \in BOOLEAN, told \in Telling,
         Follow!Tell(lines, other)
  PROVE  /\ told' \in Telling
         /\ told'.top = told.top \/ told'.top \in Shown(lines)
         /\ told.top <= told'.top /\ \A c \in Shown(lines) : c <= told'.top
         /\ told'.again <=> told.again \/ \E c \in Shown(lines) : c <= told.top
         /\ told'.swapped <=> told.swapped \/ other
<1>. DEFINE B == Shown(lines)
            top == CHOOSE m \in B \cup {told.top} : \A b \in B \cup {told.top} : b <= m
<1>1. told' = [top     |-> top,
               again   |-> told.again \/ \E b \in B : b <= told.top,
               swapped |-> told.swapped \/ other]
  BY DEF Follow!Tell, Shown
<1>2. B \subseteq Byte /\ MaxBytes \in Nat
  BY ShownAre, LineSizes
<1>. HIDE DEF B
<1>3. told.top \in 0 .. MaxBytes /\ told.again \in BOOLEAN /\ told.swapped \in BOOLEAN
  BY DEF Telling
<1>4. \E m \in B \cup {told.top} : \A b \in B \cup {told.top} : b <= m
  <2>. DEFINE S == B \cup {told.top}
  <2>1. S \in SUBSET Int /\ S # {} /\ MaxBytes \in Int
    <3>1. Byte \subseteq Int /\ told.top \in Int /\ MaxBytes \in Int
      BY <1>2, <1>3 DEF Byte
    <3>2. S \subseteq Int
      BY <1>2, <3>1
    <3>. QED  BY <3>1, <3>2
  <2>2. \A b \in S : b <= MaxBytes
    <3>1. \A b \in Byte : b <= MaxBytes
      BY <1>2 DEF Byte
    <3>2. told.top <= MaxBytes
      BY <1>2, <1>3
    <3>. QED  BY <1>2, <3>1, <3>2
  <2>. HIDE DEF S
  <2>3. \E m \in S : \A b \in S : b <= m
    BY <2>1, <2>2, GreatestElement
  <2>. QED  BY <2>3 DEF S
<1>5. top \in B \cup {told.top} /\ \A b \in B \cup {told.top} : b <= top
  <2>. DEFINE S == B \cup {told.top}
              P(m) == \A b \in S : b <= m
  <2>1. \E m \in S : P(m)
    BY <1>4
  <2>2. top = CHOOSE m \in S : P(m)
    OBVIOUS
  <2>. HIDE DEF S, P
  <2>3. (CHOOSE m \in S : P(m)) \in S /\ P(CHOOSE m \in S : P(m))
    BY <2>1
  <2>4. top \in S /\ P(top)
    <3>. HIDE DEF top
    <3>. QED  BY <2>2, <2>3
  <2>. QED  BY <2>4 DEF S, P
<1>. HIDE DEF top
<1>6. top \in 0 .. MaxBytes
  BY <1>2, <1>3, <1>5 DEF Byte
<1>7. /\ told'.top = top
      /\ told'.again <=> told.again \/ \E b \in B : b <= told.top
      /\ told'.swapped <=> told.swapped \/ other
  <2>. DEFINE again   == told.again \/ \E b \in B : b <= told.top
              swapped == told.swapped \/ other
  <2>1. told' = [top |-> top, again |-> again, swapped |-> swapped]
    BY <1>1
  <2>. HIDE DEF again, swapped
  <2>2. told'.top = top /\ told'.again = again /\ told'.swapped = swapped
    BY <2>1
  <2>. QED  BY <2>2, Zenon DEF again, swapped
<1>8. told' \in Telling
  <2>1. (told.again \/ \E b \in B : b <= told.top) \in BOOLEAN /\ (told.swapped \/ other) \in BOOLEAN
    BY Zenon
  <2>. QED  BY <1>1, <1>6, <2>1 DEF Telling
<1>. QED  BY <1>5, <1>7, <1>8 DEF B

\* What is kept of a reader's types when the files are left alone.
Reading == [ok : BOOLEAN, off : 0 .. MaxBytes, partial : Follow!Lines, info : Inodes \cup {0},
            missing : BOOLEAN, skip : BOOLEAN]
Stats   == [inode : Inodes \cup {0}, size : 0 .. MaxBytes]
Starts  == [inode : Inodes \cup {0}, born : Nat, skipped : Nat, cut : BOOLEAN, other : BOOLEAN]
Counts  == [bytes : 0 .. MaxBytes, swaps : 0 .. MaxSwaps, fails : 0 .. MaxFails]

LEMMA ReaderTypes ==
  Follow!TypeOK <=>
    /\ path \in Inodes \cup {0} /\ content \in [Inodes -> Seq(0 .. MaxBytes)]
    /\ born \in [Inodes -> Nat] /\ count \in Counts
    /\ reader \in {"new", "opening", "sized", "idle", "polled"}
    /\ f \in Reading /\ st \in Stats /\ feed \in Seq(Follow!Lines)
    /\ start \in Starts /\ told \in Telling
BY DEF Follow!TypeOK, Counts, Reading, Stats, Starts, Telling

LEMMA TypesNow ==
  ASSUME FollowType
  PROVE  /\ path \in Inodes \cup {0} /\ content \in [Inodes -> Seq(0 .. MaxBytes)]
         /\ born \in [Inodes -> Nat] /\ count \in Counts
         /\ reader \in {"new", "opening", "sized", "idle", "polled"}
         /\ f \in Reading /\ st \in Stats /\ feed \in Seq(Follow!Lines)
         /\ start \in Starts /\ told \in Telling
BY ReaderTypes DEF FollowType

LEMMA TypesNext ==
  ASSUME path' \in Inodes \cup {0}, content' \in [Inodes -> Seq(0 .. MaxBytes)],
         born' \in [Inodes -> Nat], count' \in Counts,
         reader' \in {"new", "opening", "sized", "idle", "polled"},
         f' \in Reading, st' \in Stats, feed' \in Seq(Follow!Lines),
         start' \in Starts, told' \in Telling
  PROVE  Follow!TypeOK'
BY DEF Follow!TypeOK, Counts, Reading, Stats, Starts, Telling

LEMMA FailsIs ==
  ASSUME count \in Counts, Follow!Fails \/ UNCHANGED count
  PROVE  count' \in Counts /\ count'.bytes = count.bytes
<1>1. CASE Follow!Fails
  <2>1. /\ count.fails \in 0 .. MaxFails /\ count.fails < MaxFails /\ MaxFails \in Nat
        /\ count' = [count EXCEPT !.fails = @ + 1]
    BY <1>1, BotsAssumption DEF Follow!Fails, Counts, Follow!FollowAssumption
  <2>2. count.fails + 1 \in 0 .. MaxFails
    BY <2>1
  <2>. QED  BY <2>1, <2>2 DEF Counts
<1>. QED  BY <1>1

\* A step that leaves the files alone, and how far they were read.
LEMMA QuietStep ==
  ASSUME FollowType, UNCHANGED <<path, content, born>>, count' \in Counts, count'.bytes = count.bytes,
         reader' \in {"opening", "idle"}, reader' = "opening" => ~f.ok,
         f' \in Reading, f'.ok = f.ok, f'.skip = f.skip, f'.info = f.info, f'.off = f.off,
         st' \in Stats, UNCHANGED <<feed, start, told>>
  PROVE  FollowType'
<1>1. Follow!TypeOK'
  BY TypesNow, TypesNext
<1>2. OpenInv'
  BY DEF FollowType, OpenInv, SameFile
<1>. QED  BY <1>1, <1>2 DEF FollowType

LEMMA OpeningType ==
  ASSUME FollowType, Follow!OpenFails \/ Follow!OpenStat \/ Follow!PollFails
  PROVE  FollowType'
<1>1. Follow!TypeOK /\ OpenInv /\ count \in Counts /\ f \in Reading /\ st \in Stats
  BY ReaderTypes DEF FollowType
<1>2. CASE Follow!OpenFails
  <2>1. /\ reader \in {"new", "opening"} /\ reader' = "idle"
        /\ UNCHANGED <<path, content, born, st, feed, start, told>>
        /\ Follow!Fails \/ UNCHANGED count
        /\ f' = f \/ f' = [f EXCEPT !.missing = (reader = "new")]
    BY <1>2 DEF Follow!OpenFails, Follow!disk, Follow!spoken
  <2>2. (reader = "new") \in BOOLEAN
    OBVIOUS
  <2>3. f' \in Reading /\ f'.ok = f.ok /\ f'.skip = f.skip /\ f'.info = f.info /\ f'.off = f.off
    BY <1>1, <2>1, <2>2 DEF Reading
  <2>4. count' \in Counts /\ count'.bytes = count.bytes
    BY <1>1, <2>1, FailsIs
  <2>5. reader' \in {"opening", "idle"} /\ (reader' = "opening" => ~f.ok) /\ st' \in Stats
    BY <1>1, <2>1
  <2>. QED  BY <2>1, <2>3, <2>4, <2>5, QuietStep
<1>3. CASE Follow!OpenStat
  <2>1. /\ reader = "new" /\ reader' = "opening" /\ UNCHANGED <<path, content, born, count, f, st, feed, start, told>>
    BY <1>3 DEF Follow!OpenStat, Follow!disk, Follow!spoken
  <2>2. ~f.ok
    BY <1>1, <2>1 DEF OpenInv
  <2>. QED  BY <1>1, <2>1, <2>2, QuietStep
<1>4. CASE Follow!PollFails
  <2>1. /\ reader' = "idle" /\ UNCHANGED <<path, content, born, f, st, feed, start, told>>
        /\ Follow!Fails \/ UNCHANGED count
    BY <1>4 DEF Follow!PollFails, Follow!disk, Follow!spoken
  <2>2. count' \in Counts /\ count'.bytes = count.bytes
    BY <1>1, <2>1, FailsIs
  <2>. QED  BY <1>1, <2>1, <2>2, QuietStep
<1>. QED  BY <1>2, <1>3, <1>4

\* What open's ReadAt returns from byte o on, and what it read the size of.
ReadFrom(o) == [i \in 1 .. (st.size - o) |->
                  IF o + i <= Len(content[st.inode]) THEN content[st.inode][o + i] ELSE -1]

WindowStart == IF st.size > Window THEN st.size - Window ELSE 0

Now == SubSeq(content[st.inode], 1, st.size)

LEMMA OpenBytesIs ==
  Follow!OpenBytes =
    IF WindowStart = 0 THEN ReadFrom(0)
    ELSE IF Follow!Breaks(ReadFrom(WindowStart)) = <<>> THEN <<>>
    ELSE Follow!After(ReadFrom(WindowStart), Follow!FirstBreak(ReadFrom(WindowStart)))
<1>1. CASE WindowStart = 0
  BY <1>1 DEF Follow!OpenBytes, ReadFrom, WindowStart, Follow!Nul
<1>2. CASE WindowStart # 0
  BY <1>2 DEF Follow!OpenBytes, ReadFrom, WindowStart, Follow!Nul
<1>. QED  BY <1>1, <1>2

LEMMA ReadFromType ==
  ASSUME FollowType, reader = "sized", NEW o \in 0 .. st.size
  PROVE  ReadFrom(o) \in Seq(Byte) /\ Len(ReadFrom(o)) = st.size - o
<1>. DEFINE c == content[st.inode]
            n == st.size - o
<1>1. c \in Seq(Byte) /\ Len(c) \in Nat
  BY FilesAre DEF FollowType, OpenInv
<1>2. st.size \in Nat /\ n \in Nat
  <2>1. st \in Stats /\ MaxBytes \in Nat
    BY TypesNow, LineSizes
  <2>2. st.size \in 0 .. MaxBytes
    BY <2>1 DEF Stats
  <2>. QED  BY <2>1, <2>2
<1>3. ReadFrom(o) = [i \in 1 .. n |-> IF o + i <= Len(c) THEN c[o + i] ELSE -1]
  BY DEF ReadFrom
<1>. HIDE DEF c, n
<1>4. \A i \in 1 .. n : (IF o + i <= Len(c) THEN c[o + i] ELSE -1) \in Byte
  <2>. SUFFICES ASSUME NEW i \in 1 .. n
                PROVE  (IF o + i <= Len(c) THEN c[o + i] ELSE -1) \in Byte
    OBVIOUS
  <2>1. o + i <= Len(c) => o + i \in 1 .. Len(c)
    BY <1>1, <1>2
  <2>2. o + i <= Len(c) => c[o + i] \in Byte
    BY <1>1, <2>1, ElementOfSeq
  <2>3. -1 \in Byte
    BY DEF Byte
  <2>. QED  BY <2>2, <2>3
<1>5. ReadFrom(o) \in Seq(Byte) /\ Len(ReadFrom(o)) = n
  BY <1>2, <1>3, <1>4
<1>. QED  BY <1>5 DEF n

LEMMA WindowStartIs ==
  ASSUME FollowType
  PROVE  /\ WindowStart \in 0 .. st.size /\ st.size \in Nat
         /\ WindowStart = 0 <=> ~(st.size > Window)
<1>1. st \in Stats
  BY ReaderTypes DEF FollowType
<1>2. st.size \in 0 .. MaxBytes /\ MaxBytes \in Nat /\ Window \in Nat /\ Window # 0
  BY <1>1, LineSizes DEF Stats
<1>. QED  BY <1>2 DEF WindowStart

LEMMA OpenBytesType ==
  ASSUME FollowType, reader = "sized"
  PROVE  Follow!OpenBytes \in Seq(Byte)
<1>1. 0 \in 0 .. st.size /\ WindowStart \in 0 .. st.size
  BY WindowStartIs
<1>2. ReadFrom(0) \in Seq(Byte) /\ ReadFrom(WindowStart) \in Seq(Byte)
  BY <1>1, ReadFromType
<1>3. Follow!Breaks(ReadFrom(WindowStart)) # <<>> =>
        Follow!After(ReadFrom(WindowStart), Follow!FirstBreak(ReadFrom(WindowStart))) \in Seq(Byte)
  BY <1>2, AfterFirstType
<1>4. <<>> \in Seq(Byte)
  OBVIOUS
<1>. QED  BY <1>2, <1>3, <1>4, OpenBytesIs

\* What open finds in a file that stays the same.
LEMMA OpenFinds ==
  ASSUME FollowType, reader = "sized", born[st.inode] = start.born
  PROVE  /\ Now \in Seq(Byte) /\ Len(Now) = st.size
         /\ \A i \in 1 .. st.size : Now[i] = content[st.inode][i]
         /\ \E k \in 0 .. st.size : Follow!OpenBytes = Follow!After(Now, k)
         /\ \E h \in Seq(Seq(Int)) :
              Follow!SplitLines(Now) = h \o Follow!SplitLines(Follow!OpenBytes)
         /\ \/ Rest(Now) = Rest(Follow!OpenBytes)
            \/ /\ st.size > Window /\ Follow!OpenBytes = <<>>
               /\ st.size > 0 /\ Now[st.size] # 0
<1>. DEFINE c == content[st.inode]
            s == st.size
            o == WindowStart
            b == ReadFrom(o)
            buf == Follow!OpenBytes
<1>1. c \in Seq(Byte) /\ Len(c) \in Nat /\ s \in Nat /\ s <= Len(c) /\ o \in 0 .. s /\ (o = 0 <=> ~(s > Window))
  BY FilesAre, WindowStartIs DEF FollowType, OpenInv
<1>2. Now \in Seq(Byte) /\ Len(Now) = s /\ \A i \in 1 .. s : Now[i] = c[i]
  <2>1. Now = SubSeq(c, 1, s)
    BY DEF Now
  <2>. HIDE DEF c, s
  <2>2. /\ SubSeq(c, 1, s) \in Seq(Byte)
        /\ Len(SubSeq(c, 1, s)) = IF 1 <= s THEN s - 1 + 1 ELSE 0
        /\ \A i \in 1 .. s - 1 + 1 : SubSeq(c, 1, s)[i] = c[1 + i - 1]
    BY <1>1, PartIs
  <2>3. (IF 1 <= s THEN s - 1 + 1 ELSE 0) = s /\ \A i \in 1 .. s : i \in 1 .. s - 1 + 1 /\ 1 + i - 1 = i
    BY <1>1
  <2>. QED  BY <2>1, <2>2, <2>3
<1>3. b \in Seq(Byte) /\ Len(b) = s - o
  BY <1>1, ReadFromType
<1>4. \A i \in 1 .. s - o : o + i \in 1 .. s /\ b[i] = Now[o + i]
  <2>. SUFFICES ASSUME NEW i \in 1 .. s - o
                PROVE  o + i \in 1 .. s /\ b[i] = Now[o + i]
    OBVIOUS
  <2>1. o + i \in 1 .. s /\ o + i <= Len(c)
    <3>. HIDE DEF c, s, o
    <3>. QED  BY <1>1
  <2>2. b[i] = IF o + i <= Len(c) THEN c[o + i] ELSE -1
    BY DEF ReadFrom
  <2>. QED  BY <1>2, <2>1, <2>2
<1>5. buf = IF o = 0 THEN b
            ELSE IF Follow!Breaks(b) = <<>> THEN <<>> ELSE Follow!After(b, Follow!FirstBreak(b))
  BY OpenBytesIs
<1>6. Now \in Seq(Int) /\ b \in Seq(Int)
  BY <1>2, <1>3, ByteSeqs
<1>. HIDE DEF c, s, o, b, buf
<1>7. b = Follow!After(Now, o)
  <2>. DEFINE t == Follow!After(Now, o)
  <2>1. /\ t \in Seq(Int) /\ Len(t) = IF o <= Len(Now) THEN Len(Now) - o ELSE 0
        /\ \A i \in 1 .. Len(Now) - o : o + i \in 1 .. Len(Now) /\ t[i] = Now[o + i]
    <3>1. o \in Nat
      BY <1>1
    <3>. QED  BY <1>6, <3>1, AfterIs
  <2>. HIDE DEF t
  <2>2. Len(t) = Len(b)
    BY <1>1, <1>2, <1>3, <2>1
  <2>3. \A i \in 1 .. Len(b) : b[i] = t[i]
    BY <1>2, <1>3, <1>4, <2>1
  <2>4. b = t
    BY <1>6, <2>1, <2>2, <2>3, SeqEqual
  <2>. QED  BY <2>4 DEF t
<1>8. CASE o = 0
  <2>1. buf = Follow!After(Now, 0) /\ buf = b
    BY <1>5, <1>7, <1>8
  <2>2. b = Now
    <3>1. Len(Now) = Len(b) /\ \A i \in 1 .. Len(b) : b[i] = Now[i]
      <4>1. Len(b) = s /\ \A i \in 1 .. s : i \in 1 .. s - o /\ o + i = i
        BY <1>1, <1>3, <1>8
      <4>. QED  BY <1>2, <1>4, <4>1
    <3>. QED  BY <1>6, <3>1, SeqEqual
  <2>3. <<>> \in Seq(Seq(Int)) /\ Follow!SplitLines(Now) \in Seq(Seq(Int))
    BY <1>6, SplitIs
  <2>4. Follow!SplitLines(Now) = <<>> \o Follow!SplitLines(Now)
    BY <2>3, ConcatEmptySeq
  <2>5. 0 \in 0 .. s
    BY <1>1
  <2>. QED  BY <1>2, <2>1, <2>2, <2>3, <2>4, <2>5 DEF buf, s, c
<1>9. CASE o # 0
  <2>. DEFINE a == SubSeq(Now, 1, o)
  <2>1. a \in Seq(Int) /\ Now = a \o b
    <3>1. /\ o \in Int /\ o <= Len(Now) /\ 1 \in 1 .. Len(Now) + 1
          /\ o \in 1 - 1 .. Len(Now) /\ Len(Now) \in o .. Len(Now)
      BY <1>1, <1>2
    <3>2. SubSeq(Now, 1, o) \in Seq(Int)
      BY <1>6, <3>1, PartIs
    <3>3. SubSeq(Now, 1, o) \o SubSeq(Now, o + 1, Len(Now)) = SubSeq(Now, 1, Len(Now))
      BY <1>6, <3>1, ConcatAdjacentSubSeq
    <3>4. SubSeq(Now, 1, Len(Now)) = Now
      BY <1>6, SubSeqFull
    <3>. QED  BY <1>7, <3>2, <3>3, <3>4 DEF Follow!After
  <2>. HIDE DEF a
  <2>2. CASE Follow!Breaks(b) = <<>>
    <3>1. buf = <<>>
      BY <1>5, <1>9, <2>2
    <3>2. s > Window /\ s > 0
      BY <1>1, <1>9, LineSizes
    <3>3. b[s - o] # 0 /\ s - o \in 1 .. s - o
      <4>1. s - o \in 1 .. s - o /\ Len(b) = s - o
        <5>1. o < s
          BY <1>1, <1>9, LineSizes DEF WindowStart, o, s
        <5>. QED  BY <1>1, <1>3, <5>1
      <4>2. Follow!LastBreak(b) = 0
        BY <2>2 DEF Follow!LastBreak
      <4>3. b[s - o] = 0 => s - o <= 0
        BY <1>6, <4>1, <4>2, LastBreakIs
      <4>4. ~(s - o <= 0)
        BY <4>1
      <4>. QED  BY <4>1, <4>3, <4>4
    <3>4. Now[s] # 0
      <4>1. o + (s - o) = s
        BY <1>1
      <4>. QED  BY <1>4, <3>3, <4>1
    <3>5. buf = Follow!After(Now, s) /\ s \in 0 .. s
      <4>1. s \in Nat /\ Len(Now) <= s
        BY <1>1, <1>2
      <4>. QED  BY <1>1, <1>6, <3>1, <4>1, AfterAll
    <3>6. Follow!SplitLines(buf) = <<>> /\ Follow!SplitLines(Now) \in Seq(Seq(Int))
      BY <1>6, <3>1, EmptyText, SplitIs
    <3>7. Follow!SplitLines(Now) = Follow!SplitLines(Now) \o Follow!SplitLines(buf)
      BY <3>6, ConcatEmptySeq
    <3>. QED  BY <1>2, <3>1, <3>2, <3>4, <3>5, <3>6, <3>7 DEF buf, s, c
  <2>3. CASE Follow!Breaks(b) # <<>>
    <3>. DEFINE p == Follow!FirstBreak(b)
    <3>1. buf = Follow!After(b, p)
      BY <1>5, <1>9, <2>3
    <3>2. p \in 1 .. Len(b)
      BY <1>6, <2>3, FirstBreakIs
    <3>3. PICK l \in Seq(Int) :
            Follow!SplitLines(a \o b) = Append(Follow!SplitLines(a), l) \o Follow!SplitLines(Follow!After(b, p))
      BY <1>6, <2>1, <2>3, FromFirstBreak
    <3>4. Rest(a \o b) = Rest(Follow!After(b, p))
      BY <1>6, <2>1, <2>3, FromFirstBreak
    <3>. HIDE DEF p
    <3>5. Append(Follow!SplitLines(a), l) \in Seq(Seq(Int))
      <4>1. Follow!SplitLines(a) \in Seq(Seq(Int))
        BY <2>1, SplitIs
      <4>. QED  BY <4>1, AppendProperties
    <3>6. o + p \in 0 .. s /\ buf = Follow!After(Now, o + p)
      <4>1. o \in Nat /\ p \in Nat /\ o + p \in Nat /\ o + p <= s /\ Len(b) = Len(Now) - o /\ o <= Len(Now)
        BY <1>1, <1>2, <1>3, <3>2
      <4>. DEFINE t == Follow!After(Now, o + p)
                  u == Follow!After(b, p)
      <4>2. /\ t \in Seq(Int) /\ Len(t) = IF o + p <= Len(Now) THEN Len(Now) - (o + p) ELSE 0
            /\ \A i \in 1 .. Len(Now) - (o + p) : t[i] = Now[(o + p) + i]
        BY <1>6, <4>1, AfterIs
      <4>3. /\ u \in Seq(Int) /\ Len(u) = IF p <= Len(b) THEN Len(b) - p ELSE 0
            /\ \A i \in 1 .. Len(b) - p : p + i \in 1 .. Len(b) /\ u[i] = b[p + i]
        BY <1>6, <4>1, AfterIs
      <4>. HIDE DEF t, u
      <4>4. Len(t) = Len(u) /\ Len(u) = Len(b) - p /\ Len(u) = Len(Now) - (o + p)
        BY <1>2, <3>2, <4>1, <4>2, <4>3
      <4>5. ASSUME NEW i \in 1 .. Len(u)
            PROVE  u[i] = t[i]
        <5>1. u[i] = b[p + i] /\ p + i \in 1 .. Len(b) /\ t[i] = Now[(o + p) + i]
          BY <4>2, <4>3, <4>4
        <5>2. p + i \in 1 .. s - o /\ o + (p + i) = (o + p) + i
          BY <1>3, <4>1, <5>1
        <5>. QED  BY <1>4, <5>1, <5>2
      <4>6. u = t
        BY <4>2, <4>3, <4>4, <4>5, SeqEqual
      <4>7. o + p \in 0 .. s
        BY <1>1, <4>1
      <4>. QED  BY <3>1, <4>6, <4>7 DEF t, u
    <3>. QED  BY <1>2, <2>1, <3>1, <3>3, <3>4, <3>5, <3>6 DEF buf, s, c
  <2>. QED  BY <2>2, <2>3
<1>. QED  BY <1>8, <1>9

LEMMA OpenSizeType ==
  ASSUME FollowType, Follow!OpenSize
  PROVE  FollowType'
<1>1. /\ path \in Inodes /\ reader = "opening" /\ reader' = "sized" /\ ~f.ok
      /\ st' = [inode |-> path, size |-> Len(content[path])]
      /\ start' = [start EXCEPT !.born = born[path]]
      /\ UNCHANGED <<path, content, born, count, f, feed, told>>
  BY DEF FollowType, OpenInv, Follow!TypeOK, Follow!OpenSize, Follow!disk
<1>2. /\ born[path] \in Nat /\ Len(content[path]) \in Nat /\ Len(content[path]) <= count.bytes
      /\ count.bytes \in 0 .. MaxBytes
  BY <1>1, FilesAre, ReaderTypes DEF FollowType, OpenInv, Counts
<1>3. Len(content[path]) \in 0 .. MaxBytes
  BY <1>2, LineSizes
<1>4. st' \in Stats
  BY <1>1, <1>3 DEF Stats
<1>5. start' \in Starts
  BY <1>1, <1>2, ReaderTypes DEF FollowType, Starts
<1>6. Follow!TypeOK'
  BY <1>1, <1>4, <1>5, TypesNow, TypesNext
<1>7. OpenInv'
  <2>1. st'.inode = path /\ st'.size = Len(content[path]) /\ start'.born = born[path]
    BY <1>1, ReaderTypes DEF FollowType, Starts
  <2>. QED  BY <1>1, <1>2, <2>1 DEF FollowType, OpenInv, SameFile
<1>. QED  BY <1>6, <1>7 DEF FollowType

LEMMA OpenReadDoes ==
  ASSUME FollowType, Follow!OpenRead
  PROVE  LET buf   == Follow!OpenBytes
             lines == Follow!Newest(Follow!SplitLines(buf), N)
             same  == born[st.inode] = start.born
         IN  /\ reader = "sized" /\ reader' = "idle" /\ UNCHANGED <<path, content, born, count, st>>
             /\ f' = [f EXCEPT !.ok = TRUE, !.off = st.size, !.info = st.inode, !.partial = Rest(buf)]
             /\ feed' = lines
             /\ start' = [start EXCEPT
                  !.inode = st.inode,
                  !.skipped = IF same THEN Len(Follow!SplitLines(Now)) - Len(lines) ELSE 0,
                  !.cut = same /\ st.size > Window /\ buf = <<>> /\ st.size > 0 /\ Now[st.size] # 0,
                  !.other = ~same]
             /\ Follow!Tell(lines, ~same)
BY DEF Follow!OpenRead, Follow!disk, Rest, Now, Follow!Newline

LEMMA OpenLines ==
  ASSUME FollowType, reader = "sized"
  PROVE  /\ Follow!Newest(Follow!SplitLines(Follow!OpenBytes), N) \in Seq(Follow!Lines)
         /\ Follow!SplitLines(Follow!OpenBytes) \in Seq(Seq(Int))
         /\ Rest(Follow!OpenBytes) \in Follow!Lines
         /\ born[st.inode] = start.born =>
              Len(Follow!SplitLines(Now)) - Len(Follow!Newest(Follow!SplitLines(Follow!OpenBytes), N)) \in Nat
<1>. DEFINE buf == Follow!OpenBytes
            all == Follow!SplitLines(buf)
            lines == Follow!Newest(all, N)
<1>1. buf \in Seq(Byte) /\ buf \in Seq(Int)
  BY OpenBytesType, ByteSeqs
<1>2. all \in Seq(Follow!Lines) /\ all \in Seq(Seq(Int)) /\ Rest(buf) \in Follow!Lines
  BY <1>1, SplitType, SplitIs, AfterLastType
<1>. HIDE DEF buf, all
<1>3. lines \in Seq(Follow!Lines) /\ Len(lines) <= Len(all) /\ Len(lines) \in Nat
  BY <1>2, LineSizes, NewestIs
<1>4. ASSUME born[st.inode] = start.born
      PROVE  Len(Follow!SplitLines(Now)) - Len(lines) \in Nat
  <2>1. PICK h \in Seq(Seq(Int)) : Follow!SplitLines(Now) = h \o all
    BY <1>4, OpenFinds DEF all, buf
  <2>2. Len(h \o all) = Len(h) + Len(all) /\ Len(h) \in Nat /\ Len(all) \in Nat
    BY <1>2, ConcatProperties
  <2>. HIDE DEF lines
  <2>. QED  BY <1>3, <2>1, <2>2
<1>. QED  BY <1>2, <1>3, <1>4 DEF all, buf

LEMMA OpenReadType ==
  ASSUME FollowType, Follow!OpenRead
  PROVE  FollowType'
<1>. DEFINE buf   == Follow!OpenBytes
            lines == Follow!Newest(Follow!SplitLines(buf), N)
            same  == born[st.inode] = start.born
            skip  == IF same THEN Len(Follow!SplitLines(Now)) - Len(lines) ELSE 0
            cut   == same /\ st.size > Window /\ buf = <<>> /\ st.size > 0 /\ Now[st.size] # 0
            other == ~same
<1>1. /\ reader = "sized" /\ reader' = "idle" /\ UNCHANGED <<path, content, born, count, st>>
      /\ f' = [f EXCEPT !.ok = TRUE, !.off = st.size, !.info = st.inode, !.partial = Rest(buf)]
      /\ feed' = lines
      /\ start' = [start EXCEPT !.inode = st.inode, !.skipped = skip, !.cut = cut, !.other = other]
      /\ Follow!Tell(lines, other)
  BY OpenReadDoes
<1>2. /\ lines \in Seq(Follow!Lines) /\ Rest(buf) \in Follow!Lines /\ skip \in Nat
  BY <1>1, OpenLines
<1>3. cut \in BOOLEAN /\ other \in BOOLEAN
  BY Zenon
<1>4. /\ st.inode \in Inodes /\ st.size \in 0 .. MaxBytes /\ ~f.ok /\ ~f.skip
      /\ start.born <= born[st.inode] /\ (same => st.size <= Len(content[st.inode]))
  BY <1>1, ReaderTypes DEF FollowType, OpenInv, Stats
<1>. DEFINE rest == Rest(buf)
<1>5. told' \in Telling
  BY <1>1, <1>2, <1>3, TellIs, ReaderTypes DEF FollowType
<1>6. same <=> ~other
  OBVIOUS
<1>. HIDE DEF rest, buf, lines, skip, cut, other
<1>7. f \in Reading /\ start \in Starts
  BY ReaderTypes DEF FollowType
<1>8. f' = [f EXCEPT !.ok = TRUE, !.off = st.size, !.info = st.inode, !.partial = rest] /\ rest \in Follow!Lines
  BY <1>1, <1>2 DEF rest
<1>9. f' \in Reading /\ f'.ok /\ f'.off = st.size /\ f'.info = st.inode /\ f'.skip = f.skip
  BY <1>4, <1>7, <1>8 DEF Reading
<1>10. start' \in Starts /\ start'.inode = st.inode /\ start'.born = start.born /\ start'.other = other
  BY <1>1, <1>2, <1>3, <1>4, <1>7 DEF Starts
<1>11. Follow!TypeOK'
  BY <1>1, <1>2, <1>5, <1>9, <1>10, TypesNow, TypesNext
<1>12. OpenInv'
  <2>1. SameFile' => same
    BY <1>1, <1>6, <1>10 DEF SameFile
  <2>. QED  BY <1>1, <1>4, <1>9, <1>10, <2>1 DEF FollowType, OpenInv, SameFile
<1>. QED  BY <1>11, <1>12 DEF FollowType

\* The three things poll finds: a file that is followed from here on, one that is
\* new or was made anew, and one that grew.
Joins ==
  LET c == content[path]
  IN  /\ ~f.ok /\ ~f.missing /\ UNCHANGED <<reader, st>>
      /\ f' = [f EXCEPT !.ok = TRUE, !.off = Len(c), !.partial = <<>>, !.info = path]
      /\ feed' = <<>>
      /\ start' = [start EXCEPT !.inode = path, !.born = born[path],
                                !.skipped = Len(Follow!SplitLines(c)),
                                !.cut = Len(c) > 0 /\ Follow!Last(c) # 0, !.other = FALSE]

TailStart == IF Len(content[path]) > LogTail THEN Len(content[path]) - LogTail ELSE 0

Restarts ==
  LET c == content[path]
      o == TailStart
  IN  /\ f.ok \/ f.missing
      /\ Follow!Changed(path, Len(c))
      /\ f' = [f EXCEPT !.ok = TRUE, !.off = o, !.partial = <<>>, !.info = path, !.skip = o > 0]
      /\ feed' = <<>>
      /\ start' = [start EXCEPT !.inode = path, !.born = born[path],
                                !.skipped = Len(Follow!SplitLines(SubSeq(c, 1, o))) + (IF o > 0 THEN 1 ELSE 0),
                                !.cut = FALSE, !.other = FALSE]
      /\ \/ UNCHANGED <<reader, st>>
         \/ reader' = "polled" /\ st' = [inode |-> path, size |-> Len(c)]

ReadsOn ==
  /\ f.ok /\ reader' = "polled" /\ st' = [inode |-> path, size |-> Len(content[path])]
  /\ UNCHANGED <<f, feed, start>>

LEMMA PollStatDoes ==
  ASSUME Follow!TypeOK, Follow!PollStat
  PROVE  /\ reader = "idle" /\ path \in Inodes /\ UNCHANGED <<path, content, born, count, told>>
         /\ Joins \/ Restarts \/ ReadsOn
<1>1. reader = "idle" /\ path \in Inodes /\ UNCHANGED <<path, content, born, count, told>>
  BY DEF Follow!TypeOK, Follow!PollStat, Follow!disk
<1>2. Joins \/ Restarts \/ ReadsOn
  <2>. USE DEF Joins, Restarts, ReadsOn, TailStart
  <2>. QED  BY DEF Follow!PollStat, Follow!Newline
<1>. QED  BY <1>1, <1>2

LEMMA TailStartIs ==
  ASSUME FollowType, path \in Inodes
  PROVE  /\ TailStart \in 0 .. Len(content[path]) /\ TailStart \in 0 .. MaxBytes
         /\ Len(content[path]) \in 0 .. MaxBytes /\ Len(content[path]) \in Nat
<1>1. /\ Len(content[path]) \in Nat /\ Len(content[path]) <= count.bytes /\ count.bytes \in 0 .. MaxBytes
  BY FilesAre, ReaderTypes DEF FollowType, OpenInv, Counts
<1>. QED  BY <1>1, LineSizes DEF TailStart

LEMMA PollStatType ==
  ASSUME FollowType, Follow!PollStat
  PROVE  FollowType'
<1>. DEFINE c == content[path]
<1>1. /\ reader = "idle" /\ path \in Inodes /\ UNCHANGED <<path, content, born, count, told>>
      /\ Joins \/ Restarts \/ ReadsOn
  BY PollStatDoes DEF FollowType
<1>2. /\ Len(c) \in Nat /\ Len(c) \in 0 .. MaxBytes /\ c \in Seq(Int) /\ born[path] \in Nat
      /\ TailStart \in 0 .. Len(c) /\ TailStart \in 0 .. MaxBytes
  BY <1>1, FilesAre, TailStartIs DEF FollowType
<1>3. f \in Reading /\ start \in Starts /\ st \in Stats /\ feed \in Seq(Follow!Lines)
  BY ReaderTypes DEF FollowType
<1>4. <<>> \in Follow!Lines /\ <<>> \in Seq(Follow!Lines)
  <2>1. <<>> \in Seq(Byte)
    OBVIOUS
  <2>2. Len(<<>>) <= MaxLogLine
    <3>1. Len(<<>>) = 0
      OBVIOUS
    <3>. QED  BY <3>1, LineSizes
  <2>3. <<>> \in Follow!Lines
    BY <2>1, <2>2, LinesAre
  <2>. QED  BY <2>3
<1>5. [inode |-> path, size |-> Len(c)] \in Stats
  BY <1>1, <1>2 DEF Stats
<1>6. CASE Joins
  <2>. DEFINE cut == Len(c) > 0 /\ Follow!Last(c) # 0
              skipped == Len(Follow!SplitLines(c))
  <2>1. cut \in BOOLEAN /\ skipped \in Nat
    BY <1>2, SplitIs
  <2>2. /\ ~f.ok /\ UNCHANGED <<reader, st>> /\ feed' = <<>>
        /\ f' = [f EXCEPT !.ok = TRUE, !.off = Len(c), !.partial = <<>>, !.info = path]
        /\ start' = [start EXCEPT !.inode = path, !.born = born[path], !.skipped = skipped,
                                  !.cut = cut, !.other = FALSE]
    BY <1>6 DEF Joins
  <2>. HIDE DEF cut, skipped
  <2>3. f' \in Reading /\ f'.ok /\ f'.off = Len(c) /\ f'.info = path /\ f'.skip = f.skip
    BY <1>1, <1>2, <1>3, <1>4, <2>2 DEF Reading
  <2>4. start' \in Starts /\ start'.inode = path /\ start'.born = born[path]
    BY <1>1, <1>2, <1>3, <2>1, <2>2 DEF Starts
  <2>5. Follow!TypeOK'
    BY <1>1, <1>3, <1>4, <2>2, <2>3, <2>4, TypesNow, TypesNext
  <2>6. OpenInv'
    BY <1>1, <1>2, <2>2, <2>3, <2>4 DEF FollowType, OpenInv, SameFile
  <2>. QED  BY <2>5, <2>6 DEF FollowType
<1>7. CASE Restarts
  <2>. DEFINE o == TailStart
              skip == o > 0
              skipped == Len(Follow!SplitLines(SubSeq(c, 1, o))) + (IF o > 0 THEN 1 ELSE 0)
  <2>1. skip \in BOOLEAN /\ skipped \in Nat
    <3>1. SubSeq(c, 1, o) \in Seq(Int)
      <4>1. o \in Int /\ o <= Len(c)
        BY <1>2
      <4>. HIDE DEF o, c
      <4>. QED  BY <1>2, <4>1, PartIs
    <3>2. Len(Follow!SplitLines(SubSeq(c, 1, o))) \in Nat
      BY <3>1, SplitIs
    <3>. QED  BY <3>2
  <2>2. /\ feed' = <<>>
        /\ f' = [f EXCEPT !.ok = TRUE, !.off = o, !.partial = <<>>, !.info = path, !.skip = skip]
        /\ start' = [start EXCEPT !.inode = path, !.born = born[path], !.skipped = skipped,
                                  !.cut = FALSE, !.other = FALSE]
        /\ \/ UNCHANGED <<reader, st>>
           \/ reader' = "polled" /\ st' = [inode |-> path, size |-> Len(c)]
    BY <1>7 DEF Restarts
  <2>3. o \in 0 .. Len(c) /\ o \in 0 .. MaxBytes
    BY <1>2
  <2>. HIDE DEF o, skip, skipped
  <2>4. f' \in Reading /\ f'.ok /\ f'.off = o /\ f'.info = path
    BY <1>1, <1>3, <1>4, <2>1, <2>2, <2>3 DEF Reading
  <2>5. start' \in Starts /\ start'.inode = path /\ start'.born = born[path]
    BY <1>1, <1>2, <1>3, <2>1, <2>2 DEF Starts
  <2>6. reader' \in {"idle", "polled"} /\ st' \in Stats
    BY <1>1, <1>3, <1>5, <2>2
  <2>7. Follow!TypeOK'
    BY <1>1, <1>4, <2>2, <2>4, <2>5, <2>6, TypesNow, TypesNext
  <2>8. OpenInv'
    <3>1. o <= Len(c)
      BY <1>2, <2>3
    <3>. QED  BY <1>1, <1>2, <2>4, <2>5, <2>6, <3>1 DEF FollowType, OpenInv, SameFile
  <2>. QED  BY <2>7, <2>8 DEF FollowType
<1>8. CASE ReadsOn
  <2>1. f.ok /\ reader' = "polled" /\ st' = [inode |-> path, size |-> Len(c)] /\ UNCHANGED <<f, feed, start>>
    BY <1>8 DEF ReadsOn
  <2>2. Follow!TypeOK'
    BY <1>1, <1>5, <2>1, TypesNow, TypesNext
  <2>3. OpenInv'
    BY <1>1, <2>1 DEF FollowType, OpenInv, SameFile
  <2>. QED  BY <2>2, <2>3 DEF FollowType
<1>. QED  BY <1>1, <1>6, <1>7, <1>8

\* What poll got, with the line that had begun, and what is split of it.
All(got) == f.partial \o got

Kept(got) ==
  IF f.skip /\ Follow!Breaks(All(got)) = <<>> THEN <<>>
  ELSE IF f.skip THEN Follow!After(All(got), Follow!FirstBreak(All(got))) ELSE All(got)

Have ==
  LET want == IF st.size - f.off < MaxLogRead THEN st.size ELSE f.off + MaxLogRead
  IN  IF want < Len(content[path]) THEN want ELSE Len(content[path])

Got == SubSeq(content[path], f.off + 1, Have)

Other == path # start.inode \/ born[path] # start.born

LEMMA PollReadDoes ==
  ASSUME Follow!PollRead
  PROVE  /\ reader = "polled" /\ path # 0 /\ reader' = "idle"
         /\ UNCHANGED <<path, content, born, count, st>>
         /\ f' = [f EXCEPT !.off = @ + Len(Got), !.skip = f.skip /\ Follow!Breaks(All(Got)) = <<>>,
                           !.partial = Rest(Kept(Got))]
         /\ feed' = feed \o Follow!SplitLines(Kept(Got))
         /\ start' = [start EXCEPT !.other = @ \/ Other]
         /\ Follow!Tell(Follow!SplitLines(Kept(Got)), Other)
<1>1. /\ reader = "polled" /\ path # 0 /\ reader' = "idle"
      /\ UNCHANGED <<path, content, born, count, st>>
      /\ start' = [start EXCEPT !.other = @ \/ Other]
      /\ Follow!Take(Got, Other)
  BY DEF Follow!PollRead, Follow!disk, Have, Got, Other
<1>2. ASSUME NEW got, NEW other, Follow!Take(got, other)
      PROVE  /\ f' = [f EXCEPT !.off = @ + Len(got), !.skip = f.skip /\ Follow!Breaks(All(got)) = <<>>,
                               !.partial = Rest(Kept(got))]
             /\ feed' = feed \o Follow!SplitLines(Kept(got))
             /\ Follow!Tell(Follow!SplitLines(Kept(got)), other)
  BY <1>2 DEF Follow!Take, All, Kept, Rest
<1>. QED  BY <1>1, <1>2

LEMMA GotIs ==
  ASSUME FollowType, path \in Inodes
  PROVE  /\ Got \in Seq(Byte) /\ Len(Got) \in Nat /\ f.off + Len(Got) \in 0 .. MaxBytes
         /\ f.off <= Len(content[path]) => f.off + Len(Got) <= Len(content[path])
         /\ \A i \in 1 .. Len(Got) : f.off + i \in 1 .. Len(content[path]) /\ Got[i] = content[path][f.off + i]
<1>. DEFINE c == content[path]
            h == Have
            k == f.off
<1>1. /\ c \in Seq(Byte) /\ Len(c) \in Nat /\ Len(c) \in 0 .. MaxBytes
      /\ k \in 0 .. MaxBytes /\ st.size \in 0 .. MaxBytes /\ MaxLogRead \in Nat
  BY FilesAre, TailStartIs, LineSizes, ReaderTypes DEF FollowType, Reading, Stats
<1>2. h \in Int /\ h <= Len(c)
  BY <1>1 DEF Have
<1>3. Got = SubSeq(c, k + 1, h)
  BY DEF Got
<1>. HIDE DEF c, h, k
<1>4. k + 1 \in Nat /\ k + 1 # 0 /\ MaxBytes \in Nat
  BY <1>1, LineSizes
<1>5. /\ Got \in Seq(Byte)
      /\ Len(Got) = IF k + 1 <= h THEN h - (k + 1) + 1 ELSE 0
      /\ \A i \in 1 .. h - (k + 1) + 1 : Got[i] = c[(k + 1) + i - 1]
  BY <1>1, <1>2, <1>3, <1>4, PartIs
<1>6. /\ Len(Got) \in Nat /\ k + Len(Got) \in 0 .. MaxBytes
      /\ k <= Len(c) => k + Len(Got) <= Len(c)
  <2>1. k + 1 <= h \/ ~(k + 1 <= h)
    OBVIOUS
  <2>2. k + 1 <= h => Len(Got) = h - k
    BY <1>1, <1>2, <1>5
  <2>3. ~(k + 1 <= h) => Len(Got) = 0
    BY <1>5
  <2>. QED  BY <1>1, <1>2, <1>4, <2>1, <2>2, <2>3
<1>7. ASSUME NEW i \in 1 .. Len(Got)
      PROVE  k + i \in 1 .. Len(c) /\ Got[i] = c[k + i]
  <2>1. k + 1 <= h
    BY <1>5
  <2>2. Len(Got) = h - k
    BY <1>1, <1>2, <1>5, <2>1
  <2>3. i \in 1 .. h - (k + 1) + 1 /\ (k + 1) + i - 1 = k + i /\ k + i \in 1 .. Len(c)
    BY <1>1, <1>2, <2>2
  <2>. QED  BY <1>5, <2>3
<1>. QED  BY <1>5, <1>6, <1>7 DEF c, k

LEMMA KeptType ==
  ASSUME FollowType, path \in Inodes
  PROVE  /\ All(Got) \in Seq(Byte) /\ Kept(Got) \in Seq(Byte)
         /\ Follow!SplitLines(Kept(Got)) \in Seq(Follow!Lines) /\ Rest(Kept(Got)) \in Follow!Lines
<1>1. f.partial \in Seq(Byte) /\ Got \in Seq(Byte)
  BY GotIs, LinesAre, ReaderTypes DEF FollowType, Reading
<1>2. All(Got) \in Seq(Byte)
  BY <1>1, ConcatProperties DEF All
<1>3. Kept(Got) \in Seq(Byte)
  <2>1. <<>> \in Seq(Byte)
    OBVIOUS
  <2>2. Follow!Breaks(All(Got)) # <<>> => Follow!After(All(Got), Follow!FirstBreak(All(Got))) \in Seq(Byte)
    BY <1>2, AfterFirstType
  <2>. QED  BY <1>2, <2>1, <2>2 DEF Kept
<1>. QED  BY <1>2, <1>3, SplitType, AfterLastType

LEMMA PollReadType ==
  ASSUME FollowType, Follow!PollRead
  PROVE  FollowType'
<1>. DEFINE lines == Follow!SplitLines(Kept(Got))
            rest  == Rest(Kept(Got))
            skip  == f.skip /\ Follow!Breaks(All(Got)) = <<>>
            off   == f.off + Len(Got)
            other == Other
            swap  == start.other \/ Other
<1>1. /\ reader' = "idle" /\ path # 0 /\ UNCHANGED <<path, content, born, count, st>>
      /\ f' = [f EXCEPT !.off = off, !.skip = skip, !.partial = rest]
      /\ feed' = feed \o lines
      /\ start' = [start EXCEPT !.other = swap]
      /\ Follow!Tell(lines, other)
  BY PollReadDoes
<1>2. f \in Reading /\ start \in Starts /\ path \in Inodes /\ feed \in Seq(Follow!Lines) /\ told \in Telling
  BY <1>1, ReaderTypes DEF FollowType
<1>3. lines \in Seq(Follow!Lines) /\ rest \in Follow!Lines
  BY <1>2, KeptType
<1>4. off \in 0 .. MaxBytes /\ (f.off <= Len(content[path]) => off <= Len(content[path]))
  BY <1>2, GotIs
<1>5. skip \in BOOLEAN /\ other \in BOOLEAN /\ swap \in BOOLEAN
  BY Zenon DEF Other
<1>6. swap <=> start.other \/ path # start.inode \/ born[path] # start.born
  BY Zenon DEF Other
<1>7. told' \in Telling
  BY <1>1, <1>2, <1>3, <1>5, TellIs
<1>. HIDE DEF lines, rest, skip, off, other, swap
<1>8. f' \in Reading /\ f'.ok = f.ok /\ f'.off = off /\ f'.info = f.info /\ f'.skip = skip
  BY <1>1, <1>2, <1>3, <1>4, <1>5 DEF Reading
<1>9. start' \in Starts /\ start'.inode = start.inode /\ start'.born = start.born /\ start'.other = swap
  BY <1>1, <1>2, <1>5 DEF Starts
<1>10. feed' \in Seq(Follow!Lines)
  BY <1>1, <1>2, <1>3, ConcatProperties
<1>11. Follow!TypeOK'
  BY <1>1, <1>7, <1>8, <1>9, <1>10, TypesNow, TypesNext
<1>12. OpenInv'
  <2>1. SameFile' => SameFile /\ path = start.inode
    BY <1>1, <1>6, <1>8, <1>9 DEF SameFile
  <2>2. skip => f.skip
    BY DEF skip
  <2>. QED  BY <1>1, <1>4, <1>8, <1>9, <2>1, <2>2 DEF FollowType, OpenInv, SameFile
<1>. QED  BY <1>11, <1>12 DEF FollowType

LEMMA FollowInitType == Follow!Init => FollowType
<1>. SUFFICES ASSUME Follow!Init PROVE FollowType
  OBVIOUS
<1>. USE DEF Follow!Init
<1>1. <<>> \in Follow!Lines /\ <<>> \in Seq(0 .. MaxBytes) /\ <<>> \in Seq(Follow!Lines)
  <2>1. <<>> \in Seq(Byte)
    OBVIOUS
  <2>2. Len(<<>>) <= MaxLogLine
    <3>1. Len(<<>>) = 0
      OBVIOUS
    <3>. QED  BY <3>1, LineSizes
  <2>3. <<>> \in Follow!Lines
    BY <2>1, <2>2, LinesAre
  <2>. QED  BY <2>3
<1>2. 0 \in 0 .. MaxBytes /\ 0 \in 0 .. MaxSwaps /\ 0 \in 0 .. MaxFails
  BY BotsAssumption DEF Follow!FollowAssumption
<1>3. f \in Reading /\ st \in Stats /\ start \in Starts /\ told \in Telling /\ count \in Counts
  BY <1>1, <1>2 DEF Reading, Stats, Starts, Telling, Counts
<1>4. content \in [Inodes -> Seq(0 .. MaxBytes)] /\ born \in [Inodes -> Nat]
  BY <1>1
<1>5. Follow!TypeOK
  BY <1>1, <1>3, <1>4, ReaderTypes
<1>6. OpenInv
  <2>1. ~f.ok /\ ~f.skip /\ reader # "sized" /\ count.bytes = 0 /\ \A i \in Inodes : Len(content[i]) = 0
    OBVIOUS
  <2>. QED  BY <2>1 DEF OpenInv, SameFile
<1>. QED  BY <1>5, <1>6 DEF FollowType

LEMMA SameFollow ==
  ASSUME FollowType, UNCHANGED Follow!vars
  PROVE  FollowType'
<1>1. UNCHANGED <<path, content, born, count, reader, f, st, feed, start, told>>
  BY DEF Follow!vars
<1>2. Follow!TypeOK'
  BY <1>1, SMTT(30) DEF FollowType, Follow!TypeOK
<1>. QED  BY <1>1, <1>2 DEF FollowType, OpenInv, SameFile

LEMMA WorldType ==
  ASSUME FollowType,
         Follow!WriteByte \/ Follow!Truncate \/ Follow!MoveAway \/ \E i \in Inodes : Follow!Create(i)
  PROVE  FollowType'
<1>1. /\ UNCHANGED <<reader, f, st, feed, start, told>>
      /\ path' \in Inodes \cup {0} /\ content' \in [Inodes -> Seq(0 .. MaxBytes)]
      /\ born' \in [Inodes -> Nat] /\ count' \in Counts
      /\ \A i \in Inodes : Len(content'[i]) <= count'.bytes
      /\ Grown
  BY WorldStep DEF Counts
<1>2. Follow!TypeOK'
  BY <1>1, TypesNow, TypesNext
<1>3. \A i \in Inodes : /\ born[i] \in Nat /\ born'[i] \in Nat
                        /\ Len(content[i]) \in Nat /\ Len(content'[i]) \in Nat
                        /\ born[i] <= born'[i]
                        /\ born'[i] = born[i] => Len(content[i]) <= Len(content'[i])
  <2>. SUFFICES ASSUME NEW i \in Inodes
                PROVE  /\ born[i] \in Nat /\ born'[i] \in Nat
                       /\ Len(content[i]) \in Nat /\ Len(content'[i]) \in Nat
                       /\ born[i] <= born'[i]
                       /\ born'[i] = born[i] => Len(content[i]) <= Len(content'[i])
    OBVIOUS
  <2>1. content'[i] \in Seq(0 .. MaxBytes) /\ born'[i] \in Nat
    BY <1>1
  <2>. QED  BY <1>1, <2>1, FilesAre DEF FollowType, Grown
<1>4. start.born \in Nat /\ st.size \in Nat /\ f.off \in Nat
  BY LineSizes, ReaderTypes DEF FollowType, Starts, Stats, Reading
<1>5. OpenInv'
  <2>1. reader = "sized" => /\ st.inode \in Inodes /\ start.born <= born'[st.inode]
                            /\ born'[st.inode] = start.born => st.size <= Len(content'[st.inode])
    <3>. SUFFICES ASSUME reader = "sized"
                  PROVE  /\ st.inode \in Inodes /\ start.born <= born'[st.inode]
                         /\ born'[st.inode] = start.born => st.size <= Len(content'[st.inode])
      OBVIOUS
    <3>1. /\ st.inode \in Inodes /\ start.born <= born[st.inode]
          /\ born[st.inode] = start.born => st.size <= Len(content[st.inode])
      BY DEF FollowType, OpenInv
    <3>. QED  BY <1>3, <1>4, <3>1
  <2>2. f.ok => start.inode \in Inodes /\ start.born <= born'[start.inode] /\ f.info = start.inode
    <3>. SUFFICES ASSUME f.ok
                  PROVE  start.inode \in Inodes /\ start.born <= born'[start.inode] /\ f.info = start.inode
      OBVIOUS
    <3>1. start.inode \in Inodes /\ start.born <= born[start.inode] /\ f.info = start.inode
      BY DEF FollowType, OpenInv
    <3>. QED  BY <1>3, <1>4, <3>1
  <2>3. SameFile' => f.off <= Len(content'[start.inode])
    <3>. SUFFICES ASSUME f.ok, ~start.other, born'[start.inode] = start.born
                  PROVE  f.off <= Len(content'[start.inode])
      BY <1>1 DEF SameFile
    <3>1. start.inode \in Inodes /\ start.born <= born[start.inode]
      BY DEF FollowType, OpenInv
    <3>2. born[start.inode] = start.born
      BY <1>3, <1>4, <3>1
    <3>3. f.off <= Len(content[start.inode])
      BY <3>2 DEF FollowType, OpenInv, SameFile
    <3>. QED  BY <1>3, <1>4, <3>1, <3>2, <3>3
  <2>. QED  BY <1>1, <2>1, <2>2, <2>3 DEF FollowType, OpenInv
<1>. QED  BY <1>2, <1>5 DEF FollowType

LEMMA FollowTypeStep == FollowType /\ [Follow!Next]_(Follow!vars) => FollowType'
<1>. SUFFICES ASSUME FollowType, [Follow!Next]_(Follow!vars) PROVE FollowType'
  OBVIOUS
<1>1. CASE Follow!WriteByte \/ Follow!Truncate \/ Follow!MoveAway \/ \E i \in Inodes : Follow!Create(i)
  BY <1>1, WorldType
<1>2. CASE Follow!OpenFails \/ Follow!OpenStat \/ Follow!PollFails
  BY <1>2, OpeningType
<1>3. CASE Follow!OpenSize
  BY <1>3, OpenSizeType
<1>4. CASE Follow!OpenRead
  BY <1>4, OpenReadType
<1>5. CASE Follow!PollStat
  BY <1>5, PollStatType
<1>6. CASE Follow!PollRead
  BY <1>6, PollReadType
<1>7. CASE UNCHANGED Follow!vars
  BY <1>7, SameFollow
<1>. QED  BY <1>1, <1>2, <1>3, <1>4, <1>5, <1>6, <1>7 DEF Follow!Next, Follow!Open, Follow!Poll

LEMMA PartsDo ==
  [PartsNext]_<<part, vars, units, logs>> => [Next]_vars /\ [Follow!Next]_(Follow!vars)
BY DEF PartsNext, logs, Follow!vars

\* Every variable of the snapshots and of a followed log has its type, whatever
\* the bot, the helper and logrotate do (export.go Run, logs.go open and poll).
THEOREM BotTypesCorrect == PartsSpec => []TypesOK
<1>1. SnapshotsAssumption
  BY BotsAssumption
<1>2. PartsInit => TypeInv /\ FollowType
  BY <1>1, SnapshotsInitType, FollowInitType DEF PartsInit
<1>3. TypeInv /\ FollowType /\ [PartsNext]_<<part, vars, units, logs>> => TypeInv' /\ FollowType'
  BY <1>1, PartsDo, TypeStep, FollowTypeStep
<1>4. TypeInv /\ FollowType => TypesOK
  BY DEF TypesOK, TypeInv, FollowType
<1>. QED  BY <1>2, <1>3, <1>4, PTL DEF PartsSpec

-----------------------------------------------------------------------------
(* The lines of a followed log.                                            *)

\* Of a file of which x was read, fd is what follows its first sk lines, and p the
\* line that has begun; while the rest of a line is skipped, there is neither.
LinesTold(x, p, skip, fd, sk) ==
  IF skip THEN p = <<>> /\ fd = <<>> /\ sk = Len(Follow!SplitLines(x)) + 1
  ELSE /\ p = Rest(x) /\ sk <= Len(Follow!SplitLines(x))
       /\ fd = Follow!After(Follow!SplitLines(x), sk)

\* What was read so far of the file that reading started in.
Read == SubSeq(content[start.inode], 1, f.off)

LineInv == Follow!Followed => LinesTold(Read, f.partial, f.skip, feed, start.skipped)

LEMMA AfterFirst ==
  ASSUME NEW S, NEW x \in Seq(S), NEW y \in Seq(S), NEW d \in Nat, d <= Len(y)
  PROVE  Follow!After(x \o y, Len(x) + d) = Follow!After(y, d)
<1>. DEFINE z == x \o y
            k == Len(x) + d
            r == Follow!After(z, k)
            s == Follow!After(y, d)
<1>1. Len(x) \in Nat /\ Len(y) \in Nat /\ k \in Nat
  OBVIOUS
<1>2. /\ z \in Seq(S) /\ Len(z) = Len(x) + Len(y)
      /\ \A i \in 1 .. Len(x) + Len(y) : z[i] = IF i <= Len(x) THEN x[i] ELSE y[i - Len(x)]
  BY ConcatProperties
<1>. HIDE DEF z, k
<1>3. /\ r \in Seq(S) /\ Len(r) = IF k <= Len(z) THEN Len(z) - k ELSE 0
      /\ \A i \in 1 .. Len(z) - k : r[i] = z[k + i]
  BY <1>1, <1>2, AfterIs
<1>4. /\ s \in Seq(S) /\ Len(s) = IF d <= Len(y) THEN Len(y) - d ELSE 0
      /\ \A i \in 1 .. Len(y) - d : d + i \in 1 .. Len(y) /\ s[i] = y[d + i]
  BY AfterIs
<1>. HIDE DEF r, s
<1>5. Len(r) = Len(s) /\ Len(s) = Len(y) - d /\ Len(s) = Len(z) - k
  BY <1>1, <1>2, <1>3, <1>4 DEF k
<1>6. ASSUME NEW i \in 1 .. Len(s)
      PROVE  r[i] = s[i]
  <2>1. r[i] = z[k + i] /\ s[i] = y[d + i] /\ d + i \in 1 .. Len(y)
    BY <1>3, <1>4, <1>5
  <2>2. k + i \in 1 .. Len(x) + Len(y) /\ ~(k + i <= Len(x)) /\ (k + i) - Len(x) = d + i
    BY <1>1, <2>1 DEF k
  <2>. QED  BY <1>2, <2>1, <2>2
<1>7. r = s
  BY <1>3, <1>4, <1>5, <1>6, SeqEqual
<1>. QED  BY <1>7 DEF r, s, z, k

\* What poll makes of the bytes it got: the lines of one more piece of the file.
LEMMA LinesGoOn ==
  ASSUME NEW x \in Seq(Int), NEW y \in Seq(Int), NEW p \in Seq(Int), NEW skip \in BOOLEAN, NEW fd, NEW sk \in Nat,
         LinesTold(x, p, skip, fd, sk)
  PROVE  LET all  == p \o y
             lost == skip /\ Follow!Breaks(all) = <<>>
             kept == IF lost THEN <<>> ELSE IF skip THEN Follow!After(all, Follow!FirstBreak(all)) ELSE all
         IN  LinesTold(x \o y, Rest(kept), lost, fd \o Follow!SplitLines(kept), sk)
<1>. DEFINE all  == p \o y
            lost == skip /\ Follow!Breaks(all) = <<>>
            kept == IF lost THEN <<>> ELSE IF skip THEN Follow!After(all, Follow!FirstBreak(all)) ELSE all
            L == Follow!SplitLines(x)
            M == Follow!SplitLines(x \o y)
<1>1. L \in Seq(Seq(Int)) /\ Len(L) \in Nat
  BY SplitIs
<1>. HIDE DEF L, M
<1>2. CASE ~skip
  <2>1. p = Rest(x) /\ sk <= Len(L) /\ fd = Follow!After(L, sk)
    BY <1>2 DEF LinesTold, L
  <2>. DEFINE K == Follow!SplitLines(Rest(x) \o y)
  <2>2. M = L \o K /\ Rest(x \o y) = Rest(Rest(x) \o y)
    BY InTwoParts DEF L, M
  <2>3. K \in Seq(Seq(Int))
    <3>1. Rest(x) \o y \in Seq(Int)
      BY RestIs, ConcatProperties
    <3>. QED  BY <3>1, SplitIs
  <2>. HIDE DEF K
  <2>4. Follow!After(L \o K, sk) = Follow!After(L, sk) \o K
    BY <1>1, <2>1, <2>3, AfterConcat
  <2>5. sk <= Len(M)
    <3>1. Len(M) = Len(L) + Len(K) /\ Len(K) \in Nat
      BY <1>1, <2>2, <2>3, ConcatProperties
    <3>. QED  BY <1>1, <2>1, <3>1
  <2>6. ~lost /\ kept = Rest(x) \o y
    BY <1>2, <2>1
  <2>. HIDE DEF kept, lost
  <2>7. LinesTold(x \o y, Rest(kept), lost, fd \o Follow!SplitLines(kept), sk)
    BY <2>1, <2>2, <2>4, <2>5, <2>6 DEF LinesTold, M, K
  <2>. QED  BY <2>7 DEF kept, lost
<1>3. CASE skip
  <2>1. p = <<>> /\ fd = <<>> /\ sk = Len(L) + 1
    BY <1>3 DEF LinesTold, L
  <2>2. all = y
    BY <2>1, ConcatEmptySeq
  <2>. HIDE DEF all
  <2>3. CASE Follow!Breaks(y) = <<>>
    <3>1. lost /\ kept = <<>>
      BY <1>3, <2>2, <2>3
    <3>2. Plain(y)
      <4>1. Follow!LastBreak(y) = 0
        BY <2>3 DEF Follow!LastBreak
      <4>2. \A i \in 1 .. Len(y) : y[i] = 0 => i <= 0
        BY <4>1, LastBreakIs
      <4>. QED  BY <4>2 DEF Plain
    <3>3. M = L
      BY <3>2, NoLineEnds DEF L, M
    <3>4. Rest(kept) = <<>> /\ Follow!SplitLines(kept) = <<>> /\ <<>> \o <<>> = <<>>
      BY <3>1, EmptyText
    <3>. HIDE DEF kept, lost
    <3>5. LinesTold(x \o y, Rest(kept), lost, fd \o Follow!SplitLines(kept), sk)
      BY <2>1, <3>1, <3>3, <3>4 DEF LinesTold, M
    <3>. QED  BY <3>5 DEF kept, lost, all
  <2>4. CASE Follow!Breaks(y) # <<>>
    <3>. DEFINE z == Follow!After(y, Follow!FirstBreak(y))
                K == Follow!SplitLines(z)
    <3>1. ~lost /\ kept = z
      BY <1>3, <2>2, <2>4
    <3>2. z \in Seq(Int) /\ Rest(x \o y) = Rest(z)
      BY <2>4, FromFirstBreak
    <3>3. PICK l \in Seq(Int) : M = Append(L, l) \o K
      BY <2>4, FromFirstBreak DEF L, M
    <3>4. K \in Seq(Seq(Int)) /\ Append(L, l) \in Seq(Seq(Int)) /\ Len(Append(L, l)) = Len(L) + 1
      BY <1>1, <3>2, SplitIs, AppendProperties
    <3>. DEFINE A == Append(L, l)
    <3>. HIDE DEF A, K, z
    <3>5. Follow!After(A \o K, Len(A) + 0) = Follow!After(K, 0)
      <4>1. A \in Seq(Seq(Int)) /\ 0 \in Nat /\ 0 <= Len(K)
        BY <3>4 DEF A
      <4>. QED  BY <3>4, <4>1, AfterFirst
    <3>6. Follow!After(K, 0) = K
      <4>1. SubSeq(K, 1, Len(K)) = K
        BY <3>4, SubSeqFull
      <4>. QED  BY <4>1 DEF Follow!After
    <3>7. Len(M) = Len(A) + Len(K) /\ Len(K) \in Nat /\ Len(A) \in Nat /\ M = A \o K /\ Len(A) = Len(L) + 1
      BY <3>3, <3>4, ConcatProperties DEF A
    <3>8. sk = Len(A) + 0 /\ sk <= Len(M)
      BY <1>1, <2>1, <3>7
    <3>9. fd \o K = K
      BY <2>1, <3>4, ConcatEmptySeq
    <3>. HIDE DEF kept, lost
    <3>10. LinesTold(x \o y, Rest(kept), lost, fd \o Follow!SplitLines(kept), sk)
      BY <3>1, <3>2, <3>5, <3>6, <3>7, <3>8, <3>9 DEF LinesTold, M, K
    <3>. QED  BY <3>10 DEF kept, lost, all
  <2>. QED  BY <2>3, <2>4
<1>4. LinesTold(x \o y, Rest(kept), lost, fd \o Follow!SplitLines(kept), sk)
  BY <1>2, <1>3
<1>. QED  BY <1>4

\* As long as a file is the same, what was read of it is.
LEMMA SameRead ==
  ASSUME FollowType, FollowType', Grown, Follow!Followed',
         UNCHANGED <<start>>, f'.ok = f.ok, f'.off = f.off
  PROVE  Follow!Followed /\ Read' = Read
<1>1. /\ f.ok /\ ~start.cut /\ ~start.other /\ born'[start.inode] = start.born
      /\ start.inode \in Inodes /\ start.born <= born[start.inode]
  BY DEF Follow!Followed, FollowType, OpenInv
<1>2. born[start.inode] \in Nat /\ start.born \in Nat /\ f.off \in Nat
  BY <1>1, FilesAre, LineSizes, ReaderTypes DEF FollowType, Starts, Reading
<1>3. born[start.inode] <= born'[start.inode] /\ born'[start.inode] \in Nat
  BY <1>1, ReaderTypes DEF Grown, FollowType, Follow!TypeOK
<1>4. born[start.inode] = start.born
  BY <1>1, <1>2, <1>3
<1>5. SameFile
  BY <1>1, <1>4 DEF SameFile
<1>. DEFINE c == content[start.inode]
            d == content'[start.inode]
            k == f.off
<1>6. /\ c \in Seq(Int) /\ Len(c) \in Nat /\ k <= Len(c)
  BY <1>1, <1>5, FilesAre DEF FollowType, OpenInv
<1>7. Len(c) <= Len(d) /\ \A i \in 1 .. Len(c) : d[i] = c[i]
  BY <1>1, <1>4 DEF Grown
<1>8. d \in Seq(Int) /\ Len(d) \in Nat
  <2>1. d \in Seq(0 .. MaxBytes)
    BY <1>1, ReaderTypes DEF FollowType, Follow!TypeOK
  <2>2. 0 .. MaxBytes \subseteq Int
    OBVIOUS
  <2>3. d \in Seq(Int)
    BY <2>1, <2>2, SeqMonotonic
  <2>. QED  BY <2>3
<1>9. Read = SubSeq(c, 1, k) /\ Read' = SubSeq(d, 1, k)
  BY DEF Read
<1>. HIDE DEF c, d, k
<1>10. k <= Len(d) /\ \A i \in 1 .. k : d[i] = c[i]
  BY <1>2, <1>6, <1>7, <1>8, SMTT(30) DEF k
<1>11. k \in Int /\ 1 \in Nat /\ 1 # 0
  BY <1>2 DEF k
<1>12. SubSeq(d, 1, k) = SubSeq(c, 1, k)
  BY <1>6, <1>8, <1>10, <1>11, SubSeqSame
<1>. QED  BY <1>1, <1>4, <1>9, <1>12 DEF Follow!Followed

LEMMA SameLines ==
  ASSUME FollowType, FollowType', Grown, LineInv,
         UNCHANGED <<start, feed>>, f'.ok = f.ok, f'.off = f.off, f'.partial = f.partial, f'.skip = f.skip
  PROVE  LineInv'
<1>. SUFFICES ASSUME Follow!Followed'
              PROVE  LinesTold(Read', f'.partial, f'.skip, feed', start'.skipped)
  BY DEF LineInv, LinesTold
<1>1. Follow!Followed /\ Read' = Read
  BY SameRead
<1>. QED  BY <1>1 DEF LineInv

LEMMA GrownNot ==
  ASSUME FollowType, UNCHANGED <<content, born>>
  PROVE  Grown
<1>1. \A i \in Inodes : born[i] \in Nat /\ Len(content[i]) \in Nat
  BY FilesAre DEF FollowType
<1>. QED  BY <1>1 DEF Grown

\* open returns the last of the lines that the file has, and keeps what has begun.
LEMMA OpenReadLines ==
  ASSUME FollowType, FollowType', Follow!OpenRead
  PROVE  LineInv'
<1>. SUFFICES ASSUME Follow!Followed'
              PROVE  LinesTold(Read', f'.partial, f'.skip, feed', start'.skipped)
  BY DEF LineInv, LinesTold
<1>. DEFINE buf   == Follow!OpenBytes
            all   == Follow!SplitLines(buf)
            lines == Follow!Newest(all, N)
            same  == born[st.inode] = start.born
            skip  == IF same THEN Len(Follow!SplitLines(Now)) - Len(lines) ELSE 0
            cut   == same /\ st.size > Window /\ buf = <<>> /\ st.size > 0 /\ Now[st.size] # 0
            other == ~same
            rest  == Rest(buf)
<1>1. /\ reader = "sized" /\ UNCHANGED <<path, content, born, count, st>>
      /\ f' = [f EXCEPT !.ok = TRUE, !.off = st.size, !.info = st.inode, !.partial = rest]
      /\ feed' = lines
      /\ start' = [start EXCEPT !.inode = st.inode, !.skipped = skip, !.cut = cut, !.other = other]
  BY OpenReadDoes
<1>2. f \in Reading /\ start \in Starts /\ ~f.skip
  BY <1>1, ReaderTypes DEF FollowType, OpenInv
<1>3. /\ start'.inode = st.inode /\ start'.skipped = skip /\ (start'.cut <=> cut) /\ (start'.other <=> other)
      /\ f'.off = st.size /\ f'.partial = rest /\ ~f'.skip
  <2>. HIDE DEF skip, cut, other, rest
  <2>1. /\ start'.inode = st.inode /\ start'.skipped = skip /\ start'.cut = cut /\ start'.other = other
        /\ f'.off = st.size /\ f'.partial = rest /\ f'.skip = f.skip
    BY <1>1, <1>2 DEF Reading, Starts
  <2>. QED  BY <1>2, <2>1
<1>4. ~cut /\ ~other
  <2>. HIDE DEF cut, other
  <2>. QED  BY <1>3 DEF Follow!Followed
<1>5. same
  BY <1>4
<1>6. Read' = Now
  BY <1>1, <1>3 DEF Read, Now
<1>7. Rest(Now) = rest
  BY <1>1, <1>4, <1>5, OpenFinds
<1>8. PICK h \in Seq(Seq(Int)) : Follow!SplitLines(Now) = h \o all
  BY <1>1, <1>5, OpenFinds
<1>9. all \in Seq(Seq(Int)) /\ skip = Len(Follow!SplitLines(Now)) - Len(lines) /\ skip \in Nat
  BY <1>1, <1>5, OpenLines
<1>10. ~f'.skip /\ f'.partial = rest /\ feed' = lines /\ start'.skipped = skip
  BY <1>1, <1>3
<1>. DEFINE s == Follow!SplitLines(Now)
<1>. HIDE DEF buf, all, skip, rest, cut, other, same, s
<1>11. lines \in Seq(Seq(Int)) /\ Len(lines) <= Len(all) /\ Len(lines) \in Nat
       /\ lines = Follow!After(all, Len(all) - Len(lines))
  BY <1>9, LineSizes, NewestIs
<1>. HIDE DEF lines
<1>12. Len(s) = Len(h) + Len(all) /\ Len(h) \in Nat /\ Len(all) \in Nat /\ s = h \o all
  BY <1>8, <1>9, ConcatProperties DEF s
<1>. DEFINE d == Len(all) - Len(lines)
<1>13. d \in Nat /\ d <= Len(all) /\ skip = Len(h) + d /\ skip <= Len(s)
  BY <1>9, <1>11, <1>12 DEF s
<1>14. lines = Follow!After(all, d)
  BY <1>11
<1>. HIDE DEF d
<1>15. Follow!After(h \o all, Len(h) + d) = Follow!After(all, d)
  BY <1>9, <1>13, AfterFirst
<1>16. lines = Follow!After(s, skip)
  BY <1>12, <1>13, <1>14, <1>15
<1>. QED  BY <1>6, <1>7, <1>10, <1>13, <1>16 DEF LinesTold, s

\* poll starts over at the end of the file, or inside it, and then skips to a line.
LEMMA PollStatLines ==
  ASSUME FollowType, FollowType', LineInv, Follow!PollStat
  PROVE  LineInv'
<1>. DEFINE c == content[path]
<1>1. /\ reader = "idle" /\ path \in Inodes /\ UNCHANGED <<path, content, born, count, told>>
      /\ Joins \/ Restarts \/ ReadsOn
  BY PollStatDoes DEF FollowType
<1>2. /\ Len(c) \in Nat /\ c \in Seq(Int) /\ TailStart \in 0 .. Len(c) /\ TailStart \in Nat
  BY <1>1, FilesAre, TailStartIs, LineSizes DEF FollowType
<1>3. f \in Reading /\ start \in Starts
  BY ReaderTypes, SMTT(30) DEF FollowType
<1>4. CASE Joins
  <2>. SUFFICES ASSUME Follow!Followed'
                PROVE  LinesTold(Read', f'.partial, f'.skip, feed', start'.skipped)
    BY DEF LineInv, LinesTold
  <2>. DEFINE cut == Len(c) > 0 /\ Follow!Last(c) # 0
              skipped == Len(Follow!SplitLines(c))
  <2>1. /\ ~f.ok /\ feed' = <<>>
        /\ f' = [f EXCEPT !.ok = TRUE, !.off = Len(c), !.partial = <<>>, !.info = path]
        /\ start' = [start EXCEPT !.inode = path, !.born = born[path], !.skipped = skipped,
                                  !.cut = cut, !.other = FALSE]
    BY <1>4 DEF Joins
  <2>2. /\ start'.inode = path /\ start'.skipped = skipped /\ start'.cut = cut
        /\ f'.off = Len(c) /\ f'.partial = <<>> /\ f'.skip = f.skip
    <3>. HIDE DEF skipped, cut, c
    <3>. QED  BY <1>3, <2>1 DEF Reading, Starts
  <2>3. ~cut /\ ~f.skip
    <3>1. ~start'.cut
      BY DEF Follow!Followed
    <3>. QED  BY <2>1, <2>2, <3>1 DEF FollowType, OpenInv
  <2>4. Read' = c
    <3>1. Read' = SubSeq(c, 1, Len(c))
      BY <1>1, <2>2 DEF Read
    <3>. HIDE DEF c
    <3>. QED  BY <1>2, <3>1, SubSeqFull
  <2>5. Rest(c) = <<>>
    <3>. HIDE DEF c
    <3>1. CASE Len(c) = 0
      <4>1. c = <<>>
        BY <1>2, <3>1
      <4>. QED  BY <4>1, EmptyText
    <3>2. CASE Len(c) # 0
      <4>1. c[Len(c)] = 0 /\ Len(c) \in 1 .. Len(c)
        BY <1>2, <2>3, <3>2 DEF Follow!Last
      <4>2. Follow!LastBreak(c) = Len(c)
        BY <1>2, <4>1, LastBreakIs
      <4>3. Follow!After(c, Len(c)) = <<>>
        BY <1>2, AfterAll
      <4>4. Follow!CapLine(<<>>) = <<>>
        <5>1. Rest(<<>>) = <<>> /\ Plain(<<>>)
          BY EmptyText DEF Plain
        <5>2. \A b \in Seq(Int) : Plain(b) => Rest(b) = Follow!CapLine(b)
          BY PlainText
        <5>3. <<>> \in Seq(Int)
          OBVIOUS
        <5>4. Rest(<<>>) = Follow!CapLine(<<>>)
          BY <5>1, <5>2, <5>3, Zenon
        <5>. QED  BY <5>1, <5>4
      <4>. QED  BY <4>2, <4>3, <4>4 DEF Rest
    <3>. QED  BY <3>1, <3>2
  <2>. DEFINE s == Follow!SplitLines(c)
  <2>6. s \in Seq(Seq(Int)) /\ Len(s) \in Nat /\ skipped = Len(s)
    BY <1>2, SplitIs
  <2>. HIDE DEF c, s, skipped
  <2>7. Follow!After(s, Len(s)) = <<>> /\ Len(s) <= Len(s)
    BY <2>6, AfterAll
  <2>. QED  BY <2>1, <2>2, <2>3, <2>4, <2>5, <2>6, <2>7 DEF LinesTold, s
<1>5. CASE Restarts
  <2>. SUFFICES LinesTold(Read', f'.partial, f'.skip, feed', start'.skipped)
    BY DEF LineInv, LinesTold
  <2>. DEFINE o == TailStart
              skip == o > 0
              x == SubSeq(c, 1, o)
              skipped == Len(Follow!SplitLines(x)) + (IF o > 0 THEN 1 ELSE 0)
  <2>1. /\ feed' = <<>>
        /\ f' = [f EXCEPT !.ok = TRUE, !.off = o, !.partial = <<>>, !.info = path, !.skip = skip]
        /\ start' = [start EXCEPT !.inode = path, !.born = born[path], !.skipped = skipped,
                                  !.cut = FALSE, !.other = FALSE]
    BY <1>5 DEF Restarts
  <2>2. /\ start'.inode = path /\ start'.skipped = skipped
        /\ f'.off = o /\ f'.partial = <<>> /\ f'.skip = skip
    <3>. HIDE DEF skipped, skip, o, c
    <3>. QED  BY <1>3, <2>1 DEF Reading, Starts
  <2>3. Read' = x
    BY <1>1, <2>2 DEF Read
  <2>4. o \in Int /\ o <= Len(c) /\ o \in Nat
    BY <1>2
  <2>. HIDE DEF c, o
  <2>5. x \in Seq(Int) /\ (o = 0 => x = <<>>)
    <3>1. x \in Seq(Int) /\ Len(x) = IF 1 <= o THEN o - 1 + 1 ELSE 0
      BY <1>2, <2>4, PartIs
    <3>2. o = 0 => Len(x) = 0
      BY <3>1
    <3>. HIDE DEF x
    <3>. QED  BY <3>1, <3>2
  <2>. HIDE DEF x
  <2>6. CASE o > 0
    <3>1. skip /\ skipped = Len(Follow!SplitLines(x)) + 1
      BY <2>6
    <3>. HIDE DEF skip, skipped
    <3>. QED  BY <2>1, <2>2, <2>3, <3>1 DEF LinesTold
  <2>7. CASE ~(o > 0)
    <3>1. x = <<>>
      BY <2>4, <2>5, <2>7
    <3>2. Follow!SplitLines(x) = <<>> /\ Rest(x) = <<>>
      BY <3>1, EmptyText
    <3>3. ~skip /\ skipped = 0
      <4>1. Len(<<>>) = 0
        OBVIOUS
      <4>. QED  BY <2>7, <3>2, <4>1
    <3>4. Follow!After(<<>>, 0) = <<>> /\ 0 <= Len(<<>>)
      <4>1. <<>> \in Seq(Int) /\ Len(<<>>) = 0 /\ 0 \in Nat /\ 0 <= 0
        OBVIOUS
      <4>2. Len(<<>>) <= 0
        BY <4>1
      <4>3. Follow!After(<<>>, 0) = <<>>
        BY <4>1, <4>2, AfterAll
      <4>. QED  BY <4>1, <4>3
    <3>. HIDE DEF skip, skipped
    <3>. QED  BY <2>1, <2>2, <2>3, <3>2, <3>3, <3>4 DEF LinesTold
  <2>. QED  BY <2>6, <2>7
<1>6. CASE ReadsOn
  <2>1. UNCHANGED <<start, feed, f>>
    BY <1>6 DEF ReadsOn
  <2>. QED  BY <1>1, <2>1, GrownNot, SameLines
<1>. QED  BY <1>1, <1>4, <1>5, <1>6

\* A piece of the file that reading started in is the one that comes next.
LEMMA PollReadLines ==
  ASSUME FollowType, FollowType', LineInv, Follow!PollRead
  PROVE  LineInv'
<1>. SUFFICES ASSUME Follow!Followed'
              PROVE  LinesTold(Read', f'.partial, f'.skip, feed', start'.skipped)
  BY DEF LineInv, LinesTold
<1>. DEFINE lines == Follow!SplitLines(Kept(Got))
            rest  == Rest(Kept(Got))
            skip  == f.skip /\ Follow!Breaks(All(Got)) = <<>>
            off   == f.off + Len(Got)
            swap  == start.other \/ Other
<1>1. /\ path # 0 /\ UNCHANGED <<path, content, born, count, st>>
      /\ f' = [f EXCEPT !.off = off, !.skip = skip, !.partial = rest]
      /\ feed' = feed \o lines
      /\ start' = [start EXCEPT !.other = swap]
  BY PollReadDoes
<1>2. f \in Reading /\ start \in Starts /\ path \in Inodes
  BY <1>1, ReaderTypes DEF FollowType
<1>3. /\ f'.ok = f.ok /\ f'.off = off /\ f'.skip = skip /\ f'.partial = rest
      /\ start'.inode = start.inode /\ start'.born = start.born /\ start'.cut = start.cut
      /\ start'.skipped = start.skipped /\ (start'.other <=> swap)
  <2>. HIDE DEF off, skip, rest, swap
  <2>1. /\ f'.ok = f.ok /\ f'.off = off /\ f'.skip = skip /\ f'.partial = rest
        /\ start'.inode = start.inode /\ start'.born = start.born /\ start'.cut = start.cut
        /\ start'.skipped = start.skipped /\ start'.other = swap
    BY <1>1, <1>2 DEF Reading, Starts
  <2>. QED  BY <2>1
<1>4. f.ok /\ ~start.cut /\ ~swap /\ born[start.inode] = start.born
  <2>. HIDE DEF swap
  <2>. QED  BY <1>1, <1>3 DEF Follow!Followed
<1>5. Follow!Followed /\ SameFile /\ path = start.inode
  BY <1>4 DEF Follow!Followed, SameFile, Other
<1>6. LinesTold(Read, f.partial, f.skip, feed, start.skipped)
  BY <1>5 DEF LineInv
<1>. DEFINE c == content[path]
            k == f.off
<1>7. c \in Seq(Int) /\ k <= Len(c) /\ k \in Nat /\ Len(c) \in Nat
  BY <1>2, <1>5, FilesAre, LineSizes DEF FollowType, OpenInv, Reading
<1>8. /\ Got \in Seq(Byte) /\ Len(Got) \in Nat /\ k + Len(Got) <= Len(c)
      /\ \A i \in 1 .. Len(Got) : k + i \in 1 .. Len(c) /\ Got[i] = c[k + i]
  BY <1>2, <1>7, GotIs
<1>9. Got \in Seq(Int)
  BY <1>8, ByteSeqs
<1>10. Read = SubSeq(c, 1, k) /\ Read' = SubSeq(c, 1, k + Len(Got))
  BY <1>1, <1>3, <1>5 DEF Read
<1>11. Read \in Seq(Int) /\ Read' = Read \o Got
  <2>. DEFINE m == k + Len(Got)
              y == SubSeq(c, k + 1, m)
  <2>. HIDE DEF c, k
  <2>1. m \in Nat /\ k <= m
    BY <1>7, <1>8
  <2>2. m \in k .. Len(c) /\ k \in 1 - 1 .. Len(c) /\ 1 \in 1 .. Len(c) + 1
    BY <1>7, <1>8, <2>1
  <2>3. m \in Int /\ m <= Len(c) /\ k + 1 \in Nat /\ k + 1 # 0 /\ k \in Int /\ 1 \in Nat /\ 1 # 0
    BY <1>7, <1>8, <2>1
  <2>4. SubSeq(c, 1, k) \o y = SubSeq(c, 1, m)
    <3>. HIDE DEF m
    <3>. QED  BY <1>7, <2>2, ConcatAdjacentSubSeq
  <2>5. y = Got
    <3>1. /\ y \in Seq(Int) /\ Len(y) = IF k + 1 <= m THEN m - (k + 1) + 1 ELSE 0
          /\ \A i \in 1 .. m - (k + 1) + 1 : y[i] = c[(k + 1) + i - 1]
      <4>. HIDE DEF m
      <4>. QED  BY <1>7, <2>3, PartIs
    <3>. HIDE DEF y
    <3>2. Len(y) = Len(Got)
      BY <1>7, <1>8, <3>1
    <3>3. \A i \in 1 .. Len(Got) : Got[i] = y[i]
      <4>. SUFFICES ASSUME NEW i \in 1 .. Len(Got) PROVE Got[i] = y[i]
        OBVIOUS
      <4>1. i \in 1 .. m - (k + 1) + 1 /\ (k + 1) + i - 1 = k + i
        BY <1>7, <1>8
      <4>. QED  BY <1>8, <3>1, <4>1
    <3>. QED  BY <1>9, <3>1, <3>2, <3>3, SeqEqual
  <2>6. SubSeq(c, 1, k) \in Seq(Int)
    BY <1>7, <2>3, PartIs
  <2>. QED  BY <1>10, <2>4, <2>5, <2>6
<1>12. f.partial \in Seq(Int) /\ f.skip \in BOOLEAN /\ start.skipped \in Nat
  <2>1. f.partial \in Follow!Lines
    BY <1>2 DEF Reading
  <2>2. f.partial \in Seq(Int)
    BY <2>1, LinesAre, ByteSeqs
  <2>. QED  BY <1>2, <2>2 DEF Reading, Starts
<1>13. LinesTold(Read \o Got, rest, skip, feed \o lines, start.skipped)
  BY <1>6, <1>9, <1>11, <1>12, LinesGoOn DEF All, Kept
<1>. HIDE DEF rest, skip, lines
<1>. QED  BY <1>1, <1>3, <1>11, <1>13

LEMMA LineStep ==
  FollowType /\ FollowType' /\ LineInv /\ [Follow!Next]_(Follow!vars) => LineInv'
<1>. SUFFICES ASSUME FollowType, FollowType', LineInv, [Follow!Next]_(Follow!vars)
              PROVE  LineInv'
  OBVIOUS
<1>1. CASE Follow!WriteByte \/ Follow!Truncate \/ Follow!MoveAway \/ \E i \in Inodes : Follow!Create(i)
  BY <1>1, WorldStep, SameLines
<1>2. CASE Follow!OpenFails \/ Follow!OpenStat \/ Follow!PollFails
  <2>1. UNCHANGED <<content, born, start, feed>> /\ (f' = f \/ f' = [f EXCEPT !.missing = (reader = "new")])
    BY <1>2 DEF Follow!OpenFails, Follow!OpenStat, Follow!PollFails, Follow!disk, Follow!spoken
  <2>2. f'.ok = f.ok /\ f'.off = f.off /\ f'.partial = f.partial /\ f'.skip = f.skip
    BY <2>1, ReaderTypes DEF FollowType, Reading
  <2>. QED  BY <2>1, <2>2, GrownNot, SameLines
<1>3. CASE Follow!OpenSize
  <2>1. ~f.ok /\ f' = f
    BY <1>3 DEF Follow!OpenSize, FollowType, OpenInv
  <2>. QED  BY <2>1 DEF LineInv, Follow!Followed
<1>4. CASE Follow!OpenRead
  BY <1>4, OpenReadLines
<1>5. CASE Follow!PollStat
  BY <1>5, PollStatLines
<1>6. CASE Follow!PollRead
  BY <1>6, PollReadLines
<1>7. CASE UNCHANGED Follow!vars
  <2>1. UNCHANGED <<content, born, start, feed, f>>
    BY <1>7 DEF Follow!vars
  <2>. QED  BY <2>1, GrownNot, SameLines
<1>. QED  BY <1>1, <1>2, <1>3, <1>4, <1>5, <1>6, <1>7 DEF Follow!Next, Follow!Open, Follow!Poll

\* However the bytes of a log fall into reads, its lines are returned each once,
\* whole and in order, as long as it stays the file reading started in (open,
\* readTail and poll of logs.go).
THEOREM LinesComeOnce == PartsSpec => []EveryLineOnce
<1>1. PartsInit => FollowType /\ LineInv
  <2>1. PartsInit => ~f.ok
    BY DEF PartsInit, Follow!Init
  <2>. QED  BY <2>1, FollowInitType DEF PartsInit, LineInv, Follow!Followed
<1>2. FollowType /\ LineInv /\ [PartsNext]_<<part, vars, units, logs>> => FollowType' /\ LineInv'
  BY PartsDo, FollowTypeStep, LineStep
<1>3. FollowType /\ LineInv => EveryLineOnce
  <2>. SUFFICES ASSUME FollowType, LineInv, Follow!Followed
                PROVE  feed = Follow!After(Follow!SplitLines(Read), start.skipped)
    BY DEF EveryLineOnce, Follow!EveryLineOnce, Read
  <2>1. LinesTold(Read, f.partial, f.skip, feed, start.skipped)
    BY DEF LineInv
  <2>2. CASE f.skip
    <3>. DEFINE s == Follow!SplitLines(Read)
    <3>1. feed = <<>> /\ start.skipped = Len(s) + 1
      BY <2>1, <2>2 DEF LinesTold
    <3>2. Read \in Seq(Int)
      <4>1. /\ start.inode \in Inodes /\ content[start.inode] \in Seq(Int)
            /\ f.off \in Int /\ f.off <= Len(content[start.inode])
        BY FilesAre, LineSizes, ReaderTypes DEF FollowType, OpenInv, SameFile, Follow!Followed, Reading
      <4>. QED  BY <4>1, PartIs DEF Read
    <3>3. s \in Seq(Seq(Int)) /\ Len(s) \in Nat
      BY <3>2, SplitIs
    <3>. HIDE DEF s
    <3>4. Follow!After(s, Len(s) + 1) = <<>>
      <4>1. Len(s) + 1 \in Nat /\ Len(s) <= Len(s) + 1
        BY <3>3
      <4>. QED  BY <3>3, <4>1, AfterAll
    <3>. QED  BY <3>1, <3>4 DEF s
  <2>3. CASE ~f.skip
    BY <2>1, <2>3 DEF LinesTold
  <2>. QED  BY <2>2, <2>3
<1>. QED  BY <1>1, <1>2, <1>3, PTL DEF PartsSpec

-----------------------------------------------------------------------------
(* The bytes of a followed log.                                            *)

\* The bytes other than newlines come in the order in which they were written.
Rising(s)   == \A j, k \in 1 .. Len(s) : j < k /\ s[j] # 0 /\ s[k] # 0 => s[j] < s[k]
Above(s, t) == \A j \in 1 .. Len(s) : s[j] # 0 => t < s[j]
Below(s, t) == \A j \in 1 .. Len(s) : s[j] \in 0 .. t

\* x is taken in order from y, at places after the l-th.
TakenAfter(x, y, l) ==
  \E p \in [1 .. Len(x) -> 1 .. Len(y)] :
    /\ \A j \in 1 .. Len(x) : l < p[j] /\ x[j] = y[p[j]]
    /\ \A i, j \in 1 .. Len(x) : i < j => p[i] < p[j]

LEMMA TakenIs ==
  ASSUME NEW x \in Seq(Int), NEW y \in Seq(Int), NEW l \in Nat, TakenAfter(x, y, l), Rising(y)
  PROVE  /\ Rising(x)
         /\ \A t \in Int : Above(y, t) => Above(x, t)
         /\ \A m \in Int : Below(y, m) => Below(x, m)
         /\ \A q \in 1 .. Len(y) : q <= l /\ y[q] # 0 => Above(x, y[q])
<1>1. PICK p \in [1 .. Len(x) -> 1 .. Len(y)] :
        /\ \A j \in 1 .. Len(x) : l < p[j] /\ x[j] = y[p[j]]
        /\ \A i, j \in 1 .. Len(x) : i < j => p[i] < p[j]
  BY DEF TakenAfter
<1>2. \A j \in 1 .. Len(x) : p[j] \in 1 .. Len(y) /\ l < p[j] /\ x[j] = y[p[j]]
  BY <1>1
<1>3. Rising(x)
  <2>. SUFFICES ASSUME NEW i \in 1 .. Len(x), NEW j \in 1 .. Len(x), i < j, x[i] # 0, x[j] # 0
                PROVE  x[i] < x[j]
    BY DEF Rising
  <2>1. p[i] < p[j]
    BY <1>1
  <2>. QED  BY <1>2, <2>1 DEF Rising
<1>4. ASSUME NEW t \in Int, Above(y, t)
      PROVE  Above(x, t)
  BY <1>2, <1>4 DEF Above
<1>5. ASSUME NEW m \in Int, Below(y, m)
      PROVE  Below(x, m)
  BY <1>2, <1>5 DEF Below
<1>6. ASSUME NEW q \in 1 .. Len(y), q <= l, y[q] # 0
      PROVE  Above(x, y[q])
  <2>. SUFFICES ASSUME NEW j \in 1 .. Len(x), x[j] # 0
                PROVE  y[q] < x[j]
    BY DEF Above
  <2>1. p[j] \in 1 .. Len(y) /\ l < p[j] /\ x[j] = y[p[j]]
    BY <1>2
  <2>2. q < p[j]
    BY <1>6, <2>1
  <2>. QED  BY <1>6, <2>1, <2>2 DEF Rising
<1>. QED  BY <1>3, <1>4, <1>5, <1>6

\* What is kept back of a, and z that comes after it.
LEMMA RestTaken ==
  ASSUME NEW a \in Seq(Int), NEW z \in Seq(Int), NEW k \in 0 .. Len(a)
  PROVE  LET b == Follow!After(a, k)
         IN  /\ Rest(b) \o z \in Seq(Int) /\ k + Follow!LastBreak(b) \in Nat
             /\ TakenAfter(Rest(b) \o z, a \o z, k + Follow!LastBreak(b))
<1>. DEFINE b == Follow!After(a, k)
            l == Follow!LastBreak(b)
            r == Rest(b)
            x == r \o z
            y == a \o z
<1>1. /\ b \in Seq(Int) /\ Len(b) = IF k <= Len(a) THEN Len(a) - k ELSE 0
      /\ \A i \in 1 .. Len(a) - k : k + i \in 1 .. Len(a) /\ b[i] = a[k + i]
  <2>1. k \in Nat
    OBVIOUS
  <2>. QED  BY <2>1, AfterIs
<1>2. k \in Nat /\ k <= Len(a) /\ Len(a) \in Nat /\ Len(b) = Len(a) - k /\ Len(z) \in Nat
  BY <1>1
<1>. HIDE DEF b
<1>3. l \in 0 .. Len(b) /\ r \in Seq(Int)
      /\ \A i \in 1 .. Len(r) : l + i \in 1 .. Len(b) /\ r[i] = b[l + i]
  BY <1>1, LastBreakIs, RestIs
<1>. DEFINE n == Len(r)
<1>. HIDE DEF l, r
<1>4. n \in Nat /\ l + n <= Len(b)
  <2>1. n \in Nat
    BY <1>3
  <2>2. CASE n = 0
    BY <1>1, <1>3, <2>2
  <2>3. CASE n # 0
    <3>1. n \in 1 .. Len(r)
      BY <2>1, <2>3
    <3>2. l + n \in 1 .. Len(b)
      BY <1>3, <3>1
    <3>. QED  BY <3>2
  <2>. QED  BY <2>1, <2>2, <2>3
<1>5. /\ x \in Seq(Int) /\ Len(x) = n + Len(z)
      /\ \A i \in 1 .. n + Len(z) : x[i] = IF i <= n THEN r[i] ELSE z[i - n]
  BY <1>3, ConcatProperties
<1>6. /\ y \in Seq(Int) /\ Len(y) = Len(a) + Len(z)
      /\ \A i \in 1 .. Len(a) + Len(z) : y[i] = IF i <= Len(a) THEN a[i] ELSE z[i - Len(a)]
  BY ConcatProperties
<1>. HIDE DEF x, y, n
<1>. DEFINE p == [j \in 1 .. Len(x) |-> IF j <= n THEN k + l + j ELSE Len(a) + (j - n)]
<1>7. ASSUME NEW j \in 1 .. Len(x)
      PROVE  p[j] \in 1 .. Len(y) /\ k + l < p[j] /\ x[j] = y[p[j]]
  <2>1. CASE j <= n
    <3>1. p[j] = k + l + j /\ j \in 1 .. n /\ j \in 1 .. n + Len(z)
      BY <1>2, <1>4, <1>5, <2>1
    <3>2. x[j] = r[j] /\ r[j] = b[l + j] /\ l + j \in 1 .. Len(a) - k
      BY <1>2, <1>3, <1>5, <2>1, <3>1 DEF n
    <3>3. b[l + j] = a[k + (l + j)] /\ k + (l + j) \in 1 .. Len(a)
      BY <1>1, <3>2
    <3>4. k + (l + j) = k + l + j /\ k + l + j \in 1 .. Len(a) + Len(z) /\ k + l + j <= Len(a) /\ k + l < k + l + j
      BY <1>2, <1>3, <3>1, <3>3
    <3>. QED  BY <1>6, <3>1, <3>2, <3>3, <3>4
  <2>2. CASE ~(j <= n)
    <3>1. p[j] = Len(a) + (j - n) /\ j \in 1 .. n + Len(z) /\ j - n \in 1 .. Len(z)
      BY <1>2, <1>4, <1>5, <2>2
    <3>2. x[j] = z[j - n]
      BY <1>5, <2>2, <3>1
    <3>3. /\ Len(a) + (j - n) \in 1 .. Len(a) + Len(z) /\ ~(Len(a) + (j - n) <= Len(a))
          /\ (Len(a) + (j - n)) - Len(a) = j - n
      BY <1>2, <1>4, <3>1
    <3>4. k + l < Len(a) + (j - n)
      BY <1>2, <1>3, <1>4, <3>1
    <3>. QED  BY <1>6, <3>1, <3>2, <3>3, <3>4
  <2>. QED  BY <2>1, <2>2
<1>8. ASSUME NEW i \in 1 .. Len(x), NEW j \in 1 .. Len(x), i < j
      PROVE  p[i] < p[j]
  <2>1. \A h \in 1 .. Len(x) : p[h] = IF h <= n THEN k + l + h ELSE Len(a) + (h - n)
    OBVIOUS
  <2>2. /\ k \in Int /\ l \in Int /\ n \in Int /\ Len(a) \in Int /\ i \in Int /\ j \in Int
        /\ k + l + n <= Len(a) /\ i < j
    BY <1>2, <1>3, <1>4, <1>5, <1>8
  <2>. HIDE DEF p
  <2>3. p[i] = IF i <= n THEN k + l + i ELSE Len(a) + (i - n)
    BY <2>1
  <2>4. p[j] = IF j <= n THEN k + l + j ELSE Len(a) + (j - n)
    BY <2>1
  <2>. QED  BY <2>2, <2>3, <2>4
<1>9. p \in [1 .. Len(x) -> 1 .. Len(y)]
  BY <1>7
<1>. HIDE DEF p
<1>10. TakenAfter(x, y, k + l)
  BY <1>7, <1>8, <1>9 DEF TakenAfter
<1>11. k + l \in Nat
  BY <1>2, <1>3
<1>. QED  BY <1>5, <1>10, <1>11 DEF x, y, l, r, b

\* A byte of a line of what follows the k-th of a is there, before the last newline.
LEMMA ShownBefore ==
  ASSUME NEW a \in Seq(Int), NEW k \in 0 .. Len(a),
         NEW c \in Shown(Follow!SplitLines(Follow!After(a, k)))
  PROVE  \E q \in 1 .. Len(a) : q <= k + Follow!LastBreak(Follow!After(a, k)) /\ a[q] = c /\ c # 0
<1>. DEFINE b == Follow!After(a, k)
            l == Follow!LastBreak(b)
<1>1. /\ b \in Seq(Int) /\ Len(b) = IF k <= Len(a) THEN Len(a) - k ELSE 0
      /\ \A i \in 1 .. Len(a) - k : k + i \in 1 .. Len(a) /\ b[i] = a[k + i]
  <2>1. k \in Nat
    OBVIOUS
  <2>. QED  BY <2>1, AfterIs
<1>2. PICK j \in 1 .. Len(Follow!SplitLines(b)) : c \in Follow!Range(Follow!SplitLines(b)[j])
  BY DEF Shown
<1>. HIDE DEF b
<1>3. PICK i \in 1 .. Len(b) : i <= l /\ b[i] = c /\ c # 0
  BY <1>1, <1>2, BytesShown
<1>4. l \in Int
  BY <1>1, LastBreakIs
<1>. HIDE DEF l
<1>5. i \in 1 .. Len(a) - k /\ k + i <= k + l
  BY <1>1, <1>3, <1>4
<1>6. k + i \in 1 .. Len(a) /\ a[k + i] = c
  BY <1>1, <1>3, <1>5
<1>. QED  BY <1>3, <1>5, <1>6 DEF b, l

LEMMA NewestShown ==
  ASSUME NEW s \in Seq(Follow!Lines), NEW n \in Nat
  PROVE  Shown(Follow!Newest(s, n)) \subseteq Shown(s)
<1>. DEFINE t == Follow!Newest(s, n)
            d == Len(s) - Len(t)
<1>1. t \in Seq(Follow!Lines) /\ Len(t) <= Len(s) /\ Len(t) \in Nat /\ t = Follow!After(s, d)
  BY NewestIs
<1>. HIDE DEF t
<1>2. d \in Nat /\ d <= Len(s) /\ Len(s) \in Nat
  BY <1>1
<1>3. \A i \in 1 .. Len(s) - d : d + i \in 1 .. Len(s) /\ t[i] = s[d + i]
  <2>. HIDE DEF d
  <2>. QED  BY <1>1, <1>2, AfterIs
<1>4. Len(s) - d = Len(t)
  BY <1>1, <1>2
<1>5. \A i \in 1 .. Len(t) : d + i \in 1 .. Len(s) /\ t[i] = s[d + i]
  BY <1>3, <1>4
<1>. HIDE DEF d
<1>6. Shown(t) \subseteq Shown(s)
  BY <1>5 DEF Shown
<1>. QED  BY <1>6 DEF t

\* Telling lines of what comes next: no byte again, and what is ahead stays ahead.
LEMMA TellsOn ==
  ASSUME NEW a \in Seq(Int), NEW z \in Seq(Int), NEW k \in 0 .. Len(a), NEW m \in Nat,
         NEW lines \in Seq(Follow!Lines), NEW other \in BOOLEAN,
         Shown(lines) \subseteq Shown(Follow!SplitLines(Follow!After(a, k))),
         told \in Telling, Follow!Tell(lines, other), ~told.again, told.top <= m,
         Rising(a \o z), Above(a \o z, told.top), Below(a \o z, m)
  PROVE  LET x == Rest(Follow!After(a, k)) \o z
         IN  /\ ~told'.again /\ told'.top <= m
             /\ Rising(x) /\ Above(x, told'.top) /\ Below(x, m)
             /\ told'.top = told.top \/ \E q \in 1 .. Len(a) : a[q] = told'.top /\ a[q] # 0
<1>. DEFINE x == Rest(Follow!After(a, k)) \o z
            y == a \o z
            l == k + Follow!LastBreak(Follow!After(a, k))
<1>1. x \in Seq(Int) /\ l \in Nat /\ TakenAfter(x, y, l)
  BY RestTaken
<1>2. /\ y \in Seq(Int) /\ Len(y) = Len(a) + Len(z) /\ Len(a) \in Nat /\ Len(z) \in Nat
      /\ \A i \in 1 .. Len(a) + Len(z) : y[i] = IF i <= Len(a) THEN a[i] ELSE z[i - Len(a)]
  BY ConcatProperties
<1>. HIDE DEF x, y
<1>3. /\ Rising(x) /\ (\A t \in Int : Above(y, t) => Above(x, t)) /\ (\A n \in Int : Below(y, n) => Below(x, n))
      /\ \A q \in 1 .. Len(y) : q <= l /\ y[q] # 0 => Above(x, y[q])
  <2>1. Rising(y)
    BY DEF y
  <2>. HIDE DEF l
  <2>. QED  BY <1>1, <1>2, <2>1, TakenIs
<1>4. told.top \in Int /\ told'.top \in Int /\ MaxBytes \in Nat
      /\ told'.again \in BOOLEAN /\ told' \in Telling
      /\ (told'.top = told.top \/ told'.top \in Shown(lines))
      /\ (told'.again <=> told.again \/ \E c \in Shown(lines) : c <= told.top)
  <2>1. told' \in Telling
        /\ (told'.top = told.top \/ told'.top \in Shown(lines))
        /\ (told'.again <=> told.again \/ \E c \in Shown(lines) : c <= told.top)
    BY TellIs
  <2>2. told.top \in 0 .. MaxBytes /\ told'.top \in 0 .. MaxBytes /\ told'.again \in BOOLEAN /\ MaxBytes \in Nat
    BY <2>1, LineSizes DEF Telling
  <2>. QED  BY <2>1, <2>2
<1>5. ASSUME NEW c \in Shown(lines)
      PROVE  \E q \in 1 .. Len(a) : /\ q <= l /\ a[q] = c /\ c # 0
                                    /\ q \in 1 .. Len(y) /\ y[q] = c
  <2>1. PICK q \in 1 .. Len(a) : q <= l /\ a[q] = c /\ c # 0
    BY <1>5, ShownBefore
  <2>2. q \in 1 .. Len(a) + Len(z) /\ q <= Len(a)
    BY <1>2
  <2>3. q \in 1 .. Len(y) /\ y[q] = a[q]
    BY <1>2, <2>2
  <2>. QED  BY <2>1, <2>3
<1>6. \A c \in Shown(lines) : told.top < c /\ c <= m /\ c \in Int
  <2>. SUFFICES ASSUME NEW c \in Shown(lines) PROVE told.top < c /\ c <= m /\ c \in Int
    OBVIOUS
  <2>1. PICK q \in 1 .. Len(a) : c # 0 /\ q \in 1 .. Len(y) /\ y[q] = c
    BY <1>5
  <2>2. Above(y, told.top) /\ Below(y, m)
    BY DEF y
  <2>3. told.top < y[q] /\ y[q] \in 0 .. m
    BY <2>1, <2>2 DEF Above, Below
  <2>. QED  BY <2>1, <2>3
<1>7. ~told'.again
  <2>1. \A c \in Shown(lines) : ~(c <= told.top)
    BY <1>4, <1>6
  <2>. QED  BY <1>4, <2>1
<1>8. CASE told'.top = told.top
  <2>1. Above(y, told.top) /\ Below(y, m)
    BY DEF y
  <2>2. Above(x, told'.top) /\ Below(x, m)
    BY <1>3, <1>4, <1>8, <2>1
  <2>. QED  BY <1>3, <1>7, <1>8, <2>2 DEF x
<1>9. CASE told'.top \in Shown(lines)
  <2>1. PICK q \in 1 .. Len(a) : q <= l /\ a[q] = told'.top /\ told'.top # 0 /\ q \in 1 .. Len(y) /\ y[q] = told'.top
    BY <1>5, <1>9
  <2>2. Above(x, told'.top)
    BY <1>3, <2>1
  <2>3. Below(y, m)
    BY DEF y
  <2>4. Below(x, m)
    BY <1>3, <2>3
  <2>. QED  BY <1>3, <1>6, <1>7, <1>9, <2>1, <2>2, <2>4 DEF x
<1>. QED  BY <1>4, <1>8, <1>9

LEMMA AppendRising ==
  ASSUME NEW s \in Seq(Int), NEW m \in Nat, NEW b \in {0, m + 1}, Rising(s), Below(s, m)
  PROVE  /\ Rising(Append(s, b)) /\ Below(Append(s, b), m + 1)
         /\ \A t \in Int : t <= m /\ Above(s, t) => Above(Append(s, b), t)
<1>. DEFINE a == Append(s, b)
<1>1. /\ a \in Seq(Int) /\ Len(a) = Len(s) + 1 /\ Len(s) \in Nat /\ a[Len(s) + 1] = b
      /\ \A i \in 1 .. Len(s) : a[i] = s[i]
  <2>1. b \in Int
    OBVIOUS
  <2>. QED  BY <2>1, AppendProperties
<1>. HIDE DEF a
<1>2. \A i \in 1 .. Len(a) : (i \in 1 .. Len(s) /\ a[i] = s[i] /\ s[i] \in 0 .. m) \/ (i = Len(s) + 1 /\ a[i] = b)
  <2>1. \A i \in 1 .. Len(a) : i \in 1 .. Len(s) \/ i = Len(s) + 1
    BY <1>1
  <2>. QED  BY <1>1, <2>1 DEF Below
<1>3. Below(a, m + 1)
  <2>. SUFFICES ASSUME NEW i \in 1 .. Len(a) PROVE a[i] \in 0 .. m + 1
    BY DEF Below
  <2>1. s[i] \in 0 .. m => s[i] \in 0 .. m + 1
    OBVIOUS
  <2>2. b \in 0 .. m + 1
    OBVIOUS
  <2>. QED  BY <1>2, <2>1, <2>2
<1>4. Rising(a)
  <2>. SUFFICES ASSUME NEW i \in 1 .. Len(a), NEW j \in 1 .. Len(a), i < j, a[i] # 0, a[j] # 0
                PROVE  a[i] < a[j]
    BY DEF Rising
  <2>1. i \in 1 .. Len(s) /\ a[i] = s[i] /\ s[i] \in 0 .. m
    BY <1>1, <1>2
  <2>2. CASE j \in 1 .. Len(s) /\ a[j] = s[j]
    BY <2>1, <2>2 DEF Rising
  <2>3. CASE j = Len(s) + 1 /\ a[j] = b
    <3>1. b = m + 1
      BY <2>3
    <3>. QED  BY <2>1, <2>3, <3>1
  <2>. QED  BY <1>2, <2>2, <2>3
<1>5. ASSUME NEW t \in Int, t <= m, Above(s, t)
      PROVE  Above(a, t)
  <2>. SUFFICES ASSUME NEW i \in 1 .. Len(a), a[i] # 0 PROVE t < a[i]
    BY DEF Above
  <2>1. CASE i \in 1 .. Len(s) /\ a[i] = s[i]
    BY <1>5, <2>1 DEF Above
  <2>2. CASE a[i] = b
    <3>1. b = m + 1
      BY <2>2, SMTT(30)
    <3>. QED  BY <1>5, <2>2, <3>1
  <2>. QED  BY <1>2, <2>1, <2>2
<1>. QED  BY <1>3, <1>4, <1>5 DEF a

LEMMA InTwoPieces ==
  ASSUME NEW c \in Seq(Int), NEW k \in 0 .. Len(c)
  PROVE  /\ SubSeq(c, 1, k) \in Seq(Int) /\ Len(SubSeq(c, 1, k)) = k
         /\ Follow!After(c, k) \in Seq(Int)
         /\ SubSeq(c, 1, k) \o Follow!After(c, k) = c
<1>1. Len(c) \in Nat /\ k \in Nat /\ k \in Int /\ k <= Len(c) /\ 1 \in Nat /\ 1 # 0
  OBVIOUS
<1>2. SubSeq(c, 1, k) \in Seq(Int) /\ Len(SubSeq(c, 1, k)) = IF 1 <= k THEN k - 1 + 1 ELSE 0
  BY <1>1, PartIs
<1>3. Len(SubSeq(c, 1, k)) = k
  BY <1>1, <1>2
<1>4. Follow!After(c, k) \in Seq(Int)
  BY <1>1, AfterIs
<1>5. 1 \in 1 .. Len(c) + 1 /\ k \in 1 - 1 .. Len(c) /\ Len(c) \in k .. Len(c)
  BY <1>1
<1>6. SubSeq(c, 1, k) \o SubSeq(c, k + 1, Len(c)) = SubSeq(c, 1, Len(c))
  BY <1>5, ConcatAdjacentSubSeq
<1>7. SubSeq(c, 1, Len(c)) = c
  BY SubSeqFull
<1>. QED  BY <1>2, <1>3, <1>4, <1>6, <1>7 DEF Follow!After

LEMMA NothingRises ==
  /\ <<>> \in Seq(Int) /\ Rising(<<>>)
  /\ \A t : Above(<<>>, t) /\ Below(<<>>, t)
<1>1. <<>> \in Seq(Int) /\ 1 .. Len(<<>>) = {}
  OBVIOUS
<1>. QED  BY <1>1 DEF Rising, Above, Below

\* What the bot wrote is in the order it was written, the file at the path last.
DiskInv ==
  /\ \A i \in Inodes : Rising(content[i]) /\ Below(content[i], count.bytes)
  /\ path # 0 => \A i \in Inodes \ {path} :
       \A j \in 1 .. Len(content[i]) : content[i][j] # 0 => Above(content[path], content[i][j])

\* What is still to be told if the file stays the same.
Ahead == f.partial \o Follow!After(content[path], f.off)

AtIt == path = start.inode /\ born[path] = start.born

\* Unless a file was swapped under a read, nothing told so far is still ahead.
OnceInv ==
  ~told.swapped =>
    /\ ~told.again /\ told.top <= count.bytes /\ ~start.other
    /\ ~f.ok => told.top = 0
    /\ f.ok /\ path # 0 =>
         IF AtIt THEN Rising(Ahead) /\ Above(Ahead, told.top) /\ Below(Ahead, count.bytes)
         ELSE Above(content[path], told.top)

BytesInv == DiskInv /\ OnceInv

LEMMA BytesTypes ==
  ASSUME FollowType
  PROVE  /\ count.bytes \in Nat /\ told.top \in Nat /\ start.born \in Nat /\ f.off \in Nat
         /\ f.partial \in Seq(Int) /\ path \in Inodes \cup {0} /\ 0 \notin Inodes
         /\ f \in Reading /\ start \in Starts /\ told \in Telling /\ count \in Counts /\ st \in Stats
<1>1. /\ path \in Inodes \cup {0} /\ f \in Reading /\ start \in Starts /\ told \in Telling
      /\ count \in Counts /\ st \in Stats /\ MaxBytes \in Nat /\ 0 \notin Inodes
  BY ReaderTypes, LineSizes DEF FollowType
<1>2. count.bytes \in 0 .. MaxBytes /\ told.top \in 0 .. MaxBytes /\ start.born \in Nat /\ f.off \in 0 .. MaxBytes
  BY <1>1 DEF Reading, Starts, Telling, Counts
<1>3. f.partial \in Follow!Lines
  BY <1>1 DEF Reading
<1>4. f.partial \in Seq(Int)
  BY <1>3, LinesAre, ByteSeqs
<1>5. count.bytes \in Nat /\ told.top \in Nat /\ f.off \in Nat
  BY <1>1, <1>2
<1>. QED  BY <1>1, <1>2, <1>4, <1>5

\* While the file is the one that was read, the reader is inside it.
LEMMA AtItIs ==
  ASSUME FollowType, OnceInv, ~told.swapped, f.ok, path # 0, AtIt
  PROVE  /\ path \in Inodes /\ content[path] \in Seq(Int) /\ f.off \in 0 .. Len(content[path])
         /\ f.partial \in Seq(Int) /\ Follow!After(content[path], f.off) \in Seq(Int)
         /\ Ahead \in Seq(Int)
<1>1. path \in Inodes /\ SameFile /\ path = start.inode
  BY BytesTypes DEF OnceInv, AtIt, SameFile
<1>2. content[path] \in Seq(Int) /\ Len(content[path]) \in Nat /\ f.off <= Len(content[path])
  BY <1>1, FilesAre DEF FollowType, OpenInv
<1>3. f.off \in Nat /\ f.partial \in Seq(Int)
  BY BytesTypes
<1>4. f.off \in 0 .. Len(content[path])
  BY <1>2, <1>3
<1>. DEFINE c == content[path]
            k == f.off
            z == Follow!After(c, k)
<1>5. z \in Seq(Int)
  <2>. HIDE DEF c, k
  <2>. QED  BY <1>2, <1>3, AfterIs DEF c, k
<1>. HIDE DEF z
<1>6. f.partial \o z \in Seq(Int)
  BY <1>3, <1>5, ConcatProperties
<1>. QED  BY <1>1, <1>2, <1>3, <1>4, <1>5, <1>6 DEF Ahead, z

\* Nothing on the disk is negative.
LEMMA AboveNothing ==
  ASSUME DiskInv, NEW i \in Inodes
  PROVE  Above(content[i], 0)
<1>1. Below(content[i], count.bytes)
  BY DEF DiskInv
<1>. QED  BY <1>1 DEF Above, Below

LEMMA WriteOnce ==
  ASSUME FollowType, BytesInv, Follow!WriteByte
  PROVE  BytesInv'
<1>. DEFINE c == content[path]
            m == count.bytes
<1>1. /\ path \in Inodes /\ count' = [count EXCEPT !.bytes = @ + 1]
      /\ UNCHANGED <<path, born, reader, f, st, feed, start, told>>
  BY BytesTypes DEF Follow!WriteByte, Follow!reader
<1>2. PICK b \in {0, m + 1} : content' = [content EXCEPT ![path] = Append(@, b)]
  BY DEF Follow!WriteByte, Follow!Newline
<1>3. count'.bytes = m + 1 /\ m \in Nat
  BY <1>1, BytesTypes DEF Counts
<1>. DEFINE d == Append(c, b)
<1>4. \A i \in Inodes : content'[i] = IF i = path THEN d ELSE content[i]
  BY <1>1, <1>2, ReaderTypes DEF FollowType
<1>5. c \in Seq(Int) /\ Rising(c) /\ Below(c, m)
  BY <1>1, FilesAre DEF FollowType, BytesInv, DiskInv
<1>6. /\ Rising(d) /\ Below(d, m + 1)
      /\ \A t \in Int : t <= m /\ Above(c, t) => Above(d, t)
  <2>. HIDE DEF c, m
  <2>. QED  BY <1>3, <1>5, AppendRising
<1>7. DiskInv'
  <2>1. ASSUME NEW i \in Inodes
        PROVE  Rising(content'[i]) /\ Below(content'[i], m + 1)
    <3>1. CASE i = path
      BY <1>4, <1>6, <3>1
    <3>2. CASE i # path
      <4>1. Rising(content[i]) /\ Below(content[i], m)
        BY DEF BytesInv, DiskInv
      <4>2. Below(content[i], m + 1)
        <5>. SUFFICES ASSUME NEW j \in 1 .. Len(content[i]) PROVE content[i][j] \in 0 .. m + 1
          BY DEF Below
        <5>1. content[i][j] \in 0 .. m
          BY <4>1 DEF Below
        <5>. QED  BY <1>3, <5>1
      <4>. QED  BY <1>4, <3>2, <4>1, <4>2
    <3>. QED  BY <3>1, <3>2
  <2>2. ASSUME NEW i \in Inodes \ {path}, NEW j \in 1 .. Len(content[i]), content[i][j] # 0
        PROVE  Above(d, content[i][j])
    <3>1. Above(c, content[i][j]) /\ content[i][j] \in 0 .. m
      BY <1>1, <2>2, BytesTypes DEF BytesInv, DiskInv, Below
    <3>2. content[i][j] \in Int /\ content[i][j] <= m
      BY <1>3, <3>1
    <3>. QED  BY <1>6, <3>1, <3>2
  <2>. HIDE DEF d, m
  <2>. QED  BY <1>1, <1>3, <1>4, <2>1, <2>2 DEF DiskInv
<1>8. OnceInv'
  <2>. SUFFICES ASSUME ~told.swapped
                PROVE  OnceInv'
    BY <1>1 DEF OnceInv
  <2>1. ~told.again /\ told.top <= m /\ ~start.other /\ (~f.ok => told.top = 0) /\ told.top \in Nat
    BY BytesTypes DEF BytesInv, OnceInv
  <2>2. told.top <= m + 1
    BY <1>3, <2>1
  <2>3. AtIt' <=> AtIt
    BY <1>1 DEF AtIt
  <2>4. ASSUME f.ok, AtIt
        PROVE  Rising(Ahead') /\ Above(Ahead', told.top) /\ Below(Ahead', m + 1)
    <3>. DEFINE z == Follow!After(c, f.off)
                p == f.partial
    <3>1. path # 0 /\ c \in Seq(Int) /\ f.off \in 0 .. Len(c) /\ p \in Seq(Int) /\ z \in Seq(Int)
      BY <1>1, <2>4, AtItIs, BytesTypes DEF BytesInv
    <3>2. Ahead = p \o z /\ Ahead \in Seq(Int)
      BY <1>1, <2>4, <3>1, AtItIs DEF BytesInv, Ahead
    <3>3. Rising(Ahead) /\ Above(Ahead, told.top) /\ Below(Ahead, m)
      BY <2>4, <3>1 DEF BytesInv, OnceInv
    <3>4. b \in Int
      BY <1>3
    <3>5. Follow!After(d, f.off) = Append(z, b)
      <4>. HIDE DEF c
      <4>. QED  BY <3>1, <3>4, AfterAppend
    <3>6. Ahead' = p \o Append(z, b)
      BY <1>1, <1>4, <3>5 DEF Ahead
    <3>. HIDE DEF z, p, m
    <3>7. Ahead' = Append(Ahead, b)
      BY <3>1, <3>2, <3>4, <3>6, AppendToConcat
    <3>. DEFINE a == Ahead
    <3>8. a \in Seq(Int) /\ Rising(a) /\ Below(a, m) /\ Above(a, told.top) /\ told.top \in Int
      BY <2>1, <3>2, <3>3
    <3>. HIDE DEF a
    <3>9. /\ Rising(Append(a, b)) /\ Below(Append(a, b), m + 1)
          /\ \A t \in Int : t <= m /\ Above(a, t) => Above(Append(a, b), t)
      BY <1>3, <3>8, AppendRising
    <3>. QED  BY <2>1, <3>7, <3>8, <3>9 DEF a
  <2>5. ASSUME f.ok, ~AtIt
        PROVE  Above(d, told.top)
    <3>1. Above(c, told.top)
      BY <1>1, <2>5, BytesTypes DEF BytesInv, OnceInv
    <3>. QED  BY <1>6, <2>1, <3>1
  <2>6. content'[path] = d
    BY <1>1, <1>4
  <2>. HIDE DEF d, m
  <2>. QED  BY <1>1, <1>3, <2>1, <2>2, <2>3, <2>4, <2>5, <2>6 DEF OnceInv
<1>. QED  BY <1>7, <1>8 DEF BytesInv

LEMMA EmptiedOnce ==
  ASSUME FollowType, BytesInv, NEW i \in Inodes, path' = i,
         content' = [content EXCEPT ![i] = <<>>], born' = [born EXCEPT ![i] = @ + 1],
         count'.bytes = count.bytes, UNCHANGED <<f, start, told>>
  PROVE  BytesInv'
<1>1. /\ \A j \in Inodes : content'[j] = IF j = i THEN <<>> ELSE content[j]
      /\ born'[i] = born[i] + 1 /\ born[i] \in Nat
  BY ReaderTypes DEF FollowType
<1>2. DiskInv'
  <2>1. \A j \in Inodes : Rising(content'[j]) /\ Below(content'[j], count.bytes)
    BY <1>1, NothingRises DEF BytesInv, DiskInv
  <2>2. \A t : Above(content'[i], t)
    BY <1>1, NothingRises
  <2>. QED  BY <2>1, <2>2 DEF DiskInv
<1>3. OnceInv'
  <2>1. f.ok => ~AtIt'
    <3>1. f.ok /\ i = start.inode => start.born <= born[i]
      BY DEF FollowType, OpenInv
    <3>2. f.ok /\ i = start.inode => born'[i] # start.born
      BY <1>1, <3>1, BytesTypes
    <3>. QED  BY <3>2 DEF AtIt
  <2>2. Above(content'[i], told.top)
    BY <1>1, NothingRises
  <2>. QED  BY <2>1, <2>2 DEF BytesInv, OnceInv
<1>. QED  BY <1>2, <1>3 DEF BytesInv

\* A step that leaves alone the file, what was told and how far the file was read.
LEMMA SameOnce ==
  ASSUME BytesInv, path' \in {0, path}, UNCHANGED <<content, born, told>>, count'.bytes = count.bytes,
         f'.ok = f.ok, f'.off = f.off, f'.partial = f.partial,
         start'.other = start.other, f.ok => start' = start
  PROVE  BytesInv'
<1>1. DiskInv'
  BY DEF BytesInv, DiskInv
<1>2. OnceInv'
  <2>1. path' # 0 => path' = path
    OBVIOUS
  <2>2. path' # 0 /\ f.ok => (AtIt' <=> AtIt)
    BY <2>1 DEF AtIt
  <2>3. path' # 0 => Ahead' = Ahead
    BY <2>1 DEF Ahead
  <2>. QED  BY <2>1, <2>2, <2>3 DEF BytesInv, OnceInv
<1>. QED  BY <1>1, <1>2 DEF BytesInv

LEMMA OpenReadOnce ==
  ASSUME FollowType, BytesInv, Follow!OpenRead
  PROVE  BytesInv'
<1>. DEFINE buf   == Follow!OpenBytes
            all   == Follow!SplitLines(buf)
            lines == Follow!Newest(all, N)
            same  == born[st.inode] = start.born
            skip  == IF same THEN Len(Follow!SplitLines(Now)) - Len(lines) ELSE 0
            cut   == same /\ st.size > Window /\ buf = <<>> /\ st.size > 0 /\ Now[st.size] # 0
            other == ~same
            rest  == Rest(buf)
            c     == content[st.inode]
            m     == count.bytes
<1>1. /\ reader = "sized" /\ UNCHANGED <<path, content, born, count, st>>
      /\ f' = [f EXCEPT !.ok = TRUE, !.off = st.size, !.info = st.inode, !.partial = rest]
      /\ start' = [start EXCEPT !.inode = st.inode, !.skipped = skip, !.cut = cut, !.other = other]
      /\ Follow!Tell(lines, other)
  BY OpenReadDoes
<1>2. /\ f \in Reading /\ start \in Starts /\ told \in Telling /\ ~f.ok /\ st.inode \in Inodes
      /\ (same => st.size <= Len(c)) /\ m \in Nat /\ told.top \in Nat /\ st.size \in Nat
  <2>1. f \in Reading /\ start \in Starts /\ told \in Telling /\ st \in Stats /\ m \in Nat /\ told.top \in Nat
    BY BytesTypes
  <2>2. ~f.ok /\ st.inode \in Inodes /\ (same => st.size <= Len(c))
    BY <1>1 DEF FollowType, OpenInv
  <2>3. st.size \in Nat
    BY <2>1, LineSizes DEF Stats
  <2>. QED  BY <2>1, <2>2, <2>3
<1>3. /\ start'.inode = st.inode /\ start'.born = start.born /\ start'.other = other
      /\ f'.ok /\ f'.off = st.size /\ f'.partial = rest
  <2>. HIDE DEF skip, cut, other, rest
  <2>. QED  BY <1>1, <1>2 DEF Reading, Starts
<1>4. lines \in Seq(Follow!Lines) /\ other \in BOOLEAN
  BY <1>1, OpenLines, Zenon
<1>5. DiskInv'
  BY <1>1 DEF BytesInv, DiskInv
<1>6. OnceInv'
  <2>. SUFFICES ASSUME ~told'.swapped PROVE OnceInv'
    BY DEF OnceInv
  <2>1. ~told.swapped /\ same
    <3>1. told'.swapped <=> told.swapped \/ other
      <4>. HIDE DEF lines, other
      <4>. QED  BY <1>1, <1>2, <1>4, TellIs
    <3>. QED  BY <3>1
  <2>2. ~told.again /\ told.top = 0
    BY <1>2, <2>1 DEF BytesInv, OnceInv
  <2>3. /\ Now \in Seq(Int) /\ Len(Now) = st.size /\ Now = SubSeq(c, 1, st.size)
    BY <1>1, <2>1, OpenFinds, ByteSeqs DEF Now
  <2>4. PICK k \in 0 .. st.size : buf = Follow!After(Now, k)
    BY <1>1, <2>1, OpenFinds
  <2>. DEFINE z == Follow!After(c, st.size)
              s == st.size
  <2>5. Now \o z = c /\ z \in Seq(Int) /\ c \in Seq(Int) /\ k \in 0 .. Len(Now)
    <3>1. c \in Seq(Int) /\ Len(c) \in Nat
      BY <1>2, FilesAre DEF FollowType
    <3>2. s \in 0 .. Len(c)
      BY <1>2, <2>1, <3>1
    <3>. HIDE DEF c, s
    <3>3. Follow!After(c, s) \in Seq(Int) /\ SubSeq(c, 1, s) \o Follow!After(c, s) = c
      BY <3>1, <3>2, InTwoPieces
    <3>. QED  BY <2>3, <2>4, <3>1, <3>3 DEF s
  <2>6. Rising(c) /\ Above(c, 0) /\ Below(c, m)
    BY <1>2, AboveNothing DEF BytesInv, DiskInv
  <2>7. Shown(lines) \subseteq Shown(Follow!SplitLines(Follow!After(Now, k)))
    <3>1. buf \in Seq(Byte)
      BY <1>1, OpenBytesType
    <3>2. all \in Seq(Follow!Lines)
      <4>. HIDE DEF buf
      <4>. QED  BY <3>1, SplitType
    <3>. HIDE DEF buf, all
    <3>3. Shown(lines) \subseteq Shown(all)
      BY <3>2, LineSizes, NewestShown
    <3>. QED  BY <2>4, <3>3 DEF all, buf
  <2>. DEFINE x == Rest(Follow!After(Now, k)) \o z
  <2>8. /\ ~told'.again /\ told'.top <= m
        /\ Rising(x) /\ Above(x, told'.top) /\ Below(x, m)
        /\ told'.top = 0 \/ \E q \in 1 .. Len(Now) : Now[q] = told'.top /\ Now[q] # 0
    <3>1. Rising(Now \o z) /\ Above(Now \o z, told.top) /\ Below(Now \o z, m) /\ told.top <= m
      BY <1>2, <2>2, <2>5, <2>6
    <3>. HIDE DEF lines, other, m, z, c
    <3>2. /\ Now \in Seq(Int) /\ z \in Seq(Int) /\ k \in 0 .. Len(Now) /\ m \in Nat
          /\ lines \in Seq(Follow!Lines) /\ other \in BOOLEAN
          /\ told \in Telling /\ Follow!Tell(lines, other) /\ ~told.again
      BY <1>1, <1>2, <1>4, <2>2, <2>3, <2>5
    <3>. DEFINE a == Now
    <3>. HIDE DEF a, x
    <3>3. /\ ~told'.again /\ told'.top <= m
          /\ Rising(Rest(Follow!After(a, k)) \o z) /\ Above(Rest(Follow!After(a, k)) \o z, told'.top)
          /\ Below(Rest(Follow!After(a, k)) \o z, m)
          /\ told'.top = told.top \/ \E q \in 1 .. Len(a) : a[q] = told'.top /\ a[q] # 0
      BY <2>7, <3>1, <3>2, TellsOn DEF a
    <3>. QED  BY <2>2, <3>3 DEF a, x
  <2>9. ASSUME path # 0
        PROVE  IF AtIt' THEN Rising(Ahead') /\ Above(Ahead', told'.top) /\ Below(Ahead', m)
               ELSE Above(content[path], told'.top)
    <3>1. path \in Inodes
      BY <2>9, BytesTypes
    <3>2. CASE path = st.inode
      <4>1. AtIt'
        BY <1>1, <1>3, <2>1, <3>2 DEF AtIt
      <4>2. Ahead' = x
        BY <1>1, <1>3, <2>4, <3>2 DEF Ahead
      <4>. HIDE DEF x, m
      <4>. QED  BY <2>8, <4>1, <4>2
    <3>3. CASE path # st.inode
      <4>1. ~AtIt'
        BY <1>1, <1>3, <3>3 DEF AtIt
      <4>2. CASE told'.top = 0
        BY <3>1, <4>1, <4>2, AboveNothing DEF BytesInv
      <4>3. CASE \E q \in 1 .. Len(Now) : Now[q] = told'.top /\ Now[q] # 0
        <5>1. PICK q \in 1 .. Len(Now) : Now[q] = told'.top /\ Now[q] # 0
          BY <4>3
        <5>2. q \in 1 .. Len(c) /\ c[q] = Now[q]
          <6>1. q \in 1 .. st.size /\ \A i \in 1 .. st.size : Now[i] = c[i]
            BY <1>1, <2>1, <2>3, <5>1, OpenFinds
          <6>2. st.size <= Len(c) /\ Len(c) \in Nat
            BY <1>2, <2>1, <2>5
          <6>. QED  BY <1>2, <6>1, <6>2
        <5>3. \A i \in Inodes \ {path} : \A j \in 1 .. Len(content[i]) :
                content[i][j] # 0 => Above(content[path], content[i][j])
          BY <2>9 DEF BytesInv, DiskInv
        <5>4. st.inode \in Inodes \ {path}
          BY <1>2, <3>3
        <5>5. Above(content[path], c[q])
          BY <5>1, <5>2, <5>3, <5>4
        <5>. QED  BY <4>1, <5>1, <5>2, <5>5
      <4>. QED  BY <2>8, <4>2, <4>3
    <3>. QED  BY <3>2, <3>3
  <2>. HIDE DEF x, m
  <2>. QED  BY <1>1, <1>3, <2>1, <2>8, <2>9 DEF OnceInv, m
<1>. QED  BY <1>5, <1>6 DEF BytesInv

LEMMA AfterMore ==
  ASSUME NEW c \in Seq(Int), NEW k \in Nat, NEW g \in Seq(Int), k + Len(g) <= Len(c),
         \A i \in 1 .. Len(g) : g[i] = c[k + i]
  PROVE  /\ Follow!After(c, k + Len(g)) \in Seq(Int)
         /\ Follow!After(c, k) = g \o Follow!After(c, k + Len(g))
<1>. DEFINE n == Len(g)
            j == k + n
            w == Follow!After(c, k)
            z == Follow!After(c, j)
            y == g \o z
<1>1. n \in Nat /\ j \in Nat /\ j = k + n /\ j <= Len(c) /\ Len(c) \in Nat
  OBVIOUS
<1>. HIDE DEF j
<1>2. /\ w \in Seq(Int) /\ Len(w) = IF k <= Len(c) THEN Len(c) - k ELSE 0
      /\ \A i \in 1 .. Len(c) - k : w[i] = c[k + i]
  BY AfterIs
<1>3. /\ z \in Seq(Int) /\ Len(z) = IF j <= Len(c) THEN Len(c) - j ELSE 0
      /\ \A i \in 1 .. Len(c) - j : z[i] = c[j + i]
  BY <1>1, AfterIs
<1>. HIDE DEF w, z
<1>4. /\ y \in Seq(Int) /\ Len(y) = n + Len(z)
      /\ \A i \in 1 .. n + Len(z) : y[i] = IF i <= n THEN g[i] ELSE z[i - n]
  BY <1>3, ConcatProperties
<1>. HIDE DEF y, n
<1>5. Len(z) = Len(c) - j /\ Len(w) = Len(c) - k /\ Len(y) = Len(w)
  BY <1>1, <1>2, <1>3, <1>4
<1>6. ASSUME NEW i \in 1 .. Len(w)
      PROVE  w[i] = y[i]
  <2>1. i \in 1 .. Len(c) - k /\ i \in 1 .. n + Len(z)
    BY <1>4, <1>5
  <2>2. w[i] = c[k + i] /\ y[i] = IF i <= n THEN g[i] ELSE z[i - n]
    BY <1>2, <1>4, <2>1
  <2>3. CASE i <= n
    <3>1. i \in 1 .. Len(g)
      BY <1>1, <2>1, <2>3 DEF n
    <3>. QED  BY <2>2, <2>3, <3>1
  <2>4. CASE ~(i <= n)
    <3>. DEFINE e == Len(c)
    <3>1. i \in Int /\ n \in Int /\ k \in Int /\ e \in Int /\ i <= e - k /\ n < i /\ j = k + n
      BY <1>1, <2>1, <2>4
    <3>. HIDE DEF e
    <3>2. i - n \in 1 .. e - j /\ j + (i - n) = k + i
      BY <3>1
    <3>. QED  BY <1>3, <2>2, <2>4, <3>2 DEF e
  <2>. QED  BY <2>3, <2>4
<1>7. w = y
  BY <1>2, <1>4, <1>5, <1>6, SeqEqual
<1>. QED  BY <1>3, <1>7 DEF w, y, z, j, n

LEMMA InThreePieces ==
  ASSUME NEW p \in Seq(Int), NEW g \in Seq(Int), NEW z \in Seq(Int)
  PROVE  (p \o g) \o z = p \o (g \o z)
BY ConcatAssociative

\* Reading starts over only in a file that nothing was told of.
LEMMA PollStatOnce ==
  ASSUME FollowType, BytesInv, Follow!PollStat
  PROVE  BytesInv'
<1>. DEFINE c == content[path]
            m == count.bytes
<1>1. /\ reader = "idle" /\ path \in Inodes /\ UNCHANGED <<path, content, born, count, told>>
      /\ Joins \/ Restarts \/ ReadsOn
  BY PollStatDoes DEF FollowType
<1>2. /\ Len(c) \in Nat /\ c \in Seq(Int) /\ TailStart \in 0 .. Len(c) /\ TailStart \in Nat
  BY <1>1, FilesAre, TailStartIs, LineSizes DEF FollowType
<1>3. f \in Reading /\ start \in Starts /\ told.top \in Nat /\ m \in Nat /\ path # 0
  BY <1>1, BytesTypes
<1>4. Rising(c) /\ Below(c, m) /\ Above(c, 0)
  BY <1>1, AboveNothing DEF BytesInv, DiskInv
<1>5. ASSUME NEW o \in 0 .. Len(c), ~told.swapped => Above(c, told.top),
             f'.ok, f'.off = o, f'.partial = <<>>,
             start'.inode = path, start'.born = born[path], start'.other = FALSE
      PROVE  BytesInv'
  <2>1. DiskInv'
    BY <1>1 DEF BytesInv, DiskInv
  <2>2. AtIt'
    BY <1>1, <1>5 DEF AtIt
  <2>. DEFINE z == Follow!After(c, o)
              a == SubSeq(c, 1, o)
              x == Rest(Follow!After(a, o)) \o z
  <2>3. Ahead' = <<>> \o z
    BY <1>1, <1>5 DEF Ahead
  <2>4. a \in Seq(Int) /\ Len(a) = o /\ z \in Seq(Int) /\ a \o z = c
    <3>. HIDE DEF c
    <3>. QED  BY <1>2, InTwoPieces
  <2>. HIDE DEF a, z
  <2>5. Follow!After(a, o) = <<>>
    <3>1. o \in Nat /\ Len(a) <= o
      BY <2>4
    <3>. QED  BY <2>4, <3>1, AfterAll
  <2>6. Rest(Follow!After(a, o)) = <<>>
    BY <2>5, EmptyText
  <2>7. x = Ahead'
    BY <2>3, <2>6
  <2>8. \E l \in Nat : x \in Seq(Int) /\ TakenAfter(x, a \o z, l)
    <3>1. o \in 0 .. Len(a)
      BY <2>4
    <3>. QED  BY <2>4, <3>1, RestTaken
  <2>. HIDE DEF x, c
  <2>9. Rising(x) /\ (\A t \in Int : Above(c, t) => Above(x, t)) /\ (\A n \in Int : Below(c, n) => Below(x, n))
    <3>1. PICK l \in Nat : x \in Seq(Int) /\ TakenAfter(x, c, l)
      BY <2>4, <2>8
    <3>. QED  BY <1>2, <1>4, <3>1, TakenIs
  <2>10. Rising(x) /\ Below(x, m) /\ (~told.swapped => Above(x, told.top))
    BY <1>3, <1>4, <1>5, <2>9
  <2>. HIDE DEF m
  <2>11. OnceInv'
    BY <1>1, <1>3, <1>5, <2>2, <2>7, <2>10 DEF BytesInv, OnceInv, m
  <2>. QED  BY <2>1, <2>11 DEF BytesInv
<1>6. ~told.swapped /\ ~f.ok => Above(c, told.top)
  BY <1>4 DEF BytesInv, OnceInv
<1>7. CASE Joins
  <2>. DEFINE cut == Len(c) > 0 /\ Follow!Last(c) # 0
              skipped == Len(Follow!SplitLines(c))
              o == Len(c)
  <2>1. /\ ~f.ok
        /\ f' = [f EXCEPT !.ok = TRUE, !.off = o, !.partial = <<>>, !.info = path]
        /\ start' = [start EXCEPT !.inode = path, !.born = born[path], !.skipped = skipped,
                                  !.cut = cut, !.other = FALSE]
    BY <1>7 DEF Joins
  <2>2. o \in 0 .. Len(c)
    BY <1>2
  <2>. HIDE DEF cut, skipped, o, c
  <2>3. /\ f'.ok /\ f'.off = o /\ f'.partial = <<>>
        /\ start'.inode = path /\ start'.born = born[path] /\ start'.other = FALSE
    BY <1>3, <2>1 DEF Reading, Starts
  <2>. QED  BY <1>5, <1>6, <2>1, <2>2, <2>3
<1>8. CASE Restarts
  <2>. DEFINE o == TailStart
              skip == o > 0
              skipped == Len(Follow!SplitLines(SubSeq(c, 1, o))) + (IF o > 0 THEN 1 ELSE 0)
  <2>1. /\ Follow!Changed(path, Len(c))
        /\ f' = [f EXCEPT !.ok = TRUE, !.off = o, !.partial = <<>>, !.info = path, !.skip = skip]
        /\ start' = [start EXCEPT !.inode = path, !.born = born[path], !.skipped = skipped,
                                  !.cut = FALSE, !.other = FALSE]
    BY <1>8 DEF Restarts
  <2>2. o \in 0 .. Len(c)
    BY <1>2
  <2>3. ~told.swapped => Above(c, told.top)
    <3>. SUFFICES ASSUME ~told.swapped, f.ok PROVE Above(c, told.top)
      BY <1>6
    <3>1. Len(c) < f.off \/ f.info # path
      BY <2>1 DEF Follow!Changed
    <3>2. f.info = start.inode /\ (SameFile => f.off <= Len(content[start.inode])) /\ ~start.other
      BY DEF FollowType, OpenInv, BytesInv, OnceInv
    <3>3. ~AtIt
      <4>. SUFFICES ASSUME AtIt PROVE FALSE
        OBVIOUS
      <4>1. f.off <= Len(c)
        BY <3>2 DEF AtIt, SameFile
      <4>2. f.off \in Nat
        BY BytesTypes
      <4>. QED  BY <1>2, <3>1, <3>2, <4>1, <4>2 DEF AtIt
    <3>. QED  BY <1>3, <3>3 DEF BytesInv, OnceInv
  <2>. HIDE DEF skip, skipped, o, c
  <2>4. /\ f'.ok /\ f'.off = o /\ f'.partial = <<>>
        /\ start'.inode = path /\ start'.born = born[path] /\ start'.other = FALSE
    BY <1>3, <2>1 DEF Reading, Starts
  <2>. QED  BY <1>5, <2>2, <2>3, <2>4
<1>9. CASE ReadsOn
  <2>1. UNCHANGED <<start, f>>
    BY <1>9 DEF ReadsOn
  <2>. QED  BY <1>1, <2>1, SameOnce
<1>. QED  BY <1>1, <1>7, <1>8, <1>9

\* A piece that comes from the file that is followed is what was ahead.
LEMMA PollReadOnce ==
  ASSUME FollowType, BytesInv, Follow!PollRead
  PROVE  BytesInv'
<1>. DEFINE kept  == Kept(Got)
            lines == Follow!SplitLines(kept)
            rest  == Rest(kept)
            skip  == f.skip /\ Follow!Breaks(All(Got)) = <<>>
            off   == f.off + Len(Got)
            other == Other
            swap  == start.other \/ Other
            c     == content[path]
            m     == count.bytes
            a     == All(Got)
<1>1. /\ path # 0 /\ UNCHANGED <<path, content, born, count, st>>
      /\ f' = [f EXCEPT !.off = off, !.skip = skip, !.partial = rest]
      /\ start' = [start EXCEPT !.other = swap]
      /\ Follow!Tell(lines, other)
  BY PollReadDoes
<1>2. /\ f \in Reading /\ start \in Starts /\ told \in Telling /\ path \in Inodes
      /\ m \in Nat /\ told.top \in Nat /\ f.off \in Nat /\ f.partial \in Seq(Int)
  BY <1>1, BytesTypes
<1>3. /\ f'.ok = f.ok /\ f'.off = off /\ f'.partial = rest
      /\ start'.inode = start.inode /\ start'.born = start.born /\ start'.other = swap
  <2>. HIDE DEF off, skip, rest, swap
  <2>. QED  BY <1>1, <1>2 DEF Reading, Starts
<1>4. lines \in Seq(Follow!Lines) /\ other \in BOOLEAN /\ a \in Seq(Int)
  BY <1>2, KeptType, ByteSeqs, Zenon DEF Other
<1>5. DiskInv'
  BY <1>1 DEF BytesInv, DiskInv
<1>6. OnceInv'
  <2>. SUFFICES ASSUME ~told'.swapped PROVE OnceInv'
    BY DEF OnceInv
  <2>1. ~told.swapped /\ ~other
    <3>1. told'.swapped <=> told.swapped \/ other
      <4>. HIDE DEF lines, other
      <4>. QED  BY <1>1, <1>2, <1>4, TellIs
    <3>. QED  BY <3>1
  <2>2. ~told.again /\ told.top <= m /\ ~start.other /\ (~f.ok => told.top = 0)
    BY <2>1 DEF BytesInv, OnceInv
  <2>3. AtIt /\ AtIt' /\ start'.other = FALSE
    BY <1>1, <1>3, <2>1, <2>2 DEF AtIt, Other
  <2>4. c \in Seq(Int) /\ Len(c) \in Nat
    BY <1>2, FilesAre DEF FollowType
  <2>5. PICK k \in 0 .. Len(a) : kept = Follow!After(a, k)
    <3>1. Len(a) \in Nat
      BY <1>4
    <3>2. CASE f.skip /\ Follow!Breaks(a) = <<>>
      <4>1. kept = <<>>
        BY <3>2 DEF Kept
      <4>. HIDE DEF a
      <4>2. Follow!After(a, Len(a)) = <<>>
        BY <1>4, <3>1, AfterAll
      <4>3. Len(a) \in 0 .. Len(a)
        BY <3>1
      <4>. HIDE DEF kept
      <4>. QED  BY <4>1, <4>2, <4>3
    <3>3. CASE f.skip /\ Follow!Breaks(a) # <<>>
      <4>1. kept = Follow!After(a, Follow!FirstBreak(a))
        BY <3>3 DEF Kept
      <4>. HIDE DEF a, kept
      <4>2. Follow!FirstBreak(a) \in 0 .. Len(a)
        <5>1. Follow!FirstBreak(a) \in 1 .. Len(a)
          BY <1>4, <3>3, FirstBreakIs
        <5>. QED  BY <3>1, <5>1
      <4>. QED  BY <4>1, <4>2
    <3>4. CASE ~f.skip
      <4>1. kept = a
        BY <3>4 DEF Kept
      <4>. HIDE DEF a, kept
      <4>2. SubSeq(a, 1, Len(a)) = a
        BY <1>4, SubSeqFull
      <4>3. Follow!After(a, 0) = a /\ 0 \in 0 .. Len(a)
        BY <3>1, <4>2 DEF Follow!After
      <4>. QED  BY <4>1, <4>3
    <3>. QED  BY <3>2, <3>3, <3>4
  <2>6. CASE f.ok
    <3>1. f.off <= Len(c)
      BY <2>2, <2>3, <2>6 DEF FollowType, OpenInv, SameFile, AtIt
    <3>2. Rising(Ahead) /\ Above(Ahead, told.top) /\ Below(Ahead, m)
      BY <1>1, <2>1, <2>3, <2>6 DEF BytesInv, OnceInv
    <3>. DEFINE z == Follow!After(c, off)
                w == Follow!After(c, f.off)
                h == f.off
    <3>3. /\ Got \in Seq(Int) /\ Len(Got) \in Nat /\ h + Len(Got) <= Len(c)
          /\ \A i \in 1 .. Len(Got) : h + i \in 1 .. Len(c) /\ Got[i] = c[h + i]
      BY <1>2, <3>1, GotIs, ByteSeqs
    <3>4. z \in Seq(Int) /\ w = Got \o z
      <4>. DEFINE g == Got
                  n == Len(Got)
      <4>1. off = h + n /\ h \in Nat
        BY <1>2
      <4>. HIDE DEF c, h, g, n, off
      <4>2. g \in Seq(Int) /\ Len(g) = n /\ n \in Nat /\ h + n <= Len(c) /\ \A i \in 1 .. n : g[i] = c[h + i]
        BY <3>3 DEF g, n
      <4>3. Follow!After(c, h + n) \in Seq(Int) /\ Follow!After(c, h) = g \o Follow!After(c, h + n)
        BY <2>4, <4>1, <4>2, AfterMore
      <4>. QED  BY <4>1, <4>3 DEF g, h
    <3>5. Ahead = a \o z
      <4>1. Ahead = f.partial \o w
        BY DEF Ahead
      <4>. DEFINE p == f.partial
                  g == Got
      <4>. HIDE DEF z, w, p, g
      <4>2. p \in Seq(Int) /\ g \in Seq(Int) /\ z \in Seq(Int)
        BY <1>2, <3>3, <3>4 DEF p, g
      <4>3. (p \o g) \o z = p \o (g \o z)
        BY <4>2, InThreePieces
      <4>. QED  BY <3>4, <4>1, <4>3 DEF All, p, g
    <3>6. Ahead' = rest \o z
      BY <1>1, <1>3 DEF Ahead
    <3>7. rest = Rest(Follow!After(a, k)) /\ Shown(lines) \subseteq Shown(Follow!SplitLines(Follow!After(a, k)))
      BY <2>5
    <3>8. /\ a \in Seq(Int) /\ z \in Seq(Int) /\ k \in 0 .. Len(a) /\ m \in Nat
          /\ lines \in Seq(Follow!Lines) /\ other \in BOOLEAN
          /\ told \in Telling /\ Follow!Tell(lines, other) /\ ~told.again /\ told.top <= m
      BY <1>1, <1>2, <1>4, <2>2, <2>5, <3>4
    <3>9. Rising(a \o z) /\ Above(a \o z, told.top) /\ Below(a \o z, m)
      BY <3>2, <3>5
    <3>. HIDE DEF a, z, m, lines, other, rest, c
    <3>10. /\ ~told'.again /\ told'.top <= m
           /\ Rising(Rest(Follow!After(a, k)) \o z) /\ Above(Rest(Follow!After(a, k)) \o z, told'.top)
           /\ Below(Rest(Follow!After(a, k)) \o z, m)
      BY <3>7, <3>8, <3>9, TellsOn
    <3>11. Rising(Ahead') /\ Above(Ahead', told'.top) /\ Below(Ahead', m)
      BY <3>6, <3>7, <3>10
    <3>. QED  BY <1>1, <1>3, <2>3, <2>6, <3>10, <3>11 DEF OnceInv, m
  <2>7. f.ok
    BY PollReadDoes DEF FollowType, OpenInv
  <2>. QED  BY <2>6, <2>7
<1>. QED  BY <1>5, <1>6 DEF BytesInv

LEMMA BytesStep ==
  FollowType /\ BytesInv /\ [Follow!Next]_(Follow!vars) => BytesInv'
<1>. SUFFICES ASSUME FollowType, BytesInv, [Follow!Next]_(Follow!vars)
              PROVE  BytesInv'
  OBVIOUS
<1>. USE DEF Follow!disk, Follow!spoken, Follow!reader
<1>1. CASE Follow!WriteByte
  BY <1>1, WriteOnce
<1>2. CASE Follow!Truncate
  <2>1. /\ path \in Inodes /\ path' = path /\ count' = [count EXCEPT !.swaps = @ + 1]
        /\ content' = [content EXCEPT ![path] = <<>>] /\ born' = [born EXCEPT ![path] = @ + 1]
        /\ UNCHANGED <<f, start, told>>
    BY <1>2, BytesTypes DEF Follow!Truncate
  <2>2. count'.bytes = count.bytes
    BY <2>1, BytesTypes DEF Counts
  <2>. QED  BY <2>1, <2>2, EmptiedOnce
<1>3. CASE Follow!MoveAway
  <2>1. /\ path' = 0 /\ count' = [count EXCEPT !.swaps = @ + 1]
        /\ UNCHANGED <<content, born, f, start, told>>
    BY <1>3 DEF Follow!MoveAway
  <2>2. count'.bytes = count.bytes
    BY <2>1, BytesTypes DEF Counts
  <2>. QED  BY <2>1, <2>2, SameOnce
<1>4. CASE \E i \in Inodes : Follow!Create(i)
  <2>1. PICK i \in Inodes : Follow!Create(i)
    BY <1>4
  <2>2. /\ path' = i /\ content' = [content EXCEPT ![i] = <<>>] /\ born' = [born EXCEPT ![i] = @ + 1]
        /\ UNCHANGED <<count, f, start, told>>
    BY <2>1 DEF Follow!Create
  <2>. QED  BY <2>2, EmptiedOnce
<1>5. CASE Follow!OpenFails \/ Follow!OpenStat \/ Follow!PollFails
  <2>1. /\ UNCHANGED <<path, content, born, start, told>>
        /\ (f' = f \/ f' = [f EXCEPT !.missing = (reader = "new")])
        /\ Follow!Fails \/ UNCHANGED count
    BY <1>5 DEF Follow!OpenFails, Follow!OpenStat, Follow!PollFails
  <2>2. f'.ok = f.ok /\ f'.off = f.off /\ f'.partial = f.partial
    BY <2>1, BytesTypes DEF Reading
  <2>3. count'.bytes = count.bytes
    BY <2>1, BytesTypes, FailsIs
  <2>. QED  BY <2>1, <2>2, <2>3, SameOnce
<1>6. CASE Follow!OpenSize
  <2>1. /\ ~f.ok /\ UNCHANGED <<path, content, born, count, f, told>>
        /\ start' = [start EXCEPT !.born = born[path]]
    BY <1>6 DEF Follow!OpenSize, FollowType, OpenInv
  <2>2. start'.other = start.other
    BY <2>1, BytesTypes DEF Starts
  <2>. QED  BY <2>1, <2>2, SameOnce
<1>7. CASE Follow!OpenRead
  BY <1>7, OpenReadOnce
<1>8. CASE Follow!PollStat
  BY <1>8, PollStatOnce
<1>9. CASE Follow!PollRead
  BY <1>9, PollReadOnce
<1>10. CASE UNCHANGED Follow!vars
  BY <1>10, SameOnce DEF Follow!vars
<1>. QED  BY <1>1, <1>2, <1>3, <1>4, <1>5, <1>6, <1>7, <1>8, <1>9, <1>10
          DEF Follow!Next, Follow!Open, Follow!Poll

\* Whenever reading starts over, after a truncation, a rotation or a failure,
\* nothing is returned again, unless the file was swapped between poll's Stat and
\* its read (open and poll of logs.go).
THEOREM NothingComesAgain == PartsSpec => []NeverTwice
<1>1. PartsInit => FollowType /\ BytesInv
  <2>. SUFFICES ASSUME PartsInit PROVE FollowType /\ BytesInv
    OBVIOUS
  <2>1. Follow!Init
    BY DEF PartsInit
  <2>2. DiskInv
    <3>1. \A i \in Inodes : content[i] = <<>> /\ 1 .. Len(content[i]) = {}
      BY <2>1 DEF Follow!Init
    <3>. QED  BY <3>1 DEF DiskInv, Rising, Above, Below
  <2>3. OnceInv
    BY <2>1 DEF OnceInv, Follow!Init
  <2>. QED  BY <2>1, <2>2, <2>3, FollowInitType DEF BytesInv
<1>2. FollowType /\ BytesInv /\ [PartsNext]_<<part, vars, units, logs>> => FollowType' /\ BytesInv'
  BY PartsDo, FollowTypeStep, BytesStep
<1>3. BytesInv => NeverTwice
  BY DEF BytesInv, OnceInv, NeverTwice, Follow!NeverTwice
<1>. QED  BY <1>1, <1>2, <1>3, PTL DEF PartsSpec

=============================================================================

--------------------------- MODULE ActivityProofs ---------------------------
(***************************************************************************)
(* Theorems about Activity: types, that memory is the end of the file and  *)
(* nobody is told of what the file lacks unless a write failed, and that   *)
(* the complete lines of the file implement AuditLog, over failed writes   *)
(* too.  They follow from ActivityInv.                                     *)
(***************************************************************************)
EXTENDS Activity, SequenceTheorems, TLAPS

Saved == Range(file.entries)

\* An entry is in the file only if its handler recorded it.
Recorded(r) ==
  /\ r \in Saved => r \in ran /\ pc[r] \notin {"idle", "acted"}
  /\ pc[r] = "acted" /\ result[r] # "refused" => r \in ran

\* As long as no write failed, what a handler recorded is in the file.
Kept(r) ==
  /\ pc[r] \in {"recorded", "sent"} => r \in Saved
  /\ pc[r] = "answered" /\ result[r] # "refused" => r \in Saved

Shows ==
  /\ Range(list) \subseteq Saved /\ Range(net) \subseteq Saved
  /\ \A m \in Mounts : Range(fetch[m].entries) \subseteq Saved

Honest == \A r \in Requests : Recorded(r)

Sound == ~failed => /\ file.end = "whole"
                    /\ recent = Newest(file.entries, Keep)
                    /\ \A r \in Requests : Kept(r)
                    /\ Shows

ActivityInv == TypeOK /\ Honest /\ Sound

-----------------------------------------------------------------------------
(* The ends of sequences.                                                  *)

LEMMA NewestIs ==
  ASSUME NEW S, NEW s \in Seq(S), NEW n \in Nat \ {0}
  PROVE  /\ Newest(s, n) \in Seq(S)
         /\ Len(Newest(s, n)) = IF Len(s) > n THEN n ELSE Len(s)
         /\ \A i \in 1..Len(Newest(s, n)) :
              Newest(s, n)[i] = s[IF Len(s) > n THEN Len(s) - n + i ELSE i]
<1>. DEFINE a == IF Len(s) > n THEN Len(s) - n + 1 ELSE 1
<1>1. a \in Int /\ Len(s) \in Nat /\ \A i \in a..Len(s) : s[i] \in S
  OBVIOUS
<1>2. /\ SubSeq(s, a, Len(s)) \in Seq(S)
      /\ Len(SubSeq(s, a, Len(s))) = IF a <= Len(s) THEN Len(s) - a + 1 ELSE 0
      /\ \A i \in 1..(Len(s) - a + 1) : SubSeq(s, a, Len(s))[i] = s[a + i - 1]
  BY <1>1, SubSeqProperties
<1>3. Newest(s, n) = SubSeq(s, a, Len(s))
  BY DEF Newest
<1>4. CASE Len(s) > n
  <2>1. a = Len(s) - n + 1 /\ Len(s) - a + 1 = n /\ a <= Len(s)
    BY <1>1, <1>4
  <2>. HIDE DEF a
  <2>2. Len(Newest(s, n)) = n /\ Newest(s, n) \in Seq(S)
    BY <1>2, <1>3, <2>1
  <2>3. \A i \in 1..n : Newest(s, n)[i] = s[a + i - 1] /\ a + i - 1 = Len(s) - n + i
    BY <1>1, <1>2, <1>3, <2>1
  <2>. QED  BY <1>4, <2>2, <2>3
<1>5. CASE ~(Len(s) > n)
  <2>1. a = 1 /\ Len(s) - a + 1 = Len(s)
    BY <1>1, <1>5
  <2>. HIDE DEF a
  <2>2. Len(Newest(s, n)) = Len(s) /\ Newest(s, n) \in Seq(S)
    BY <1>1, <1>2, <1>3, <2>1
  <2>3. \A i \in 1..Len(s) : Newest(s, n)[i] = s[a + i - 1] /\ a + i - 1 = i
    BY <1>1, <1>2, <1>3, <2>1
  <2>. QED  BY <1>5, <2>2, <2>3
<1>. QED  BY <1>4, <1>5

LEMMA CutIs ==
  ASSUME NEW S, NEW s \in Seq(S), NEW n \in Nat \ {0}
  PROVE  /\ Cut(s, n) \in Seq(S) /\ Len(Cut(s, n)) <= n
         /\ Range(Cut(s, n)) \subseteq Range(s)
<1>. DEFINE b == IF Len(s) > n THEN n ELSE Len(s)
<1>1. b \in Nat /\ Len(s) \in Nat /\ b <= Len(s) /\ b <= n /\ \A i \in 1..b : s[i] \in S
  OBVIOUS
<1>2. /\ SubSeq(s, 1, b) \in Seq(S)
      /\ Len(SubSeq(s, 1, b)) = b
      /\ \A i \in 1..b : SubSeq(s, 1, b)[i] = s[i]
  BY <1>1, SubSeqProperties
<1>3. Cut(s, n) = SubSeq(s, 1, b)
  BY DEF Cut
<1>. QED  BY <1>1, <1>2, <1>3 DEF Range

LEMMA NewestFits ==
  ASSUME NEW S, NEW s \in Seq(S), NEW n \in Nat \ {0}
  PROVE  Newest(s, n) \in Seq(S) /\ Len(Newest(s, n)) <= n
<1>1. Len(s) \in Nat
  OBVIOUS
<1>2. Len(Newest(s, n)) = IF Len(s) > n THEN n ELSE Len(s)
  BY NewestIs
<1>3. Newest(s, n) \in Seq(S)
  BY NewestIs
<1>. QED  BY <1>1, <1>2, <1>3

LEMMA NewestRange ==
  ASSUME NEW S, NEW s \in Seq(S), NEW n \in Nat \ {0}
  PROVE  Range(Newest(s, n)) \subseteq Range(s)
  BY NewestIs DEF Range

LEMMA ReverseIs ==
  ASSUME NEW S, NEW s \in Seq(S)
  PROVE  /\ Reverse(s) \in Seq(S) /\ Len(Reverse(s)) = Len(s)
         /\ Range(Reverse(s)) \subseteq Range(s)
  BY DEF Reverse, Range

LEMMA AppendRange ==
  ASSUME NEW S, NEW s \in Seq(S), NEW e \in S
  PROVE  Append(s, e) \in Seq(S) /\ Range(Append(s, e)) = Range(s) \cup {e}
<1>1. /\ Append(s, e) \in Seq(S) /\ Len(Append(s, e)) = Len(s) + 1
      /\ \A i \in 1..Len(s) : Append(s, e)[i] = s[i]
      /\ Append(s, e)[Len(s) + 1] = e
  OBVIOUS
<1>2. \A i \in 1..(Len(s) + 1) : i \in 1..Len(s) \/ i = Len(s) + 1
  OBVIOUS
<1>3. /\ DOMAIN Append(s, e) = 1..(Len(s) + 1) /\ DOMAIN s = 1..Len(s)
      /\ 1..Len(s) \subseteq 1..(Len(s) + 1) /\ Len(s) + 1 \in 1..(Len(s) + 1)
  BY <1>1
<1>. QED  BY <1>1, <1>2, <1>3 DEF Range

LEMMA AppendFilled ==
  ASSUME NEW S, NEW s \in Seq(S), NEW e \in S
  PROVE  Append(s, e) # <<>>
<1>1. Len(s) \in Nat /\ Len(Append(s, e)) = Len(s) + 1 /\ Len(<<>>) = 0
  OBVIOUS
<1>. QED  BY <1>1

LEMMA FrontAppended ==
  ASSUME NEW S, NEW s \in Seq(S), NEW e \in S
  PROVE  Front(Append(s, e)) = s
<1>. DEFINE t == Append(s, e)
<1>1. /\ t \in Seq(S) /\ Len(s) \in Nat /\ Len(t) = Len(s) + 1
      /\ \A i \in 1..Len(s) : t[i] = s[i] /\ s[i] \in S
  OBVIOUS
<1>. HIDE DEF t
<1>2. /\ SubSeq(t, 1, Len(s)) \in Seq(S) /\ Len(SubSeq(t, 1, Len(s))) = Len(s)
      /\ \A i \in 1..Len(s) : SubSeq(t, 1, Len(s))[i] = t[i]
  BY <1>1, SubSeqProperties
<1>3. SubSeq(t, 1, Len(s)) = s
  BY <1>1, <1>2, SeqEqual
<1>4. Len(t) - 1 = Len(s)
  BY <1>1
<1>. QED  BY <1>3, <1>4 DEF Front, t

LEMMA AllButLast ==
  ASSUME NEW S, NEW s \in Seq(S), s # <<>>
  PROVE  Front(s) \in Seq(S) /\ Range(Front(s)) \subseteq Range(s)
<1>1. Len(s) \in Nat \ {0} /\ \A i \in 1..(Len(s) - 1) : s[i] \in S
  OBVIOUS
<1>. DEFINE b == Len(s) - 1
<1>b. b \in Nat
  BY <1>1
<1>c. /\ SubSeq(s, 1, b) \in Seq(S) /\ Len(SubSeq(s, 1, b)) = b
      /\ \A i \in 1..b : SubSeq(s, 1, b)[i] = s[i]
  <2>. HIDE DEF b
  <2>1. \A i \in 1..b : s[i] \in S
    BY <1>1 DEF b
  <2>. QED  BY <1>b, <2>1, SubSeqProperties
<1>2. /\ SubSeq(s, 1, Len(s) - 1) \in Seq(S)
      /\ Len(SubSeq(s, 1, Len(s) - 1)) = Len(s) - 1
      /\ \A i \in 1..(Len(s) - 1) : SubSeq(s, 1, Len(s) - 1)[i] = s[i]
  BY <1>c
<1>3. DOMAIN s = 1..Len(s) /\ DOMAIN SubSeq(s, 1, Len(s) - 1) = 1..(Len(s) - 1)
  BY <1>1, <1>2
<1>4. \A i \in 1..(Len(s) - 1) : i \in 1..Len(s)
  BY <1>1
<1>5. Range(SubSeq(s, 1, Len(s) - 1)) \subseteq Range(s)
  BY <1>2, <1>3, <1>4 DEF Range
<1>. QED  BY <1>2, <1>5 DEF Front

\* What push keeps of the newest entries and one more is the newest of all.
LEMMA NewestAppend ==
  ASSUME NEW S, NEW s \in Seq(S), NEW e \in S, NEW n \in Nat \ {0}
  PROVE  Newest(Append(Newest(s, n), e), n) = Newest(Append(s, e), n)
<1>. DEFINE t == Newest(s, n)
            u == Append(t, e)
            v == Append(s, e)
<1>1. /\ t \in Seq(S) /\ Len(t) = (IF Len(s) > n THEN n ELSE Len(s))
      /\ \A i \in 1..Len(t) : t[i] = s[IF Len(s) > n THEN Len(s) - n + i ELSE i]
  BY NewestIs
<1>. HIDE DEF t
<1>2. /\ u \in Seq(S) /\ Len(u) = Len(t) + 1 /\ u[Len(t) + 1] = e
      /\ \A i \in 1..Len(t) : u[i] = t[i]
  BY <1>1
<1>3. /\ v \in Seq(S) /\ Len(v) = Len(s) + 1 /\ v[Len(s) + 1] = e
      /\ \A i \in 1..Len(s) : v[i] = s[i]
  OBVIOUS
<1>. HIDE DEF u, v
<1>4. /\ Newest(u, n) \in Seq(S)
      /\ Len(Newest(u, n)) = (IF Len(u) > n THEN n ELSE Len(u))
      /\ \A i \in 1..Len(Newest(u, n)) :
           Newest(u, n)[i] = u[IF Len(u) > n THEN Len(u) - n + i ELSE i]
  BY <1>2, NewestIs
<1>5. /\ Newest(v, n) \in Seq(S)
      /\ Len(Newest(v, n)) = (IF Len(v) > n THEN n ELSE Len(v))
      /\ \A i \in 1..Len(Newest(v, n)) :
           Newest(v, n)[i] = v[IF Len(v) > n THEN Len(v) - n + i ELSE i]
  BY <1>3, NewestIs
<1>6. Len(s) \in Nat
  OBVIOUS
<1>7. Len(Newest(u, n)) = Len(Newest(v, n))
  BY <1>1, <1>2, <1>3, <1>4, <1>5, <1>6
<1>8. ASSUME NEW i \in 1..Len(Newest(u, n))
      PROVE  Newest(u, n)[i] = Newest(v, n)[i]
  <2>1. CASE Len(s) > n
    <3>1. i \in 1..n /\ Newest(u, n)[i] = u[1 + i] /\ Newest(v, n)[i] = v[Len(s) + 1 - n + i]
      <4>1. Len(t) = n /\ Len(u) = n + 1 /\ Len(v) = Len(s) + 1
        BY <2>1, <1>1, <1>2, <1>3
      <4>2. Len(Newest(u, n)) = n /\ Len(Newest(v, n)) = n /\ i \in 1..n
        BY <2>1, <4>1, <1>4, <1>5, <1>6
      <4>3. Newest(u, n)[i] = u[n + 1 - n + i]
        BY <4>1, <4>2, <1>4
      <4>4. Newest(v, n)[i] = v[Len(s) + 1 - n + i]
        <5>1. Len(v) > n /\ i \in 1..Len(Newest(v, n))
          BY <2>1, <4>1, <4>2, <1>6
        <5>2. Newest(v, n)[i] = v[Len(v) - n + i]
          BY <5>1, <1>5
        <5>. QED  BY <5>2, <4>1
      <4>. QED  BY <4>2, <4>3, <4>4
    <3>2. CASE i = n
      BY <3>1, <3>2, <2>1, <1>1, <1>2, <1>3, <1>6
    <3>3. CASE i < n
      <4>1. 1 + i \in 1..Len(t) /\ Len(s) + 1 - n + i \in 1..Len(s)
        BY <3>1, <3>3, <2>1, <1>1, <1>6
      <4>2. u[1 + i] = s[Len(s) - n + (1 + i)]
        BY <4>1, <2>1, <1>1, <1>2
      <4>3. Len(s) - n + (1 + i) = Len(s) + 1 - n + i
        BY <1>6, <3>1
      <4>. QED  BY <3>1, <4>1, <4>2, <4>3, <1>3
    <3>. QED  BY <3>1, <3>2, <3>3
  <2>2. CASE Len(s) <= n
    <3>1. /\ Len(t) = Len(s) /\ Len(u) = Len(v)
          /\ \A j \in 1..Len(s) : t[j] = s[j]
      BY <2>2, <1>1, <1>2, <1>3, <1>6
    <3>2. \A j \in 1..Len(u) : u[j] = v[j]
      BY <3>1, <1>2, <1>3, <1>6
    <3>3. u = v
      BY <3>1, <3>2, <1>2, <1>3, SeqEqual
    <3>. QED  BY <3>3
  <2>. QED  BY <2>1, <2>2, <1>6
<1>9. Newest(u, n) = Newest(v, n)
  BY <1>4, <1>5, <1>7, <1>8, SeqEqual
<1>. QED  BY <1>9 DEF u, v, t

\* What Receive takes from the websocket and puts in front of the list.
LEMMA HeadTail ==
  ASSUME NEW S, NEW s \in Seq(S), s # <<>>
  PROVE  /\ Head(s) \in S /\ Tail(s) \in Seq(S)
         /\ Head(s) \in Range(s) /\ Range(Tail(s)) \subseteq Range(s)
<1>1. /\ Len(s) \in Nat \ {0} /\ Head(s) = s[1] /\ s[1] \in S
      /\ Tail(s) \in Seq(S) /\ Len(Tail(s)) = Len(s) - 1
      /\ \A i \in 1..(Len(s) - 1) : Tail(s)[i] = s[i + 1]
  OBVIOUS
<1>2. DOMAIN s = 1..Len(s) /\ DOMAIN Tail(s) = 1..(Len(s) - 1)
  BY <1>1
<1>3. \A i \in 1..(Len(s) - 1) : i + 1 \in 1..Len(s)
  BY <1>1
<1>. QED  BY <1>1, <1>2, <1>3 DEF Range

LEMMA FrontIs ==
  ASSUME NEW S, NEW s \in Seq(S), NEW e \in S
  PROVE  <<e>> \o s \in Seq(S) /\ Range(<<e>> \o s) \subseteq Range(s) \cup {e}
<1>1. /\ <<e>> \o s \in Seq(S) /\ Len(<<e>> \o s) = Len(s) + 1
      /\ \A i \in 1..(Len(s) + 1) : (<<e>> \o s)[i] = IF i = 1 THEN e ELSE s[i - 1]
  OBVIOUS
<1>2. \A i \in 1..(Len(s) + 1) : i = 1 \/ i - 1 \in 1..Len(s)
  OBVIOUS
<1>3. DOMAIN s = 1..Len(s) /\ DOMAIN (<<e>> \o s) = 1..(Len(s) + 1)
  BY <1>1
<1>. QED  BY <1>1, <1>2, <1>3 DEF Range

-----------------------------------------------------------------------------
(* Types.                                                                  *)

LEMMA PushType ==
  ASSUME TypeOK, NEW r \in Requests, Push(r)
  PROVE  recent' \in Seq(Requests) /\ Len(recent') <= Keep
<1>1. Append(recent, r) \in Seq(Requests) /\ Keep \in Nat \ {0}
  BY ActivityAssumption, AppendRange DEF TypeOK
<1>. QED  BY <1>1, NewestFits DEF Push

Files == [entries : Seq(Requests), end : {"whole", "torn", "unended"}]

\* The complete lines are the entries, or all of them but the last.
LEMMA LinesAre ==
  ASSUME TypeOK
  PROVE  Lines \in Seq(Requests) /\ Range(Lines) \subseteq Saved
<1>1. file.entries \in Seq(Requests) /\ (file.end = "unended" => file.entries # <<>>)
  BY DEF TypeOK
<1>2. CASE file.end = "unended"
  BY <1>1, <1>2, AllButLast DEF Lines, Saved
<1>3. CASE file.end # "unended"
  BY <1>1, <1>3 DEF Lines, Saved
<1>. QED  BY <1>2, <1>3

LEMMA WriteType ==
  ASSUME TypeOK, NEW r \in Requests, Write(r)
  PROVE  /\ file' \in Files /\ failed' \in BOOLEAN
         /\ file'.end = "unended" => file'.entries # <<>>
<1>1. file \in Files /\ failed \in BOOLEAN /\ (file.end = "unended" => file.entries # <<>>)
  BY DEF TypeOK, Files
<1>2. Lines \in Seq(Requests) /\ Append(Lines, r) \in Seq(Requests) /\ Append(Lines, r) # <<>>
  BY LinesAre, AppendRange, AppendFilled
<1>f. failed' \in BOOLEAN
  BY <1>1 DEF Write
<1>3. CASE UNCHANGED file
  BY <1>1, <1>3, <1>f
<1>4. CASE \E e \in {"whole", "torn", "unended"} :
             \/ file' = [entries |-> Lines, end |-> e] /\ e # "unended"
             \/ file' = [entries |-> Append(Lines, r), end |-> e]
  <2>1. PICK e \in {"whole", "torn", "unended"} :
               \/ file' = [entries |-> Lines, end |-> e] /\ e # "unended"
               \/ file' = [entries |-> Append(Lines, r), end |-> e]
    BY <1>4
  <2>2. file' \in Files /\ (file'.end = "unended" => file'.entries # <<>>)
    <3>1. CASE file' = [entries |-> Lines, end |-> e] /\ e # "unended"
      BY <1>2, <3>1 DEF Files
    <3>2. CASE file' = [entries |-> Append(Lines, r), end |-> e]
      BY <1>2, <3>2 DEF Files
    <3>. QED  BY <2>1, <3>1, <3>2
  <2>. QED  BY <2>2, <1>f
<1>. QED  BY <1>3, <1>4 DEF Write

LEMMA TypeInit == Init => TypeOK
<1>1. <<>> \in Seq(Requests) /\ Len(<<>>) = 0
  OBVIOUS
<1>. SUFFICES ASSUME Init PROVE TypeOK
  OBVIOUS
<1>. USE ActivityAssumption
<1>2. [entries |-> <<>>, end |-> "whole"] \in Files
  BY <1>1 DEF Files
<1>3. [pc |-> "over", entries |-> <<>>] \in Fetches
  BY <1>1 DEF Fetches
<1>4. /\ fetch \in [Mounts -> Fetches]
      /\ \A m \in Mounts : Len(fetch[m].entries) <= Shown
  BY <1>1, <1>3 DEF Init
<1>5. /\ count \in [restarts : 0..MaxRestarts, losses : 0..MaxLosses]
      /\ mounted \in [now : BOOLEAN, times : {0} \cup Mounts]
  BY DEF Init
<1>6. /\ pc \in [Requests -> {"idle", "acted", "recorded", "sent", "answered", "gone"}]
      /\ result \in [Requests -> Results]
  BY DEF Init, Results
<1>7. /\ recent \in Seq(Requests) /\ Len(recent) <= Keep
      /\ list \in Seq(Requests) /\ Len(list) <= Shown
  BY <1>1 DEF Init
<1>8. socket \in BOOLEAN /\ net \in Seq(Requests)
  BY <1>1 DEF Init
<1>9. ran \subseteq Requests /\ failed \in BOOLEAN
  BY DEF Init
<1>10. file \in Files /\ file.end # "unended"
  BY <1>2 DEF Init
<1>. QED  BY <1>4, <1>5, <1>6, <1>7, <1>8, <1>9, <1>10 DEF TypeOK, Files

LEMMA TypeNext == TypeOK /\ [Next]_vars => TypeOK'
<1>. SUFFICES ASSUME TypeOK, [Next]_vars PROVE TypeOK'
  OBVIOUS
<1>. USE ActivityAssumption
<1>e. <<>> \in Seq(Requests) /\ Len(<<>>) = 0
  OBVIOUS
<1>1. ASSUME NEW r \in Requests, NEW res \in Results, Do(r, res)
      PROVE  TypeOK'
  BY <1>1 DEF Do, TypeOK, log, page
<1>2. ASSUME NEW r \in Requests, Record(r)
      PROVE  TypeOK'
  BY <1>2, PushType, WriteType DEF Record, TypeOK, page, Files
<1>3. ASSUME NEW r \in Requests, Send(r)
      PROVE  TypeOK'
  <2>1. net' \in Seq(Requests)
    BY <1>3, AppendRange DEF Send, TypeOK
  <2>. QED  BY <2>1, <1>3 DEF Send, TypeOK, log
<1>4. ASSUME NEW r \in Requests, Reply(r)
      PROVE  TypeOK'
  BY <1>4 DEF Reply, TypeOK, log, page
<1>5. CASE Restart
  <2>1. recent' \in Seq(Requests) /\ Len(recent') <= Keep
    BY <1>5, NewestFits DEF Restart, TypeOK
  <2>2. /\ fetch' \in [Mounts -> Fetches]
        /\ \A m \in Mounts : Len(fetch'[m].entries) <= Shown
    BY <1>5, <1>e DEF Restart, TypeOK, Fetches
  <2>3. pc' \in [Requests -> {"idle", "acted", "recorded", "sent", "answered", "gone"}]
    BY <1>5 DEF Restart, TypeOK
  <2>4. count' \in [restarts : 0..MaxRestarts, losses : 0..MaxLosses]
    <3>1. /\ count \in [restarts : 0..MaxRestarts, losses : 0..MaxLosses]
          /\ count.restarts + 1 \in 0..MaxRestarts
      BY <1>5 DEF Restart, TypeOK
    <3>. QED  BY <3>1, <1>5 DEF Restart
  <2>. QED  BY <2>1, <2>2, <2>3, <2>4, <1>5, <1>e DEF Restart, TypeOK
<1>6. CASE Mount
  <2>1. /\ fetch' \in [Mounts -> Fetches]
        /\ \A m \in Mounts : Len(fetch'[m].entries) <= Shown
    BY <1>6, <1>e DEF Mount, TypeOK, Fetches
  <2>. QED  BY <2>1, <1>6 DEF Mount, TypeOK, handlers, log
<1>7. CASE Unmount
  BY <1>7, <1>e DEF Unmount, TypeOK, handlers, log
<1>8. CASE Connect
  BY <1>8 DEF Connect, TypeOK, handlers, log
<1>9. CASE Lose
  <2>1. /\ count \in [restarts : 0..MaxRestarts, losses : 0..MaxLosses]
        /\ count.losses + 1 \in 0..MaxLosses
    BY <1>9 DEF Lose, TypeOK
  <2>2. count' \in [restarts : 0..MaxRestarts, losses : 0..MaxLosses]
    BY <2>1, <1>9 DEF Lose
  <2>. QED  BY <2>2, <1>9, <1>e DEF Lose, TypeOK, handlers, log
<1>10. CASE Receive
  <2>1. net \in Seq(Requests) /\ net # <<>> /\ list \in Seq(Requests)
    BY <1>10 DEF Receive, TypeOK
  <2>2. Head(net) \in Requests /\ Tail(net) \in Seq(Requests)
    BY <2>1, HeadTail
  <2>3. <<Head(net)>> \o list \in Seq(Requests)
    BY <2>1, <2>2, FrontIs
  <2>4. list' \in Seq(Requests) /\ Len(list') <= Shown
    BY <2>3, <1>10, CutIs DEF Receive
  <2>. QED  BY <2>2, <2>4, <1>10 DEF Receive, TypeOK, handlers, log
<1>11. ASSUME NEW m \in Mounts, ServeAudit(m)
       PROVE  TypeOK'
  <2>1. /\ Newest(recent, Shown) \in Seq(Requests)
        /\ Len(Newest(recent, Shown)) <= Shown
    BY NewestFits DEF TypeOK
  <2>2. /\ Reverse(Newest(recent, Shown)) \in Seq(Requests)
        /\ Len(Reverse(Newest(recent, Shown))) <= Shown
    BY <2>1, ReverseIs
  <2>3. /\ fetch' \in [Mounts -> Fetches]
        /\ \A n \in Mounts : Len(fetch'[n].entries) <= Shown
    BY <2>2, <1>11 DEF ServeAudit, TypeOK, Fetches
  <2>. QED  BY <2>3, <1>11 DEF ServeAudit, TypeOK, handlers, log
<1>12. ASSUME NEW m \in Mounts, SetAudit(m)
       PROVE  TypeOK'
  <2>1. /\ fetch' \in [Mounts -> Fetches]
        /\ \A n \in Mounts : Len(fetch'[n].entries) <= Shown
    BY <1>12, <1>e DEF SetAudit, TypeOK, Fetches
  <2>. QED  BY <2>1, <1>12 DEF SetAudit, TypeOK, Fetches, handlers, log
<1>13. CASE UNCHANGED vars
  BY <1>13 DEF vars, TypeOK
<1>. QED  BY <1>1, <1>2, <1>3, <1>4, <1>5, <1>6, <1>7, <1>8, <1>9, <1>10, <1>11,
             <1>12, <1>13 DEF Next

-----------------------------------------------------------------------------
(* The inductive invariant.                                                *)

\* What Append does to the file and to memory.
LEMMA WriteIs ==
  ASSUME TypeOK, Sound, NEW r \in Requests, Push(r), Write(r)
  PROVE  /\ Saved' \subseteq Saved \cup {r}
         /\ Lines' = Lines \/ Lines' = Append(Lines, r)
         /\ ~failed' => /\ ~failed /\ file'.end = "whole"
                        /\ Saved' = Saved \cup {r}
                        /\ recent' = Newest(file'.entries, Keep)
<1>. USE ActivityAssumption
<1>1. Lines \in Seq(Requests) /\ Range(Lines) \subseteq Saved
  BY LinesAre
<1>2. Range(Append(Lines, r)) = Range(Lines) \cup {r}
  BY <1>1, AppendRange
<1>3. CASE UNCHANGED file /\ failed'
  BY <1>3 DEF Saved, Lines
<1>4. CASE file.end = "whole" /\ file' = [entries |-> Append(Lines, r), end |-> "whole"]
           /\ UNCHANGED failed
  <2>1. Lines = file.entries /\ Lines' = Append(Lines, r) /\ file'.entries = Append(file.entries, r)
    BY <1>4 DEF Lines
  <2>2. Saved' = Saved \cup {r}
    BY <1>2, <2>1 DEF Saved
  <2>3. ASSUME ~failed' PROVE recent' = Newest(file'.entries, Keep)
    <3>1. recent = Newest(file.entries, Keep)
      BY <1>4, <2>3 DEF Sound
    <3>2. Newest(Append(Newest(file.entries, Keep), r), Keep)
            = Newest(Append(file.entries, r), Keep)
      BY <1>1, <2>1, NewestAppend
    <3>. QED  BY <3>1, <3>2, <2>1 DEF Push
  <2>. QED  BY <2>1, <2>2, <2>3, <1>4
<1>5. CASE failed' /\ \E e \in {"whole", "torn"} : file' = [entries |-> Lines, end |-> e]
  <2>1. file'.entries = Lines /\ Lines' = Lines
    BY <1>5 DEF Lines
  <2>. QED  BY <2>1, <1>1, <1>5 DEF Saved
<1>6. CASE /\ failed' /\ file.end = "whole"
           /\ file' = [entries |-> Append(Lines, r), end |-> "unended"]
  <2>1. file'.entries = Append(Lines, r) /\ Lines' = Front(Append(Lines, r))
    BY <1>6 DEF Lines
  <2>2. Front(Append(Lines, r)) = Lines
    BY <1>1, FrontAppended
  <2>. QED  BY <2>1, <2>2, <1>1, <1>2, <1>6 DEF Saved
<1>7. file.end # "whole" => failed
  BY DEF Sound
<1>. QED  BY <1>3, <1>4, <1>5, <1>6, <1>7 DEF Write

LEMMA InvInit == Init => Honest /\ Sound
<1>. SUFFICES ASSUME Init PROVE Honest /\ Sound
  OBVIOUS
<1>1. Range(<<>>) = {} /\ Newest(<<>>, Keep) = <<>>
  BY ActivityAssumption DEF Range, Newest
<1>2. file.entries = <<>> /\ file.end = "whole" /\ Saved = {}
  BY <1>1 DEF Init, Saved
<1>3. \A m \in Mounts : fetch[m].entries = <<>>
  BY DEF Init
<1>4. Shows
  BY <1>1, <1>2, <1>3 DEF Init, Shows
<1>5. \A r \in Requests : pc[r] = "idle" /\ Recorded(r) /\ Kept(r)
  BY <1>2 DEF Init, Recorded, Kept
<1>. QED  BY <1>1, <1>2, <1>4, <1>5 DEF Init, Honest, Sound

LEMMA HonestNext == TypeOK /\ Honest /\ Sound /\ [Next]_vars => Honest'
<1>. SUFFICES ASSUME TypeOK, Honest, Sound, [Next]_vars, NEW q \in Requests
              PROVE  Recorded(q)'
  BY DEF Honest
<1>h. Recorded(q)
  BY DEF Honest
<1>s. file' = file => Saved' = Saved
  BY DEF Saved
<1>1. ASSUME NEW r \in Requests, NEW res \in Results, Do(r, res)
      PROVE  Recorded(q)'
  BY <1>1, <1>h, <1>s DEF Do, TypeOK, log, Recorded
<1>2. ASSUME NEW r \in Requests, Record(r)
      PROVE  Recorded(q)'
  <2>1. Saved' \subseteq Saved \cup {r}
    BY <1>2, WriteIs DEF Record
  <2>2. pc[r] = "acted" /\ result[r] # "refused" /\ r \in ran
    BY <1>2 DEF Record, Honest, Recorded
  <2>. QED  BY <2>1, <2>2, <1>2, <1>h DEF Record, TypeOK, Recorded
<1>3. ASSUME NEW r \in Requests, Send(r)
      PROVE  Recorded(q)'
  BY <1>3, <1>h, <1>s DEF Send, TypeOK, log, Recorded
<1>4. ASSUME NEW r \in Requests, Reply(r)
      PROVE  Recorded(q)'
  BY <1>4, <1>h, <1>s DEF Reply, TypeOK, log, Recorded
<1>5. CASE Restart
  BY <1>5, <1>h, <1>s DEF Restart, TypeOK, Recorded
<1>6. CASE \/ UNCHANGED <<handlers, log>> \/ UNCHANGED vars
  BY <1>6, <1>h, <1>s DEF handlers, log, vars, Recorded
<1>7. ASSUME \/ Mount \/ Unmount \/ Connect \/ Lose \/ Receive
             \/ \E m \in Mounts : ServeAudit(m) \/ SetAudit(m)
      PROVE  UNCHANGED <<handlers, log>>
  BY <1>7 DEF Mount, Unmount, Connect, Lose, Receive, ServeAudit, SetAudit
<1>. QED  BY <1>1, <1>2, <1>3, <1>4, <1>5, <1>6, <1>7 DEF Next

LEMMA SoundNext == TypeOK /\ Sound /\ [Next]_vars => Sound'
<1>. SUFFICES ASSUME TypeOK, Sound, [Next]_vars, ~failed'
              PROVE  Sound'
  BY DEF Sound
<1>. USE ActivityAssumption
<1>s. file' = file => Saved' = Saved
  BY DEF Saved
<1>e. Range(<<>>) = {}
  BY DEF Range
<1>u. ASSUME UNCHANGED <<file, failed>>
      PROVE  /\ file'.end = "whole" /\ recent = Newest(file'.entries, Keep)
             /\ \A r \in Requests : Kept(r)
             /\ Shows /\ Saved' = Saved
  BY <1>u, <1>s DEF Sound
<1>1. ASSUME NEW r \in Requests, NEW res \in Results, Do(r, res)
      PROVE  Sound'
  <2>1. UNCHANGED <<recent, file, failed, list, net, fetch>>
    BY <1>1 DEF Do, log, page
  <2>2. \A q \in Requests : Kept(q)'
    BY <2>1, <1>u, <1>1 DEF Do, TypeOK, Kept
  <2>. QED  BY <2>1, <2>2, <1>u DEF Sound, Shows
<1>2. ASSUME NEW r \in Requests, Record(r)
      PROVE  Sound'
  <2>1. /\ Saved' = Saved \cup {r} /\ ~failed /\ file'.end = "whole"
        /\ recent' = Newest(file'.entries, Keep)
    BY <1>2, WriteIs DEF Record
  <2>2. UNCHANGED <<list, net, fetch, result>>
    BY <1>2 DEF Record, page
  <2>3. \A q \in Requests : Kept(q)'
    BY <2>1, <2>2, <1>2 DEF Record, TypeOK, Kept, Sound
  <2>. QED  BY <2>1, <2>2, <2>3 DEF Sound, Shows
<1>3. ASSUME NEW r \in Requests, Send(r)
      PROVE  Sound'
  <2>1. UNCHANGED <<recent, file, failed, list, fetch>>
    BY <1>3 DEF Send, log
  <2>2. Range(net') \subseteq Range(net) \cup {r} /\ r \in Saved
    BY <2>1, <1>u, <1>3, AppendRange DEF Send, TypeOK, Kept
  <2>3. \A q \in Requests : Kept(q)'
    BY <2>1, <1>u, <1>3 DEF Send, TypeOK, Kept
  <2>. QED  BY <2>1, <2>2, <2>3, <1>u DEF Sound, Shows
<1>4. ASSUME NEW r \in Requests, Reply(r)
      PROVE  Sound'
  <2>1. UNCHANGED <<recent, file, failed, list, net, fetch>>
    BY <1>4 DEF Reply, log, page
  <2>2. \A q \in Requests : Kept(q)'
    BY <2>1, <1>u, <1>4 DEF Reply, TypeOK, Kept
  <2>. QED  BY <2>1, <2>2, <1>u DEF Sound, Shows
<1>5. CASE Restart
  <2>1. UNCHANGED <<file, failed, list, result>> /\ net' = <<>>
    BY <1>5 DEF Restart
  <2>2. \A q \in Requests : Kept(q)'
    BY <2>1, <1>u, <1>5 DEF Restart, TypeOK, Kept
  <2>3. \A m \in Mounts : fetch'[m].entries = fetch[m].entries \/ fetch'[m].entries = <<>>
    BY <1>5 DEF Restart
  <2>4. recent' = Newest(file'.entries, Keep)
    BY <1>5, <2>1 DEF Restart
  <2>5. Shows'
    <3>1. ASSUME NEW m \in Mounts PROVE Range(fetch'[m].entries) \subseteq Saved
      BY <2>1, <2>3, <1>u, <1>e DEF Shows
    <3>. QED  BY <3>1, <2>1, <1>u, <1>e DEF Shows
  <2>. QED  BY <2>1, <2>2, <2>4, <2>5, <1>u DEF Sound
<1>6. ASSUME UNCHANGED <<handlers, log>>, ~failed => Shows'
      PROVE  Sound'
  BY <1>6, <1>u DEF handlers, log, Sound, Kept
<1>7. CASE Mount
  <2>1. \A m \in Mounts : fetch'[m].entries = fetch[m].entries \/ fetch'[m].entries = <<>>
    BY <1>7 DEF Mount, TypeOK
  <2>2. UNCHANGED <<handlers, log, net, list>>
    BY <1>7 DEF Mount
  <2>3. ASSUME NEW m \in Mounts PROVE Range(fetch'[m].entries) \subseteq Saved
    BY <2>1, <2>2, <1>u, <1>e DEF Shows, log
  <2>. QED  BY <2>2, <2>3, <1>6, <1>u DEF Shows, log
<1>8. CASE Unmount \/ Connect \/ Lose
  <2>1. UNCHANGED <<handlers, log, fetch, list>> /\ net' \in {net, <<>>}
    BY <1>8 DEF Unmount, Connect, Lose
  <2>. QED  BY <2>1, <1>6, <1>u, <1>e DEF Shows, log
<1>9. CASE Receive
  <2>1. UNCHANGED <<handlers, log, fetch>>
    BY <1>9 DEF Receive
  <2>2. net \in Seq(Requests) /\ net # <<>> /\ list \in Seq(Requests)
    BY <1>9 DEF Receive, TypeOK
  <2>3. Head(net) \in Requests /\ Head(net) \in Range(net) /\ Range(net') \subseteq Range(net)
    BY <2>2, <1>9, HeadTail DEF Receive
  <2>4. /\ <<Head(net)>> \o list \in Seq(Requests)
        /\ Range(<<Head(net)>> \o list) \subseteq Range(list) \cup {Head(net)}
    BY <2>2, <2>3, FrontIs
  <2>5. Range(list') \subseteq Range(<<Head(net)>> \o list)
    BY <2>4, <1>9, CutIs DEF Receive
  <2>. QED  BY <2>1, <2>3, <2>4, <2>5, <1>6, <1>u DEF Shows, log
<1>10. ASSUME NEW m \in Mounts, ServeAudit(m)
       PROVE  Sound'
  <2>1. UNCHANGED <<handlers, log, net, list>>
    BY <1>10 DEF ServeAudit
  <2>2. recent = Newest(file.entries, Keep) /\ file.entries \in Seq(Requests)
    BY <2>1 DEF Sound, TypeOK, log
  <2>3. Newest(recent, Shown) \in Seq(Requests)
    BY NewestFits DEF TypeOK
  <2>4. Range(Reverse(Newest(recent, Shown))) \subseteq Range(Newest(recent, Shown))
    BY <2>3, ReverseIs
  <2>5. Range(Newest(recent, Shown)) \subseteq Range(recent)
    BY NewestRange DEF TypeOK
  <2>6. Range(recent) \subseteq Saved
    BY <2>2, NewestRange DEF Saved
  <2>7. \A n \in Mounts : \/ fetch'[n].entries = fetch[n].entries
                          \/ fetch'[n].entries = Reverse(Newest(recent, Shown))
    BY <1>10 DEF ServeAudit, TypeOK
  <2>8. ASSUME NEW n \in Mounts PROVE Range(fetch'[n].entries) \subseteq Saved
    BY <2>1, <2>4, <2>5, <2>6, <2>7, <1>u DEF Shows, log
  <2>. QED  BY <2>1, <2>8, <1>6, <1>u DEF Shows, log
<1>11. ASSUME NEW m \in Mounts, SetAudit(m)
       PROVE  Sound'
  <2>1. UNCHANGED <<handlers, log, net>> /\ list' = fetch[m].entries
    BY <1>11 DEF SetAudit
  <2>2. \A n \in Mounts : fetch'[n].entries = fetch[n].entries \/ fetch'[n].entries = <<>>
    BY <1>11 DEF SetAudit, TypeOK
  <2>3. ASSUME NEW n \in Mounts PROVE Range(fetch'[n].entries) \subseteq Saved
    BY <2>1, <2>2, <1>u, <1>e DEF Shows, log
  <2>. QED  BY <2>1, <2>3, <1>6, <1>u DEF Shows, log
<1>12. CASE UNCHANGED vars
  <2>1. UNCHANGED <<handlers, log, page>>
    BY <1>12 DEF vars, handlers, log, page
  <2>. QED  BY <2>1, <1>6, <1>u DEF Shows, log, page
<1>. QED  BY <1>1, <1>2, <1>3, <1>4, <1>5, <1>7, <1>8, <1>9, <1>10, <1>11, <1>12 DEF Next

\* ActivityInv is inductive: it holds in every reachable state.
THEOREM ActivityInvariant == Spec => []ActivityInv
<1>1. Init => ActivityInv
  BY TypeInit, InvInit DEF ActivityInv
<1>2. ActivityInv /\ [Next]_vars => ActivityInv'
  BY TypeNext, HonestNext, SoundNext DEF ActivityInv
<1>. QED  BY <1>1, <1>2, PTL DEF Spec

-----------------------------------------------------------------------------
(* The theorems.                                                           *)

\* Every variable keeps its type; memory and the page's list keep their limits.
THEOREM TypeCorrect == Spec => []TypeOK
<1>1. ActivityInv => TypeOK
  BY DEF ActivityInv
<1>. QED  BY <1>1, ActivityInvariant, PTL

\* Recent is what a restart would read back, unless a write failed.
THEOREM MemoryIsTheFile == Spec => []MemoryMatchesFile
<1>1. ActivityInv => MemoryMatchesFile
  BY DEF ActivityInv, Sound, MemoryMatchesFile
<1>. QED  BY <1>1, ActivityInvariant, PTL

\* Nobody is told of an action that the file lacks, unless a write failed.
THEOREM ToldEntriesAreSaved == Spec => []ToldIsSaved
<1>1. ActivityInv => ToldIsSaved
  BY DEF ActivityInv, Sound, Kept, Shows, Saved, ToldIsSaved, Told
<1>. QED  BY <1>1, ActivityInvariant, PTL

\* The complete lines of the file implement AuditLog, over restarts and failed
\* writes too: they are only ever appended to, one entry at a time, of an action
\* that was carried out and has none yet.  Nothing is said of an entry that a
\* short write left without its newline.
THEOREM FileIsAuditLog == Spec => IsAuditLog
<1>1. Init => Abstract!Init
  BY DEF Init, Abstract!Init, Lines
<1>2. ActivityInv /\ [Next]_vars => [Abstract!Next]_<<ran, Lines>>
  <2>. SUFFICES ASSUME ActivityInv, [Next]_vars
                PROVE  [Abstract!Next]_<<ran, Lines>>
    OBVIOUS
  <2>t. TypeOK /\ Honest /\ Sound
    BY DEF ActivityInv
  <2>1. ASSUME NEW r \in Requests, NEW res \in Results, Do(r, res)
        PROVE  [Abstract!Next]_<<ran, Lines>>
    BY <2>1 DEF Do, log, Abstract!Next, Abstract!Run, Lines
  <2>2. ASSUME NEW r \in Requests, Record(r)
        PROVE  [Abstract!Next]_<<ran, Lines>>
    <3>1. ran' = ran /\ r \in ran /\ r \notin Saved
      BY <2>2, <2>t DEF Record, Honest, Recorded
    <3>2. Lines' = Lines \/ Lines' = Append(Lines, r)
      BY <2>2, <2>t, WriteIs DEF Record
    <3>3. Abstract!Recorded = Range(Lines) /\ Range(Lines) \subseteq Saved
      BY <2>t, LinesAre DEF Abstract!Recorded, Range
    <3>. QED  BY <3>1, <3>2, <3>3 DEF Abstract!Next, Abstract!Record
  <2>3. CASE \/ \E r \in Requests : Send(r) \/ Reply(r)
             \/ Restart \/ Mount \/ Unmount \/ Connect \/ Lose \/ Receive
             \/ \E m \in Mounts : ServeAudit(m) \/ SetAudit(m)
             \/ UNCHANGED vars
    <3>1. UNCHANGED <<ran, file>>
      BY <2>3 DEF Send, Reply, Restart, Mount, Unmount, Connect, Lose, Receive,
                  ServeAudit, SetAudit, vars, handlers, log
    <3>. QED  BY <3>1 DEF Lines
  <2>. QED  BY <2>1, <2>2, <2>3 DEF Next
<1>. QED  BY <1>1, <1>2, ActivityInvariant, PTL DEF Spec, IsAuditLog, Abstract!Spec

=============================================================================

-------------------------- MODULE LogStreamsProofs --------------------------
(***************************************************************************)
(* Theorems about LogStreams, for any number of units, streams, slots and  *)
(* any queue and batch size.                                               *)
(***************************************************************************)
EXTENDS LogStreams, FiniteSetTheorems, TLAPS

-----------------------------------------------------------------------------
(* Types.                                                                  *)

LEMMA TypeInit == ClientInit => ClientTypeOK
<1> SUFFICES ASSUME ClientInit PROVE ClientTypeOK
  OBVIOUS
<1>1. reader \in Readers /\ queued \in 0 .. Cap
  BY StreamsAssumption DEF ClientInit, Readers
<1>2. cancelled \in BOOLEAN
  BY DEF ClientInit
<1>3. subs \in [Units -> Streams \cup {NoStream}] /\ unit \in [Streams -> Units \cup {NoUnit}]
  BY DEF ClientInit
<1>4. pc \in [Streams -> Places] /\ batch \in [Streams -> 0 .. BatchMax]
  BY StreamsAssumption DEF ClientInit, Places
<1>5. told \in [Streams -> BOOLEAN]
  BY DEF ClientInit
<1>6. \A s \in Streams : batch[s] # BatchMax
  BY StreamsAssumption DEF ClientInit
<1>. QED  BY <1>1, <1>2, <1>3, <1>4, <1>5, <1>6 DEF ClientTypeOK

\* A send leaves the queue within its capacity.
LEMMA SendType ==
  ASSUME ClientTypeOK, NEW ended \in BOOLEAN, Queue \/ GiveUp(ended) \/ TimeOut
  PROVE  queued' \in 0 .. Cap /\ cancelled' \in BOOLEAN
<1>1. CASE Queue
  BY <1>1, StreamsAssumption DEF Queue, ClientTypeOK
<1>2. CASE GiveUp(ended)
  BY <1>2 DEF GiveUp, ClientTypeOK
<1>3. CASE TimeOut
  BY <1>3 DEF TimeOut, ClientTypeOK
<1>. QED  BY <1>1, <1>2, <1>3

LEMMA TypeNext == ClientTypeOK /\ [ClientNext]_clientVars => ClientTypeOK'
<1> SUFFICES ASSUME ClientTypeOK, [ClientNext]_clientVars
             PROVE  ClientTypeOK'
  OBVIOUS
<1> USE StreamsAssumption
<1>1. ASSUME NEW u \in Units, NEW s \in Streams, Subscribe(u, s)
      PROVE  ClientTypeOK'
  BY <1>1 DEF ClientTypeOK, Subscribe, Places, connection
<1>2. ASSUME NEW u \in Units, SubscribeTooMany(u)
      PROVE  ClientTypeOK'
  BY <1>2 DEF ClientTypeOK, SubscribeTooMany, StopUnit, Readers
<1>3. ASSUME NEW u \in Units, Unsubscribe(u)
      PROVE  ClientTypeOK'
  BY <1>3 DEF ClientTypeOK, Unsubscribe, StopUnit, connection
<1>4. CASE Refuse
  <2>1. queued' \in 0 .. Cap /\ cancelled' \in BOOLEAN
    BY <1>4, SendType DEF Refuse, ClientTypeOK
  <2>. QED  BY <1>4, <2>1 DEF ClientTypeOK, Refuse, Readers, stream
<1>5. CASE Leave
  BY <1>5 DEF ClientTypeOK, Leave, Readers
<1>6. CASE Return
  BY <1>6 DEF ClientTypeOK, Return, Readers, stream
<1>7. CASE Write
  BY <1>7 DEF ClientTypeOK, Write, stream
<1>8. CASE Drop
  BY <1>8 DEF ClientTypeOK, Drop, stream
<1>9. CASE Broadcast
  <2>1. queued' \in 0 .. Cap /\ cancelled' \in BOOLEAN
    BY <1>9, SendType DEF Broadcast
  <2>. QED  BY <1>9, <2>1 DEF ClientTypeOK, Broadcast, stream
<1>10. ASSUME NEW s \in Streams, StreamStep(s)
       PROVE  ClientTypeOK'
  <2> USE DEF Places
  <2>1. CASE OpenLog(s)
    BY <2>1 DEF ClientTypeOK, OpenLog, Goto, connection
  <2>2. CASE Line(s)
    <3>1. pc' \in [Streams -> Places]
      BY <2>2 DEF ClientTypeOK, Line, Goto
    <3>2. batch[s] \in Nat /\ batch[s] < BatchMax
      BY <2>2 DEF ClientTypeOK, Line
    <3>3. batch' \in [Streams -> 0 .. BatchMax]
      BY <2>2, <3>2 DEF ClientTypeOK, Line
    <3>4. \A t \in Streams : batch'[t] = BatchMax => pc'[t] = "flushing"
      BY <2>2, <3>2 DEF ClientTypeOK, Line, Goto
    <3>. QED  BY <2>2, <3>1, <3>3, <3>4 DEF ClientTypeOK, Line, connection
  <2>3. CASE FlushTick(s)
    BY <2>3 DEF ClientTypeOK, FlushTick, Goto, connection
  <2>4. CASE LogEnds(s)
    BY <2>4 DEF ClientTypeOK, LogEnds, Goto, connection
  <2>5. CASE Notice(s)
    BY <2>5 DEF ClientTypeOK, Notice, Goto, connection
  <2>6. CASE Flush(s)
    <3>1. queued' \in 0 .. Cap /\ cancelled' \in BOOLEAN
      <4>1. Done(s) \in BOOLEAN
        BY DEF Done, ClientTypeOK
      <4>. QED  BY <2>6, <4>1, SendType DEF Flush
    <3>2. pc' \in [Streams -> Places] /\ batch' \in [Streams -> 0 .. BatchMax]
      BY <2>6 DEF ClientTypeOK, Flush, Goto
    <3>3. \A t \in Streams : batch'[t] = BatchMax => pc'[t] = "flushing"
      BY <2>6 DEF ClientTypeOK, Flush, Goto
    <3>. QED  BY <2>6, <3>1, <3>2, <3>3 DEF ClientTypeOK, Flush
  <2>7. CASE CheckEnd(s)
    BY <2>7 DEF ClientTypeOK, CheckEnd, Goto, connection
  <2>8. CASE SendEnd(s)
    <3>1. queued' \in 0 .. Cap /\ cancelled' \in BOOLEAN
      BY <2>8, SendType DEF SendEnd, ClientTypeOK
    <3>. QED  BY <2>8, <3>1 DEF ClientTypeOK, SendEnd, Goto
  <2>9. CASE Cleanup(s)
    <3>1. subs' \in [Units -> Streams \cup {NoStream}]
      BY <2>9 DEF ClientTypeOK, Cleanup
    <3>2. pc' \in [Streams -> Places] /\ told' \in [Streams -> BOOLEAN]
      BY <2>9 DEF ClientTypeOK, Cleanup, Goto
    <3>3. batch' \in [Streams -> 0 .. BatchMax] /\ unit' \in [Streams -> Units \cup {NoUnit}]
      BY <2>9 DEF ClientTypeOK, Cleanup
    <3>4. \A t \in Streams : batch'[t] = BatchMax => pc'[t] = "flushing"
      BY <2>9 DEF ClientTypeOK, Cleanup, Goto
    <3>. QED  BY <2>9, <3>1, <3>2, <3>3, <3>4 DEF ClientTypeOK, Cleanup, connection
  <2>. QED  BY <1>10, <2>1, <2>2, <2>3, <2>4, <2>5, <2>6, <2>7, <2>8, <2>9 DEF StreamStep
<1>11. CASE UNCHANGED clientVars
  BY <1>11 DEF ClientTypeOK, clientVars
<1>. QED  BY <1>1, <1>2, <1>3, <1>4, <1>5, <1>6, <1>7, <1>8, <1>9, <1>10, <1>11 DEF ClientNext

\* Every variable keeps its type; the queue stays within its capacity.
THEOREM TypeCorrect == ClientSpec => []ClientTypeOK
<1>. QED  BY TypeInit, TypeNext, PTL DEF ClientSpec

-----------------------------------------------------------------------------
(* The entries of cl.subs and the goroutines agree.  Neither half of       *)
(* StreamsRegistered is inductive alone: that a new stream's name is in no *)
(* entry follows from the second half, that Cleanup removes the right      *)
(* entry from both.                                                        *)

StreamsInv ==
  /\ ClientTypeOK
  /\ StreamsRegistered
  /\ \A s \in Running : unit[s] \in Units
  /\ Cardinality(Subscribed) <= MaxSubs

\* The units subscribed to are finitely many.
LEMMA SubscribedFinite ==
  /\ IsFiniteSet(Subscribed) /\ Cardinality(Subscribed) \in Nat
  /\ \A T : T \subseteq Subscribed =>
       IsFiniteSet(T) /\ Cardinality(T) \in Nat /\ Cardinality(T) <= Cardinality(Subscribed)
<1>1. Subscribed \in SUBSET Units
  BY DEF Subscribed
<1>2. IsFiniteSet(Subscribed)
  BY <1>1, FS_Subset, StreamsAssumption
<1>3. ASSUME NEW T, T \subseteq Subscribed
      PROVE  IsFiniteSet(T) /\ Cardinality(T) \in Nat /\ Cardinality(T) <= Cardinality(Subscribed)
  BY <1>2, <1>3, FS_Subset, FS_CardinalityType
<1>. QED  BY <1>2, <1>3, FS_CardinalityType

LEMMA StreamsInit == ClientInit => StreamsInv
<1> SUFFICES ASSUME ClientInit PROVE StreamsInv
  OBVIOUS
<1>1. Running = {} /\ Subscribed = {}
  BY DEF ClientInit, Running, Subscribed
<1>2. StreamsRegistered
  BY <1>1 DEF StreamsRegistered, Live, Running, Subscribed
<1>3. Cardinality(Subscribed) <= MaxSubs
  BY <1>1, FS_EmptySet, StreamsAssumption
<1>. QED  BY <1>1, <1>2, <1>3, TypeInit DEF StreamsInv

\* A step that takes entries away, and only of streams it stops, and moves
\* goroutines that keep running and their unit, is harmless.
LEMMA StoppingKeepsInv ==
  ASSUME StreamsInv, ClientTypeOK', Running' = Running, unit' = unit,
         \A s \in Streams : told[s] => told'[s],
         \A u \in Units : subs'[u] = subs[u] \/ (subs'[u] = NoStream /\ (subs[u] \in Streams => told'[subs[u]]))
  PROVE  StreamsInv'
<1>1. ASSUME NEW s \in Live' PROVE subs'[unit'[s]] = s
  <2>1. s \in Live /\ s \in Streams /\ ~told'[s]
    BY DEF Live, Running, StreamsInv, ClientTypeOK
  <2>2. subs[unit[s]] = s
    BY <2>1 DEF StreamsInv, StreamsRegistered
  <2>3. unit[s] \in Units
    BY <2>1 DEF Live, StreamsInv
  <2>. QED  BY <2>1, <2>2, <2>3
<1>2. ASSUME NEW u \in Units, subs'[u] # NoStream
      PROVE  subs'[u] \in Running' /\ unit'[subs'[u]] = u
  BY <1>2 DEF StreamsInv, StreamsRegistered
<1>3. Subscribed' \subseteq Subscribed
  BY DEF Subscribed
<1>4. Cardinality(Subscribed') <= MaxSubs
  BY <1>3, SubscribedFinite, StreamsAssumption DEF StreamsInv
<1>5. \A s \in Running' : unit'[s] \in Units
  BY DEF StreamsInv
<1>. QED  BY <1>1, <1>2, <1>4, <1>5 DEF StreamsInv, StreamsRegistered

\* A step of a goroutine, or of the connection, that leaves cl.subs, the units
\* and the stops alone, and neither starts nor ends a goroutine.
LEMMA QuietKeepsInv ==
  ASSUME StreamsInv, ClientTypeOK', UNCHANGED <<subs, unit, told>>, Running' = Running
  PROVE  StreamsInv'
<1>1. \A s \in Streams : told[s] => told'[s]
  OBVIOUS
<1>2. \A u \in Units : subs'[u] = subs[u]
  OBVIOUS
<1>. QED  BY <1>1, <1>2, StoppingKeepsInv

LEMMA SubscribeKeepsInv ==
  ASSUME StreamsInv, ClientTypeOK', NEW u \in Units, NEW s \in Streams, Subscribe(u, s)
  PROVE  StreamsInv'
<1>0. /\ subs \in [Units -> Streams \cup {NoStream}] /\ pc \in [Streams -> Places]
      /\ unit \in [Streams -> Units \cup {NoUnit}] /\ told \in [Streams -> BOOLEAN]
  BY DEF StreamsInv, ClientTypeOK
<1>1. /\ s \notin Running
      /\ told' = [t \in Streams |-> t # s /\ (told[t] \/ t = subs[u])]
      /\ subs' = [subs EXCEPT ![u] = s]
      /\ unit' = [unit EXCEPT ![s] = u]
      /\ pc' = [pc EXCEPT ![s] = "opening"]
  BY DEF Subscribe, Running
<1>2. Running' = Running \cup {s}
  BY <1>0, <1>1 DEF Running
<1>3. \A v \in Units : subs[v] # s
  BY <1>1, StreamsAssumption DEF StreamsInv, StreamsRegistered
<1>4. ASSUME NEW t \in Live' PROVE subs'[unit'[t]] = t
  <2>1. CASE t = s
    BY <1>0, <1>1, <2>1
  <2>2. CASE t # s
    <3>1. t \in Streams /\ t \in Running /\ ~told'[t]
      BY <1>2, <2>2 DEF Live, Running
    <3>2. ~told[t] /\ t # subs[u]
      BY <1>1, <2>2, <3>1
    <3>3. subs[unit[t]] = t /\ unit[t] \in Units
      BY <3>1, <3>2 DEF StreamsInv, StreamsRegistered, Live
    <3>4. unit'[t] = unit[t] /\ unit[t] # u
      BY <1>0, <1>1, <2>2, <3>1, <3>2, <3>3
    <3>. QED  BY <1>0, <1>1, <3>3, <3>4
  <2>. QED  BY <2>1, <2>2
<1>5. ASSUME NEW v \in Units, subs'[v] # NoStream
      PROVE  subs'[v] \in Running' /\ unit'[subs'[v]] = v
  <2>1. CASE v = u
    BY <1>0, <1>1, <1>2, <2>1
  <2>2. CASE v # u
    <3>1. subs'[v] = subs[v] /\ subs[v] # s
      BY <1>0, <1>1, <1>3, <2>2
    <3>2. subs[v] \in Running /\ unit[subs[v]] = v /\ subs[v] \in Streams
      BY <1>5, <3>1 DEF StreamsInv, StreamsRegistered, Running
    <3>. QED  BY <1>0, <1>1, <1>2, <3>1, <3>2
  <2>. QED  BY <2>1, <2>2
<1>6. \A t \in Running' : unit'[t] \in Units
  BY <1>0, <1>1, <1>2 DEF StreamsInv, Running
<1>7. Cardinality(Subscribed') <= MaxSubs
  <2>1. Subscribed' = Others(u) \cup {u} /\ u \notin Others(u) /\ Others(u) \subseteq Subscribed
    BY <1>0, <1>1, StreamsAssumption DEF Others, Subscribed
  <2>2. IsFiniteSet(Others(u)) /\ Cardinality(Others(u)) \in Nat
    BY <2>1, SubscribedFinite
  <2>3. Cardinality(Subscribed') = Cardinality(Others(u)) + 1
    BY <2>1, <2>2, FS_AddElement
  <2>4. Cardinality(Others(u)) < MaxSubs
    BY DEF Subscribe
  <2>. QED  BY <2>2, <2>3, <2>4, StreamsAssumption
<1>. QED  BY <1>4, <1>5, <1>6, <1>7 DEF StreamsInv, StreamsRegistered

LEMMA CleanupKeepsInv ==
  ASSUME StreamsInv, ClientTypeOK', NEW s \in Streams, Cleanup(s)
  PROVE  StreamsInv'
<1>0. /\ subs \in [Units -> Streams \cup {NoStream}] /\ pc \in [Streams -> Places]
      /\ unit \in [Streams -> Units \cup {NoUnit}] /\ told \in [Streams -> BOOLEAN]
  BY DEF StreamsInv, ClientTypeOK
<1>1. /\ s \in Running
      /\ told' = [told EXCEPT ![s] = TRUE]
      /\ unit' = [unit EXCEPT ![s] = NoUnit]
      /\ pc' = [pc EXCEPT ![s] = "none"]
      /\ subs' = IF subs[unit[s]] = s THEN [subs EXCEPT ![unit[s]] = NoStream] ELSE subs
  BY DEF Cleanup, Goto, Running
<1>2. Running' = Running \ {s}
  BY <1>0, <1>1 DEF Running
<1>3. unit[s] \in Units
  BY <1>1 DEF StreamsInv
<1>4. \A v \in Units : subs'[v] = IF subs[v] = s THEN NoStream ELSE subs[v]
  <2>1. ASSUME NEW v \in Units, subs[v] = s PROVE unit[s] = v
    BY <2>1, StreamsAssumption DEF StreamsInv, StreamsRegistered
  <2>. QED  BY <1>0, <1>1, <1>3, <2>1
<1>5. ASSUME NEW t \in Live' PROVE subs'[unit'[t]] = t
  <2>1. t # s /\ t \in Running /\ t \in Streams /\ ~told[t]
    BY <1>0, <1>1, <1>2 DEF Live, Running
  <2>2. subs[unit[t]] = t /\ unit[t] \in Units /\ unit'[t] = unit[t]
    BY <1>0, <1>1, <2>1 DEF StreamsInv, StreamsRegistered, Live
  <2>. QED  BY <1>4, <2>1, <2>2
<1>6. ASSUME NEW v \in Units, subs'[v] # NoStream
      PROVE  subs'[v] \in Running' /\ unit'[subs'[v]] = v
  <2>1. subs'[v] = subs[v] /\ subs[v] # s
    BY <1>4, <1>6
  <2>2. subs[v] \in Running /\ unit[subs[v]] = v /\ subs[v] \in Streams
    BY <1>6, <2>1 DEF StreamsInv, StreamsRegistered, Running
  <2>. QED  BY <1>0, <1>1, <1>2, <2>1, <2>2
<1>7. \A t \in Running' : unit'[t] \in Units
  BY <1>0, <1>1, <1>2 DEF StreamsInv, Running
<1>8. Cardinality(Subscribed') <= MaxSubs
  <2>1. Subscribed' \subseteq Subscribed
    BY <1>4 DEF Subscribed
  <2>. QED  BY <2>1, SubscribedFinite, StreamsAssumption DEF StreamsInv
<1>. QED  BY <1>5, <1>6, <1>7, <1>8 DEF StreamsInv, StreamsRegistered

LEMMA StreamsNext == StreamsInv /\ [ClientNext]_clientVars => StreamsInv'
<1> SUFFICES ASSUME StreamsInv, [ClientNext]_clientVars
             PROVE  StreamsInv'
  OBVIOUS
<1>0. ClientTypeOK /\ ClientTypeOK'
  BY TypeNext DEF StreamsInv
<1>a. pc \in [Streams -> Places] /\ told \in [Streams -> BOOLEAN]
      /\ subs \in [Units -> Streams \cup {NoStream}]
  BY <1>0 DEF ClientTypeOK
<1>1. ASSUME NEW u \in Units, NEW s \in Streams, Subscribe(u, s)
      PROVE  StreamsInv'
  BY <1>0, <1>1, SubscribeKeepsInv
<1>2. ASSUME NEW u \in Units, StopUnit(u), subs' = [subs EXCEPT ![u] = NoStream],
             UNCHANGED <<pc, unit>>
      PROVE  StreamsInv'
  <2>1. \A s \in Streams : told'[s] = (told[s] \/ s = subs[u])
    BY <1>2 DEF StopUnit
  <2>2. \A v \in Units : subs'[v] = subs[v]
          \/ (subs'[v] = NoStream /\ (subs[v] \in Streams => told'[subs[v]]))
    BY <1>2, <1>a, <2>1
  <2>3. Running' = Running
    BY <1>2 DEF Running
  <2>. QED  BY <1>0, <1>2, <2>1, <2>2, <2>3, StoppingKeepsInv
<1>3. ASSUME NEW u \in Units, SubscribeTooMany(u)
      PROVE  StreamsInv'
  BY <1>2, <1>3 DEF SubscribeTooMany
<1>4. ASSUME NEW u \in Units, Unsubscribe(u)
      PROVE  StreamsInv'
  BY <1>2, <1>4 DEF Unsubscribe
<1>5. CASE Leave
  <2>1. /\ \A s \in Streams : told[s] => told'[s]
        /\ subs' = subs /\ unit' = unit /\ Running' = Running
    BY <1>5 DEF Leave, Running
  <2>. QED  BY <1>0, <2>1, StoppingKeepsInv
<1>6. ASSUME UNCHANGED <<subs, stream>>
      PROVE  StreamsInv'
  <2>1. UNCHANGED <<subs, unit, told>> /\ Running' = Running
    BY <1>6 DEF stream, Running
  <2>. QED  BY <1>0, <2>1, QuietKeepsInv
<1>7. ASSUME NEW s \in Streams, NEW where \in Places \ {"none"}, s \in Running, Goto(s, where),
             UNCHANGED <<subs, unit, told>>
      PROVE  StreamsInv'
  <2>1. Running' = Running
    BY <1>7, <1>a DEF Goto, Running
  <2>. QED  BY <1>0, <1>7, <2>1, QuietKeepsInv
<1>8. ASSUME NEW s \in Streams, StreamStep(s)
      PROVE  StreamsInv'
  <2> USE DEF Places, Running
  <2>1. CASE OpenLog(s)
    BY <1>7, <2>1 DEF OpenLog
  <2>2. CASE Line(s)
    BY <1>7, <2>2 DEF Line
  <2>3. CASE FlushTick(s)
    BY <1>7, <2>3 DEF FlushTick
  <2>4. CASE LogEnds(s)
    BY <1>7, <2>4 DEF LogEnds
  <2>5. CASE Notice(s)
    BY <1>7, <2>5 DEF Notice
  <2>6. CASE Flush(s)
    BY <1>7, <2>6 DEF Flush
  <2>7. CASE CheckEnd(s)
    BY <1>7, <2>7 DEF CheckEnd
  <2>8. CASE SendEnd(s)
    BY <1>7, <2>8 DEF SendEnd
  <2>9. CASE Cleanup(s)
    BY <1>0, <2>9, CleanupKeepsInv
  <2>. QED  BY <1>8, <2>1, <2>2, <2>3, <2>4, <2>5, <2>6, <2>7, <2>8, <2>9 DEF StreamStep
<1>9. CASE Refuse \/ Return \/ Write \/ Drop \/ Broadcast
  BY <1>6, <1>9 DEF Refuse, Return, Write, Drop, Broadcast
<1>10. CASE UNCHANGED clientVars
  BY <1>6, <1>10 DEF clientVars, stream
<1>. QED  BY <1>1, <1>3, <1>4, <1>5, <1>8, <1>9, <1>10 DEF ClientNext

\* cl.subs always names exactly the goroutines that can still be told to stop.
THEOREM StreamsStayRegistered == ClientSpec => []StreamsRegistered
<1>1. StreamsInv => StreamsRegistered
  BY DEF StreamsInv
<1>. QED  BY StreamsInit, StreamsNext, <1>1, PTL DEF ClientSpec

\* A client has at most MaxSubs streams that were not told to stop: each is the
\* entry of its own unit, and there are at most MaxSubs entries.
THEOREM StreamsAreCapped == ClientSpec => []StreamCap
<1>1. StreamsInv => StreamCap
  <2> SUFFICES ASSUME StreamsInv PROVE StreamCap
    OBVIOUS
  <2> DEFINE f == [s \in Live |-> unit[s]]
  <2>1. \A s \in Live : subs[unit[s]] = s /\ unit[s] \in Units /\ s \in Streams
    BY DEF StreamsInv, StreamsRegistered, Live, Running
  <2>2. \A s \in Live : unit[s] \in Subscribed
    BY <2>1, StreamsAssumption DEF Subscribed
  <2>3. f \in Injection(Live, Subscribed)
    BY <2>1, <2>2 DEF Injection, IsInjective
  <2>4. IsFiniteSet(Subscribed) /\ Cardinality(Subscribed) \in Nat
    BY SubscribedFinite
  <2>5. IsFiniteSet(Live) /\ Cardinality(Live) <= Cardinality(Subscribed)
    BY <2>3, <2>4, FS_Injection
  <2>6. Cardinality(Live) \in Nat /\ Cardinality(Subscribed) <= MaxSubs
    BY <2>5, FS_CardinalityType DEF StreamsInv
  <2>. QED  BY <2>4, <2>5, <2>6, StreamsAssumption DEF StreamCap
<1>. QED  BY StreamsInit, StreamsNext, <1>1, PTL DEF ClientSpec
=============================================================================

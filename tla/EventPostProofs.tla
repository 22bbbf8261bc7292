-------------------------- MODULE EventPostProofs --------------------------
(***************************************************************************)
(* Theorems about EventPost, for any number of posters, posts, wakeups,    *)
(* table slots and pipe bytes.                                             *)
(***************************************************************************)
EXTENDS EventPost, FiniteSetTheorems, SequenceTheorems, TLAPS

\* The loop's indices outside and inside pipe_read_cb.
IndexOK ==
    /\ i <= nbytes
    /\ loopPc \notin {"lock", "dispatch", "run"} => nbytes = 0
    /\ loopPc \notin {"dispatch", "run"} => i = 0

\* A function is running exactly while the loop says so.
RunningOK == loopPc = "run" <=> running # <<>>

\* 1 while a poster has written its byte and not stored its event yet.
Storing == IF \E p \in Posters : pc[p] = "append" THEN 1 ELSE 0

\* Events never outnumber the bytes that announce them.
TableBound == num + Storing <= pipe + nbytes

-----------------------------------------------------------------------------
(* Type correctness.                                                       *)

USE DEF Slot

LEMMA TypeInit == Init => TypeOK
<1> SUFFICES ASSUME Init PROVE TypeOK
  OBVIOUS
<1>1. <<>> \in Seq(Event)
  BY EmptySeq
<1>2. slots \in [Slot -> Event \cup {Unwritten}]
  BY DEF Init
<1>3. pc \in [Posters -> {"idle", "lock", "write", "append"}]
      /\ count \in [Posters -> 0 .. MaxPosts]
  BY LimitsAreNaturals DEF Init
<1>4. wakeups \in 0 .. MaxWakeups /\ pipe \in 0 .. PipeCap /\ num \in 0 .. MaxEvents
  BY LimitsAreNaturals DEF Init
<1> QED
  BY <1>1, <1>2, <1>3, <1>4 DEF Init, TypeOK

LEMMA EventOfType ==
    ASSUME TypeOK, NEW p \in Posters, pc[p] = "append", count[p] > 0
    PROVE  EventOf(p) \in Event
BY LimitsAreNaturals DEF TypeOK, EventOf, Event

\* A poster that is inside postEvent has begun at least one post.
CountOK == \A p \in Posters : pc[p] # "idle" => count[p] > 0

LEMMA TypeStep == TypeOK /\ CountOK /\ [Next]_vars => TypeOK' /\ CountOK'
<1> SUFFICES ASSUME TypeOK, CountOK, [Next]_vars
             PROVE  TypeOK' /\ CountOK'
  OBVIOUS
<1> USE LimitsAreNaturals DEF TypeOK, CountOK
<1>1. ASSUME NEW p \in Posters, Push(p)
      PROVE  TypeOK' /\ CountOK'
  <2>1. <<p, count[p] + 1>> \in Event
    BY <1>1 DEF Push, Event
  <2> QED BY <1>1, <2>1, SMTT(30) DEF Push, tableVars, loopVars
<1>2. ASSUME NEW p \in Posters, LockForPost(p)
      PROVE  TypeOK' /\ CountOK'
  BY <1>2 DEF LockForPost, tableVars, loopVars, history
<1>3. ASSUME NEW p \in Posters, WritePipe(p)
      PROVE  TypeOK' /\ CountOK'
  BY <1>3 DEF WritePipe, WriteByte, tableVars, loopVars
<1>4. ASSUME NEW p \in Posters, PipeFull(p)
      PROVE  TypeOK' /\ CountOK'
  BY <1>4 DEF PipeFull, tableVars, loopVars
<1>5. ASSUME NEW p \in Posters, Store(p)
      PROVE  TypeOK' /\ CountOK'
  <2>1. EventOf(p) \in Event
    BY <1>5, EventOfType DEF Store
  <2>2. CASE num \in Slot
    <3>1. slots' \in [Slot -> Event \cup {Unwritten}]
      BY <1>5, <2>1, <2>2 DEF Store
    <3>2. num' \in 0 .. MaxEvents
      BY <1>5, <2>2 DEF Store
    <3>3. stored' \in Seq(Event)
      <4>1. stored' = Append(stored, EventOf(p))
        BY <1>5, <2>2 DEF Store
      <4> QED BY <2>1, <4>1
    <3>4. /\ mutex' = NoOne
          /\ pc' = [pc EXCEPT ![p] = "idle"]
          /\ UNCHANGED <<fault, count, wakeups, queue, pipe, loopPc, nbytes, i,
                         running, quit, submitted, executed, fired, dropped,
                         skipped, raced>>
      BY <1>5, <2>2 DEF Store, loopVars
    <3> QED BY <3>1, <3>2, <3>3, <3>4
  <2>3. CASE num \notin Slot
    BY <1>5, <2>3 DEF Store, loopVars
  <2> QED BY <2>2, <2>3
<1>6. CASE Wakeup
  BY <1>6 DEF Wakeup, WriteByte, posterVars, tableVars, loopVars
<1>7. CASE Stop
  BY <1>7 DEF Stop, posterVars, tableVars, loopVars, history
<1>8. CASE TestQuit
  BY <1>8 DEF TestQuit, posterVars, tableVars, history
<1>9. CASE PollTimeout
  BY <1>9 DEF PollTimeout, posterVars, tableVars, history
<1>10. CASE ReadPipe
  BY <1>10 DEF ReadPipe, posterVars, tableVars, history
<1>11. CASE LockForDispatch
  BY <1>11 DEF LockForDispatch, posterVars, tableVars, history
<1>12. CASE FireSlot
  <2>1. slots[i] \in Event
    BY <1>12 DEF FireSlot, Written
  <2>2. queue # <<>> => Head(queue) \in Event /\ Tail(queue) \in Seq(Event)
    BY HeadTailProperties
  <2>3. fired' \in Seq(Event)
    BY <1>12, <2>1 DEF FireSlot
  <2>4. CASE queue = <<>>
    BY <1>12, <2>3, <2>4 DEF FireSlot, posterVars, tableVars
  <2>5. CASE queue # <<>>
    <3>1. running' = <<Head(queue)>> /\ queue' = Tail(queue) /\ i' = i + 1
      BY <1>12, <2>5 DEF FireSlot
    <3>2. running' \in Seq(Event)
      BY <2>2, <2>5, <3>1
    <3>3. queue' \in Seq(Event) /\ i' \in Nat
      BY <2>2, <2>5, <3>1
    <3> QED BY <1>12, <2>3, <2>5, <3>2, <3>3, SMTT(30) DEF FireSlot, posterVars, tableVars
  <2> QED BY <2>4, <2>5
<1>13. CASE FireUnwrittenSlot
  BY <1>13 DEF FireUnwrittenSlot, posterVars, tableVars
<1>14. CASE RunFunction
  BY <1>14, ConcatProperties DEF RunFunction, posterVars, tableVars
<1>15. CASE EndDispatch
  BY <1>15 DEF EndDispatch, posterVars, history
<1>16. CASE UNCHANGED vars
  BY <1>16 DEF vars
<1> QED
  BY <1>1, <1>2, <1>3, <1>4, <1>5, <1>6, <1>7, <1>8, <1>9, <1>10, <1>11,
     <1>12, <1>13, <1>14, <1>15, <1>16 DEF Next, PosterNext, LoopNext

\* Every variable of loop_post_event and pipe_read_cb keeps its type; in
\* particular custom_events_num stays within the table.
THEOREM TypeCorrect == Spec => []TypeOK
<1>1. Init => TypeOK /\ CountOK
  BY TypeInit DEF Init, CountOK
<1> QED
  BY <1>1, TypeStep, PTL DEF Spec
-----------------------------------------------------------------------------
(* Control: who holds the mutex, and what the loop's indices say.          *)

Control == MutexDiscipline /\ IndexOK /\ RunningOK

LEMMA ControlInit == Init => Control
BY PostersAreThreads
   DEF Init, Control, MutexDiscipline, IndexOK, RunningOK, NoOne, Loop

LEMMA ControlStep ==
    TypeOK /\ Control /\ [Next]_vars => Control'
<1> SUFFICES ASSUME TypeOK, Control, [Next]_vars
             PROVE  Control'
  OBVIOUS
<1> USE PostersAreThreads
    DEF TypeOK, Control, MutexDiscipline, IndexOK, RunningOK, NoOne, Loop
<1>1. ASSUME NEW p \in Posters, Push(p)
      PROVE  Control'
  BY <1>1 DEF Push, loopVars
<1>2. ASSUME NEW p \in Posters, LockForPost(p)
      PROVE  Control'
  BY <1>2 DEF LockForPost, loopVars
<1>3. ASSUME NEW p \in Posters, WritePipe(p)
      PROVE  Control'
  BY <1>3 DEF WritePipe, WriteByte, loopVars
<1>4. ASSUME NEW p \in Posters, PipeFull(p)
      PROVE  Control'
  BY <1>4 DEF PipeFull, loopVars
<1>5. ASSUME NEW p \in Posters, Store(p)
      PROVE  Control'
  BY <1>5 DEF Store, loopVars
<1>6. CASE Wakeup
  BY <1>6 DEF Wakeup, WriteByte, posterVars, loopVars
<1>7. CASE Stop
  BY <1>7 DEF Stop, posterVars, loopVars
<1>8. CASE TestQuit
  BY <1>8 DEF TestQuit, posterVars
<1>9. CASE PollTimeout
  BY <1>9 DEF PollTimeout, posterVars
<1>10. CASE ReadPipe
  BY <1>10 DEF ReadPipe, posterVars
<1>11. CASE LockForDispatch
  BY <1>11 DEF LockForDispatch, posterVars
<1>12. CASE FireSlot
  <2>1. CASE queue = <<>>
    BY <1>12, <2>1 DEF FireSlot, posterVars
  <2>2. CASE queue # <<>>
    <3>1. running' = <<Head(queue)>>
      BY <1>12, <2>2 DEF FireSlot
    <3>2. running' # <<>>
      BY <3>1
    <3> QED BY <1>12, <2>2, <3>2 DEF FireSlot, posterVars
  <2> QED BY <2>1, <2>2
<1>13. CASE FireUnwrittenSlot
  BY <1>13 DEF FireUnwrittenSlot, posterVars
<1>14. CASE RunFunction
  BY <1>14 DEF RunFunction, posterVars
<1>15. CASE EndDispatch
  BY <1>15 DEF EndDispatch, posterVars
<1>16. CASE UNCHANGED vars
  BY <1>16 DEF vars
<1> QED
  BY <1>1, <1>2, <1>3, <1>4, <1>5, <1>6, <1>7, <1>8, <1>9, <1>10, <1>11,
     <1>12, <1>13, <1>14, <1>15, <1>16 DEF Next, PosterNext, LoopNext

\* The code between lock and unlock, in the posters and in pipe_read_cb, has
\* loop->mutex to itself, and every path that leaves it unlocks.
THEOREM MutexIsExclusive == Spec => []MutexDiscipline
<1>1. Init => TypeOK /\ CountOK /\ Control
  BY TypeInit, ControlInit DEF Init, CountOK
<1>2. TypeOK /\ CountOK /\ Control /\ [Next]_vars
      => TypeOK' /\ CountOK' /\ Control'
  BY TypeStep, ControlStep
<1>3. Control => MutexDiscipline
  BY DEF Control
<1> QED
  BY <1>1, <1>2, <1>3, PTL DEF Spec

-----------------------------------------------------------------------------
(* Tokens: bytes, slots and waiting functions.                             *)

LEMMA BeforeByteFinite ==
    /\ IsFiniteSet(BeforeByte)
    /\ Cardinality(BeforeByte) \in Nat
BY PostersFinite, FS_Subset, FS_CardinalityType DEF BeforeByte

LEMMA EnterBeforeByte ==
    ASSUME TypeOK, NEW p \in Posters, pc[p] = "idle",
           pc' = [pc EXCEPT ![p] = "lock"]
    PROVE  Cardinality(BeforeByte)' = Cardinality(BeforeByte) + 1
<1>1. p \notin BeforeByte /\ BeforeByte' = BeforeByte \cup {p}
  BY DEF TypeOK, BeforeByte
<1> QED BY <1>1, BeforeByteFinite, FS_AddElement

LEMMA LeaveBeforeByte ==
    ASSUME TypeOK, NEW p \in Posters, pc[p] = "write",
           NEW at \in {"append", "idle"}, pc' = [pc EXCEPT ![p] = at]
    PROVE  Cardinality(BeforeByte)' = Cardinality(BeforeByte) - 1
<1>1. p \in BeforeByte /\ BeforeByte' = BeforeByte \ {p}
  BY DEF TypeOK, BeforeByte
<1> QED BY <1>1, BeforeByteFinite, FS_RemoveElement

LEMMA TokensInit == Init => TokenBalance /\ TableBound
<1> SUFFICES ASSUME Init PROVE TokenBalance /\ TableBound
  OBVIOUS
<1>1. BeforeByte = {}
  BY DEF Init, BeforeByte
<1>2. Cardinality(BeforeByte) = 0
  BY <1>1, FS_EmptySet
<1>3. Storing = 0
  BY DEF Init, Storing
<1>4. Len(queue) = 0
  BY DEF Init
<1> QED
  BY <1>2, <1>3, <1>4 DEF Init, TokenBalance, TableBound, Owed, Announced, Stuck

LEMMA TokenBalanceStep ==
    TypeOK /\ Control /\ TokenBalance /\ [Next]_vars => TokenBalance'
<1> SUFFICES ASSUME TypeOK, Control, TokenBalance, [Next]_vars
             PROVE  TokenBalance'
  OBVIOUS
<1>0. /\ Cardinality(BeforeByte) \in Nat
      /\ Len(queue) \in Nat /\ wakeups \in Nat /\ pipe \in Nat
      /\ nbytes \in Nat /\ i \in Nat /\ dropped \in Nat /\ skipped \in Nat
  BY BeforeByteFinite, LenProperties, LimitsAreNaturals DEF TypeOK
<1>t. Owed \in Int /\ Announced \in Int /\ Stuck \in Int
  BY <1>0 DEF Owed, Announced, Stuck
<1>a. UNCHANGED pc => UNCHANGED BeforeByte
  BY DEF BeforeByte
<1>b. /\ UNCHANGED <<queue, wakeups>> => UNCHANGED Owed
      /\ UNCHANGED <<pipe, nbytes, i>> => UNCHANGED Announced
      /\ UNCHANGED <<dropped, skipped>> => UNCHANGED Stuck
  BY DEF Owed, Announced, Stuck
<1>c. IndexOK
  BY DEF Control
<1>d. UNCHANGED <<pc, queue, wakeups, pipe, nbytes, i, dropped, skipped>>
      => TokenBalance'
  BY <1>a, <1>b DEF TokenBalance
<1>1. ASSUME NEW p \in Posters, Push(p)
      PROVE  TokenBalance'
  <2>1. Cardinality(BeforeByte)' = Cardinality(BeforeByte) + 1
    BY <1>1, EnterBeforeByte DEF Push
  <2>2. Len(queue') = Len(queue) + 1 /\ UNCHANGED wakeups
    BY <1>1, AppendProperties DEF Push, TypeOK
  <2>3. Owed' = Owed + 1
    BY <1>0, <2>2 DEF Owed
  <2>4. UNCHANGED <<Announced, Stuck>>
    BY <1>b, <1>1 DEF Push, loopVars
  <2> QED BY <1>0, <1>t, <2>1, <2>3, <2>4 DEF TokenBalance
<1>2. ASSUME NEW p \in Posters, LockForPost(p)
      PROVE  TokenBalance'
  <2>1. BeforeByte' = BeforeByte
    BY <1>2 DEF LockForPost, BeforeByte, TypeOK
  <2>2. UNCHANGED <<Owed, Announced, Stuck>>
    BY <1>b, <1>2 DEF LockForPost, loopVars, history
  <2> QED BY <2>1, <2>2 DEF TokenBalance
<1>3. ASSUME NEW p \in Posters, WritePipe(p)
      PROVE  TokenBalance'
  <2>1. Cardinality(BeforeByte)' = Cardinality(BeforeByte) - 1
    BY <1>3, LeaveBeforeByte DEF WritePipe
  <2>2. pipe' = pipe + 1 /\ UNCHANGED <<nbytes, i>>
    BY <1>3 DEF WritePipe, WriteByte, loopVars
  <2>3. Announced' = Announced + 1
    BY <1>0, <2>2 DEF Announced
  <2>4. UNCHANGED <<Owed, Stuck>>
    BY <1>b, <1>3 DEF WritePipe
  <2> QED BY <1>0, <1>t, <2>1, <2>3, <2>4 DEF TokenBalance
<1>4. ASSUME NEW p \in Posters, PipeFull(p)
      PROVE  TokenBalance'
  <2>1. Cardinality(BeforeByte)' = Cardinality(BeforeByte) - 1
    BY <1>4, LeaveBeforeByte DEF PipeFull
  <2>2. dropped' = dropped + 1 /\ UNCHANGED skipped
    BY <1>4 DEF PipeFull
  <2>3. Stuck' = Stuck + 1
    BY <1>0, <2>2 DEF Stuck
  <2>4. UNCHANGED <<Owed, Announced>>
    BY <1>b, <1>4 DEF PipeFull, loopVars
  <2> QED BY <1>0, <1>t, <2>1, <2>3, <2>4 DEF TokenBalance
<1>5. ASSUME NEW p \in Posters, Store(p)
      PROVE  TokenBalance'
  <2>1. BeforeByte' = BeforeByte
    BY <1>5 DEF Store, BeforeByte, TypeOK
  <2>2. UNCHANGED <<Owed, Announced, Stuck>>
    BY <1>b, <1>5 DEF Store, loopVars
  <2> QED BY <2>1, <2>2 DEF TokenBalance
<1>6. CASE Wakeup
  <2>1. wakeups' = wakeups + 1 /\ pipe' = pipe + 1
        /\ UNCHANGED <<pc, queue, nbytes, i, dropped, skipped>>
    BY <1>6 DEF Wakeup, WriteByte, posterVars, loopVars
  <2>2. Owed' = Owed + 1
    BY <1>0, <2>1 DEF Owed
  <2>3. Announced' = Announced + 1
    BY <1>0, <2>1 DEF Announced
  <2> QED BY <1>0, <1>t, <1>a, <1>b, <2>1, <2>2, <2>3 DEF TokenBalance
<1>7. CASE Stop
  BY <1>d, <1>7 DEF Stop, posterVars, loopVars, history
<1>8. CASE TestQuit
  BY <1>d, <1>8 DEF TestQuit, posterVars, history
<1>9. CASE PollTimeout
  BY <1>d, <1>9 DEF PollTimeout, posterVars, history
<1>10. CASE ReadPipe
  <2>1. nbytes' = pipe /\ pipe' = 0 /\ i' = 0
    BY <1>10 DEF ReadPipe
  <2>2. nbytes = 0 /\ i = 0
    BY <1>c, <1>10 DEF ReadPipe, IndexOK
  <2>3. Announced' = Announced
    BY <1>0, <2>1, <2>2 DEF Announced
  <2>4. UNCHANGED <<BeforeByte, Owed, Stuck>>
    BY <1>a, <1>b, <1>10 DEF ReadPipe, posterVars, history
  <2> QED BY <2>3, <2>4 DEF TokenBalance
<1>11. CASE LockForDispatch
  BY <1>d, <1>11 DEF LockForDispatch, posterVars, history
<1>12. CASE FireSlot
  <2>1. CASE queue = <<>>
    BY <1>d, <1>12, <2>1 DEF FireSlot, posterVars
  <2>2. CASE queue # <<>>
    <3>1. queue' = Tail(queue) /\ i' = i + 1 /\ UNCHANGED <<wakeups, pipe, nbytes>>
      BY <1>12, <2>2 DEF FireSlot
    <3>2. Len(queue') = Len(queue) - 1
      BY <2>2, <3>1, HeadTailProperties DEF TypeOK
    <3>3. Owed' = Owed - 1
      BY <1>0, <3>1, <3>2 DEF Owed
    <3>4. Announced' = Announced - 1
      BY <1>0, <3>1 DEF Announced
    <3>5. UNCHANGED <<BeforeByte, Stuck>>
      BY <1>a, <1>b, <1>12 DEF FireSlot, posterVars
    <3> QED BY <1>0, <1>t, <3>3, <3>4, <3>5 DEF TokenBalance
  <2> QED BY <2>1, <2>2
<1>13. CASE FireUnwrittenSlot
  <2>1. UNCHANGED <<pc, queue, wakeups, pipe, nbytes, dropped>>
    BY <1>13 DEF FireUnwrittenSlot, posterVars
  <2>2. CASE i' = i + 1 /\ skipped' = skipped + 1
    <3>1. Announced' = Announced - 1
      BY <1>0, <2>1, <2>2 DEF Announced
    <3>2. Stuck' = Stuck + 1
      BY <1>0, <2>1, <2>2 DEF Stuck
    <3> QED BY <1>0, <1>t, <1>a, <1>b, <2>1, <3>1, <3>2 DEF TokenBalance
  <2>3. CASE UNCHANGED <<i, skipped>>
    BY <1>d, <2>1, <2>3
  <2> QED BY <1>13, <2>2, <2>3 DEF FireUnwrittenSlot
<1>14. CASE RunFunction
  BY <1>d, <1>14 DEF RunFunction, posterVars
<1>15. CASE EndDispatch
  <2>1. nbytes' = 0 /\ i' = 0 /\ UNCHANGED pipe
    BY <1>15 DEF EndDispatch
  <2>2. nbytes = i
    BY <1>0, <1>c, <1>15 DEF EndDispatch, IndexOK
  <2>3. Announced' = Announced
    BY <1>0, <2>1, <2>2 DEF Announced
  <2>4. UNCHANGED <<BeforeByte, Owed, Stuck>>
    BY <1>a, <1>b, <1>15 DEF EndDispatch, posterVars, history
  <2> QED BY <2>3, <2>4 DEF TokenBalance
<1>16. CASE UNCHANGED vars
  BY <1>d, <1>16 DEF vars
<1> QED
  BY <1>1, <1>2, <1>3, <1>4, <1>5, <1>6, <1>7, <1>8, <1>9, <1>10, <1>11,
     <1>12, <1>13, <1>14, <1>15, <1>16 DEF Next, PosterNext, LoopNext
LEMMA TableBoundStep ==
    TypeOK /\ Control /\ TableBound /\ [Next]_vars => TableBound'
<1> SUFFICES ASSUME TypeOK, Control, TableBound, [Next]_vars
             PROVE  TableBound'
  OBVIOUS
<1>0. /\ Storing \in {0, 1} /\ Storing' \in {0, 1}
      /\ num \in Nat /\ pipe \in Nat /\ nbytes \in Nat
  BY LimitsAreNaturals DEF TypeOK, Storing
<1>a. UNCHANGED <<pc, num, pipe, nbytes>> => TableBound'
  BY DEF TableBound, Storing
<1>b. MutexDiscipline /\ IndexOK
  BY DEF Control
<1>1. ASSUME NEW p \in Posters, Push(p)
      PROVE  TableBound'
  <2>1. Storing' = Storing
    BY <1>1 DEF Push, Storing, TypeOK
  <2> QED BY <1>1, <2>1 DEF Push, tableVars, loopVars, TableBound
<1>2. ASSUME NEW p \in Posters, LockForPost(p)
      PROVE  TableBound'
  <2>1. Storing' = Storing
    BY <1>2 DEF LockForPost, Storing, TypeOK
  <2> QED BY <1>2, <2>1 DEF LockForPost, tableVars, loopVars, TableBound
<1>3. ASSUME NEW p \in Posters, WritePipe(p)
      PROVE  TableBound'
  <2>1. Storing = 0
    BY <1>b, <1>3 DEF WritePipe, Storing, MutexDiscipline
  <2>2. pipe' = pipe + 1 /\ UNCHANGED <<num, nbytes>>
    BY <1>3 DEF WritePipe, WriteByte, tableVars, loopVars
  <2>3. Storing' = 1
    BY <1>3 DEF WritePipe, Storing, TypeOK
  <2> QED BY <1>0, <2>1, <2>2, <2>3 DEF TableBound
<1>4. ASSUME NEW p \in Posters, PipeFull(p)
      PROVE  TableBound'
  <2>1. Storing' = Storing
    BY <1>4 DEF PipeFull, Storing, TypeOK
  <2> QED BY <1>4, <2>1 DEF PipeFull, tableVars, loopVars, TableBound
<1>5. ASSUME NEW p \in Posters, Store(p)
      PROVE  TableBound'
  <2>1. CASE num \in Slot
    <3>1. Storing = 1 /\ Storing' = 0
      BY <1>b, <1>5, <2>1 DEF Store, Storing, MutexDiscipline, TypeOK
    <3>2. num' = num + 1 /\ UNCHANGED <<pipe, nbytes>>
      BY <1>5, <2>1 DEF Store, loopVars
    <3> QED BY <1>0, <3>1, <3>2 DEF TableBound
  <2>2. CASE num \notin Slot
    BY <1>a, <1>5, <2>2 DEF Store, loopVars
  <2> QED BY <2>1, <2>2
<1>6. CASE Wakeup
  <2>1. Storing' = Storing
    BY <1>6 DEF Wakeup, Storing, posterVars
  <2>2. pipe' = pipe + 1 /\ UNCHANGED <<num, nbytes>>
    BY <1>6 DEF Wakeup, WriteByte, tableVars, loopVars
  <2> QED BY <1>0, <2>1, <2>2 DEF TableBound
<1>7. CASE Stop
  BY <1>a, <1>7 DEF Stop, posterVars, tableVars, loopVars
<1>8. CASE TestQuit
  BY <1>a, <1>8 DEF TestQuit, posterVars, tableVars
<1>9. CASE PollTimeout
  BY <1>a, <1>9 DEF PollTimeout, posterVars, tableVars
<1>10. CASE ReadPipe
  <2>1. Storing' = Storing
    BY <1>10 DEF ReadPipe, Storing, posterVars
  <2>2. nbytes = 0 /\ nbytes' = pipe /\ pipe' = 0 /\ num' = num
    BY <1>b, <1>10 DEF ReadPipe, IndexOK, tableVars
  <2> QED BY <1>0, <2>1, <2>2 DEF TableBound
<1>11. CASE LockForDispatch
  BY <1>a, <1>11 DEF LockForDispatch, posterVars, tableVars
<1>12. CASE FireSlot
  BY <1>a, <1>12 DEF FireSlot, posterVars, tableVars
<1>13. CASE FireUnwrittenSlot
  BY <1>a, <1>13 DEF FireUnwrittenSlot, posterVars, tableVars
<1>14. CASE RunFunction
  BY <1>a, <1>14 DEF RunFunction, posterVars, tableVars
<1>15. CASE EndDispatch
  <2>1. Storing' = 0
    BY <1>b, <1>15, PostersAreThreads
       DEF EndDispatch, Storing, posterVars, MutexDiscipline
  <2>2. num' = 0 /\ nbytes' = 0 /\ pipe' = pipe
    BY <1>15 DEF EndDispatch
  <2> QED BY <1>0, <2>1, <2>2 DEF TableBound
<1>16. CASE UNCHANGED vars
  BY <1>a, <1>16 DEF vars
<1> QED
  BY <1>1, <1>2, <1>3, <1>4, <1>5, <1>6, <1>7, <1>8, <1>9, <1>10, <1>11,
     <1>12, <1>13, <1>14, <1>15, <1>16 DEF Next, PosterNext, LoopNext

-----------------------------------------------------------------------------
(* What the tokens exclude.                                                *)

\* Undefined behaviour that was not there before the step.
LEMMA NewFault ==
    ASSUME [Next]_vars, fault' # fault
    PROVE  \/ \E p \in Posters : /\ pc[p] = "append" /\ num \notin Slot
                                 /\ fault' = "overrun"
                                 /\ UNCHANGED <<queue, wakeups>>
           \/ /\ loopPc = "dispatch" /\ i < nbytes /\ queue = <<>>
              /\ fault' = "emptyQueue" /\ UNCHANGED wakeups
           \/ /\ loopPc = "dispatch" /\ i < nbytes /\ ~Written(i)
              /\ fault' = "wildSlot"
BY DEF Next, PosterNext, LoopNext, vars, Push, LockForPost, WritePipe,
       PipeFull, Store, Wakeup, Stop, TestQuit, PollTimeout, ReadPipe,
       LockForDispatch, FireSlot, FireUnwrittenSlot, RunFunction, EndDispatch

\* Steps leave a program that has run into undefined behaviour alone.
LEMMA FaultIsFinal == [Next]_vars /\ fault # "no" => UNCHANGED vars
BY DEF Next

Faults == EmptyPopNeedsWakeup /\ OverrunOnlyUnderBacklog

LEMMA FaultsStep ==
    TypeOK /\ Control /\ TokenBalance /\ TableBound /\ Faults /\ [Next]_vars
    => Faults'
<1> SUFFICES ASSUME TypeOK, Control, TokenBalance, TableBound, Faults,
                    [Next]_vars
             PROVE  Faults'
  OBVIOUS
<1>0. /\ Cardinality(BeforeByte) \in Nat
      /\ wakeups \in Nat /\ pipe \in Nat /\ nbytes \in Nat /\ i \in Nat
      /\ num \in 0 .. MaxEvents /\ dropped \in Nat /\ skipped \in Nat
  BY BeforeByteFinite, LimitsAreNaturals DEF TypeOK
<1>1. Stuck \in Nat
  BY <1>0 DEF Stuck
<1>2. CASE fault' = fault
  <2>1. CASE fault = "no"
    BY <1>2, <2>1 DEF Faults, EmptyPopNeedsWakeup, OverrunOnlyUnderBacklog
  <2>2. CASE fault # "no"
    BY <2>2, FaultIsFinal
       DEF Faults, EmptyPopNeedsWakeup, OverrunOnlyUnderBacklog, Owed, vars
  <2> QED BY <2>1, <2>2
<1>3. ASSUME NEW p \in Posters, pc[p] = "append", num \notin Slot,
             fault' = "overrun", UNCHANGED <<queue, wakeups>>
      PROVE  Faults'
  <2>1. Storing = 1
    BY <1>3 DEF Storing
  <2>2. num = MaxEvents
    BY <1>0, <1>3, LimitsAreNaturals
  <2>3. i = 0
    BY <1>3, PostersAreThreads DEF Control, MutexDiscipline, IndexOK
  <2>4. Announced > MaxEvents
    BY <1>0, <2>1, <2>2, <2>3, LimitsAreNaturals DEF Announced, TableBound
  <2>5. Announced \in Int
    BY <1>0 DEF Announced
  <2>6. Owed > MaxEvents
    BY <1>0, <1>1, <2>4, <2>5, LimitsAreNaturals DEF TokenBalance
  <2> QED BY <1>3, <2>6
          DEF Faults, EmptyPopNeedsWakeup, OverrunOnlyUnderBacklog, Owed
<1>4. CASE /\ loopPc = "dispatch" /\ i < nbytes /\ queue = <<>>
           /\ fault' = "emptyQueue" /\ UNCHANGED wakeups
  <2>1. Announced \in Int /\ Announced > 0
    BY <1>0, <1>4 DEF Announced
  <2>2. Owed = wakeups
    <3>1. Len(queue) = 0
      BY <1>4
    <3> QED BY <1>0, <3>1 DEF Owed
  <2>3. wakeups > 0
    BY <1>0, <1>1, <2>1, <2>2 DEF TokenBalance
  <2> QED BY <1>4, <2>3 DEF Faults, EmptyPopNeedsWakeup, OverrunOnlyUnderBacklog
<1>5. CASE fault' = "wildSlot"
  BY <1>5 DEF Faults, EmptyPopNeedsWakeup, OverrunOnlyUnderBacklog
<1> QED
  BY <1>2, <1>3, <1>4, <1>5, NewFault

Safe == TypeOK /\ CountOK /\ Control /\ TokenBalance /\ TableBound /\ Faults

LEMMA SafeInvariant == Spec => []Safe
<1>1. Init => Safe
  BY TypeInit, ControlInit, TokensInit
     DEF Init, Safe, CountOK, Faults, EmptyPopNeedsWakeup,
         OverrunOnlyUnderBacklog
<1>2. Safe /\ [Next]_vars => Safe'
  BY TypeStep, ControlStep, TokenBalanceStep, TableBoundStep, FaultsStep
     DEF Safe
<1> QED
  BY <1>1, <1>2, PTL DEF Spec

\* Bytes, slots and waiting functions balance in every reachable state, so
\* the number of functions that are stuck is the number of posts the pipe
\* turned away plus the number of NULL slots.
THEOREM TokensBalance == Spec => []TokenBalance
BY SafeInvariant, PTL DEF Safe

\* m_eventQueue.front() is never called on an empty queue unless somebody
\* used event_loop_wakeup.
THEOREM NoEmptyPop == Spec => []EmptyPopNeedsWakeup
BY SafeInvariant, PTL DEF Safe, Faults

\* custom_events overflows only while more functions wait than it has slots.
THEOREM OverrunNeedsBacklog == Spec => []OverrunOnlyUnderBacklog
BY SafeInvariant, PTL DEF Safe, Faults
-----------------------------------------------------------------------------
(* The table as a FIFO, as long as no byte escapes a read.                 *)

\* Events equal the bytes that announce them, and the slots hold, in order,
\* what was stored and not run.
TableExact ==
    ~raced /\ wakeups = 0 =>
        /\ num + Storing = pipe + nbytes
        /\ loopPc \in {"lock", "dispatch", "run"} => pipe = 0
        /\ i <= Len(fired)
        /\ Len(stored) = Len(fired) - i + num
        /\ \A k \in 0 .. num - 1 : slots[k] = stored[Len(fired) - i + k + 1]
        /\ \A k \in 1 .. Len(fired) : k <= Len(stored) /\ fired[k] = stored[k]
        /\ skipped = 0
        /\ fault # "wildSlot"

LEMMA TableExactInit == Init => TableExact
<1> SUFFICES ASSUME Init PROVE TableExact
  OBVIOUS
<1>1. Storing = 0 /\ Len(fired) = 0 /\ Len(stored) = 0
  BY DEF Init, Storing
<1> QED
  BY <1>1 DEF Init, TableExact

\* Once the loop has the mutex, every byte in hand has its event in the table.
LEMMA DispatchSeesAll ==
    ASSUME Safe, TableExact, ~raced, wakeups = 0,
           loopPc \in {"dispatch", "run"}
    PROVE  /\ Storing = 0 /\ pipe = 0 /\ num = nbytes
           /\ i < nbytes => /\ i \in 0 .. num - 1 /\ i \in Slot
                           /\ Len(fired) + 1 \in 1 .. Len(stored)
                           /\ slots[i] = stored[Len(fired) + 1]
                           /\ Written(i)
<1> USE LimitsAreNaturals
<1>0. /\ num \in 0 .. MaxEvents /\ pipe \in Nat /\ nbytes \in Nat /\ i \in Nat
      /\ Len(fired) \in Nat /\ Len(stored) \in Nat
      /\ stored \in Seq(Event)
  BY LenProperties DEF Safe, TypeOK
<1>1. Storing = 0
  BY PostersAreThreads DEF Safe, Control, MutexDiscipline, Storing
<1>2. pipe = 0 /\ num = nbytes
  BY <1>0, <1>1 DEF TableExact
<1>3. ASSUME i < nbytes
      PROVE  /\ i \in 0 .. num - 1 /\ i \in Slot
             /\ Len(fired) + 1 \in 1 .. Len(stored)
             /\ slots[i] = stored[Len(fired) + 1]
             /\ Written(i)
  <2>1. i \in 0 .. num - 1 /\ i \in Slot
    BY <1>0, <1>2, <1>3
  <2>2. Len(stored) = Len(fired) - i + num
    BY DEF TableExact
  <2>3. Len(fired) + 1 \in 1 .. Len(stored)
    BY <1>0, <2>1, <2>2
  <2>4. slots[i] = stored[Len(fired) - i + i + 1]
    BY <2>1 DEF TableExact
  <2>5. slots[i] = stored[Len(fired) + 1]
    BY <1>0, <2>4
  <2>6. slots[i] \in Event
    BY <1>0, <2>3, <2>5, ElementOfSeq
  <2> QED BY <2>1, <2>3, <2>5, <2>6, UnwrittenIsNoEvent DEF Written
<1> QED BY <1>1, <1>2, <1>3

\* Changes of the table's own variables are all that can disturb its order.
LEMMA TableExactFrame ==
    ASSUME TableExact,
           ~raced' /\ wakeups' = 0 => ~raced /\ wakeups = 0,
           UNCHANGED <<slots, num, stored, fired, skipped, i>>,
           fault' # "wildSlot" \/ UNCHANGED fault,
           ~raced' /\ wakeups' = 0 =>
               /\ num + Storing' = pipe' + nbytes'
               /\ loopPc' \in {"lock", "dispatch", "run"} => pipe' = 0
    PROVE  TableExact'
BY DEF TableExact
LEMMA StoreExact ==
    ASSUME Safe, TableExact, NEW p \in Posters, Store(p), num \in Slot
    PROVE  TableExact'
<1> SUFFICES ASSUME ~raced', wakeups' = 0
             PROVE  TableExact'
  BY DEF TableExact
<1> USE LimitsAreNaturals
<1>0. /\ num \in Nat /\ pipe \in Nat /\ nbytes \in Nat /\ i \in Nat
      /\ stored \in Seq(Event) /\ fired \in Seq(Event)
      /\ Len(fired) \in Nat /\ Len(stored) \in Nat
  BY LenProperties DEF Safe, TypeOK
<1>1. ~raced /\ wakeups = 0
  BY DEF Store
<1>2. Storing = 1 /\ Storing' = 0
  BY DEF Store, Storing, Safe, Control, MutexDiscipline, TypeOK
<1>3. /\ num' = num + 1 /\ stored' = Append(stored, EventOf(p))
      /\ slots' = [slots EXCEPT ![num] = EventOf(p)]
      /\ UNCHANGED <<pipe, nbytes, i, fired, skipped, loopPc, fault>>
  BY DEF Store, loopVars
<1>4. EventOf(p) \in Event
  BY EventOfType DEF Store, Safe, CountOK
<1>5. /\ Len(stored') = Len(stored) + 1
      /\ stored'[Len(stored) + 1] = EventOf(p)
      /\ \A n \in 1 .. Len(stored) : stored'[n] = stored[n]
  BY <1>0, <1>3, <1>4, AppendProperties
<1>6. slots \in [Slot -> Event \cup {Unwritten}]
  BY DEF Safe, TypeOK
<1>7. Len(stored) = Len(fired) - i + num /\ i <= Len(fired)
  BY <1>1 DEF TableExact
<1>8. num' + Storing' = pipe' + nbytes'
  BY <1>0, <1>1, <1>2, <1>3 DEF TableExact
<1>9. ASSUME NEW k \in 0 .. num' - 1
      PROVE  slots'[k] = stored'[Len(fired) - i + k + 1]
  <2>1. CASE k = num
    <3>1. Len(fired) - i + k + 1 = Len(stored) + 1
      BY <1>0, <1>7, <2>1
    <3> QED BY <1>3, <1>5, <1>6, <2>1, <3>1
  <2>2. CASE k # num
    <3>1. k \in 0 .. num - 1
      BY <1>0, <1>3, <2>2
    <3>2. Len(fired) - i + k + 1 \in 1 .. Len(stored)
      BY <1>0, <1>7, <3>1
    <3>3. slots'[k] = slots[k]
      BY <1>3, <1>6, <2>2, <3>1
    <3>4. slots[k] = stored[Len(fired) - i + k + 1]
      BY <1>1, <3>1 DEF TableExact
    <3> QED BY <1>5, <3>2, <3>3, <3>4
  <2> QED BY <2>1, <2>2
<1>10. ASSUME NEW k \in 1 .. Len(fired)
       PROVE  k <= Len(stored') /\ fired[k] = stored'[k]
  <2>1. k <= Len(stored) /\ fired[k] = stored[k]
    BY <1>1 DEF TableExact
  <2>2. k \in 1 .. Len(stored)
    BY <1>0, <2>1
  <2> QED BY <1>0, <1>5, <2>1, <2>2
<1>11. Len(stored') = Len(fired) - i + num'
  BY <1>0, <1>3, <1>5, <1>7
<1>12. /\ skipped = 0 /\ fault # "wildSlot"
       /\ loopPc \in {"lock", "dispatch", "run"} => pipe = 0
  BY <1>1 DEF TableExact
<1>13. /\ fired' = fired /\ i' = i
       /\ skipped' = 0 /\ fault' # "wildSlot"
       /\ loopPc' \in {"lock", "dispatch", "run"} => pipe' = 0
  BY <1>3, <1>12
<1>14. \A k \in 0 .. num' - 1 : slots'[k] = stored'[Len(fired') - i' + k + 1]
  BY <1>9, <1>13
<1>15. \A k \in 1 .. Len(fired') : k <= Len(stored') /\ fired'[k] = stored'[k]
  BY <1>10, <1>13
<1>16. i' <= Len(fired') /\ Len(stored') = Len(fired') - i' + num'
  BY <1>7, <1>11, <1>13
<1> HIDE DEF Store
<1> QED
  BY <1>8, <1>13, <1>14, <1>15, <1>16 DEF TableExact

LEMMA FireExact ==
    ASSUME Safe, TableExact, EmptyPopNeedsWakeup', FireSlot
    PROVE  TableExact'
<1> SUFFICES ASSUME ~raced', wakeups' = 0
             PROVE  TableExact'
  BY DEF TableExact
<1> USE LimitsAreNaturals
<1>0. /\ num \in Nat /\ i \in Nat
      /\ stored \in Seq(Event) /\ fired \in Seq(Event)
      /\ Len(fired) \in Nat /\ Len(stored) \in Nat
  BY LenProperties DEF Safe, TypeOK
<1>1. ~raced /\ wakeups = 0
  BY DEF FireSlot
<1>2. queue # <<>>
  BY DEF FireSlot, EmptyPopNeedsWakeup
<1>3. /\ fired' = Append(fired, slots[i]) /\ i' = i + 1 /\ loopPc' = "run"
      /\ UNCHANGED <<num, slots, stored, pipe, nbytes, skipped, fault, pc>>
  BY <1>2 DEF FireSlot, posterVars, tableVars
<1>4. /\ Storing = 0 /\ pipe = 0 /\ num = nbytes
      /\ Len(fired) + 1 \in 1 .. Len(stored)
      /\ slots[i] = stored[Len(fired) + 1]
  BY <1>1, DispatchSeesAll DEF FireSlot
<1>5. slots[i] \in Event
  BY <1>0, <1>4, ElementOfSeq
<1>6. /\ Len(fired') = Len(fired) + 1
      /\ fired'[Len(fired) + 1] = slots[i]
      /\ \A n \in 1 .. Len(fired) : fired'[n] = fired[n]
  BY <1>0, <1>3, <1>5, AppendProperties
<1>7. Storing' = Storing
  BY <1>3 DEF Storing
<1>8. Len(stored) = Len(fired) - i + num /\ i <= Len(fired)
  BY <1>1 DEF TableExact
<1>9. Len(fired') - i' = Len(fired) - i
  BY <1>0, <1>3, <1>6
<1>10. ASSUME NEW k \in 1 .. Len(fired')
       PROVE  k <= Len(stored) /\ fired'[k] = stored[k]
  <2>1. CASE k = Len(fired) + 1
    BY <1>0, <1>4, <1>6, <2>1
  <2>2. CASE k # Len(fired) + 1
    <3>1. k \in 1 .. Len(fired)
      BY <1>0, <1>6, <2>2
    <3> QED BY <1>1, <1>6, <3>1 DEF TableExact
  <2> QED BY <2>1, <2>2
<1>11. i' <= Len(fired')
  BY <1>0, <1>3, <1>6, <1>8
<1>12. \A k \in 0 .. num - 1 : slots[k] = stored[Len(fired') - i' + k + 1]
  BY <1>1, <1>9 DEF TableExact
<1>13. Len(stored) = Len(fired') - i' + num
  BY <1>8, <1>9
<1>14. skipped = 0 /\ fault # "wildSlot" /\ num + Storing = pipe + nbytes
  BY <1>1 DEF TableExact
<1> QED
  BY <1>3, <1>4, <1>7, <1>10, <1>11, <1>12, <1>13, <1>14 DEF TableExact

LEMMA EndExact ==
    ASSUME Safe, TableExact, EndDispatch
    PROVE  TableExact'
<1> SUFFICES ASSUME ~raced', wakeups' = 0
             PROVE  TableExact'
  BY DEF TableExact
<1>0. /\ num \in Nat /\ i \in Nat /\ nbytes \in Nat
      /\ Len(fired) \in Nat /\ Len(stored) \in Nat
  BY LenProperties, LimitsAreNaturals DEF Safe, TypeOK
<1>1. ~raced /\ wakeups = 0
  BY DEF EndDispatch, history
<1>2. /\ num' = 0 /\ nbytes' = 0 /\ i' = 0 /\ loopPc' = "top"
      /\ UNCHANGED <<slots, stored, fired, pipe, skipped, fault, pc>>
  BY DEF EndDispatch, posterVars, history
<1>3. Storing = 0 /\ pipe = 0 /\ num = nbytes
  BY <1>1, DispatchSeesAll DEF EndDispatch
<1>4. i = nbytes
  BY <1>0 DEF EndDispatch, Safe, Control, IndexOK
<1>5. Storing' = 0
  BY <1>2, <1>3 DEF Storing
<1>6. Len(stored) = Len(fired)
  <2>1. Len(stored) = Len(fired) - i + num
    BY <1>1 DEF TableExact
  <2> QED BY <1>0, <1>3, <1>4, <2>1
<1>7. /\ \A k \in 1 .. Len(fired) : k <= Len(stored) /\ fired[k] = stored[k]
      /\ skipped = 0 /\ fault # "wildSlot"
  BY <1>1 DEF TableExact
<1>8. Len(stored) = Len(fired) - 0 + 0
  BY <1>0, <1>6
<1> QED
  BY <1>0, <1>2, <1>3, <1>5, <1>7, <1>8 DEF TableExact
LEMMA TableExactStep ==
    Safe /\ TableExact /\ Safe' /\ [Next]_vars => TableExact'
<1> SUFFICES ASSUME Safe, TableExact, Safe', [Next]_vars
             PROVE  TableExact'
  OBVIOUS
<1> USE LimitsAreNaturals
<1>0. /\ num \in Nat /\ pipe \in Nat /\ nbytes \in Nat
      /\ wakeups \in Nat /\ Storing \in {0, 1}
  BY DEF Safe, TypeOK, Storing
<1>b. TypeOK /\ MutexDiscipline /\ IndexOK
  BY DEF Safe, Control
<1>c. ~raced /\ wakeups = 0 =>
         /\ num + Storing = pipe + nbytes
         /\ loopPc \in {"lock", "dispatch", "run"} => pipe = 0
  BY DEF TableExact
<1>1. ASSUME NEW p \in Posters, Push(p)
      PROVE  TableExact'
  <2>1. Storing' = Storing
    BY <1>b, <1>1 DEF Push, Storing, TypeOK
  <2> QED BY <1>c, <1>1, <2>1, TableExactFrame DEF Push, tableVars, loopVars
<1>2. ASSUME NEW p \in Posters, LockForPost(p)
      PROVE  TableExact'
  <2>1. Storing' = Storing
    BY <1>b, <1>2 DEF LockForPost, Storing, TypeOK
  <2> QED BY <1>c, <1>2, <2>1, TableExactFrame
          DEF LockForPost, tableVars, loopVars, history
<1>3. ASSUME NEW p \in Posters, WritePipe(p)
      PROVE  TableExact'
  <2>1. Storing = 0 /\ Storing' = 1
    BY <1>b, <1>3 DEF WritePipe, Storing, MutexDiscipline, TypeOK
  <2>2. /\ pipe' = pipe + 1
        /\ ~raced' => ~raced /\ loopPc # "lock"
        /\ UNCHANGED <<num, nbytes, loopPc, wakeups, slots, stored, fired,
                       skipped, i, fault>>
    BY <1>3 DEF WritePipe, WriteByte, tableVars, loopVars
  <2>3. loopPc \notin {"dispatch", "run"}
    BY <1>b, <1>3, PostersAreThreads DEF WritePipe, MutexDiscipline
  <2>4. ~raced' /\ wakeups' = 0 =>
           /\ num + Storing' = pipe' + nbytes'
           /\ loopPc' \in {"lock", "dispatch", "run"} => pipe' = 0
    BY <1>0, <1>c, <2>1, <2>2, <2>3
  <2> QED BY <2>2, <2>4, TableExactFrame
<1>4. ASSUME NEW p \in Posters, PipeFull(p)
      PROVE  TableExact'
  <2>1. Storing' = Storing
    BY <1>b, <1>4 DEF PipeFull, Storing, TypeOK
  <2> QED BY <1>c, <1>4, <2>1, TableExactFrame DEF PipeFull, tableVars, loopVars
<1>5. ASSUME NEW p \in Posters, Store(p)
      PROVE  TableExact'
  <2>1. CASE num \in Slot
    BY <1>5, <2>1, StoreExact
  <2>2. CASE num \notin Slot
    <3>1. UNCHANGED <<pc, num, pipe, nbytes, raced, wakeups, slots, stored,
                      fired, skipped, i, loopPc>> /\ fault' # "wildSlot"
      BY <1>5, <2>2 DEF Store, loopVars
    <3>2. Storing' = Storing
      BY <3>1 DEF Storing
    <3> QED BY <1>c, <3>1, <3>2, TableExactFrame
  <2> QED BY <2>1, <2>2
<1>6. CASE Wakeup
  BY <1>0, <1>6 DEF Wakeup, TableExact
<1>7. UNCHANGED pc => Storing' = Storing
  BY DEF Storing
<1>8. CASE Stop
  BY <1>c, <1>7, <1>8, TableExactFrame
     DEF Stop, posterVars, tableVars, loopVars, history
<1>9. CASE TestQuit
  BY <1>c, <1>7, <1>9, TableExactFrame
     DEF TestQuit, posterVars, tableVars, history
<1>10. CASE PollTimeout
  BY <1>c, <1>7, <1>10, TableExactFrame
     DEF PollTimeout, posterVars, tableVars, history
<1>11. CASE ReadPipe
  <2>1. nbytes = 0 /\ i = 0
    BY <1>b, <1>11 DEF ReadPipe, IndexOK
  <2>2. nbytes' = pipe /\ pipe' = 0 /\ i' = i
    BY <1>11, <2>1 DEF ReadPipe
  <2>3. UNCHANGED <<pc, num, raced, wakeups, slots, stored, fired, skipped,
                    fault>>
    BY <1>11 DEF ReadPipe, posterVars, tableVars, history
  <2>4. ~raced' /\ wakeups' = 0 => num + Storing' = pipe' + nbytes'
    BY <1>0, <1>c, <1>7, <2>1, <2>2, <2>3
  <2> QED BY <2>2, <2>3, <2>4, TableExactFrame
<1>12. CASE LockForDispatch
  BY <1>c, <1>7, <1>12, TableExactFrame
     DEF LockForDispatch, posterVars, tableVars, history
<1>13. CASE FireSlot
  BY <1>13, FireExact DEF Safe, Faults
<1>14. CASE FireUnwrittenSlot
  <2>1. raced \/ wakeups # 0
    BY <1>14, DispatchSeesAll DEF FireUnwrittenSlot
  <2> QED BY <1>14, <2>1 DEF FireUnwrittenSlot, TableExact
<1>15. CASE RunFunction
  BY <1>c, <1>7, <1>15, TableExactFrame
     DEF RunFunction, posterVars, tableVars
<1>16. CASE EndDispatch
  BY <1>16, EndExact
<1>17. CASE UNCHANGED vars
  BY <1>c, <1>7, <1>17, TableExactFrame DEF vars
<1> QED
  BY <1>1, <1>2, <1>3, <1>4, <1>5, <1>6, <1>8, <1>9, <1>10, <1>11, <1>12,
     <1>13, <1>14, <1>15, <1>16, <1>17 DEF Next, PosterNext, LoopNext

\* Where no byte escapes a read, custom_events runs what it stored, in order,
\* once, and never looks at a slot that was not written.
THEOREM TableIsFifoUnlessRaced == Spec => []OrderedUnlessRaced
<1>1. Init => TableExact
  BY TableExactInit
<1>2. Safe /\ TableExact => OrderedUnlessRaced
  <2> SUFFICES ASSUME Safe, TableExact
               PROVE  OrderedUnlessRaced
    OBVIOUS
  <2>1. Len(fired) \in Nat /\ num \in Nat /\ i \in Nat
    BY LenProperties, LimitsAreNaturals DEF Safe, TypeOK
  <2>2. Len(fired) - i + num = Len(fired) + num - i
    BY <2>1
  <2> QED BY <2>2 DEF TableExact, OrderedUnlessRaced
<1> QED
  BY <1>1, <1>2, SafeInvariant, TableExactStep, PTL DEF Spec

-----------------------------------------------------------------------------
(* Refinement.                                                             *)

\* Functions handed to postEvent run on the loop one at a time, at most once
\* and in order, whatever the table and the pipe do.
THEOREM Refinement == Spec => ImplementsPostQueue
<1>1. Init => Promise!Init
  BY DEF Init, Promise!Init
<1>2. Safe /\ [Next]_vars => [Promise!Next]_(Promise!vars)
  <2> SUFFICES ASSUME Safe, [Next]_vars
               PROVE  Promise!Next \/ UNCHANGED <<queue, running, executed>>
    BY DEF Promise!vars
  <2>1. ASSUME NEW p \in Posters, Push(p)
        PROVE  Promise!Next
    <3>1. <<p, count[p] + 1>> \in Event
      BY <2>1, LimitsAreNaturals DEF Push, Event, Safe, TypeOK
    <3> QED BY <2>1, <3>1 DEF Push, Promise!Next, Promise!HandOver
  <2>2. CASE FireSlot
    <3>1. running = <<>>
      BY <2>2 DEF FireSlot, Safe, Control, RunningOK
    <3>2. CASE queue = <<>>
      BY <2>2, <3>2 DEF FireSlot
    <3>3. CASE queue # <<>>
      BY <2>2, <3>1, <3>3 DEF FireSlot, Promise!Next, Promise!Start
    <3> QED BY <3>2, <3>3
  <2>3. CASE RunFunction
    <3>1. running # <<>>
      BY <2>3 DEF RunFunction, Safe, Control, RunningOK
    <3> QED BY <2>3, <3>1 DEF RunFunction, Promise!Next, Promise!Finish
  <2> QED
    BY <2>1, <2>2, <2>3
       DEF Next, PosterNext, LoopNext, vars, LockForPost, WritePipe, PipeFull,
           Store, Wakeup, Stop, TestQuit, PollTimeout, ReadPipe,
           LockForDispatch, FireUnwrittenSlot, EndDispatch, history
<1> QED
  BY <1>1, <1>2, SafeInvariant, PTL DEF Spec, Promise!Spec, ImplementsPostQueue
=============================================================================

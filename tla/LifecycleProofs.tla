--------------------------- MODULE LifecycleProofs ---------------------------
(***************************************************************************)
(* The threads of TaskServer implement TaskLifecycle for every address     *)
(* space, set of messages, number and capacity of buffers, however the     *)
(* clock runs inside a handler.                                            *)
(***************************************************************************)
EXTENDS TaskServer, ProcessProofs, FunctionTheorems

USE PtrAssumption, BufferAssumption, MessageAssumption, BoundAssumption

Phases == [i \in Id |-> PhaseOf(i)]

LifecycleStep == Lifecycle!Next \/ UNCHANGED Phases

OnBuffer == UNION {m_buffers[b] : b \in Buffer}

\* The task at p is on a buffer, or on its way to one with a value.
Settled(p) == task[p].id \in OnBuffer \/ (Carried(p) /\ task[p].hasValue)

\* The phase of the task at address p.
PhaseAt(p) ==
    CASE p \in m_invalidTasks                 -> "dead"
      [] p \in m_tasks /\ Settled(p)          -> "placed"
      [] p \in m_tasks /\ ~Settled(p)         -> "lost"
      [] p \notin m_tasks \cup m_invalidTasks -> "fresh"

\* A step that does not touch the life of the task at p.
Keeps(p) ==
    /\ Live(p) /\ task'[p] # Null /\ task'[p].id = task[p].id
    /\ p \in m_tasks' <=> p \in m_tasks
    /\ p \in m_invalidTasks' <=> p \in m_invalidTasks
    /\ p \in m_tasks => (Settled(p)' <=> Settled(p))
-----------------------------------------------------------------------------
\* Being on a buffer, before and after a step.
LEMMA OnSome == \A i : i \in OnBuffer <=> \E b \in Buffer : i \in m_buffers[b]
<1> SUFFICES ASSUME NEW i
             PROVE  i \in OnBuffer <=> \E b \in Buffer : i \in m_buffers[b]
  OBVIOUS
<1> DEFINE all == {m_buffers[b] : b \in Buffer}
<1>1. \A b \in Buffer : m_buffers[b] \in all
  OBVIOUS
<1>2. \A x \in all : \E b \in Buffer : x = m_buffers[b]
  OBVIOUS
<1>3. i \in OnBuffer <=> \E x \in all : i \in x
  BY DEF OnBuffer
<1> HIDE DEF all
<1> QED BY <1>1, <1>2, <1>3

LEMMA OnSomeNext ==
    (\A i : i \in OnBuffer <=> \E b \in Buffer : i \in m_buffers[b])'
BY OnSome, PTL

\* An id is that of one task at most, so that its phase is that task's.
LEMMA PhaseOfLive ==
    IInv => \A p \in Ptr, i \in Id :
                Live(p) /\ task[p].id = i => PhaseOf(i) = PhaseAt(p)
<1> SUFFICES ASSUME IInv, NEW p \in Ptr, NEW i \in Id, Live(p), task[p].id = i
             PROVE  PhaseOf(i) = PhaseAt(p)
  OBVIOUS
<1> DEFINE at == {q \in Ptr : Live(q) /\ task[q].id = i}
<1>1. at = {p}
  BY ObjectFacts DEF IInv
<1>2. i <= m_idSeed /\ ~(i > m_idSeed)
  BY <1>1 DEF IInv, IdsUnique, TypeOK, Id
<1>3. m_tasks \cap m_invalidTasks = {}
  BY DEF IInv, SingleOwner
<1>4. ((\E b \in Buffer : i \in m_buffers[b])
         \/ \E q \in at : Carried(q) /\ task[q].hasValue) <=> Settled(p)
  BY <1>1 DEF OnBuffer, Settled
<1>5. at # {} /\ (at \cap m_invalidTasks # {} <=> p \in m_invalidTasks)
             /\ (at \cap m_tasks # {} <=> p \in m_tasks)
  BY <1>1
<1> HIDE DEF at
<1>6. PhaseOf(i) = CASE i > m_idSeed -> "none"
                     [] i <= m_idSeed /\ at = {}     -> "gone"
                     [] at \cap m_invalidTasks # {} -> "dead"
                     [] at \cap m_tasks # {}        ->
                         IF \/ \E b \in Buffer : i \in m_buffers[b]
                            \/ \E q \in at : Carried(q) /\ task[q].hasValue
                         THEN "placed" ELSE "lost"
                     [] OTHER                       -> "fresh"
  BY DEF PhaseOf, at
<1> QED BY <1>2, <1>3, <1>4, <1>5, <1>6 DEF PhaseAt

LEMMA PhaseOfLiveNext ==
    IInv' => (\A p \in Ptr, i \in Id :
                Live(p) /\ task[p].id = i => PhaseOf(i) = PhaseAt(p))'
BY PhaseOfLive, PTL

LEMMA PhaseOfNobody ==
    IInv => \A i \in Id : (\A p \in Ptr : Live(p) => task[p].id # i) =>
                PhaseOf(i) = IF i > m_idSeed THEN "none" ELSE "gone"
BY DEF PhaseOf, IInv, TypeOK, Id

LEMMA PhaseOfNobodyNext ==
    IInv' => (\A i \in Id : (\A p \in Ptr : Live(p) => task[p].id # i) =>
                PhaseOf(i) = IF i > m_idSeed THEN "none" ELSE "gone")'
BY PhaseOfNobody, PTL

\* An id whose task is not touched keeps its phase.
LEMMA Unmoved ==
    ASSUME IInv, IInv', NEW i \in Id, m_idSeed < i <=> m_idSeed' < i,
           \A p \in Ptr :
              (Live(p) /\ task[p].id = i) \/ (Live(p)' /\ task'[p].id = i)
                  => Keeps(p)
    PROVE  PhaseOf(i)' = PhaseOf(i)
<1>1. CASE \E p \in Ptr : Live(p) /\ task[p].id = i
  <2>1. PICK p \in Ptr : Live(p) /\ task[p].id = i
    BY <1>1
  <2>2. Keeps(p)
    BY <2>1
  <2>3. Live(p)' /\ task'[p].id = i
    BY <2>1, <2>2 DEF Keeps, Live
  <2>4. PhaseAt(p)' = PhaseAt(p)
    BY <2>1, <2>2, <2>3 DEF Keeps, PhaseAt
  <2>5. PhaseOf(i) = PhaseAt(p)
    BY <2>1, PhaseOfLive
  <2>6. PhaseOf(i)' = PhaseAt(p)'
    BY <2>3, PhaseOfLiveNext
  <2> QED BY <2>4, <2>5, <2>6
<1>2. CASE ~ \E p \in Ptr : Live(p) /\ task[p].id = i
  <2>1. \A p \in Ptr : Live(p)' => task'[p].id # i
    BY <1>2 DEF Keeps
  <2>2. PhaseOf(i)' = IF i > m_idSeed' THEN "none" ELSE "gone"
    BY <2>1, PhaseOfNobodyNext
  <2>3. PhaseOf(i) = IF i > m_idSeed THEN "none" ELSE "gone"
    BY <1>2, PhaseOfNobody
  <2>4. m_idSeed \in Int /\ m_idSeed' \in Int
    BY DEF IInv, TypeOK
  <2> QED BY <2>2, <2>3, <2>4 DEF Id
<1> QED BY <1>1, <1>2

\* A step that touches no task leaves all phases.
LEMMA NoMove ==
    ASSUME IInv, IInv', m_idSeed' = m_idSeed,
           \A p \in Ptr : Live(p) \/ Live(p)' => Keeps(p)
    PROVE  LifecycleStep
<1>1. \A i \in Id : PhaseOf(i)' = PhaseOf(i)
  BY Unmoved
<1> QED BY <1>1 DEF LifecycleStep, Phases

\* A step that touches one task moves its phase only.
LEMMA OneMove ==
    ASSUME IInv, IInv', NEW j \in Id, NEW from, NEW to,
           PhaseOf(j) = from, PhaseOf(j)' = to,
           \A i \in Id \ {j} : m_idSeed < i <=> m_idSeed' < i,
           \A p \in Ptr : \/ Live(p) /\ task[p].id # j
                          \/ Live(p)' /\ task'[p].id # j
                        => Keeps(p)
    PROVE  Lifecycle!Move(j, from, to)
<1>1. \A i \in Id \ {j} : PhaseOf(i)' = PhaseOf(i)
  BY Unmoved
<1> QED BY <1>1 DEF Lifecycle!Move

\* No more ids are on the buffers than there are places.
LEMMA PlacesSuffice ==
    ASSUME IInv
    PROVE  /\ IsFiniteSet(OnBuffer) /\ TotalCapacity \in Nat
           /\ Cardinality(OnBuffer) <= TotalCapacity
<1>1. /\ BUFFER_CAPACITY \in [Buffer -> Nat]
      /\ \A b \in Buffer : /\ IsFiniteSet(m_buffers[b])
                            /\ Cardinality(m_buffers[b]) <= BUFFER_CAPACITY[b]
                            /\ Cardinality(m_buffers[b]) \in Nat
  BY FiniteBuffers DEF IInv, CapacityInv
<1>2. IsFiniteSet(Places)
  <2>1. IsFiniteSet(Buffer)
    BY FS_Interval DEF Buffer
  <2> DEFINE row(b) == {b} \X (1 .. BUFFER_CAPACITY[b])
             rows   == {row(b) : b \in Buffer}
             f      == [b \in Buffer |-> row(b)]
  <2>2. IsFiniteSet(rows)
    <3>1. f \in [Buffer -> rows] /\ \A r \in rows : \E b \in Buffer : f[b] = r
      OBVIOUS
    <3>2. f \in Surjection(Buffer, rows)
      BY <3>1, Fun_IsSurj
    <3> QED BY <2>1, <3>2, FS_Surjection
  <2>3. ASSUME NEW b \in Buffer PROVE IsFiniteSet(row(b))
    <3> DEFINE c == BUFFER_CAPACITY[b]
    <3>1. IsFiniteSet(1 .. c)
      <4>1. 1 \in Int /\ c \in Int
        BY <1>1
      <4> HIDE DEF c
      <4> QED BY <4>1, FS_Interval
    <3>2. IsFiniteSet({b})
      BY FS_Singleton
    <3> QED BY <3>1, <3>2, FS_Product
  <2>4. IsFiniteSet(UNION rows)
    BY <2>2, <2>3, FS_UNION
  <2> QED BY <2>4 DEF Places
<1> DEFINE h == [b \in Buffer |->
                   CHOOSE f : f \in Injection(m_buffers[b], 1 .. BUFFER_CAPACITY[b])]
<1> HIDE DEF h
<1>3. ASSUME NEW b \in Buffer
      PROVE  /\ h[b] \in [m_buffers[b] -> 1 .. BUFFER_CAPACITY[b]]
             /\ \A i, k \in m_buffers[b] : h[b][i] = h[b][k] => i = k
  <2> DEFINE S == m_buffers[b]
             n == Cardinality(S)
  <2>1. ExistsBijection(1 .. n, S)
    BY <1>1, FS_CardinalityType
  <2>2. ExistsBijection(S, 1 .. n)
    BY <2>1, Fun_ExistsBijSymmetric
  <2> HIDE DEF S, n
  <2>3. PICK f \in Bijection(S, 1 .. n) : TRUE
    BY <2>2, Fun_ExistsBij
  <2>4. f \in [S -> 1 .. n] /\ \A i, k \in S : f[i] = f[k] => i = k
    BY <2>3 DEF Bijection, Injection, IsInjective
  <2>5. 1 .. n \subseteq 1 .. BUFFER_CAPACITY[b]
    BY <1>1 DEF n, S
  <2>6. f \in [S -> 1 .. BUFFER_CAPACITY[b]]
    BY <2>4, <2>5
  <2>7. f \in Injection(S, 1 .. BUFFER_CAPACITY[b])
    BY <2>4, <2>6, Fun_IsInj
  <2>8. h[b] \in Injection(S, 1 .. BUFFER_CAPACITY[b])
    BY <2>7 DEF h, S
  <2>9. /\ h[b] \in [S -> 1 .. BUFFER_CAPACITY[b]]
        /\ \A i, k \in S : h[b][i] = h[b][k] => i = k
    BY <2>8, Fun_InjectionProperties
  <2> QED BY <2>9 DEF S
<1> DEFINE at(i) == CHOOSE b \in Buffer : i \in m_buffers[b]
           g == [i \in OnBuffer |-> <<at(i), h[at(i)][i]>>]
<1>4. ASSUME NEW i \in OnBuffer
      PROVE  at(i) \in Buffer /\ i \in m_buffers[at(i)]
  BY DEF OnBuffer
<1> HIDE DEF at
<1>5. g \in [OnBuffer -> Places]
  <2> SUFFICES ASSUME NEW i \in OnBuffer PROVE <<at(i), h[at(i)][i]>> \in Places
    OBVIOUS
  <2>1. at(i) \in Buffer /\ h[at(i)][i] \in 1 .. BUFFER_CAPACITY[at(i)]
    BY <1>3, <1>4
  <2> QED BY <2>1 DEF Places
<1>6. ASSUME NEW i \in OnBuffer, NEW k \in OnBuffer, g[i] = g[k]
      PROVE  i = k
  <2>1. at(i) = at(k) /\ h[at(i)][i] = h[at(k)][k]
    BY <1>6
  <2> QED BY <2>1, <1>3, <1>4
<1>7. g \in Injection(OnBuffer, Places)
  BY <1>5, <1>6, Fun_IsInj
<1> QED BY <1>2, <1>7, FS_Injection, FS_CardinalityType DEF TotalCapacity
-----------------------------------------------------------------------------
LEMMA NewMoves ==
    ASSUME IInv, IInv', NEW p \in Ptr, NEW m \in Message, New(p, m)
    PROVE  LifecycleStep
<1>0. PICK j \in Id : j = m_idSeed + 1
  BY DEF New, IInv, TypeOK, Id
<1>1. /\ ~Live(p) /\ m_idSeed' = j /\ m_idSeed \in Nat /\ now \in Nat
      /\ task \in [Ptr -> TaskRecord \cup {Null}]
      /\ task' = [task EXCEPT ![p] = NewTask(j, m, now, Category)]
      /\ UNCHANGED <<m_tasks, m_invalidTasks, m_buffers, shifting>>
  BY <1>0 DEF New, IInv, TypeOK, Id, sets, store, frame, shift
<1>2. /\ NewTask(j, m, now, Category) \in TaskRecord
      /\ NewTask(j, m, now, Category).id = j
  BY <1>1 DEF NewTask, TaskRecord
<1>3. \A q \in Ptr : Live(q) => task[q].id < j
  BY <1>0, <1>1, ObjectFacts DEF IInv, IdsUnique, Id
<1>4. PhaseOf(j) = "none"
  BY <1>0, <1>1, <1>3, PhaseOfNobody DEF Id
<1>5. Live(p)' /\ task'[p].id = j /\ p \notin m_tasks \cup m_invalidTasks
  BY <1>1, <1>2, PtrAssumption DEF Live, IInv, SingleOwner
<1>6. PhaseOf(j)' = "fresh"
  BY <1>1, <1>5, PhaseOfLiveNext DEF PhaseAt
<1>7. \A q \in Ptr \ {p} : Live(q) \/ Live(q)' => Keeps(q)
  BY <1>1 DEF Keeps, Live, OnBuffer, Settled, Carried
<1>8. \A i \in Id \ {j} : m_idSeed < i <=> m_idSeed' < i
  BY <1>0, <1>1 DEF Id
<1>9. Lifecycle!Move(j, "none", "fresh")
  BY <1>1, <1>4, <1>5, <1>6, <1>7, <1>8, OneMove
<1> QED BY <1>1, <1>9 DEF LifecycleStep, Lifecycle!Next, Lifecycle!Construct

LEMMA AddCheckMoves ==
    ASSUME IInv, IInv', NEW p \in Ptr, AddCheck(p)
    PROVE  LifecycleStep
<1> DEFINE t == Latched(task[p], now)
<1>1. /\ Live(p) /\ p \notin m_tasks \cup m_invalidTasks /\ now \in Nat
      /\ UNCHANGED <<m_idSeed, m_tasks, m_invalidTasks, m_buffers, shifting>>
      /\ task \in [Ptr -> TaskRecord \cup {Null}]
      /\ \E r \in {t, AddToCacheBuffer(t), Drop(t)} : task' = [task EXCEPT ![p] = r]
  BY DEF AddCheck, sets, store, shift, IInv, TypeOK
<1>2. t \in TaskRecord /\ t.id = task[p].id
  BY <1>1, ObjectFacts, LatchedFields DEF IInv
<1> HIDE DEF t
<1>3. \A r \in {t, AddToCacheBuffer(t), Drop(t)} : r \in TaskRecord /\ r.id = t.id
  <2>1. AddToCacheBuffer(t) \in TaskRecord /\ AddToCacheBuffer(t).id = t.id
    BY <1>2 DEF AddToCacheBuffer, TaskRecord
  <2>2. Drop(t) \in TaskRecord /\ Drop(t).id = t.id
    BY <1>2 DEF Drop, TaskRecord
  <2> QED BY <1>2, <2>1, <2>2
<1>4. PICK r \in TaskRecord : r.id = task[p].id /\ task' = [task EXCEPT ![p] = r]
  BY <1>1, <1>2, <1>3
<1>5. Live(p)' /\ task'[p].id = task[p].id
  BY <1>1, <1>4, PtrAssumption DEF Live
<1>6. \A q \in Ptr \ {p} : task'[q] = task[q]
  BY <1>1, <1>4
<1> QED BY <1>1, <1>5, <1>6, NoMove DEF Keeps, Live, OnBuffer, Settled, Carried

LEMMA AddPlaceMoves ==
    ASSUME IInv, IInv', AddPlace
    PROVE  LifecycleStep
<1> DEFINE p == adding
           t == Latched(task[p], now)
<1>1. /\ p \in Ptr /\ Live(p) /\ p \notin m_tasks \cup m_invalidTasks
      /\ task[p] \in TaskRecord /\ now \in Nat
  BY AddingFacts DEF AddPlace, IInv, TypeOK
<1>2. t \in TaskRecord /\ t.id = task[p].id
  BY <1>1, LatchedFields
<1>3. /\ UNCHANGED <<m_idSeed, m_tasks, m_invalidTasks, shifting>>
      /\ task' = [task EXCEPT ![p] = t]
      /\ task \in [Ptr -> TaskRecord \cup {Null}]
      /\ m_buffers \in [Buffer -> SUBSET Id]
      /\ \E X \in SUBSET {t.id} : m_buffers' = [m_buffers EXCEPT ![target] = @ \cup X]
  BY DEF AddPlace, sets, shift, IInv, TypeOK
<1> HIDE DEF t
<1>4. \A i : i # t.id => (i \in OnBuffer' <=> i \in OnBuffer)
  BY <1>3 DEF OnBuffer
<1>5. \A q \in Ptr : Live(q) <=> Live(q)'
  BY <1>1, <1>2, <1>3, PtrAssumption DEF Live
<1>6. \A q \in Ptr : Live(q) => task'[q].id = task[q].id
  BY <1>1, <1>2, <1>3
<1>7. \A q \in m_tasks : q \in Ptr /\ Live(q) /\ task[q].id # t.id
  BY <1>1, <1>2, ObjectFacts DEF IInv, TypeOK, SingleOwner
<1>8. \A q \in m_tasks : task'[q] = task[q]
  BY <1>1, <1>3, <1>7
<1> QED BY <1>3, <1>4, <1>5, <1>6, <1>7, <1>8, NoMove DEF Keeps, Live, Settled, Carried

LEMMA AddRecordMoves ==
    ASSUME IInv, IInv', AddRecord
    PROVE  LifecycleStep
<1>1. PICK p \in Ptr : p = adding
  BY AddingFacts DEF AddRecord
<1>2. PICK j \in Id : j = task[p].id
  BY <1>1, AddingFacts DEF AddRecord
<1> DEFINE t == Latched(task[p], now)
<1>3. /\ p # Null /\ target = Null
      /\ Live(p) /\ p \notin m_tasks \cup m_invalidTasks
      /\ task[p] \in TaskRecord /\ now \in Nat
  BY <1>1, AddingFacts DEF AddRecord, IInv, TypeOK
<1>4. t \in TaskRecord /\ t.id = j
  BY <1>2, <1>3, LatchedFields
<1>5. /\ UNCHANGED <<m_idSeed, m_buffers, shifting>> /\ shifting = Null
      /\ task' = [task EXCEPT ![p] = t]
      /\ task \in [Ptr -> TaskRecord \cup {Null}]
      /\ \/ /\ t.hasValue
            /\ m_tasks' = m_tasks \cup {p} /\ m_invalidTasks' = m_invalidTasks
         \/ /\ ~t.hasValue
            /\ m_invalidTasks' = m_invalidTasks \cup {p} /\ m_tasks' = m_tasks
  BY <1>1, AddingFacts DEF AddRecord, store, shift, NoShift, IInv, TypeOK
<1>6. t.hasValue => task[p].hasValue
  BY <1>3 DEF Latched, IsValid, TaskRecord
<1> HIDE DEF t
<1>7. Live(p)' /\ task'[p].id = j
  BY <1>4, <1>5, PtrAssumption DEF Live
<1>8. \A q \in Ptr \ {p} : Live(q) \/ Live(q)' => Keeps(q)
  BY <1>5 DEF Keeps, Live, OnBuffer, Settled, Carried
<1>9. PhaseOf(j) = "fresh"
  BY <1>2, <1>3, PhaseOfLive DEF PhaseAt
<1>10. CASE t.hasValue
  <2>1. j \in OnBuffer
    BY <1>1, <1>2, <1>3, <1>6, <1>10 DEF OnBuffer, IInv, AddInv, HasTask
  <2>2. PhaseOf(j)' = "placed"
    <3>1. j \in OnBuffer' /\ p \in m_tasks' /\ p \notin m_invalidTasks'
      BY <2>1, <1>3, <1>5, <1>10 DEF OnBuffer
    <3> QED BY <3>1, <1>7, PhaseOfLiveNext DEF PhaseAt, Settled
  <2>3. Lifecycle!Placed \subseteq OnBuffer \ {j}
    <3> SUFFICES ASSUME NEW i \in Id, PhaseOf(i) = "placed", i # j
                 PROVE  i \in OnBuffer
      BY <1>9 DEF Lifecycle!Placed
    <3>1. CASE \E q \in Ptr : Live(q) /\ task[q].id = i
      BY <1>5, <3>1, PhaseOfLive DEF PhaseAt, Settled, Carried
    <3>2. CASE ~ \E q \in Ptr : Live(q) /\ task[q].id = i
      BY <3>2, PhaseOfNobody
    <3> QED BY <3>1, <3>2
  <2>4. Cardinality(Lifecycle!Placed) < TotalCapacity
    <3>1. /\ IsFiniteSet(OnBuffer) /\ Cardinality(OnBuffer) <= TotalCapacity
          /\ Cardinality(OnBuffer) \in Nat /\ TotalCapacity \in Nat
      BY PlacesSuffice, FS_CardinalityType
    <3>2. /\ IsFiniteSet(OnBuffer \ {j})
          /\ Cardinality(OnBuffer \ {j}) = Cardinality(OnBuffer) - 1
      BY <2>1, <3>1, FS_RemoveElement
    <3>3. /\ IsFiniteSet(Lifecycle!Placed)
          /\ Cardinality(Lifecycle!Placed) <= Cardinality(OnBuffer \ {j})
      BY <2>3, <3>2, FS_Subset
    <3>4. Cardinality(Lifecycle!Placed) \in Nat
      BY <3>3, FS_CardinalityType
    <3> QED BY <3>1, <3>2, <3>3, <3>4
  <2>5. Lifecycle!Move(j, "fresh", "placed")
    BY <1>2, <1>5, <1>7, <1>8, <1>9, <2>2, OneMove
  <2>6. Lifecycle!Place(j)
    <3>1. Lifecycle!Cardinality(Lifecycle!Placed) = Cardinality(Lifecycle!Placed)
      BY DEF Cardinality, Lifecycle!Cardinality
    <3> QED BY <2>4, <2>5, <3>1 DEF Lifecycle!Place
  <2> QED BY <2>6 DEF LifecycleStep, Lifecycle!Next
<1>11. CASE ~t.hasValue
  <2>1. PhaseOf(j)' = "dead"
    BY <1>5, <1>7, <1>11, PhaseOfLiveNext DEF PhaseAt, IInv, SingleOwner
  <2>2. Lifecycle!Move(j, "fresh", "dead")
    BY <1>2, <1>5, <1>7, <1>8, <1>9, <2>1, OneMove
  <2> QED BY <2>2 DEF LifecycleStep, Lifecycle!Next, Lifecycle!Refuse
<1> QED BY <1>10, <1>11

LEMMA InvalidateMoves ==
    ASSUME IInv, IInv', NEW p \in m_tasks, Invalidate(p), DeleteFrame(p)
    PROVE  LifecycleStep
<1>1. p \in Ptr /\ Live(p) /\ p \notin m_invalidTasks
  BY DEF IInv, TypeOK, SingleOwner
<1>2. PICK j \in Id : j = task[p].id
  BY <1>1, ObjectFacts DEF IInv
<1>3. /\ m_tasks' = m_tasks \ {p} /\ m_invalidTasks' = m_invalidTasks \cup {p}
      /\ \A b \in Buffer : m_buffers'[b] =
            IF b = GetBufferIdx(p) THEN m_buffers[b] \ {j} ELSE m_buffers[b]
      /\ task'[p] \in TaskRecord /\ task'[p].id = j
      /\ \A q \in Ptr \ {p} : task'[q] = task[q]
      /\ m_idSeed' = m_idSeed /\ shifting = Null /\ shifting' = Null
  BY <1>1, <1>2, InvalidateFacts DEF DeleteFrame, NoShift
<1>4. Live(p)' /\ task'[p].id = j /\ \A q \in Ptr \ {p} : task'[q] = task[q]
  BY <1>3, Indices DEF Live
<1>5. \A i : i # j => (i \in OnBuffer' <=> i \in OnBuffer)
  <2>1. \A i, b : b \in Buffer /\ i # j => (i \in m_buffers'[b] <=> i \in m_buffers[b])
    BY <1>3
  <2> QED BY <2>1, OnSome, OnSomeNext
<1>6. \A q \in Ptr \ {p} : Live(q) => task[q].id # j
  BY <1>1, <1>2, ObjectFacts DEF IInv
<1>7. \A q \in Ptr \ {p} : Live(q) \/ Live(q)' => Keeps(q)
  BY <1>3, <1>4, <1>5, <1>6 DEF Keeps, Live, Settled, Carried
<1>8. PhaseOf(j)' = "dead"
  <2>1. p \in m_invalidTasks' /\ p \notin m_tasks'
    BY <1>3
  <2> QED BY <1>1, <1>4, <2>1, PhaseOfLiveNext DEF PhaseAt
<1>9. PhaseOf(j) \in {"placed", "lost"}
  BY <1>1, <1>2, PhaseOfLive DEF PhaseAt
<1>10. Lifecycle!Move(j, PhaseOf(j), "dead")
  BY <1>2, <1>3, <1>4, <1>7, <1>8, OneMove
<1> QED BY <1>9, <1>10 DEF LifecycleStep, Lifecycle!Next, Lifecycle!Invalidate

LEMMA FreeMoves ==
    ASSUME IInv, IInv', NEW p \in m_invalidTasks, Free(p), DeleteFrame(p)
    PROVE  LifecycleStep
<1>1. p \in Ptr /\ Live(p) /\ p \notin m_tasks
  BY DEF IInv, TypeOK, SingleOwner
<1>2. PICK j \in Id : j = task[p].id
  BY <1>1, ObjectFacts DEF IInv
<1>3. /\ task \in [Ptr -> TaskRecord \cup {Null}]
      /\ task' = [task EXCEPT ![p] = Null]
      /\ m_tasks' = m_tasks /\ m_invalidTasks' = m_invalidTasks \ {p}
      /\ m_buffers' = m_buffers /\ shifting' = shifting /\ m_idSeed' = m_idSeed
  BY DEF Free, store, shift, DeleteFrame, IInv, TypeOK
<1>4. ~Live(p)' /\ \A q \in Ptr \ {p} : task'[q] = task[q]
  BY <1>1, <1>3 DEF Live
<1>5. \A q \in Ptr \ {p} : Live(q) => task[q].id # j
  BY <1>1, <1>2, ObjectFacts DEF IInv
<1>6. \A q \in Ptr \ {p} : Live(q) \/ Live(q)' => Keeps(q)
  BY <1>3, <1>4 DEF Keeps, Live, OnBuffer, Settled, Carried
<1>7. j <= m_idSeed /\ m_idSeed \in Nat
  BY <1>1, <1>2 DEF IInv, IdsUnique, TypeOK
<1>8. PhaseOf(j)' = "gone"
  <2>1. \A q \in Ptr : Live(q)' => task'[q].id # j
    BY <1>4, <1>5 DEF Live
  <2>2. ~(j > m_idSeed')
    BY <1>3, <1>7 DEF Id
  <2> QED BY <2>1, <2>2, PhaseOfNobodyNext
<1>9. PhaseOf(j) = "dead"
  BY <1>1, <1>2, PhaseOfLive DEF PhaseAt
<1>10. Lifecycle!Move(j, "dead", "gone")
  BY <1>2, <1>3, <1>4, <1>6, <1>8, <1>9, OneMove
<1> QED BY <1>10 DEF LifecycleStep, Lifecycle!Next, Lifecycle!Free

LEMMA ShiftCacheTaskMoves ==
    ASSUME IInv, IInv', NEW e \in pq, ShiftCacheTask(e)
    PROVE  LifecycleStep
<1> DEFINE p == e.ptr
<1>1. /\ p \in Ptr /\ shifting = Null /\ shifting' = e /\ e # Null
      /\ \A b \in Buffer : m_buffers'[b] =
            IF Live(p) /\ b = CACHE_BUFFER_INDEX
            THEN m_buffers[b] \ {task[p].id} ELSE m_buffers[b]
      /\ \A q \in Ptr \ {p} : task'[q] = task[q]
      /\ Live(p) => /\ task'[p] \in TaskRecord /\ task'[p].id = task[p].id
                    /\ task'[p].hasValue = task[p].hasValue
      /\ ~Live(p) => task'[p] = Null
  BY ShiftFacts, Indices
<1>2. UNCHANGED <<m_idSeed, m_tasks, m_invalidTasks>>
  BY DEF ShiftCacheTask, sets
<1>3. \A q \in Ptr : Carried(q)' <=> q = p
  BY <1>1 DEF Carried
<1>4. CASE ~Live(p)
  <2>1. \A q \in Ptr : Live(q) \/ Live(q)' => Keeps(q)
    BY <1>1, <1>2, <1>3, <1>4 DEF Keeps, Live, Settled, Carried, OnBuffer
  <2> QED BY <1>2, <2>1, NoMove
<1>5. CASE Live(p)
  <2>1. PICK j \in Id : j = task[p].id
    BY <1>1, <1>5, ObjectFacts DEF IInv
  <2>2. Live(p)' /\ task'[p].id = j
    BY <1>1, <1>5, <2>1, Indices DEF Live
  <2>3. \A i : i # j => (i \in OnBuffer' <=> i \in OnBuffer)
    <3>1. \A i, b : b \in Buffer /\ i # j => (i \in m_buffers'[b] <=> i \in m_buffers[b])
      BY <1>1, <1>5, <2>1
    <3> QED BY <3>1, OnSome, OnSomeNext
  <2>4. \A q \in Ptr \ {p} : Live(q) => task[q].id # j
    BY <1>1, <1>5, <2>1, ObjectFacts DEF IInv
  <2>5. \A q \in Ptr \ {p} : Live(q) \/ Live(q)' => Keeps(q)
    BY <1>1, <1>2, <1>3, <2>3, <2>4 DEF Keeps, Live, Settled, Carried
  <2>6. CASE p \in m_tasks /\ Settled(p) /\ ~Settled(p)'
    <3>1. p \notin m_invalidTasks
      BY <2>6 DEF IInv, SingleOwner
    <3>2. PhaseOf(j) = "placed"
      BY <1>1, <1>5, <2>1, <2>6, <3>1, PhaseOfLive DEF PhaseAt
    <3>3. PhaseOf(j)' = "lost"
      BY <1>1, <1>2, <2>2, <2>6, <3>1, PhaseOfLiveNext DEF PhaseAt
    <3>4. Lifecycle!Move(j, "placed", "lost")
      BY <1>2, <2>1, <2>2, <2>5, <3>2, <3>3, OneMove
    <3> QED BY <3>4 DEF LifecycleStep, Lifecycle!Next, Lifecycle!Lose
  <2>7. CASE p \in m_tasks => (Settled(p)' => Settled(p)) /\ (Settled(p) => Settled(p)')
    <3>1. Keeps(p)
      BY <1>2, <1>5, <2>1, <2>2, <2>7 DEF Keeps, Live
    <3> QED BY <1>2, <2>5, <3>1, NoMove
  <2>8. ASSUME p \in m_tasks, Settled(p)' PROVE Settled(p)
    <3>1. j \in OnBuffer' => j \in OnBuffer
      <4>1. \A b \in Buffer : m_buffers'[b] \subseteq m_buffers[b]
        BY <1>1
      <4> QED BY <4>1, OnSome, OnSomeNext
    <3>2. task[p].hasValue => \E b \in Buffer : HasTask(b, p)
      BY <1>1, <2>8 DEF IInv, Placed, Carried
    <3> QED BY <1>1, <1>5, <2>1, <2>2, <2>8, <3>1, <3>2 DEF Settled, HasTask, OnBuffer
  <2> QED BY <2>6, <2>7, <2>8
<1> QED BY <1>4, <1>5

LEMMA ShiftAddMoves ==
    ASSUME IInv, IInv', ShiftAdd
    PROVE  LifecycleStep
<1>0. shifting # Null /\ shifting \in Entry /\ shifting.ptr \in Ptr
  BY DEF ShiftAdd, IInv, TypeOK, Entry
<1> PICK p \in Ptr : p = shifting.ptr
  BY <1>0
<1>1. UNCHANGED <<m_idSeed, m_tasks, m_invalidTasks>> /\ shifting' = Null
  BY DEF ShiftAdd, sets
<1>2. \A q \in Ptr : Carried(q) <=> q = p
  BY <1>0 DEF Carried
<1>3. \A q \in Ptr : ~Carried(q)'
  BY <1>1 DEF Carried
<1>4. CASE ~Live(p)
  <2>1. task' = task /\ m_buffers' = m_buffers
    BY <1>4, ShiftAddFacts
  <2>2. \A q \in Ptr : Live(q) \/ Live(q)' => Keeps(q)
    BY <1>1, <1>2, <1>3, <1>4, <2>1 DEF Keeps, Live, Settled, OnBuffer
  <2> QED BY <1>1, <2>2, NoMove
<1>5. CASE Live(p)
  <2>1. PICK j \in Id : j = task[p].id
    BY <1>5, ObjectFacts DEF IInv
  <2>2. /\ task \in [Ptr -> TaskRecord \cup {Null}]
        /\ task' = [task EXCEPT ![p] = Latched(task[p], now)]
        /\ task'[p] \in TaskRecord /\ task'[p].id = j
        /\ task'[p].hasValue => task[p].hasValue
        /\ task[p] \in TaskRecord /\ task'[p].category = task[p].category
        /\ \A b \in Buffer : m_buffers'[b] =
              IF task'[p].hasValue /\ b = task[p].category /\ ~IsFull(b)
              THEN m_buffers[b] \cup {j} ELSE m_buffers[b]
    BY <1>5, <2>1, ShiftAddFacts DEF IInv, TypeOK
  <2>3. Live(p)' /\ \A q \in Ptr \ {p} : task'[q] = task[q]
    BY <2>2, Indices DEF Live
  <2>4. \A i : i # j => (i \in OnBuffer' <=> i \in OnBuffer)
    <3>1. \A b \in Buffer : m_buffers'[b] \in {m_buffers[b], m_buffers[b] \cup {j}}
      BY <2>2
    <3> QED BY <3>1, OnSome, OnSomeNext
  <2>5. \A q \in Ptr \ {p} : Live(q) => task[q].id # j
    BY <1>5, <2>1, ObjectFacts DEF IInv
  <2>6. \A q \in Ptr \ {p} : Live(q) \/ Live(q)' => Keeps(q)
    BY <1>1, <1>2, <1>3, <2>3, <2>4, <2>5 DEF Keeps, Live, Settled
  <2>7. CASE p \in m_tasks /\ Settled(p) /\ ~Settled(p)'
    <3>1. p \notin m_invalidTasks
      BY <2>7 DEF IInv, SingleOwner
    <3>2. PhaseOf(j) = "placed"
      BY <1>5, <2>1, <2>7, <3>1, PhaseOfLive DEF PhaseAt
    <3>3. PhaseOf(j)' = "lost"
      BY <1>1, <2>2, <2>3, <2>7, <3>1, PhaseOfLiveNext DEF PhaseAt
    <3>4. Lifecycle!Move(j, "placed", "lost")
      BY <1>1, <2>1, <2>2, <2>3, <2>6, <3>2, <3>3, OneMove
    <3> QED BY <3>4 DEF LifecycleStep, Lifecycle!Next, Lifecycle!Lose
  <2>8. CASE p \in m_tasks => (Settled(p)' => Settled(p)) /\ (Settled(p) => Settled(p)')
    <3>1. Keeps(p)
      BY <1>1, <1>5, <2>1, <2>2, <2>3, <2>8 DEF Keeps, Live
    <3> QED BY <1>1, <2>6, <3>1, NoMove
  <2>9. ASSUME p \in m_tasks, Settled(p)' PROVE Settled(p)
    <3>1. j \in OnBuffer'
      BY <1>3, <2>2, <2>9 DEF Settled
    <3>2. j \in OnBuffer \/ task'[p].hasValue
      <4>1. \A b \in Buffer : m_buffers'[b] = m_buffers[b] \/ task'[p].hasValue
        BY <2>2
      <4> QED BY <3>1, <4>1, OnSome, OnSomeNext
    <3> QED BY <1>2, <2>1, <2>2, <3>2 DEF Settled
  <2> QED BY <2>7, <2>8, <2>9
<1> QED BY <1>4, <1>5

LEMMA CheckTaskMoves ==
    ASSUME IInv, IInv', NEW p \in Ptr, CheckTask(p)
    PROVE  LifecycleStep
<1>1. /\ UNCHANGED <<m_idSeed, m_tasks, m_invalidTasks, m_buffers, shifting>>
      /\ now \in Nat /\ p \in m_tasks /\ Live(p) /\ shifting = Null
      /\ task \in [Ptr -> TaskRecord \cup {Null}]
      /\ task' = [task EXCEPT ![p] = Latched(task[p], now)]
  <2>1. p \in unchecked
    BY DEF CheckTask
  <2> QED BY <2>1 DEF CheckTask, sets, store, shift, IInv, TypeOK, SingleOwner, LoopInv,
            NoShift
<1>2. /\ Latched(task[p], now) \in TaskRecord
      /\ Latched(task[p], now).id = task[p].id
  BY <1>1, ObjectFacts, LatchedFields DEF IInv
<1>3. Live(p)' /\ task'[p].id = task[p].id /\ \A q \in Ptr \ {p} : task'[q] = task[q]
  BY <1>1, <1>2, Indices DEF Live
<1> QED BY <1>1, <1>3, NoMove DEF Keeps, Live, OnBuffer, Settled, Carried

LEMMA StillMoves ==
    ASSUME IInv, IInv',
           UNCHANGED <<m_idSeed, task, m_tasks, m_invalidTasks, m_buffers, shifting>>
    PROVE  LifecycleStep
BY NoMove DEF Keeps, Live, OnBuffer, Settled, Carried

LEMMA DeleteMoves ==
    ASSUME IInv, IInv', NEW p \in Ptr, Delete(p), DeleteFrame(p)
    PROVE  LifecycleStep
<1>1. CASE p \in m_tasks /\ Invalidate(p)
  BY <1>1, InvalidateMoves
<1>2. CASE p \notin m_tasks /\ p \in m_invalidTasks /\ Free(p)
  BY <1>2, FreeMoves
<1>3. CASE UNCHANGED <<task, sets, store, shift>>
  BY <1>3, StillMoves DEF sets, store, shift, DeleteFrame
<1> QED BY <1>1, <1>2, <1>3 DEF Delete

LEMMA NextMoves ==
    ASSUME IInv, IInv', [Next]_vars
    PROVE  LifecycleStep
<1>1. ASSUME NEW p \in Ptr, NEW m \in Message, New(p, m) PROVE LifecycleStep
  BY <1>1, NewMoves
<1>2. ASSUME NEW p \in Ptr, AddCheck(p) PROVE LifecycleStep
  BY <1>2, AddCheckMoves
<1>3. ASSUME NEW p \in Ptr, Deliver(p) PROVE LifecycleStep
  <2>1. DeleteFrame(p) /\ Delete(p)
    BY <1>3 DEF Deliver, Unlocked, DeleteFrame, IInv, AddInv, LoopInv, NoShift, timer
  <2> QED BY <2>1, DeleteMoves
<1>4. CASE DeleteInvalidTask
  BY <1>4, StillMoves DEF DeleteInvalidTask, sets, store, shift
<1>5. CASE Locked
  <2>1. ASSUME NEW i \in Id, GetCacheTask(i) PROVE LifecycleStep
    BY <2>1, StillMoves DEF GetCacheTask, sets, store
  <2>2. ASSUME NEW e \in pq, ShiftCacheTask(e) PROVE LifecycleStep
    BY <2>2, ShiftCacheTaskMoves
  <2>3. ASSUME NEW p \in Ptr, DeleteSwept(p) PROVE LifecycleStep
    <3>1. adding = Null
      BY <2>3 DEF DeleteSwept, IInv, AddInv
    <3>2. DeleteFrame(p) /\ Delete(p)
      BY <2>3, <3>1 DEF DeleteSwept, DeleteFrame, IInv, AddInv, LoopInv, NoShift
    <3> QED BY <3>2, DeleteMoves
  <2>4. ASSUME NEW p \in Ptr, CheckTask(p) PROVE LifecycleStep
    BY <2>4, CheckTaskMoves
  <2> QED BY <1>5, <2>1, <2>2, <2>3, <2>4, AddPlaceMoves, AddRecordMoves, ShiftAddMoves
         DEF Locked
<1>6. CASE Tick \/ UNCHANGED vars
  BY <1>6, StillMoves DEF Tick, vars, sets, store, frame, shift
<1> QED BY <1>1, <1>2, <1>3, <1>4, <1>5, <1>6 DEF Next
-----------------------------------------------------------------------------
\* A driver holds an address that a task was built at.
DriversInv == \A d \in drivers : d.ptr \in Ptr

\* The threads do to the process what Process allows, and nothing else.
LEMMA ServerStep ==
    DriversInv /\ [ServerNext]_serverVars => DriversInv' /\ [Next]_vars
<1> SUFFICES ASSUME DriversInv, [ServerNext]_serverVars
             PROVE  DriversInv' /\ [Next]_vars
  OBVIOUS
<1>1. CASE \E p \in Ptr, m \in Message : Receive(p, m)
  BY <1>1 DEF Receive, Next, DriversInv
<1>2. CASE \E p \in Ptr : Dispatch(p)
  BY <1>2 DEF Dispatch, Next, DriversInv
<1>3. CASE \E d \in drivers : Drive(d)
  <2>1. PICK d \in drivers : Deliver(d.ptr) /\ drivers' = drivers \ {d}
    BY <1>3 DEF Drive
  <2> QED BY <2>1 DEF Next, DriversInv
<1>4. CASE Sweep
  BY <1>4 DEF Sweep, Next, DriversInv
<1>5. CASE HandlerStep
  BY <1>5 DEF HandlerStep, Next, DriversInv
<1>6. CASE Clock
  BY <1>6 DEF Clock, Next, DriversInv
<1>7. CASE UNCHANGED serverVars
  BY <1>7 DEF serverVars, DriversInv
<1> QED BY <1>1, <1>2, <1>3, <1>4, <1>5, <1>6, <1>7 DEF ServerNext

LEMMA InitMoves == Init => Lifecycle!Init
<1> SUFFICES ASSUME Init, NEW i \in Id PROVE PhaseOf(i) = "none"
  BY DEF Lifecycle!Init
<1>1. \A p \in Ptr : ~Live(p)
  BY DEF Init, Live
<1>2. i > m_idSeed
  BY DEF Init, Id
<1> QED BY <1>1, <1>2, InitInv, PhaseOfNobody

\* The task server implements TaskLifecycle: whatever the order of dispatchers,
\* drivers and sweeps, a task goes from m_tasks to m_invalidTasks before it is
\* deleted, is never deleted twice or taken up again, and no more tasks are
\* placed than the buffers have places.
THEOREM LifecycleImplemented == ServerSpec => ImplementsLifecycle
<1>1. ServerInit => Inv /\ DriversInv /\ Lifecycle!Init
  BY InitInv, InitClean, InitMoves DEF ServerInit, DriversInv, Inv
<1>2. Inv /\ DriversInv /\ [ServerNext]_serverVars => Inv' /\ DriversInv'
  BY ServerStep, StepInv
<1>3. Inv /\ Inv' /\ DriversInv /\ [ServerNext]_serverVars
          => [Lifecycle!Next]_([i \in Id |-> PhaseOf(i)])
  BY ServerStep, NextMoves DEF LifecycleStep, Phases, Inv
<1> QED BY <1>1, <1>2, <1>3, PTL DEF ServerSpec, ImplementsLifecycle, Lifecycle!Spec
=============================================================================

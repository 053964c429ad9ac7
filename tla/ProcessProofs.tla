---------------------------- MODULE ProcessProofs ----------------------------
(***************************************************************************)
(* Safety of Process for every number of buffers, capacity, address space  *)
(* and set of messages, the second changing between any two questions of a *)
(* handler, Add's included.                                                *)
(*                                                                         *)
(* IInv holds for ever.  Clean holds until the cache is left with the id   *)
(* of a freed task (Dangling, once true, stays true): from then on GetTasks *)
(* may shift a task it mistakes for another.                               *)
(***************************************************************************)
EXTENDS Process, FiniteSetTheorems, WellFoundedInduction, TLAPS

USE PtrAssumption, BufferAssumption, MessageAssumption, BoundAssumption

\* What the constructor and the buffers keep true of every object.
Sane(t) ==
    /\ t.cacheTime <= now
    /\ t.created <= now
    /\ t.hasValue => t.category \in Category /\ t.life > 0 /\ t.rate > 0

ObjectsInv == \A p \in Ptr : Live(p) => Sane(task[p])

\* Ids that no task has yet are nowhere.
IdsGiven ==
    /\ \A b \in Buffer : \A i \in m_buffers[b] : i <= m_idSeed
    /\ \A i \in Id : m_idToTaskMap[i] # Null => i <= m_idSeed
    /\ \A i \in overtaken : i <= m_idSeed

\* The cache's map knows every cached id, and leads nowhere but to the object
\* that has the id while there is one.
MapInv ==
    /\ \A i \in m_buffers[CACHE_BUFFER_INDEX] : m_idToTaskMap[i] # Null
    /\ \A p \in Ptr : Live(p) => m_idToTaskMap[task[p].id] \in {Null, p}

\* The locals of a running Add.
AddInv ==
    /\ adding = Null => target = Null
    /\ adding # Null =>
        /\ NoShift /\ unchecked = {} /\ sweep = {}
        /\ target = Null /\ task[adding].hasValue =>
              \E b \in Buffer : HasTask(b, adding)
        /\ target # Null =>
              /\ task[adding].hasValue
              /\ target \in {task[adding].category, CACHE_BUFFER_INDEX}
              /\ ~IsFull(target)

\* The locals of a running Delete and of a running DeleteInvalidTask.
LoopInv ==
    /\ places = 0 => unread = {} /\ pq = {}
    /\ shifting # Null => unread = {}
    /\ ~NoShift => unchecked = {}
    /\ unread \subseteq m_buffers[CACHE_BUFFER_INDEX]

Placed ==
    \A p \in m_tasks :
        /\ task[p].category \in Category
        /\ task[p].hasValue => (\E b \in Buffer : HasTask(b, p)) \/ Carried(p)

InvalidDead == \A p \in m_invalidTasks : ~task[p].hasValue

\* The tasks GetTasks has asked, or will.
Asked(p) == \/ \E e \in pq : e.ptr = p
            \/ \E i \in unread : m_idToTaskMap[i] = p

\* There is a place for each of the tasks that are still to be shifted.
RoomInv ==
    \A p \in m_tasks : Carried(p) \/ Asked(p) =>
        Cardinality(m_buffers[task[p].category]) + places
            + (IF shifting = Null THEN 0 ELSE 1)
                <= BUFFER_CAPACITY[task[p].category]

\* GetTasks asks every cached task of the category.
AskedInv ==
    \A p, q \in m_tasks :
        Asked(p) /\ HasTask(CACHE_BUFFER_INDEX, q)
                 /\ task[q].category = task[p].category => Asked(q)

\* A task off the cache has the time it left in cacheTime.
ShiftInv ==
    /\ \A e \in pq : e.at <= now
    /\ shifting # Null =>
        /\ shifting.at <= now
        /\ Live(shifting.ptr) => /\ task[shifting.ptr].factor = 1
                                 /\ shifting.at <= task[shifting.ptr].cacheTime

CapacityInv ==
    \A b \in Buffer : Cardinality(m_buffers[b]) <= BUFFER_CAPACITY[b]

IInv ==
    /\ TypeOK /\ IdsUnique /\ SingleOwner /\ ObjectsInv /\ IdsGiven /\ MapInv
    /\ AddInv /\ LoopInv /\ Placed /\ InvalidDead /\ RoomInv /\ AskedInv
    /\ ShiftInv /\ CapacityInv

OneBuffer ==
    \A b, c \in Buffer : b # c => m_buffers[b] \cap m_buffers[c] = {}

Owned ==
    \A b \in Buffer : \A i \in m_buffers[b] \ overtaken :
        \E p \in Held : /\ task[p].id = i
                       /\ b \in {task[p].category, CACHE_BUFFER_INDEX}

OvertakenDead ==
    \A p \in Ptr : Live(p) /\ task[p].id \in overtaken => p \in m_invalidTasks

AddClean ==
    adding # Null /\ (target # Null \/ ~task[adding].hasValue) =>
        \A b \in Buffer : ~HasTask(b, adding)

QueueClean ==
    /\ \A e \in pq : /\ e.ptr \in m_tasks \cup m_invalidTasks
                    /\ task[e.ptr].id = e.id
                    /\ e.id \in m_buffers[CACHE_BUFFER_INDEX] \ unread
                    /\ \A f \in pq : f.id = e.id => f = e
    /\ shifting # Null =>
          /\ shifting.ptr \in m_tasks \cup m_invalidTasks
          /\ \A b \in Buffer : ~HasTask(b, shifting.ptr)

Clean ==
    /\ OneBuffer /\ Owned /\ OvertakenDead /\ AddClean /\ QueueClean

Inv == IInv /\ (Dangling \/ Clean)
-----------------------------------------------------------------------------
LEMMA Indices ==
    /\ CACHE_BUFFER_INDEX \in Buffer
    /\ Category \subseteq Buffer
    /\ CACHE_BUFFER_INDEX \notin Category
    /\ 0 \in Category
    /\ \A b \in Buffer : b \notin Category => b = CACHE_BUFFER_INDEX
    /\ Null \notin Buffer /\ Null \notin Ptr /\ Null \notin TaskRecord
    /\ Null \notin Entry
BY DEF CACHE_BUFFER_INDEX, Buffer, Category

\* What a Boolean answer of IsValid latches.
LEMMA LatchedFields ==
    ASSUME NEW t \in TaskRecord, NEW n \in Nat
    PROVE  /\ Latched(t, n) \in TaskRecord
           /\ Latched(t, n).hasValue = IsValid(t, n)
           /\ IsValid(t, n) => t.hasValue /\ Latched(t, n) = t
           /\ \A f \in {"id", "category", "life", "rate", "created",
                         "cacheTime", "factor"} : Latched(t, n)[f] = t[f]
<1>1. IsValid(t, n) \in BOOLEAN /\ (IsValid(t, n) => t.hasValue)
  BY DEF IsValid, TaskRecord
<1>2. Latched(t, n) = [t EXCEPT !.hasValue = IsValid(t, n)]
  BY DEF Latched
<1>3. IsValid(t, n) => Latched(t, n) = t
  BY <1>1, <1>2 DEF TaskRecord
<1> QED BY <1>1, <1>2, <1>3 DEF TaskRecord

LEMMA FiniteBuffers ==
    ASSUME TypeOK, NEW b \in Buffer
    PROVE  /\ IsFiniteSet(m_buffers[b])
           /\ Cardinality(m_buffers[b]) \in Nat
           /\ BUFFER_CAPACITY[b] \in Nat
<1>1. IsFiniteSet(Id)
  BY FS_Interval DEF Id
<1>2. m_buffers[b] \in SUBSET Id
  BY DEF TypeOK
<1> QED BY <1>1, <1>2, FS_Subset, FS_CardinalityType

\* Facts every step on an object p relies on.
LEMMA ObjectFacts ==
    ASSUME TypeOK, IdsUnique, ObjectsInv, NEW p \in Ptr, Live(p)
    PROVE  /\ task[p] \in TaskRecord
           /\ task[p].id \in Id
           /\ Sane(task[p])
           /\ \A q \in Ptr : Live(q) /\ task[q].id = task[p].id => q = p
BY DEF TypeOK, Live, ObjectsInv, IdsUnique, TaskRecord

LEMMA InitInv == Init => IInv
<1> SUFFICES ASSUME Init PROVE IInv
  OBVIOUS
<1>1. TypeOK
  BY DEF Init, TypeOK, Buffer, Id
<1>2. CapacityInv
  BY FS_EmptySet DEF Init, CapacityInv
<1>3. /\ Held = {} /\ \A p \in Ptr : ~Live(p)
      /\ \A b \in Buffer : m_buffers[b] = {}
      /\ m_tasks = {} /\ m_invalidTasks = {} /\ unchecked = {} /\ sweep = {}
      /\ adding = Null /\ target = Null /\ overtaken = {}
      /\ unread = {} /\ pq = {} /\ places = 0 /\ shifting = Null
      /\ \A i \in Id : m_idToTaskMap[i] = Null
  BY DEF Init, Held, Live
<1>4. IdsUnique /\ SingleOwner /\ ObjectsInv
  BY <1>3 DEF IdsUnique, SingleOwner, ObjectsInv
<1>5. IdsGiven /\ MapInv /\ AddInv /\ LoopInv
  BY <1>3, Indices DEF IdsGiven, MapInv, AddInv, LoopInv, NoShift
<1>6. Placed /\ InvalidDead /\ RoomInv /\ AskedInv /\ ShiftInv
  BY <1>3 DEF Placed, InvalidDead, RoomInv, AskedInv, ShiftInv
<1> QED
  BY <1>1, <1>2, <1>4, <1>5, <1>6 DEF IInv

LEMMA InitClean == Init => Clean
BY DEF Init, Clean, OneBuffer, Owned, OvertakenDead, AddClean, QueueClean, Live

LEMMA TickInv ==
    ASSUME IInv, Tick
    PROVE  IInv'
<1> USE DEF Tick, sets, store, frame, shift, timer
<1>1. now' = now + 1 /\ now \in Nat /\ now < MaxTime
  BY DEF IInv, TypeOK
<1>2. TypeOK'
  BY <1>1 DEF IInv, TypeOK, Entry
<1>3. ObjectsInv'
  <2> SUFFICES ASSUME NEW p \in Ptr, Live(p)
               PROVE  Sane(task[p])'
    BY DEF ObjectsInv, Live
  <2>1. Sane(task[p]) /\ task[p] \in TaskRecord
    BY DEF IInv, ObjectsInv, TypeOK, Live
  <2> QED BY <1>1, <2>1 DEF Sane, TaskRecord
<1>4. ShiftInv'
  <2>1. \A e \in pq : e.at \in Nat
    BY DEF IInv, TypeOK, Entry
  <2>2. shifting # Null => shifting.at \in Nat
    BY DEF IInv, TypeOK, Entry
  <2> QED BY <1>1, <2>1, <2>2 DEF IInv, ShiftInv, Live
<1>5. IdsUnique' /\ SingleOwner' /\ IdsGiven' /\ MapInv' /\ AddInv' /\ LoopInv'
  BY DEF IInv, IdsUnique, SingleOwner, IdsGiven, MapInv, AddInv, LoopInv,
     Live, HasTask, NoShift, IsFull
<1>6. Placed' /\ InvalidDead' /\ RoomInv' /\ AskedInv' /\ CapacityInv'
  BY DEF IInv, Placed, InvalidDead, RoomInv, AskedInv, CapacityInv, Asked,
     Carried, HasTask
<1> QED BY <1>2, <1>3, <1>4, <1>5, <1>6 DEF IInv

LEMMA NewInv ==
    ASSUME IInv, NEW p \in Ptr, NEW m \in Message, New(p, m)
    PROVE  IInv'
<1> USE DEF New, sets, store, frame, shift, timer
<1> DEFINE t == NewTask(m_idSeed + 1, m, now, Category)
<1>1. /\ ~Live(p) /\ task' = [task EXCEPT ![p] = t]
      /\ m_idSeed' = m_idSeed + 1 /\ m_idSeed + 1 \in Id /\ m_idSeed \in Nat
      /\ now \in Nat
  BY DEF IInv, TypeOK, Id
<1>2. /\ t \in TaskRecord /\ t.id = m_idSeed + 1 /\ t.created = now
      /\ t.cacheTime = now /\ t.factor = 1
      /\ t.hasValue => t.category \in Category /\ t.life > 0 /\ t.rate > 0
  BY <1>1 DEF NewTask, TaskRecord
<1>3. TypeOK'
  BY <1>1, <1>2 DEF IInv, TypeOK, Id
<1>4. /\ task'[p] = t /\ Live(p)'
      /\ \A q \in Ptr \ {p} : task'[q] = task[q] /\ (Live(q)' <=> Live(q))
  BY <1>1, <1>2 DEF IInv, TypeOK, Live
<1>5. /\ p \notin m_tasks \cup m_invalidTasks /\ p # adding
      /\ p \notin unchecked /\ m_tasks \subseteq Ptr /\ m_invalidTasks \subseteq Ptr
  BY <1>1 DEF IInv, SingleOwner, TypeOK
<1>6. IdsUnique'
  <2>1. \A q \in Ptr : Live(q) => task[q].id \in Nat /\ task[q].id <= m_idSeed
    BY DEF IInv, IdsUnique, TypeOK, Live, TaskRecord, Id
  <2> QED BY <1>1, <1>2, <1>4, <2>1 DEF IInv, IdsUnique
<1>7. SingleOwner'
  BY <1>4, <1>5 DEF IInv, SingleOwner, TypeOK
<1>8. ObjectsInv'
  BY <1>1, <1>2, <1>4 DEF IInv, ObjectsInv, Sane
<1>9. IdsGiven'
  <2>1. \A i \in Id : i \in Nat
    BY DEF Id
  <2>2. \A b \in Buffer : m_buffers[b] \subseteq Id
    BY DEF IInv, TypeOK
  <2> QED BY <1>1, <2>1, <2>2 DEF IInv, IdsGiven, TypeOK
<1>10. MapInv'
  <2>1. m_idToTaskMap[m_idSeed + 1] = Null
    BY <1>1 DEF IInv, IdsGiven
  <2> QED BY <1>1, <1>2, <1>4, <2>1 DEF IInv, MapInv
<1>11. AddInv' /\ LoopInv'
  BY <1>4, <1>5 DEF IInv, AddInv, LoopInv, TypeOK, HasTask, IsFull, NoShift
<1>12. Placed' /\ InvalidDead'
  BY <1>4, <1>5 DEF IInv, Placed, InvalidDead, HasTask, Carried
<1>13. RoomInv' /\ AskedInv' /\ CapacityInv'
  BY <1>4, <1>5 DEF IInv, RoomInv, AskedInv, CapacityInv, Asked, Carried, HasTask
<1>14. ShiftInv'
  <2>1. shifting # Null => shifting.ptr \in Ptr /\ shifting.at <= now
    BY DEF IInv, TypeOK, Entry, ShiftInv
  <2> QED BY <1>2, <1>4, <2>1 DEF IInv, ShiftInv
<1> QED
  BY <1>3, <1>6, <1>7, <1>8, <1>9, <1>10, <1>11, <1>12, <1>13, <1>14 DEF IInv


\* The clock and New leave Clean alone, unless they reach outside what it reads.
LEMMA TickClean ==
    ASSUME Clean, Tick
    PROVE  Clean'
BY DEF Tick, sets, store, frame, shift, timer, Clean, OneBuffer, Owned,
   OvertakenDead, AddClean, QueueClean, Held, HasTask, Live

LEMMA NewClean ==
    ASSUME IInv, Clean, NEW p \in Ptr, NEW m \in Message, New(p, m)
    PROVE  Clean'
<1> USE DEF New, sets, store, frame, shift, timer
<1> DEFINE t == NewTask(m_idSeed + 1, m, now, Category)
<1>1. /\ ~Live(p) /\ task' = [task EXCEPT ![p] = t]
      /\ m_idSeed + 1 \in Id /\ m_idSeed \in Nat /\ t.id = m_idSeed + 1
      /\ task'[p] = t /\ \A q \in Ptr \ {p} : task'[q] = task[q]
      /\ \A q \in Ptr \ {p} : Live(q)' <=> Live(q)
  BY DEF IInv, TypeOK, Id, NewTask, Live
<1>2. /\ p \notin m_tasks \cup m_invalidTasks /\ p # adding
      /\ p \notin Held /\ Held' = Held
      /\ m_tasks \subseteq Ptr /\ m_invalidTasks \subseteq Ptr /\ Held \subseteq Ptr
  BY <1>1 DEF IInv, SingleOwner, TypeOK, Held
<1>3. OneBuffer' /\ Owned'
  BY <1>1, <1>2 DEF Clean, OneBuffer, Owned
<1>4. OvertakenDead'
  <2>1. m_idSeed + 1 \notin overtaken
    BY <1>1 DEF IInv, IdsGiven, TypeOK, Id
  <2> QED BY <1>1, <1>2, <2>1 DEF Clean, OvertakenDead
<1>5. AddClean'
  BY <1>1, <1>2 DEF Clean, AddClean, HasTask, IInv, TypeOK
<1>6. QueueClean'
  <2>1. \A e \in pq : e.ptr \in Ptr
    BY DEF IInv, TypeOK, Entry
  <2>2. shifting # Null => shifting.ptr \in Ptr
    BY DEF IInv, TypeOK, Entry
  <2> QED BY <1>1, <1>2, <2>1, <2>2 DEF Clean, QueueClean, HasTask
<1> QED BY <1>3, <1>4, <1>5, <1>6 DEF Clean

\* What AddCheck does to the task p, and where it decides to put it.
LEMMA AddCheckFacts ==
    ASSUME IInv, NEW p \in Ptr, AddCheck(p)
    PROVE  /\ adding = Null /\ target = Null /\ NoShift /\ unread = {} /\ pq = {}
           /\ unchecked = {} /\ sweep = {}
           /\ Live(p) /\ p \notin m_tasks \cup m_invalidTasks /\ adding' = p
           /\ task'[p] \in TaskRecord
           /\ task' = [task EXCEPT ![p] = task'[p]]
           /\ task'[p].id = task[p].id /\ task'[p].category = task[p].category
           /\ Sane(task'[p])
           /\ target' = Null => ~task'[p].hasValue
           /\ target' # Null => /\ task'[p].hasValue
                                /\ target' \in {task[p].category, CACHE_BUFFER_INDEX}
                                /\ target' \in Buffer
                                /\ ~IsFull(target')
<1> DEFINE t == Latched(task[p], now)
<1>1. /\ adding = Null /\ target = Null /\ NoShift /\ unread = {} /\ pq = {}
      /\ unchecked = {} /\ sweep = {}
      /\ Live(p) /\ p \notin m_tasks \cup m_invalidTasks /\ adding' = p
  BY DEF AddCheck, Unlocked, IInv, AddInv, LoopInv, NoShift
<1>2. /\ task[p] \in TaskRecord /\ Sane(task[p]) /\ now \in Nat
  BY <1>1, ObjectFacts DEF IInv, TypeOK
<1>3. /\ t \in TaskRecord
      /\ t.id = task[p].id /\ t.category = task[p].category
      /\ t.rate = task[p].rate /\ t.life = task[p].life
      /\ t.created = task[p].created /\ t.cacheTime = task[p].cacheTime
      /\ t.hasValue => task[p].hasValue
  <2>1. IsValid(task[p], now) => task[p].hasValue
    BY DEF IsValid
  <2> QED BY <1>2, <2>1, LatchedFields
<1>4. Sane(t)
  BY <1>2, <1>3 DEF Sane
<1> DEFINE r == task'[p]
<1>5. CASE /\ ~t.hasValue /\ target' = Null /\ task' = [task EXCEPT ![p] = t]
  <2>1. r = t
    BY <1>5 DEF IInv, TypeOK
  <2> QED BY <1>1, <1>3, <1>4, <1>5, <2>1
<1>6. CASE /\ t.hasValue /\ ~IsFull(t.category) /\ target' = t.category
           /\ task' = [task EXCEPT ![p] = t]
  <2>1. r = t
    BY <1>6 DEF IInv, TypeOK
  <2>2. t.category \in Category
    BY <1>4, <1>6 DEF Sane
  <2> QED BY <1>1, <1>3, <1>4, <1>6, <2>1, <2>2, Indices
<1>7. CASE /\ t.hasValue /\ ~IsFull(CACHE_BUFFER_INDEX)
           /\ target' = CACHE_BUFFER_INDEX
           /\ task' = [task EXCEPT ![p] = AddToCacheBuffer(t)]
  <2>1. r = [t EXCEPT !.factor = 2]
    BY <1>7 DEF IInv, TypeOK, AddToCacheBuffer
  <2>2. r \in TaskRecord /\ Sane(r) /\ r.id = t.id /\ r.category = t.category
        /\ r.hasValue
    BY <1>3, <1>4, <1>7, <2>1 DEF TaskRecord, Sane
  <2> QED BY <1>1, <1>3, <1>7, <2>1, <2>2, Indices DEF AddToCacheBuffer
<1>8. CASE /\ t.hasValue /\ target' = Null /\ task' = [task EXCEPT ![p] = Drop(t)]
  <2>1. r = [t EXCEPT !.hasValue = FALSE]
    BY <1>8 DEF IInv, TypeOK, Drop
  <2>2. r \in TaskRecord /\ Sane(r) /\ r.id = t.id /\ r.category = t.category
        /\ ~r.hasValue
    BY <1>3, <1>4, <2>1 DEF TaskRecord, Sane
  <2> QED BY <1>1, <1>3, <1>8, <2>1, <2>2 DEF Drop
<1> QED BY <1>5, <1>6, <1>7, <1>8 DEF AddCheck

LEMMA AddCheckInv ==
    ASSUME IInv, NEW p \in Ptr, AddCheck(p)
    PROVE  IInv'
<1>1. /\ adding = Null /\ target = Null /\ NoShift /\ unread = {} /\ pq = {}
      /\ unchecked = {} /\ sweep = {}
      /\ Live(p) /\ p \notin m_tasks \cup m_invalidTasks /\ adding' = p
      /\ task'[p] \in TaskRecord /\ task' = [task EXCEPT ![p] = task'[p]]
      /\ task'[p].id = task[p].id /\ task'[p].category = task[p].category
      /\ Sane(task'[p])
      /\ target' = Null => ~task'[p].hasValue
      /\ target' # Null => /\ task'[p].hasValue
                           /\ target' \in {task[p].category, CACHE_BUFFER_INDEX}
                           /\ target' \in Buffer
                           /\ ~IsFull(target')
  BY AddCheckFacts
<1>2. /\ now' = now /\ m_idSeed' = m_idSeed
      /\ m_tasks' = m_tasks /\ m_invalidTasks' = m_invalidTasks
      /\ overtaken' = overtaken
      /\ m_buffers' = m_buffers /\ m_idToTaskMap' = m_idToTaskMap
      /\ unread' = {} /\ pq' = {} /\ places' = places /\ shifting' = shifting
      /\ unchecked' = {} /\ sweep' = {} /\ NoShift'
  BY <1>1 DEF AddCheck, sets, store, shift, timer, NoShift
<1>3. /\ \A q \in Ptr \ {p} : task'[q] = task[q] /\ (Live(q)' <=> Live(q))
      /\ Live(p)' /\ \A q \in Ptr : task'[q].id = task[q].id
      /\ \A q \in Ptr : task'[q].category = task[q].category
      /\ m_tasks \subseteq Ptr \ {p} /\ m_invalidTasks \subseteq Ptr \ {p} /\ p # Null
  BY <1>1 DEF IInv, TypeOK, Live
<1>4. TypeOK'
  BY <1>1, <1>2 DEF IInv, TypeOK
<1>5. IdsUnique' /\ SingleOwner' /\ InvalidDead'
  BY <1>1, <1>2, <1>3 DEF IInv, IdsUnique, SingleOwner, InvalidDead
<1>6. ObjectsInv'
  BY <1>1, <1>2, <1>3 DEF IInv, ObjectsInv, Sane
<1>7. IdsGiven' /\ MapInv' /\ CapacityInv'
  BY <1>1, <1>2, <1>3 DEF IInv, IdsGiven, MapInv, CapacityInv
<1>8. AddInv' /\ LoopInv'
  BY <1>1, <1>2, <1>3 DEF IInv, AddInv, LoopInv, IsFull
<1>9. Placed'
  BY <1>2, <1>3 DEF IInv, Placed, HasTask, Carried
<1>10. RoomInv' /\ AskedInv' /\ ShiftInv'
  BY <1>1, <1>2 DEF RoomInv, AskedInv, ShiftInv, Asked, Carried, NoShift
<1> QED
  BY <1>4, <1>5, <1>6, <1>7, <1>8, <1>9, <1>10 DEF IInv

LEMMA AddCheckClean ==
    ASSUME IInv, Clean, NEW p \in Ptr, AddCheck(p)
    PROVE  Clean'
<1>1. /\ adding = Null /\ NoShift /\ unread = {} /\ pq = {}
      /\ Live(p) /\ p \notin m_tasks \cup m_invalidTasks /\ adding' = p
      /\ task' = [task EXCEPT ![p] = task'[p]] /\ task'[p] \in TaskRecord
      /\ task'[p].id = task[p].id /\ task'[p].category = task[p].category
  BY AddCheckFacts
<1>2. /\ m_tasks' = m_tasks /\ m_invalidTasks' = m_invalidTasks
      /\ overtaken' = overtaken /\ m_buffers' = m_buffers
      /\ pq' = {} /\ shifting' = Null
  BY <1>1 DEF AddCheck, sets, store, shift, NoShift
<1>3. /\ \A q \in Ptr : task'[q].id = task[q].id /\ (Live(q)' <=> Live(q))
      /\ \A q \in Ptr : task'[q].category = task[q].category
      /\ m_tasks \subseteq Ptr /\ Held = m_tasks /\ Held' = m_tasks \cup {p}
  BY <1>1, <1>2 DEF IInv, TypeOK, Live, Held
<1>4. \A b \in Buffer : task[p].id \notin m_buffers[b]
  <2> SUFFICES ASSUME NEW b \in Buffer, task[p].id \in m_buffers[b]
               PROVE  FALSE
    OBVIOUS
  <2>1. task[p].id \notin overtaken
    BY <1>1 DEF Clean, OvertakenDead
  <2>2. PICK q \in m_tasks : task[q].id = task[p].id
    BY <1>3, <2>1 DEF Clean, Owned
  <2>3. Live(q)
    BY DEF IInv, SingleOwner
  <2> QED BY <1>1, <1>3, <2>2, <2>3, ObjectFacts DEF IInv
<1>5. OneBuffer' /\ Owned' /\ OvertakenDead'
  BY <1>2, <1>3 DEF Clean, OneBuffer, Owned, OvertakenDead
<1>6. AddClean' /\ QueueClean'
  BY <1>1, <1>2, <1>3, <1>4 DEF AddClean, QueueClean, HasTask
<1> QED BY <1>5, <1>6 DEF Clean


\* Facts of a running Add.
LEMMA AddingFacts ==
    ASSUME IInv, adding # Null
    PROVE  /\ adding \in Ptr /\ Live(adding)
           /\ adding \notin m_tasks \cup m_invalidTasks
           /\ task[adding] \in TaskRecord /\ task[adding].id \in Id
           /\ Sane(task[adding])
           /\ NoShift /\ unread = {} /\ pq = {} /\ unchecked = {} /\ sweep = {}
           /\ m_tasks \subseteq Ptr \ {adding} /\ m_invalidTasks \subseteq Ptr \ {adding}
           /\ Held = m_tasks \cup {adding}
           /\ Latched(task[adding], now) \in TaskRecord
           /\ Latched(task[adding], now).id = task[adding].id
           /\ Latched(task[adding], now).category = task[adding].category
           /\ Sane(Latched(task[adding], now))
           /\ Latched(task[adding], now).hasValue => task[adding].hasValue
<1>1. adding \in Ptr /\ Live(adding) /\ adding \notin m_tasks \cup m_invalidTasks
  BY DEF IInv, TypeOK, SingleOwner
<1>2. /\ task[adding] \in TaskRecord /\ task[adding].id \in Id
      /\ Sane(task[adding]) /\ now \in Nat
  BY <1>1, ObjectFacts DEF IInv, TypeOK
<1>3. NoShift /\ unread = {} /\ pq = {} /\ unchecked = {} /\ sweep = {}
  BY DEF IInv, AddInv, LoopInv, NoShift
<1> DEFINE t == Latched(task[adding], now)
<1>4. /\ t \in TaskRecord
      /\ t.id = task[adding].id /\ t.category = task[adding].category
      /\ t.rate = task[adding].rate /\ t.life = task[adding].life
      /\ t.created = task[adding].created /\ t.cacheTime = task[adding].cacheTime
      /\ t.hasValue => task[adding].hasValue
  <2>1. IsValid(task[adding], now) => task[adding].hasValue
    BY DEF IsValid
  <2> QED BY <1>2, <2>1, LatchedFields
<1>5. Sane(t)
  BY <1>2, <1>4 DEF Sane
<1> QED BY <1>1, <1>2, <1>3, <1>4, <1>5 DEF Held, IInv, TypeOK

LEMMA AddRecordInv ==
    ASSUME IInv, AddRecord
    PROVE  IInv'
<1> DEFINE p == adding
           t == Latched(task[p], now)
<1>1. /\ p # Null /\ target = Null /\ adding' = Null /\ target' = Null
      /\ now' = now /\ m_idSeed' = m_idSeed
      /\ m_buffers' = m_buffers /\ m_idToTaskMap' = m_idToTaskMap
      /\ unread' = unread /\ pq' = pq /\ places' = places /\ shifting' = shifting
      /\ unchecked' = unchecked /\ sweep' = sweep
      /\ task' = [task EXCEPT ![p] = t]
  BY DEF AddRecord, store, shift, timer
<1>2. /\ p \in Ptr /\ Live(p) /\ p \notin m_tasks \cup m_invalidTasks
      /\ task[p].id \in Id
      /\ NoShift /\ unread = {} /\ pq = {} /\ unchecked = {} /\ sweep = {}
      /\ t \in TaskRecord /\ t.id = task[p].id /\ t.category = task[p].category
      /\ Sane(t) /\ (t.hasValue => task[p].hasValue)
      /\ m_tasks \subseteq Ptr \ {p} /\ m_invalidTasks \subseteq Ptr \ {p}
  BY <1>1, AddingFacts
<1>3. /\ task'[p] = t /\ t # Null
      /\ \A q \in Ptr \ {p} : task'[q] = task[q] /\ (Live(q)' <=> Live(q))
      /\ \A q \in Ptr : task'[q].id = task[q].id
  <2>1. task'[p] = t /\ \A q \in Ptr \ {p} : task'[q] = task[q]
    BY <1>1, <1>2 DEF IInv, TypeOK
  <2> QED BY <1>2, <2>1, Indices DEF Live
<1>4. \/ /\ t.hasValue
         /\ m_tasks' = m_tasks \cup {p} /\ m_invalidTasks' = m_invalidTasks
         /\ overtaken' = overtaken
      \/ /\ ~t.hasValue
         /\ m_tasks' = m_tasks /\ m_invalidTasks' = m_invalidTasks \cup {p}
         /\ overtaken' = overtaken \cup {i \in {t.id} : task[p].hasValue}
  BY DEF AddRecord
<1>5. TypeOK'
  BY <1>1, <1>2, <1>4 DEF IInv, TypeOK
<1>6. IdsUnique' /\ SingleOwner'
  <2>1. IdsUnique'
    BY <1>1, <1>2, <1>3 DEF IInv, IdsUnique
  <2>2. /\ m_tasks' \cap m_invalidTasks' = {}
        /\ m_tasks' \cup m_invalidTasks' = (m_tasks \cup m_invalidTasks) \cup {p}
    BY <1>2, <1>4 DEF IInv, SingleOwner
  <2>3. \A q \in m_tasks' \cup m_invalidTasks' : Live(q)'
    BY <1>2, <1>3, <2>2 DEF IInv, SingleOwner, Live
  <2>4. SingleOwner'
    BY <1>1, <1>2, <2>2, <2>3 DEF SingleOwner
  <2> QED BY <2>1, <2>4
<1>7. ObjectsInv'
  BY <1>1, <1>2, <1>3 DEF IInv, ObjectsInv, Sane
<1>8. IdsGiven'
  <2>1. task[p].id <= m_idSeed
    BY <1>2 DEF IInv, IdsUnique
  <2> QED BY <1>1, <1>2, <1>4, <2>1 DEF IInv, IdsGiven
<1>9. MapInv' /\ AddInv' /\ LoopInv' /\ CapacityInv'
  <2>1. MapInv'
    BY <1>1, <1>2, <1>3 DEF IInv, MapInv
  <2>2. AddInv' /\ LoopInv' /\ CapacityInv'
    BY <1>1, <1>2 DEF IInv, AddInv, LoopInv, CapacityInv, NoShift
  <2> QED BY <2>1, <2>2
<1>10. Placed'
  <2> SUFFICES ASSUME NEW q \in m_tasks'
               PROVE  /\ task'[q].category \in Category
                      /\ task'[q].hasValue => \E b \in Buffer : task'[q].id \in m_buffers[b]
    BY <1>1 DEF Placed, HasTask
  <2>1. CASE q = p
    <3>1. t.hasValue
      BY <1>2, <1>4, <2>1
    <3> QED BY <1>1, <1>2, <1>3, <2>1, <3>1 DEF IInv, AddInv, HasTask, Sane
  <2>2. CASE q # p
    BY <1>2, <1>3, <1>4, <2>2 DEF IInv, Placed, HasTask, Carried, NoShift
  <2> QED BY <2>1, <2>2
<1>11. InvalidDead'
  BY <1>2, <1>3, <1>4 DEF IInv, InvalidDead
<1>12. RoomInv' /\ AskedInv' /\ ShiftInv'
  BY <1>1, <1>2 DEF RoomInv, AskedInv, ShiftInv, Asked, Carried, NoShift
<1> QED
  BY <1>5, <1>6, <1>7, <1>8, <1>9, <1>10, <1>11, <1>12 DEF IInv

LEMMA AddRecordClean ==
    ASSUME IInv, Clean, AddRecord
    PROVE  Clean'
<1> DEFINE p == adding
           t == Latched(task[p], now)
<1>1. /\ p # Null /\ target = Null /\ adding' = Null
      /\ m_buffers' = m_buffers /\ pq' = pq /\ shifting' = shifting
      /\ task' = [task EXCEPT ![p] = t]
  BY DEF AddRecord, store, shift, timer
<1>2. /\ p \in Ptr /\ Live(p) /\ p \notin m_tasks \cup m_invalidTasks
      /\ NoShift /\ pq = {}
      /\ t \in TaskRecord /\ t.id = task[p].id /\ t.category = task[p].category
      /\ Held = m_tasks \cup {p} /\ m_tasks \subseteq Ptr
  BY <1>1, AddingFacts
<1>3. /\ \A q \in Ptr : task'[q].id = task[q].id /\ (Live(q)' <=> Live(q))
      /\ \A q \in Ptr : task'[q].category = task[q].category
  BY <1>1, <1>2 DEF IInv, TypeOK, Live
<1>4. \/ /\ m_tasks' = m_tasks \cup {p} /\ m_invalidTasks' = m_invalidTasks
         /\ overtaken' = overtaken
      \/ /\ m_tasks' = m_tasks /\ m_invalidTasks' = m_invalidTasks \cup {p}
         /\ overtaken' = overtaken \cup {i \in {t.id} : task[p].hasValue}
  BY DEF AddRecord
<1>5. Held' = m_tasks'
  BY <1>1 DEF Held
<1>6. OneBuffer'
  BY <1>1 DEF Clean, OneBuffer
<1>7. Owned'
  <2> SUFFICES ASSUME NEW b \in Buffer, NEW i \in m_buffers[b] \ overtaken'
               PROVE  \E q \in m_tasks' : /\ task'[q].id = i
                                          /\ b \in {task'[q].category, CACHE_BUFFER_INDEX}
    BY <1>1, <1>5 DEF Owned
  <2>1. i \notin overtaken
    BY <1>4
  <2>2. PICK q \in Held : task[q].id = i /\ b \in {task[q].category, CACHE_BUFFER_INDEX}
    BY <2>1 DEF Clean, Owned
  <2>3. q \in m_tasks'
    <3>1. CASE q # p
      BY <1>2, <1>4, <2>2, <3>1
    <3>2. CASE q = p /\ task[p].hasValue
      BY <1>2, <1>4, <2>2, <3>2
    <3>3. CASE q = p /\ ~task[p].hasValue
      BY <1>1, <2>2, <3>3 DEF Clean, AddClean, HasTask
    <3> QED BY <3>1, <3>2, <3>3
  <2> QED BY <1>2, <1>3, <2>2, <2>3
<1>8. OvertakenDead'
  <2> SUFFICES ASSUME NEW q \in Ptr, Live(q), task[q].id \in overtaken'
               PROVE  q \in m_invalidTasks'
    BY <1>3 DEF OvertakenDead
  <2>1. CASE task[q].id \in overtaken
    BY <1>4, <2>1 DEF Clean, OvertakenDead
  <2>2. CASE task[q].id \notin overtaken
    <3>1. task[q].id = task[p].id /\ m_invalidTasks' = m_invalidTasks \cup {p}
      BY <1>2, <1>4, <2>2
    <3> QED BY <1>2, <3>1, ObjectFacts DEF IInv
  <2> QED BY <2>1, <2>2
<1>9. AddClean' /\ QueueClean'
  BY <1>1, <1>2 DEF AddClean, QueueClean, NoShift
<1> QED BY <1>6, <1>7, <1>8, <1>9 DEF Clean

\* What Buffer::Add does to buffer b with the id of task t.
LEMMA AddPlaceFacts ==
    ASSUME IInv, AddPlace
    PROVE  /\ adding # Null /\ target # Null /\ target' = Null /\ adding' = adding
           /\ target \in Buffer
           /\ task[adding].hasValue /\ ~IsFull(target)
           /\ target \in {task[adding].category, CACHE_BUFFER_INDEX}
           /\ task' = [task EXCEPT ![adding] = Latched(task[adding], now)]
           /\ m_buffers'[target] = IF Latched(task[adding], now).hasValue
                                   THEN m_buffers[target] \cup {task[adding].id}
                                   ELSE m_buffers[target]
           /\ \A b \in Buffer \ {target} : m_buffers'[b] = m_buffers[b]
           /\ m_buffers' \in [Buffer -> SUBSET Id]
           /\ \A b \in Buffer : m_buffers[b] \subseteq m_buffers'[b]
           /\ m_idToTaskMap' \in [Id -> Ptr \cup {Null}]
           /\ m_idToTaskMap'[task[adding].id] =
                 IF target = CACHE_BUFFER_INDEX THEN adding
                 ELSE m_idToTaskMap[task[adding].id]
           /\ \A i \in Id \ {task[adding].id} : m_idToTaskMap'[i] = m_idToTaskMap[i]
<1> DEFINE p == adding
           t == Latched(task[p], now)
<1>1. p # Null /\ target # Null /\ target' = Null /\ adding' = p
  BY DEF AddPlace
<1>2. /\ p \in Ptr /\ task[p].id \in Id /\ t.id = task[p].id
      /\ t \in TaskRecord
  BY <1>1, AddingFacts
<1>3. /\ task[p].hasValue /\ ~IsFull(target)
      /\ target \in {task[p].category, CACHE_BUFFER_INDEX}
      /\ target \in Buffer
  BY <1>1 DEF IInv, AddInv, TypeOK
<1>4. m_buffers' = [m_buffers EXCEPT ![target] =
                      @ \cup {i \in {t.id} : t.hasValue /\ ~IsFull(target)}]
  BY DEF AddPlace
<1>5. m_idToTaskMap' = [m_idToTaskMap EXCEPT ![task[p].id] =
                          IF target = CACHE_BUFFER_INDEX THEN p ELSE @]
  BY <1>2 DEF AddPlace
<1>6. /\ m_buffers \in [Buffer -> SUBSET Id]
      /\ m_idToTaskMap \in [Id -> Ptr \cup {Null}]
  BY DEF IInv, TypeOK
<1>7. /\ m_buffers'[target] = m_buffers[target] \cup {i \in {t.id} : t.hasValue}
      /\ \A b \in Buffer \ {target} : m_buffers'[b] = m_buffers[b]
      /\ m_buffers' \in [Buffer -> SUBSET Id]
  BY <1>2, <1>3, <1>4, <1>6
<1>8. /\ m_idToTaskMap' \in [Id -> Ptr \cup {Null}]
      /\ m_idToTaskMap'[task[p].id] = IF target = CACHE_BUFFER_INDEX THEN p
                                      ELSE m_idToTaskMap[task[p].id]
      /\ \A i \in Id \ {task[p].id} : m_idToTaskMap'[i] = m_idToTaskMap[i]
  BY <1>2, <1>5, <1>6
<1> QED BY <1>1, <1>2, <1>3, <1>7, <1>8 DEF AddPlace

LEMMA AddPlaceInv ==
    ASSUME IInv, AddPlace
    PROVE  IInv'
<1> DEFINE p == adding
           id == task[p].id
           t == Latched(task[p], now)
<1>1. /\ p # Null /\ target # Null /\ adding' = p /\ target' = Null
      /\ target \in Buffer /\ task[p].hasValue /\ ~IsFull(target)
      /\ target \in {task[p].category, CACHE_BUFFER_INDEX}
      /\ task' = [task EXCEPT ![p] = t]
      /\ m_buffers'[target] = IF t.hasValue THEN m_buffers[target] \cup {id}
                                            ELSE m_buffers[target]
      /\ \A b \in Buffer \ {target} : m_buffers'[b] = m_buffers[b]
      /\ m_buffers' \in [Buffer -> SUBSET Id]
      /\ \A b \in Buffer : m_buffers[b] \subseteq m_buffers'[b]
      /\ m_idToTaskMap' \in [Id -> Ptr \cup {Null}]
      /\ m_idToTaskMap'[id] = IF target = CACHE_BUFFER_INDEX THEN p
                              ELSE m_idToTaskMap[id]
      /\ \A i \in Id \ {id} : m_idToTaskMap'[i] = m_idToTaskMap[i]
  BY AddPlaceFacts
<1>2. /\ now' = now /\ m_idSeed' = m_idSeed
      /\ m_tasks' = m_tasks /\ m_invalidTasks' = m_invalidTasks
      /\ overtaken' = overtaken
      /\ unread' = unread /\ pq' = pq /\ places' = places /\ shifting' = shifting
      /\ unchecked' = unchecked /\ sweep' = sweep
  BY DEF AddPlace, sets, shift, timer
<1>3. /\ p \in Ptr /\ Live(p) /\ p \notin m_tasks \cup m_invalidTasks /\ id \in Id
      /\ NoShift /\ unread = {} /\ pq = {} /\ unchecked = {} /\ sweep = {}
      /\ t \in TaskRecord /\ t.id = id /\ t.category = task[p].category
      /\ Sane(t) /\ (t.hasValue => task[p].hasValue)
      /\ m_tasks \subseteq Ptr \ {p} /\ m_invalidTasks \subseteq Ptr \ {p}
  BY <1>1, AddingFacts
<1>4. /\ task'[p] = t /\ Live(p)'
      /\ \A q \in Ptr \ {p} : task'[q] = task[q] /\ (Live(q)' <=> Live(q))
      /\ \A q \in Ptr : task'[q].id = task[q].id
  BY <1>1, <1>3 DEF IInv, TypeOK, Live
<1>5. TypeOK'
  BY <1>1, <1>2, <1>3 DEF IInv, TypeOK
<1>6. IdsUnique' /\ SingleOwner' /\ InvalidDead'
  BY <1>1, <1>2, <1>3, <1>4 DEF IInv, IdsUnique, SingleOwner, InvalidDead
<1>7. ObjectsInv'
  BY <1>2, <1>3, <1>4 DEF IInv, ObjectsInv, Sane
<1>8. IdsGiven'
  <2>1. id <= m_idSeed
    BY <1>3 DEF IInv, IdsUnique
  <2> QED BY <1>1, <1>2, <2>1 DEF IInv, IdsGiven
<1>9. MapInv'
  <2>1. \A i \in m_buffers'[CACHE_BUFFER_INDEX] : m_idToTaskMap'[i] # Null
    <3> SUFFICES ASSUME NEW i \in m_buffers'[CACHE_BUFFER_INDEX]
                 PROVE  m_idToTaskMap'[i] # Null
      OBVIOUS
    <3>1. i \in Id
      BY <1>1, Indices
    <3>2. i \in m_buffers[CACHE_BUFFER_INDEX] => m_idToTaskMap[i] # Null
      BY DEF IInv, MapInv
    <3> QED BY <1>1, <1>3, <3>1, <3>2, Indices
  <2>2. \A q \in Ptr : Live(q)' => m_idToTaskMap'[task'[q].id] \in {Null, q}
    <3> SUFFICES ASSUME NEW q \in Ptr, Live(q)
                 PROVE  m_idToTaskMap'[task[q].id] \in {Null, q}
      BY <1>3, <1>4
    <3>1. m_idToTaskMap[task[q].id] \in {Null, q} /\ task[q].id \in Id
      BY ObjectFacts DEF IInv, MapInv
    <3>2. task[q].id = id => q = p
      BY <1>3, ObjectFacts DEF IInv
    <3> QED BY <1>1, <3>1, <3>2
  <2> QED BY <2>1, <2>2 DEF MapInv
<1>10. AddInv'
  BY <1>1, <1>2, <1>3, <1>4 DEF AddInv, HasTask, NoShift
<1>11. LoopInv'
  BY <1>2, <1>3 DEF IInv, LoopInv, NoShift
<1>12. Placed'
  BY <1>1, <1>2, <1>3, <1>4 DEF IInv, Placed, HasTask, Carried
<1>13. RoomInv' /\ AskedInv' /\ ShiftInv'
  BY <1>2, <1>3 DEF RoomInv, AskedInv, ShiftInv, Asked, Carried, NoShift
<1>14. CapacityInv'
  <2>1. /\ IsFiniteSet(m_buffers[target]) /\ Cardinality(m_buffers[target]) \in Nat
        /\ BUFFER_CAPACITY[target] \in Nat
    BY <1>1, FiniteBuffers DEF IInv
  <2>2. Cardinality(m_buffers[target]) < BUFFER_CAPACITY[target]
    BY <1>1, <2>1 DEF IsFull
  <2>3. \/ Cardinality(m_buffers[target] \cup {id}) = Cardinality(m_buffers[target]) + 1
        \/ Cardinality(m_buffers[target] \cup {id}) = Cardinality(m_buffers[target])
    BY <2>1, FS_AddElement
  <2>4. Cardinality(m_buffers'[target]) <= BUFFER_CAPACITY[target]
    BY <1>1, <2>1, <2>2, <2>3
  <2> QED BY <1>1, <2>4 DEF IInv, CapacityInv
<1> QED
  BY <1>5, <1>6, <1>7, <1>8, <1>9, <1>10, <1>11, <1>12, <1>13, <1>14 DEF IInv

LEMMA AddPlaceClean ==
    ASSUME IInv, Clean, AddPlace
    PROVE  Clean'
<1> DEFINE p == adding
           id == task[p].id
           t == Latched(task[p], now)
<1>1. /\ p # Null /\ target # Null /\ adding' = p /\ target' = Null
      /\ target \in Buffer /\ target \in {task[p].category, CACHE_BUFFER_INDEX}
      /\ task' = [task EXCEPT ![p] = t]
      /\ m_buffers'[target] = IF t.hasValue THEN m_buffers[target] \cup {id}
                                            ELSE m_buffers[target]
      /\ \A b \in Buffer \ {target} : m_buffers'[b] = m_buffers[b]
  BY AddPlaceFacts
<1>2. /\ m_tasks' = m_tasks /\ m_invalidTasks' = m_invalidTasks
      /\ overtaken' = overtaken /\ pq' = pq /\ shifting' = shifting
  BY DEF AddPlace, sets, shift
<1>3. /\ p \in Ptr /\ Live(p) /\ NoShift /\ pq = {}
      /\ t \in TaskRecord /\ t.id = id /\ t.category = task[p].category
      /\ Held = m_tasks \cup {p} /\ m_tasks \subseteq Ptr
  BY <1>1, AddingFacts
<1>4. /\ \A q \in Ptr : task'[q].id = task[q].id /\ (Live(q)' <=> Live(q))
      /\ \A q \in Ptr : task'[q].category = task[q].category
      /\ task'[p] = t /\ Held' = Held
  BY <1>1, <1>2, <1>3 DEF IInv, TypeOK, Live, Held
<1>5. \A b \in Buffer : id \notin m_buffers[b]
  BY <1>1 DEF Clean, AddClean, HasTask
<1>6. OneBuffer'
  BY <1>1, <1>5 DEF Clean, OneBuffer
<1>7. Owned'
  BY <1>1, <1>2, <1>3, <1>4 DEF Clean, Owned
<1>8. OvertakenDead' /\ QueueClean'
  BY <1>2, <1>3, <1>4 DEF Clean, OvertakenDead, QueueClean, NoShift
<1>9. AddClean'
  <2>1. task'[p].id = id /\ (~task'[p].hasValue => ~t.hasValue)
    BY <1>3, <1>4
  <2>2. ~t.hasValue => \A b \in Buffer : id \notin m_buffers'[b]
    BY <1>1, <1>5
  <2> QED BY <1>1, <2>1, <2>2 DEF AddClean, HasTask
<1> QED BY <1>6, <1>7, <1>8, <1>9 DEF Clean

\* The buffers are numbered, so that a task on some is on a first one.
LEMMA GetBufferIdxFacts ==
    ASSUME NEW p \in Ptr
    PROVE  /\ GetBufferIdx(p) \in Buffer
           /\ (\E b \in Buffer : HasTask(b, p)) => HasTask(GetBufferIdx(p), p)
<1>1. CASE \E b \in Buffer : HasTask(b, p)
  <2> DEFINE T == {b \in Buffer : HasTask(b, p)}
  <2>1. T \subseteq Nat /\ T # {} /\ T \subseteq Buffer
    BY <1>1 DEF Buffer
  <2>2. \E b \in T : \A c \in T : ~(<<c, b>> \in OpToRel(<, Nat))
    <3> HIDE DEF T
    <3> QED BY <2>1, NatLessThanWellFounded, WFMin
  <2>3. PICK b \in T : \A c \in T : ~(c < b)
    BY <2>1, <2>2 DEF OpToRel
  <2>4. \A c \in Buffer : HasTask(c, p) => b <= c
    BY <2>1, <2>3
  <2> QED BY <1>1, <2>3, <2>4 DEF GetBufferIdx
<1>2. CASE ~\E b \in Buffer : HasTask(b, p)
  BY <1>2, Indices DEF GetBufferIdx
<1> QED BY <1>1, <1>2

\* What surrounds Delete(p) in Deliver and in DeleteSwept.
DeleteFrame(p) ==
    /\ adding = Null /\ target = Null /\ NoShift /\ unread = {} /\ pq = {}
    /\ unchecked = {} /\ unchecked' = {}
    /\ adding' = Null /\ target' = Null
    /\ now' = now /\ m_idSeed' = m_idSeed
    /\ sweep' \subseteq sweep \ {p}

LEMMA FreeInv ==
    ASSUME IInv, NEW p \in Ptr, p \notin m_tasks, p \in m_invalidTasks, Free(p),
           DeleteFrame(p)
    PROVE  IInv'
<1>1. /\ m_tasks' = m_tasks /\ m_invalidTasks' = m_invalidTasks \ {p}
      /\ m_buffers' = m_buffers /\ m_idToTaskMap' = m_idToTaskMap
      /\ overtaken' = overtaken /\ now' = now /\ m_idSeed' = m_idSeed
      /\ unread' = {} /\ pq' = {} /\ shifting' = Null /\ places' = 0
      /\ adding' = Null /\ target' = Null /\ unchecked' = {}
      /\ sweep' \subseteq sweep \ {p}
  BY DEF Free, store, shift, DeleteFrame, NoShift
<1>2. /\ task'[p] = Null /\ task' = [task EXCEPT ![p] = Null]
      /\ \A q \in Ptr \ {p} : task'[q] = task[q]
  BY DEF Free, IInv, TypeOK
<1>3. ~Live(p)' /\ \A q \in Ptr \ {p} : Live(q)' <=> Live(q)
  BY <1>2 DEF Live
<1>4. /\ m_tasks \subseteq Ptr \ {p} /\ m_invalidTasks' \subseteq Ptr \ {p}
      /\ sweep' \subseteq (m_tasks \cup m_invalidTasks) \ {p}
  BY <1>1 DEF IInv, TypeOK, SingleOwner
<1>5. TypeOK'
  BY <1>1, <1>2, <1>4 DEF IInv, TypeOK
<1>6. IdsUnique' /\ SingleOwner' /\ ObjectsInv'
  BY <1>1, <1>2, <1>3, <1>4 DEF IInv, IdsUnique, SingleOwner, ObjectsInv, Sane
<1>7. IdsGiven' /\ MapInv' /\ AddInv' /\ LoopInv' /\ CapacityInv'
  BY <1>1, <1>2, <1>3 DEF IInv, IdsGiven, MapInv, AddInv, LoopInv, CapacityInv,
     NoShift
<1>8. Placed' /\ InvalidDead'
  <2>1. \A q \in Ptr : ~Carried(q)
    BY DEF DeleteFrame, NoShift, Carried
  <2> QED BY <1>1, <1>2, <1>4, <2>1 DEF IInv, Placed, InvalidDead, HasTask
<1>9. RoomInv' /\ AskedInv' /\ ShiftInv'
  BY <1>1 DEF RoomInv, AskedInv, ShiftInv, Asked, Carried
<1> QED BY <1>5, <1>6, <1>7, <1>8, <1>9 DEF IInv

LEMMA FreeClean ==
    ASSUME IInv, Clean, NEW p \in Ptr, p \notin m_tasks, p \in m_invalidTasks,
           Free(p), DeleteFrame(p)
    PROVE  Clean'
<1>1. /\ m_tasks' = m_tasks /\ m_invalidTasks' = m_invalidTasks \ {p}
      /\ m_buffers' = m_buffers /\ overtaken' = overtaken
      /\ pq' = {} /\ shifting' = Null /\ adding = Null /\ adding' = Null
  BY DEF Free, store, shift, DeleteFrame, NoShift
<1>2. /\ task'[p] = Null
      /\ \A q \in Ptr \ {p} : task'[q] = task[q]
  BY DEF Free, IInv, TypeOK
<1>3. /\ Held = m_tasks /\ Held' = m_tasks /\ m_tasks \subseteq Ptr \ {p}
  BY <1>1 DEF Held, IInv, TypeOK
<1>4. OneBuffer' /\ Owned'
  BY <1>1, <1>2, <1>3 DEF Clean, OneBuffer, Owned
<1>5. OvertakenDead' /\ AddClean' /\ QueueClean'
  BY <1>1, <1>2 DEF Clean, OvertakenDead, AddClean, QueueClean, Live
<1> QED BY <1>4, <1>5 DEF Clean

\* What Invalidate does: the id of p leaves one buffer, p its value, and the
\* cached tasks of that buffer, if it has places, are to be asked.
LEMMA InvalidateFacts ==
    ASSUME IInv, NEW p \in Ptr, p \in m_tasks, Invalidate(p), DeleteFrame(p)
    PROVE  /\ Live(p) /\ task[p].id \in Id
           /\ GetBufferIdx(p) \in Buffer
           /\ m_tasks' = m_tasks \ {p} /\ m_invalidTasks' = m_invalidTasks \cup {p}
           /\ overtaken' = overtaken /\ pq' = {} /\ shifting' = Null
           /\ m_buffers' \in [Buffer -> SUBSET Id]
           /\ \A b \in Buffer : m_buffers'[b] =
                 IF b = GetBufferIdx(p) THEN m_buffers[b] \ {task[p].id}
                                        ELSE m_buffers[b]
           /\ m_idToTaskMap' \in [Id -> Ptr \cup {Null}]
           /\ \A i \in Id : m_idToTaskMap'[i] =
                 IF GetBufferIdx(p) = CACHE_BUFFER_INDEX /\ i = task[p].id
                 THEN Null ELSE m_idToTaskMap[i]
           /\ task' \in [Ptr -> TaskRecord \cup {Null}]
           /\ task'[p] \in TaskRecord /\ Sane(task'[p]) /\ ~task'[p].hasValue
           /\ task'[p].id = task[p].id /\ task'[p].category = task[p].category
           /\ \A q \in Ptr \ {p} : task'[q] = task[q]
<1> DEFINE idx == GetBufferIdx(p)
           id  == task[p].id
<1>1. /\ Live(p) /\ task[p] \in TaskRecord /\ id \in Id /\ Sane(task[p])
      /\ now \in Nat /\ now' = now
  BY ObjectFacts DEF IInv, TypeOK, SingleOwner, DeleteFrame
<1>2. idx \in Buffer
  BY GetBufferIdxFacts
<1>3. /\ m_tasks' = m_tasks \ {p} /\ m_invalidTasks' = m_invalidTasks \cup {p}
      /\ overtaken' = overtaken /\ pq' = {} /\ shifting' = Null
  BY DEF Invalidate, DeleteFrame, NoShift
<1>4. /\ m_buffers' \in [Buffer -> SUBSET Id]
      /\ \A b \in Buffer : m_buffers'[b] =
            IF b = idx THEN m_buffers[b] \ {id} ELSE m_buffers[b]
  <2>1. m_buffers' = [m_buffers EXCEPT ![idx] = @ \ {id}]
    BY DEF Invalidate
  <2> QED BY <1>2, <2>1 DEF IInv, TypeOK
<1>5. /\ m_idToTaskMap' \in [Id -> Ptr \cup {Null}]
      /\ \A i \in Id : m_idToTaskMap'[i] =
            IF idx = CACHE_BUFFER_INDEX /\ i = id THEN Null ELSE m_idToTaskMap[i]
  BY <1>1 DEF Invalidate, IInv, TypeOK
<1>6. /\ task'[p] \in TaskRecord /\ Sane(task'[p]) /\ ~task'[p].hasValue
      /\ task'[p].id = id /\ task'[p].category = task[p].category
      /\ task' \in [Ptr -> TaskRecord \cup {Null}]
      /\ \A q \in Ptr \ {p} : task'[q] = task[q]
  <2>1. CASE idx = CACHE_BUFFER_INDEX
    <3>1. task' = [task EXCEPT ![p] = Drop(SetCacheTime(task[p], now))]
      BY <2>1 DEF Invalidate
    <3>2. task'[p] = Drop(SetCacheTime(task[p], now))
      BY <3>1 DEF IInv, TypeOK
    <3>3. /\ task'[p] \in TaskRecord /\ ~task'[p].hasValue /\ task'[p].id = id
          /\ task'[p].category = task[p].category
          /\ task'[p].created = task[p].created /\ task'[p].cacheTime = now
      BY <3>2, <1>1 DEF Drop, SetCacheTime, TaskRecord
    <3> QED BY <3>1, <3>3, <1>1 DEF Sane, IInv, TypeOK
  <2>2. CASE idx # CACHE_BUFFER_INDEX
    <3>1. task' = [task EXCEPT ![p] = Drop(task[p])]
      BY <2>2 DEF Invalidate
    <3>2. task'[p] = Drop(task[p])
      BY <3>1 DEF IInv, TypeOK
    <3>3. /\ task'[p] \in TaskRecord /\ ~task'[p].hasValue /\ task'[p].id = id
          /\ task'[p].category = task[p].category
          /\ task'[p].created = task[p].created
          /\ task'[p].cacheTime = task[p].cacheTime
      BY <3>2, <1>1 DEF Drop, TaskRecord
    <3> QED BY <3>1, <3>3, <1>1 DEF Sane, IInv, TypeOK
  <2> QED BY <2>1, <2>2
<1> QED BY <1>1, <1>2, <1>3, <1>4, <1>5, <1>6

\* The places that Invalidate counts, and whom it lets be asked.
LEMMA PlacesFacts ==
    ASSUME IInv, NEW p \in Ptr, p \in m_tasks, Invalidate(p), DeleteFrame(p)
    PROVE  /\ places' \in Nat
           /\ places' = 0 => unread' = {}
           /\ places' # 0 =>
                 /\ GetBufferIdx(p) \in Category
                 /\ places' + Cardinality(m_buffers'[GetBufferIdx(p)])
                       = BUFFER_CAPACITY[GetBufferIdx(p)]
                 /\ Found(GetBufferIdx(p)) \subseteq unread'
                 /\ unread' \subseteq Found(GetBufferIdx(p)) \cup Astray
<1> DEFINE idx == GetBufferIdx(p)
           B   == m_buffers[idx] \ {task[p].id}
           num == AvailableCacheSize(idx, B)
<1>1. idx \in Buffer /\ m_buffers'[idx] = B
  BY InvalidateFacts
<1>2. IsFiniteSet(B) /\ Cardinality(B) \in Nat /\ BUFFER_CAPACITY[idx] \in Nat
  BY <1>1, FiniteBuffers, FS_RemoveElement, FS_CardinalityType DEF IInv
<1>3. PICK taken \in SUBSET Astray :
         IF num > 0 /\ Found(idx) \cup taken # {}
         THEN unread' = Found(idx) \cup taken /\ places' = num
         ELSE unread' = {} /\ places' = 0
  BY DEF Invalidate
<1>4. num = IF idx = CACHE_BUFFER_INDEX THEN 0
            ELSE BUFFER_CAPACITY[idx] - Cardinality(B)
  BY DEF AvailableCacheSize
<1> HIDE DEF num, B, idx
<1>5. num \in Int /\ (num > 0 => idx # CACHE_BUFFER_INDEX)
  BY <1>2, <1>4
<1>6. idx # CACHE_BUFFER_INDEX => idx \in Category
  BY <1>1, Indices
<1>7. num > 0 => num + Cardinality(B) = BUFFER_CAPACITY[idx]
  BY <1>2, <1>4
<1> QED BY <1>1, <1>3, <1>5, <1>6, <1>7 DEF idx

LEMMA InvalidateInv ==
    ASSUME IInv, NEW p \in Ptr, p \in m_tasks, Invalidate(p), DeleteFrame(p)
    PROVE  IInv'
<1> DEFINE idx == GetBufferIdx(p)
           id  == task[p].id
<1>1. /\ Live(p) /\ id \in Id /\ idx \in Buffer
      /\ m_tasks' = m_tasks \ {p} /\ m_invalidTasks' = m_invalidTasks \cup {p}
      /\ overtaken' = overtaken /\ pq' = {} /\ shifting' = Null
      /\ m_buffers' \in [Buffer -> SUBSET Id]
      /\ \A b \in Buffer : m_buffers'[b] =
            IF b = idx THEN m_buffers[b] \ {id} ELSE m_buffers[b]
      /\ m_idToTaskMap' \in [Id -> Ptr \cup {Null}]
      /\ \A i \in Id : m_idToTaskMap'[i] =
            IF idx = CACHE_BUFFER_INDEX /\ i = id THEN Null ELSE m_idToTaskMap[i]
      /\ task' \in [Ptr -> TaskRecord \cup {Null}]
      /\ task'[p] \in TaskRecord /\ Sane(task'[p]) /\ ~task'[p].hasValue
      /\ task'[p].id = id /\ task'[p].category = task[p].category
      /\ \A q \in Ptr \ {p} : task'[q] = task[q]
  BY InvalidateFacts
<1>2. /\ places' \in Nat
      /\ places' = 0 => unread' = {}
      /\ places' # 0 =>
            /\ idx \in Category
            /\ places' + Cardinality(m_buffers'[idx]) = BUFFER_CAPACITY[idx]
            /\ Found(idx) \subseteq unread'
            /\ unread' \subseteq Found(idx) \cup Astray
  BY PlacesFacts
<1> HIDE DEF idx
<1>3. /\ adding' = Null /\ target' = Null /\ now' = now /\ m_idSeed' = m_idSeed
      /\ unchecked' = {} /\ sweep' \subseteq sweep \ {p}
      /\ adding = Null /\ shifting = Null
      /\ m_tasks \subseteq Ptr /\ m_invalidTasks \subseteq Ptr
      /\ p \notin m_invalidTasks
      /\ \A q \in m_tasks \cup m_invalidTasks : Live(q)
      /\ sweep \subseteq m_tasks \cup m_invalidTasks
      /\ \A q \in Ptr : Live(q) /\ task[q].id = id => q = p
  BY <1>1, ObjectFacts DEF DeleteFrame, NoShift, IInv, TypeOK, SingleOwner
<1>4. /\ Live(p)' /\ \A q \in Ptr : Live(q)' <=> Live(q)
      /\ \A q \in Ptr : task'[q].id = task[q].id /\ task'[q].category = task[q].category
  BY <1>1, Indices DEF Live
<1>5. \A b \in Buffer : m_buffers'[b] \subseteq m_buffers[b]
  BY <1>1
<1>6. unread' \subseteq m_buffers'[CACHE_BUFFER_INDEX]
  <2>1. CASE places' = 0
    BY <1>2, <2>1
  <2>2. CASE places' # 0
    <3>1. idx # CACHE_BUFFER_INDEX
      BY <1>2, <2>2, Indices
    <3>2. Found(idx) \cup Astray \subseteq m_buffers[CACHE_BUFFER_INDEX]
      BY DEF Found, Astray
    <3> QED BY <1>1, <1>2, <2>2, <3>1, <3>2, Indices
  <2> QED BY <2>1, <2>2
<1>7. \A q \in m_tasks' : Asked(q)' => places' # 0 /\ task'[q].category = idx
  <2> SUFFICES ASSUME NEW q \in m_tasks', NEW i \in unread', m_idToTaskMap'[i] = q
               PROVE  places' # 0 /\ task'[q].category = idx
    BY <1>1 DEF Asked
  <2>1. places' # 0
    BY <1>2
  <2>2. i \in Id /\ m_idToTaskMap[i] = q
    BY <1>1, <1>2, <1>6, <2>1, Indices
  <2>3. q \in Ptr /\ Live(q)
    BY <1>1, <1>3
  <2>4. i \in Found(idx)
    BY <1>2, <2>1, <2>2, <2>3 DEF Astray
  <2> QED BY <1>4, <2>1, <2>2, <2>3, <2>4 DEF Found
<1>8. TypeOK'
  <2>1. unread' \subseteq Id
    BY <1>1, <1>6, Indices
  <2>2. sweep' \subseteq Ptr
    BY <1>3
  <2> QED BY <1>1, <1>2, <1>3, <2>1, <2>2 DEF IInv, TypeOK
<1>9. IdsUnique' /\ SingleOwner' /\ InvalidDead'
  BY <1>1, <1>3, <1>4 DEF IInv, IdsUnique, SingleOwner, InvalidDead
<1>10. ObjectsInv'
  BY <1>1, <1>3, <1>4 DEF IInv, ObjectsInv, Sane
<1>11. IdsGiven' /\ CapacityInv'
  <2>1. \A i \in Id : m_idToTaskMap'[i] # Null => m_idToTaskMap[i] # Null
    BY <1>1
  <2>2. \A b \in Buffer : Cardinality(m_buffers'[b]) <= Cardinality(m_buffers[b])
                          /\ Cardinality(m_buffers'[b]) \in Nat
    <3> SUFFICES ASSUME NEW b \in Buffer
                 PROVE  /\ Cardinality(m_buffers'[b]) <= Cardinality(m_buffers[b])
                        /\ Cardinality(m_buffers'[b]) \in Nat
      OBVIOUS
    <3> QED BY <1>5, FiniteBuffers, FS_Subset, FS_CardinalityType DEF IInv
  <2>3. \A b \in Buffer : BUFFER_CAPACITY[b] \in Nat /\ Cardinality(m_buffers[b]) \in Nat
    BY FiniteBuffers DEF IInv
  <2> QED BY <1>1, <1>3, <1>5, <2>1, <2>2, <2>3 DEF IInv, IdsGiven, CapacityInv
<1>12. MapInv'
  <2>1. \A q \in Ptr : Live(q) => task[q].id \in Id
    BY ObjectFacts DEF IInv
  <2>2. m_buffers[CACHE_BUFFER_INDEX] \subseteq Id
    BY Indices DEF IInv, TypeOK
  <2> QED BY <1>1, <1>4, <2>1, <2>2, Indices DEF IInv, MapInv
<1>13. AddInv' /\ LoopInv'
  BY <1>1, <1>2, <1>3, <1>6 DEF AddInv, LoopInv
<1>14. Placed'
  <2> SUFFICES ASSUME NEW q \in m_tasks'
               PROVE  /\ task'[q].category \in Category
                      /\ task'[q].hasValue => \E b \in Buffer : task'[q].id \in m_buffers'[b]
    BY DEF Placed, HasTask
  <2>1. q \in Ptr \ {p} /\ q \in m_tasks /\ task[q].id # id
    BY <1>1, <1>3
  <2> QED BY <1>1, <1>3, <2>1 DEF IInv, Placed, HasTask, Carried
<1>15. RoomInv'
  <2> SUFFICES ASSUME NEW q \in m_tasks', Asked(q)'
               PROVE  Cardinality(m_buffers'[task'[q].category]) + places' + 0
                         <= BUFFER_CAPACITY[task'[q].category]
    BY <1>1 DEF RoomInv, Carried
  <2>1. places' # 0 /\ task'[q].category = idx
    BY <1>7
  <2>2. Cardinality(m_buffers'[idx]) \in Nat
    <3>1. IsFiniteSet(m_buffers'[idx])
      BY <1>1, <1>5, FiniteBuffers, FS_Subset DEF IInv
    <3> QED BY <3>1, FS_CardinalityType
  <2> QED BY <1>1, <1>2, <2>1, <2>2
<1>16. AskedInv'
  <2> SUFFICES ASSUME NEW r \in m_tasks', NEW q \in m_tasks', Asked(r)',
                      HasTask(CACHE_BUFFER_INDEX, q)',
                      task'[q].category = task'[r].category
               PROVE  Asked(q)'
    BY DEF AskedInv
  <2>1. places' # 0 /\ task[q].category = idx /\ q \in Ptr /\ Live(q)
    BY <1>1, <1>3, <1>4, <1>7
  <2>2. task[q].id \in m_buffers[CACHE_BUFFER_INDEX] /\ task[q].id \in Id
    BY <1>4, <1>5, <2>1, ObjectFacts, Indices DEF HasTask, IInv
  <2>3. m_idToTaskMap[task[q].id] = q
    BY <2>1, <2>2 DEF IInv, MapInv
  <2>4. task[q].id \in unread'
    BY <1>2, <2>1, <2>2, <2>3 DEF Found
  <2>5. m_idToTaskMap'[task[q].id] = q
    BY <1>1, <1>2, <2>1, <2>2, <2>3, Indices
  <2> QED BY <2>4, <2>5 DEF Asked
<1>17. ShiftInv'
  BY <1>1 DEF ShiftInv
<1> QED
  BY <1>8, <1>9, <1>10, <1>11, <1>12, <1>13, <1>14, <1>15, <1>16, <1>17 DEF IInv

LEMMA InvalidateClean ==
    ASSUME IInv, Clean, NEW p \in Ptr, p \in m_tasks, Invalidate(p), DeleteFrame(p)
    PROVE  Clean'
<1> DEFINE idx == GetBufferIdx(p)
           id  == task[p].id
<1>1. /\ Live(p) /\ idx \in Buffer
      /\ m_tasks' = m_tasks \ {p} /\ m_invalidTasks' = m_invalidTasks \cup {p}
      /\ overtaken' = overtaken /\ pq' = {} /\ shifting' = Null
      /\ \A b \in Buffer : m_buffers'[b] =
            IF b = idx THEN m_buffers[b] \ {id} ELSE m_buffers[b]
      /\ task'[p].id = id /\ task'[p] \in TaskRecord
      /\ \A q \in Ptr \ {p} : task'[q] = task[q]
  BY InvalidateFacts
<1>2. (\E b \in Buffer : id \in m_buffers[b]) => id \in m_buffers[idx]
  BY GetBufferIdxFacts DEF HasTask
<1> HIDE DEF idx
<1>3. \A b \in Buffer : m_buffers'[b] = m_buffers[b] \ {id}
  BY <1>1, <1>2 DEF Clean, OneBuffer
<1>4. /\ adding = Null /\ adding' = Null /\ Held = m_tasks /\ Held' = m_tasks \ {p}
      /\ m_tasks \subseteq Ptr
  BY <1>1 DEF DeleteFrame, Held, IInv, TypeOK
<1>5. OneBuffer'
  BY <1>3 DEF Clean, OneBuffer
<1>6. Owned'
  BY <1>1, <1>3, <1>4 DEF Clean, Owned
<1>7. OvertakenDead' /\ AddClean' /\ QueueClean'
  BY <1>1, <1>4 DEF Clean, OvertakenDead, AddClean, QueueClean, Live
<1> QED BY <1>5, <1>6, <1>7 DEF Clean

LEMMA DeleteInv ==
    ASSUME IInv, NEW p \in Ptr, Delete(p), DeleteFrame(p)
    PROVE  IInv' /\ (Clean => Clean')
<1>1. CASE p \in m_tasks /\ Invalidate(p)
  BY <1>1, InvalidateInv, InvalidateClean
<1>2. CASE p \notin m_tasks /\ p \in m_invalidTasks /\ Free(p)
  BY <1>2, FreeInv, FreeClean
<1>3. CASE /\ p \notin m_tasks \cup m_invalidTasks
           /\ UNCHANGED <<task, sets, store, shift>>
  <2>1. /\ sweep' \subseteq sweep /\ unchecked' = unchecked
        /\ UNCHANGED <<now, m_idSeed, task, m_tasks, m_invalidTasks, overtaken,
                       m_buffers, m_idToTaskMap, adding, target, unread, pq,
                       places, shifting>>
    BY <1>3 DEF DeleteFrame, sets, store, shift
  <2>2. TypeOK' /\ IdsUnique' /\ SingleOwner' /\ ObjectsInv' /\ IdsGiven' /\ MapInv'
    BY <2>1 DEF IInv, TypeOK, IdsUnique, SingleOwner, ObjectsInv, IdsGiven, MapInv,
       Live, Sane
  <2>3. AddInv' /\ LoopInv' /\ Placed' /\ InvalidDead'
    <3>1. adding' = Null /\ target' = Null
      BY DEF DeleteFrame
    <3> QED BY <2>1, <3>1 DEF IInv, AddInv, LoopInv, Placed, InvalidDead, HasTask,
               NoShift, Carried
  <2>4. RoomInv' /\ AskedInv' /\ ShiftInv' /\ CapacityInv'
    BY <2>1 DEF IInv, RoomInv, AskedInv, ShiftInv, CapacityInv, Asked, Carried,
       HasTask, Live
  <2>5. Clean => Clean'
    BY <2>1 DEF Clean, OneBuffer, Owned, OvertakenDead, AddClean, QueueClean, Held,
       HasTask, Live
  <2> QED BY <2>2, <2>3, <2>4, <2>5 DEF IInv
<1> QED BY <1>1, <1>2, <1>3 DEF Delete

LEMMA DeliverInv ==
    ASSUME IInv, NEW p \in Ptr, Deliver(p)
    PROVE  IInv' /\ (Clean => Clean')
<1>1. DeleteFrame(p) /\ Delete(p)
  BY DEF Deliver, Unlocked, DeleteFrame, IInv, AddInv, LoopInv, NoShift, timer
<1> QED BY <1>1, DeleteInv

LEMMA DeleteSweptInv ==
    ASSUME IInv, NEW p \in Ptr, DeleteSwept(p)
    PROVE  IInv' /\ (Clean => Clean')
<1>1. adding = Null
  BY DEF DeleteSwept, IInv, AddInv
<1>2. DeleteFrame(p) /\ Delete(p)
  BY <1>1 DEF DeleteSwept, DeleteFrame, IInv, AddInv, LoopInv, NoShift
<1> QED BY <1>2, DeleteInv

LEMMA DeleteInvalidTaskInv ==
    ASSUME IInv, DeleteInvalidTask
    PROVE  IInv' /\ (Clean => Clean')
<1>1. /\ adding = Null /\ NoShift /\ unchecked' = m_tasks /\ sweep' = m_invalidTasks
      /\ UNCHANGED <<now, m_idSeed, task, m_tasks, m_invalidTasks, overtaken,
                     m_buffers, m_idToTaskMap, adding, target, unread, pq,
                     places, shifting>>
  BY DEF DeleteInvalidTask, Unlocked, sets, store, shift
<1>2. TypeOK' /\ IdsUnique' /\ SingleOwner' /\ ObjectsInv' /\ IdsGiven' /\ MapInv'
  BY <1>1 DEF IInv, TypeOK, IdsUnique, SingleOwner, ObjectsInv, IdsGiven, MapInv,
     Live, Sane
<1>3. AddInv' /\ LoopInv' /\ Placed' /\ InvalidDead'
  BY <1>1 DEF IInv, AddInv, LoopInv, Placed, InvalidDead, HasTask, NoShift, Carried
<1>4. RoomInv' /\ AskedInv' /\ ShiftInv' /\ CapacityInv'
  BY <1>1 DEF IInv, RoomInv, AskedInv, ShiftInv, CapacityInv, Asked, Carried,
     HasTask, Live
<1>5. Clean => Clean'
  BY <1>1 DEF Clean, OneBuffer, Owned, OvertakenDead, AddClean, QueueClean, Held,
     HasTask, Live
<1> QED BY <1>2, <1>3, <1>4, <1>5 DEF IInv

LEMMA CheckTaskInv ==
    ASSUME IInv, NEW p \in Ptr, CheckTask(p)
    PROVE  IInv' /\ (Clean => Clean')
<1> DEFINE t == Latched(task[p], now)
<1>1. /\ p \in unchecked /\ unchecked' = unchecked \ {p}
      /\ sweep' \subseteq sweep \cup {p}
      /\ task' = [task EXCEPT ![p] = t]
      /\ UNCHANGED <<now, m_idSeed, m_tasks, m_invalidTasks, overtaken,
                     m_buffers, m_idToTaskMap, adding, target, unread, pq,
                     places, shifting>>
  BY DEF CheckTask, sets, store, shift
<1>2. /\ adding = Null /\ target = Null /\ NoShift /\ unread = {} /\ pq = {}
      /\ p \in m_tasks /\ Live(p) /\ p \notin m_invalidTasks
      /\ m_tasks \subseteq Ptr /\ m_invalidTasks \subseteq Ptr
      /\ task[p] \in TaskRecord /\ Sane(task[p]) /\ now \in Nat
  BY <1>1, ObjectFacts DEF IInv, AddInv, LoopInv, NoShift, SingleOwner, TypeOK
<1>3. /\ t \in TaskRecord
      /\ t.id = task[p].id /\ t.category = task[p].category
      /\ t.rate = task[p].rate /\ t.life = task[p].life
      /\ t.created = task[p].created /\ t.cacheTime = task[p].cacheTime
      /\ t.hasValue => task[p].hasValue
  <2>1. IsValid(task[p], now) => task[p].hasValue
    BY DEF IsValid
  <2> QED BY <1>2, <2>1, LatchedFields
<1>4. Sane(t)
  BY <1>2, <1>3 DEF Sane
<1>5. task'[p] = t /\ \A q \in Ptr \ {p} : task'[q] = task[q]
  BY <1>1, <1>2 DEF IInv, TypeOK
<1>6. /\ \A q \in Ptr : Live(q)' <=> Live(q)
      /\ \A q \in Ptr : task'[q].id = task[q].id /\ task'[q].category = task[q].category
  BY <1>2, <1>3, <1>5, Indices DEF Live
<1> HIDE DEF t
<1>7. TypeOK'
  BY <1>1, <1>2, <1>3 DEF IInv, TypeOK
<1>8. IdsUnique' /\ ObjectsInv' /\ IdsGiven' /\ MapInv' /\ InvalidDead'
  <2>1. IdsUnique' /\ IdsGiven' /\ MapInv'
    BY <1>1, <1>6 DEF IInv, IdsUnique, IdsGiven, MapInv
  <2>2. ObjectsInv' /\ InvalidDead'
    BY <1>1, <1>2, <1>4, <1>5, <1>6 DEF IInv, ObjectsInv, InvalidDead, Sane
  <2> QED BY <2>1, <2>2
<1>9. SingleOwner'
  <2>1. \A q \in m_tasks' \cup m_invalidTasks' : Live(q)'
    BY <1>1, <1>2, <1>6 DEF IInv, SingleOwner
  <2>2. adding' = Null
    BY <1>1, <1>2
  <2> QED BY <1>1, <1>2, <2>1, <2>2 DEF IInv, SingleOwner
<1>10. AddInv' /\ LoopInv' /\ CapacityInv'
  <2>1. adding' = Null /\ target' = Null
    BY <1>1, <1>2
  <2> QED BY <1>1, <1>2, <2>1 DEF IInv, AddInv, LoopInv, CapacityInv, NoShift
<1>11. Placed'
  BY <1>1, <1>2, <1>3, <1>5, <1>6 DEF IInv, Placed, HasTask, Carried, NoShift
<1>12. RoomInv' /\ AskedInv' /\ ShiftInv'
  BY <1>1, <1>2 DEF RoomInv, AskedInv, ShiftInv, Asked, Carried, NoShift
<1>13. Clean => Clean'
  <2>1. Held = m_tasks /\ Held' = m_tasks
    BY <1>1, <1>2 DEF Held
  <2>2. OneBuffer /\ Owned => OneBuffer' /\ Owned'
    BY <1>1, <1>2, <1>6, <2>1 DEF OneBuffer, Owned
  <2>3. OvertakenDead => OvertakenDead'
    BY <1>1, <1>6 DEF OvertakenDead
  <2>4. AddClean' /\ QueueClean'
    BY <1>1, <1>2 DEF AddClean, QueueClean, NoShift
  <2> QED BY <2>2, <2>3, <2>4 DEF Clean
<1> QED BY <1>7, <1>8, <1>9, <1>10, <1>11, <1>12, <1>13 DEF IInv

\* One turn of GetTasks' loop.  While no id leads astray it finds the task that
\* has the id.
LEMMA GetCacheTaskInv ==
    ASSUME IInv, NEW i \in Id, GetCacheTask(i)
    PROVE  IInv' /\ (Clean /\ ~Dangling => Clean')
<1> DEFINE e == [id |-> i, ptr |-> m_idToTaskMap[i], at |-> now]
<1>1. /\ i \in unread /\ pq' = pq \cup {e} /\ unread' = unread \ {i}
      /\ UNCHANGED <<now, m_idSeed, task, m_tasks, m_invalidTasks, overtaken,
                     m_buffers, m_idToTaskMap, adding, target, places, shifting,
                     unchecked, sweep>>
  BY DEF GetCacheTask, sets, store, timer
<1>2. /\ i \in m_buffers[CACHE_BUFFER_INDEX] /\ places # 0 /\ shifting = Null
      /\ adding = Null /\ ~NoShift /\ unread \subseteq m_buffers[CACHE_BUFFER_INDEX]
  BY <1>1 DEF IInv, LoopInv, AddInv, NoShift
<1>3. m_idToTaskMap[i] \in Ptr /\ now \in 0 .. MaxTime /\ e \in Entry
  BY <1>2 DEF IInv, MapInv, TypeOK, Entry
<1>4. \A q \in Ptr : Asked(q)' <=> Asked(q)
  <2>1. e.ptr = m_idToTaskMap[i]
    OBVIOUS
  <2> HIDE DEF e
  <2>2. ASSUME NEW q \in Ptr, Asked(q)
        PROVE  \/ \E f \in pq' : f.ptr = q
               \/ \E j \in unread' : m_idToTaskMap[j] = q
    BY <1>1, <2>1, <2>2 DEF Asked
  <2>3. ASSUME NEW q \in Ptr, \/ \E f \in pq' : f.ptr = q
                             \/ \E j \in unread' : m_idToTaskMap[j] = q
        PROVE  Asked(q)
    BY <1>1, <2>1, <2>3 DEF Asked
  <2> QED BY <1>1, <2>2, <2>3 DEF Asked
<1>5. TypeOK'
  BY <1>1, <1>3 DEF IInv, TypeOK
<1>6. IdsUnique' /\ SingleOwner' /\ ObjectsInv' /\ IdsGiven' /\ MapInv'
  BY <1>1 DEF IInv, IdsUnique, SingleOwner, ObjectsInv, IdsGiven, MapInv, Live, Sane
<1>7. AddInv' /\ LoopInv' /\ Placed' /\ InvalidDead'
  BY <1>1, <1>2 DEF IInv, AddInv, LoopInv, Placed, InvalidDead, HasTask, NoShift,
     Carried
<1>8. RoomInv' /\ AskedInv' /\ CapacityInv'
  <2>1. (\A q \in Ptr : Carried(q)' <=> Carried(q)) /\ m_tasks \subseteq Ptr
    BY <1>1 DEF Carried, IInv, TypeOK
  <2> QED BY <1>1, <1>4, <2>1 DEF IInv, RoomInv, AskedInv, CapacityInv, HasTask
<1>9. ShiftInv'
  <2>1. e.at = now /\ now <= now
    BY <1>3
  <2> QED BY <1>1, <1>2, <2>1 DEF IInv, ShiftInv
<1>10. ASSUME Clean, ~Dangling
       PROVE  Clean'
  <2>1. PICK p \in Ptr : Live(p) /\ task[p].id = i
    BY <1>2, <1>10 DEF Dangling
  <2>2. m_idToTaskMap[i] = p /\ e.ptr = p /\ e.id = i
    BY <1>2, <2>1 DEF IInv, MapInv
  <2>3. p \in m_tasks \cup m_invalidTasks
    <3>1. CASE i \in overtaken
      BY <1>10, <2>1, <3>1 DEF Clean, OvertakenDead
    <3>2. CASE i \notin overtaken
      <4>1. Held = m_tasks
        BY <1>2 DEF Held
      <4>2. PICK q \in m_tasks : task[q].id = i
        BY <1>2, <1>10, <3>2, <4>1, Indices DEF Clean, Owned
      <4>3. q \in Ptr /\ Live(q)
        BY DEF IInv, TypeOK, SingleOwner
      <4> QED BY <2>1, <4>2, <4>3, ObjectFacts DEF IInv
    <3> QED BY <3>1, <3>2
  <2>4. \A f \in pq : f.id # i
    BY <1>1, <1>10 DEF Clean, QueueClean
  <2>5. QueueClean'
    <3> HIDE DEF e
    <3>1. \A f \in pq' : /\ f.ptr \in m_tasks \cup m_invalidTasks
                         /\ task[f.ptr].id = f.id
                         /\ f.id \in m_buffers[CACHE_BUFFER_INDEX] \ unread'
                         /\ \A g \in pq' : g.id = f.id => g = f
      BY <1>1, <1>2, <1>10, <2>1, <2>2, <2>3, <2>4 DEF Clean, QueueClean
    <3> QED BY <1>1, <1>2, <3>1 DEF QueueClean
  <2>6. OneBuffer' /\ Owned' /\ OvertakenDead' /\ AddClean'
    BY <1>1, <1>10 DEF Clean, OneBuffer, Owned, OvertakenDead, AddClean, Held,
       HasTask, Live
  <2> QED BY <2>5, <2>6 DEF Clean
<1> QED BY <1>5, <1>6, <1>7, <1>8, <1>9, <1>10 DEF IInv

\* What ShiftCacheTask does: e leaves the queue, and its task the cache.
LEMMA ShiftFacts ==
    ASSUME IInv, NEW e \in pq, ShiftCacheTask(e)
    PROVE  /\ e \in Entry /\ e.ptr \in Ptr /\ adding = Null /\ unchecked = {}
           /\ unread = {} /\ unread' = {} /\ shifting = Null /\ shifting' = e
           /\ \A f \in pq : ~Sooner(f, e)
           /\ places \in Nat \ {0} /\ places' \in Nat /\ places' < places
           /\ pq' \subseteq pq /\ e \notin pq'
           /\ places' = 0 => pq' = {}
           /\ \A f \in pq \ {e} : f \in pq' \/ pq' = {}
           /\ m_buffers' \in [Buffer -> SUBSET Id]
           /\ \A b \in Buffer : m_buffers'[b] =
                 IF Live(e.ptr) /\ b = CACHE_BUFFER_INDEX
                 THEN m_buffers[b] \ {task[e.ptr].id} ELSE m_buffers[b]
           /\ m_idToTaskMap' \in [Id -> Ptr \cup {Null}]
           /\ \A i \in Id : m_idToTaskMap'[i] =
                 IF Live(e.ptr) /\ i = task[e.ptr].id THEN Null ELSE m_idToTaskMap[i]
           /\ task' \in [Ptr -> TaskRecord \cup {Null}]
           /\ \A q \in Ptr \ {e.ptr} : task'[q] = task[q]
           /\ Live(e.ptr) => /\ task'[e.ptr] \in TaskRecord /\ Sane(task'[e.ptr])
                             /\ task'[e.ptr].id = task[e.ptr].id
                             /\ task'[e.ptr].category = task[e.ptr].category
                             /\ task'[e.ptr].hasValue = task[e.ptr].hasValue
                             /\ task'[e.ptr].life = task[e.ptr].life
                             /\ task'[e.ptr].rate = task[e.ptr].rate
                             /\ task'[e.ptr].factor = 1
                             /\ task'[e.ptr].cacheTime = now
           /\ ~Live(e.ptr) => task'[e.ptr] = Null
<1> DEFINE p == e.ptr
           t == SetCacheTime(task[p], now)
<1>1. /\ e \in Entry /\ p \in Ptr /\ now \in Nat /\ places \in Nat
  BY DEF IInv, TypeOK, Entry
<1>2. /\ unread = {} /\ unread' = {} /\ shifting = Null /\ shifting' = e
      /\ \A f \in pq : ~Sooner(f, e)
  BY DEF ShiftCacheTask
<1>3. places # 0 /\ adding = Null /\ unchecked = {}
  BY DEF IInv, LoopInv, AddInv, NoShift
<1>4. /\ places' = IF places = 1 \/ pq = {e} THEN 0 ELSE places - 1
      /\ pq' = IF places = 1 \/ pq = {e} THEN {} ELSE pq \ {e}
  BY DEF ShiftCacheTask
<1>5. /\ places \in Nat \ {0} /\ places' \in Nat /\ places' < places
      /\ pq' \subseteq pq /\ e \notin pq'
      /\ places' = 0 => pq' = {}
      /\ \A f \in pq \ {e} : f \in pq' \/ pq' = {}
  BY <1>1, <1>3, <1>4
<1>6. CASE Live(p)
  <2>1. /\ task[p] \in TaskRecord /\ task[p].id \in Id /\ Sane(task[p])
    BY <1>1, <1>6, ObjectFacts DEF IInv
  <2>2. /\ task' = [task EXCEPT ![p] = t]
        /\ m_buffers' = [m_buffers EXCEPT ![CACHE_BUFFER_INDEX] = @ \ {t.id}]
        /\ m_idToTaskMap' = [m_idToTaskMap EXCEPT ![t.id] = Null]
    BY <1>6 DEF ShiftCacheTask
  <2>3. /\ t \in TaskRecord /\ t.id = task[p].id /\ t.category = task[p].category
        /\ t.hasValue = task[p].hasValue /\ t.life = task[p].life
        /\ t.rate = task[p].rate /\ t.created = task[p].created
        /\ t.factor = 1 /\ t.cacheTime = now
    BY <1>1, <2>1 DEF SetCacheTime, TaskRecord
  <2> HIDE DEF t
  <2>4. Sane(t)
    BY <1>1, <2>1, <2>3 DEF Sane
  <2>5. /\ task' \in [Ptr -> TaskRecord \cup {Null}] /\ task'[p] = t
        /\ \A q \in Ptr \ {p} : task'[q] = task[q]
    BY <1>1, <2>2, <2>3 DEF IInv, TypeOK
  <2>6. /\ m_buffers' \in [Buffer -> SUBSET Id]
        /\ \A b \in Buffer : m_buffers'[b] =
              IF b = CACHE_BUFFER_INDEX THEN m_buffers[b] \ {task[p].id} ELSE m_buffers[b]
    BY <2>2, <2>3, Indices DEF IInv, TypeOK
  <2>7. /\ m_idToTaskMap' \in [Id -> Ptr \cup {Null}]
        /\ \A i \in Id : m_idToTaskMap'[i] =
              IF i = task[p].id THEN Null ELSE m_idToTaskMap[i]
    BY <2>1, <2>2, <2>3 DEF IInv, TypeOK
  <2> QED BY <1>1, <1>2, <1>3, <1>5, <1>6, <2>3, <2>4, <2>5, <2>6, <2>7
<1>7. CASE ~Live(p)
  <2>1. task' = task /\ m_buffers' = m_buffers /\ m_idToTaskMap' = m_idToTaskMap
    BY <1>7 DEF ShiftCacheTask, store
  <2> QED BY <1>1, <1>2, <1>3, <1>5, <1>7, <2>1 DEF IInv, TypeOK, Live
<1> QED BY <1>6, <1>7

\* A buffer that loses ids loses size.
LEMMA SizesShrink ==
    ASSUME IInv, \A b \in Buffer : m_buffers'[b] \subseteq m_buffers[b]
    PROVE  \A b \in Buffer : /\ Cardinality(m_buffers'[b]) \in Nat
                             /\ Cardinality(m_buffers[b]) \in Nat
                             /\ BUFFER_CAPACITY[b] \in Nat
                             /\ Cardinality(m_buffers'[b]) <= Cardinality(m_buffers[b])
BY FiniteBuffers, FS_Subset, FS_CardinalityType DEF IInv

LEMMA ShiftCacheTaskInv ==
    ASSUME IInv, NEW e \in pq, ShiftCacheTask(e)
    PROVE  IInv'
<1> DEFINE p == e.ptr
<1>1. /\ e \in Entry /\ p \in Ptr /\ adding = Null /\ unchecked = {}
      /\ unread = {} /\ unread' = {} /\ shifting = Null /\ shifting' = e
      /\ places \in Nat \ {0} /\ places' \in Nat /\ places' < places
      /\ pq' \subseteq pq /\ e \notin pq'
      /\ places' = 0 => pq' = {}
      /\ \A f \in pq \ {e} : f \in pq' \/ pq' = {}
  BY ShiftFacts
<1>2. /\ m_buffers' \in [Buffer -> SUBSET Id]
      /\ \A b \in Buffer : m_buffers'[b] =
            IF Live(p) /\ b = CACHE_BUFFER_INDEX
            THEN m_buffers[b] \ {task[p].id} ELSE m_buffers[b]
      /\ m_idToTaskMap' \in [Id -> Ptr \cup {Null}]
      /\ \A i \in Id : m_idToTaskMap'[i] =
            IF Live(p) /\ i = task[p].id THEN Null ELSE m_idToTaskMap[i]
  BY ShiftFacts
<1>3. /\ task' \in [Ptr -> TaskRecord \cup {Null}]
      /\ \A q \in Ptr \ {p} : task'[q] = task[q]
      /\ Live(p) => /\ task'[p] \in TaskRecord /\ Sane(task'[p])
                    /\ task'[p].id = task[p].id
                    /\ task'[p].category = task[p].category
                    /\ task'[p].hasValue = task[p].hasValue
                    /\ task'[p].factor = 1 /\ task'[p].cacheTime = now
      /\ ~Live(p) => task'[p] = Null
  BY ShiftFacts
<1>4. /\ UNCHANGED <<now, m_idSeed, m_tasks, m_invalidTasks, overtaken, adding,
                     target, unchecked, sweep>>
      /\ m_tasks \subseteq Ptr /\ m_invalidTasks \subseteq Ptr
      /\ \A q \in m_tasks \cup m_invalidTasks : Live(q)
      /\ now \in Nat /\ target = Null
  BY <1>1 DEF ShiftCacheTask, sets, timer, IInv, TypeOK, SingleOwner, AddInv
<1>5. /\ \A q \in Ptr : Live(q)' <=> Live(q)
      /\ \A q \in Ptr : Live(q) => /\ task'[q].id = task[q].id
                                   /\ task'[q].category = task[q].category
                                   /\ task'[q].hasValue = task[q].hasValue
                                   /\ task'[q] \in TaskRecord
  <2>1. \A q \in Ptr : Live(q) => task[q] \in TaskRecord
    BY ObjectFacts DEF IInv
  <2> QED BY <1>3, <2>1, Indices DEF Live
<1>6. \A b \in Buffer : m_buffers'[b] \subseteq m_buffers[b]
  BY <1>2
<1>7. \A q \in Ptr : Live(q) /\ Live(p) /\ task[q].id = task[p].id => q = p
  BY <1>1, ObjectFacts DEF IInv
<1> HIDE DEF p
<1>8. TypeOK'
  BY <1>1, <1>2, <1>3, <1>4 DEF IInv, TypeOK
<1>9. IdsUnique' /\ SingleOwner' /\ InvalidDead'
  BY <1>1, <1>4, <1>5 DEF IInv, IdsUnique, SingleOwner, InvalidDead
<1>10. ObjectsInv'
  BY <1>3, <1>4, <1>5 DEF IInv, ObjectsInv, Sane, Live
<1>11. IdsGiven' /\ CapacityInv'
  <2>1. \A i \in Id : m_idToTaskMap'[i] # Null => m_idToTaskMap[i] # Null
    BY <1>2
  <2> QED BY <1>4, <1>6, <2>1, SizesShrink DEF IInv, IdsGiven, CapacityInv
<1>12. MapInv'
  <2>1. \A q \in Ptr : Live(q) => task[q].id \in Id
    BY ObjectFacts DEF IInv
  <2>2. m_buffers[CACHE_BUFFER_INDEX] \subseteq Id
    BY Indices DEF IInv, TypeOK
  <2> QED BY <1>2, <1>5, <2>1, <2>2, Indices DEF IInv, MapInv
<1>13. AddInv' /\ LoopInv'
  BY <1>1, <1>4 DEF AddInv, LoopInv
<1>14. Placed'
  <2> SUFFICES ASSUME NEW q \in m_tasks
               PROVE  /\ task'[q].category \in Category
                      /\ task'[q].hasValue =>
                           \/ \E b \in Buffer : task'[q].id \in m_buffers'[b]
                           \/ p = q
    BY <1>1, <1>4 DEF Placed, HasTask, Carried, p
  <2>1. q \in Ptr /\ Live(q)
    BY <1>4
  <2>2. CASE q # p
    BY <1>1, <1>2, <1>4, <1>5, <1>7, <2>1, <2>2 DEF IInv, Placed, HasTask, Carried
  <2>3. CASE q = p
    BY <1>4, <1>5, <2>1, <2>3 DEF IInv, Placed
  <2> QED BY <2>2, <2>3
<1>15. \A q \in Ptr : Carried(q)' \/ Asked(q)' => Asked(q)
  <2>1. \A q \in Ptr : Carried(q)' => q = p
    BY <1>1 DEF Carried, p
  <2>2. Asked(p)
    BY DEF Asked, p
  <2>3. \A q \in Ptr : Asked(q)' => Asked(q)
    BY <1>1 DEF Asked
  <2> QED BY <2>1, <2>2, <2>3
<1>16. RoomInv'
  <2> SUFFICES ASSUME NEW q \in m_tasks, Asked(q)
               PROVE  Cardinality(m_buffers'[task'[q].category]) + places' + 1
                         <= BUFFER_CAPACITY[task'[q].category]
    BY <1>1, <1>4, <1>15, Indices DEF RoomInv
  <2>1. q \in Ptr /\ Live(q) /\ task'[q].category = task[q].category
    BY <1>4, <1>5
  <2> DEFINE c == task[q].category
  <2>2. c \in Buffer
    BY Indices DEF IInv, Placed
  <2>3. Cardinality(m_buffers[c]) + places + 0 <= BUFFER_CAPACITY[c]
    BY <1>1 DEF IInv, RoomInv
  <2> HIDE DEF c
  <2>4. /\ Cardinality(m_buffers'[c]) \in Nat /\ Cardinality(m_buffers[c]) \in Nat
        /\ BUFFER_CAPACITY[c] \in Nat
        /\ Cardinality(m_buffers'[c]) <= Cardinality(m_buffers[c])
    BY <1>6, <2>2, SizesShrink
  <2>5. Cardinality(m_buffers'[c]) + places' + 1 <= BUFFER_CAPACITY[c]
    BY <1>1, <2>3, <2>4
  <2> QED BY <2>1, <2>5 DEF c
<1>17. AskedInv'
  <2> SUFFICES ASSUME NEW r \in m_tasks, NEW q \in m_tasks, Asked(r)',
                      task'[q].id \in m_buffers'[CACHE_BUFFER_INDEX],
                      task'[q].category = task'[r].category
               PROVE  Asked(q)'
    BY <1>4 DEF AskedInv, HasTask
  <2>1. /\ q \in Ptr /\ Live(q) /\ r \in Ptr /\ Live(r)
        /\ task[q].id \in m_buffers[CACHE_BUFFER_INDEX]
        /\ task[q].category = task[r].category
        /\ Asked(r) /\ pq' # {}
    BY <1>1, <1>4, <1>5, <1>6, <1>15, Indices DEF Asked
  <2>2. Asked(q)
    BY <2>1 DEF IInv, AskedInv, HasTask
  <2>3. PICK f \in pq : f.ptr = q
    BY <1>1, <2>2 DEF Asked
  <2>4. f # e
    BY <1>2, <1>5, <2>1, <2>3, Indices DEF p
  <2> QED BY <1>1, <2>1, <2>3, <2>4 DEF Asked
<1>18. ShiftInv'
  <2>1. e.at <= now /\ e.at \in Nat
    BY DEF IInv, ShiftInv, TypeOK, Entry
  <2> QED BY <1>1, <1>3, <1>4, <1>5, <2>1 DEF IInv, ShiftInv, p
<1> QED
  BY <1>8, <1>9, <1>10, <1>11, <1>12, <1>13, <1>14, <1>16, <1>17, <1>18 DEF IInv

LEMMA ShiftCacheTaskClean ==
    ASSUME IInv, Clean, NEW e \in pq, ShiftCacheTask(e)
    PROVE  Clean'
<1> DEFINE p == e.ptr
<1>1. /\ p \in Ptr /\ adding = Null /\ unread = {} /\ unread' = {}
      /\ shifting' = e /\ pq' \subseteq pq \ {e}
      /\ \A b \in Buffer : m_buffers'[b] =
            IF Live(p) /\ b = CACHE_BUFFER_INDEX
            THEN m_buffers[b] \ {task[p].id} ELSE m_buffers[b]
      /\ \A q \in Ptr \ {p} : task'[q] = task[q]
      /\ Live(p) => /\ task'[p] \in TaskRecord /\ task'[p].id = task[p].id
                    /\ task'[p].category = task[p].category
  BY ShiftFacts
<1>2. /\ UNCHANGED <<m_tasks, m_invalidTasks, overtaken, adding>>
      /\ m_tasks \subseteq Ptr /\ m_invalidTasks \subseteq Ptr
      /\ \A q \in m_tasks \cup m_invalidTasks : Live(q)
  BY DEF ShiftCacheTask, sets, IInv, TypeOK, SingleOwner
<1>3. /\ p \in m_tasks \cup m_invalidTasks /\ Live(p) /\ task[p].id = e.id
      /\ e.id \in m_buffers[CACHE_BUFFER_INDEX]
      /\ \A f \in pq : f.id = e.id => f = e
  BY <1>2 DEF Clean, QueueClean
<1>4. /\ \A q \in Ptr : task'[q].id = task[q].id /\ task'[q].category = task[q].category
      /\ \A q \in Ptr : Live(q)' <=> Live(q)
  BY <1>1, <1>3, Indices DEF Live
<1>5. \A b \in Buffer : e.id \notin m_buffers'[b] /\ m_buffers'[b] \subseteq m_buffers[b]
  <2>1. \A b \in Buffer \ {CACHE_BUFFER_INDEX} :
           m_buffers[b] \cap m_buffers[CACHE_BUFFER_INDEX] = {}
    BY Indices DEF Clean, OneBuffer
  <2>2. \A b \in Buffer \ {CACHE_BUFFER_INDEX} :
           m_buffers'[b] = m_buffers[b] /\ e.id \notin m_buffers[b]
    BY <1>1, <1>3, <2>1
  <2>3. m_buffers'[CACHE_BUFFER_INDEX] = m_buffers[CACHE_BUFFER_INDEX] \ {e.id}
    BY <1>1, <1>3, Indices
  <2> QED BY <2>2, <2>3
<1>6. Held = m_tasks /\ Held' = m_tasks
  BY <1>1, <1>2 DEF Held
<1>7. OneBuffer'
  BY <1>5 DEF Clean, OneBuffer
<1>8. Owned'
  BY <1>2, <1>4, <1>5, <1>6 DEF Clean, Owned
<1>9. OvertakenDead' /\ AddClean'
  BY <1>1, <1>2, <1>4 DEF Clean, OvertakenDead, AddClean
<1>10. QueueClean'
  <2>1. m_buffers'[CACHE_BUFFER_INDEX] = m_buffers[CACHE_BUFFER_INDEX] \ {e.id}
    BY <1>1, <1>3, Indices
  <2>2. \A f \in pq' : /\ f.ptr \in m_tasks \cup m_invalidTasks
                       /\ task'[f.ptr].id = f.id
                       /\ f.id \in m_buffers'[CACHE_BUFFER_INDEX] \ unread'
                       /\ \A g \in pq' : g.id = f.id => g = f
    BY <1>1, <1>2, <1>3, <1>4, <2>1 DEF Clean, QueueClean
  <2>3. \A b \in Buffer : task'[p].id \notin m_buffers'[b]
    BY <1>1, <1>3, <1>4, <1>5
  <2> QED BY <1>1, <1>2, <1>3, <2>2, <2>3 DEF QueueClean, HasTask
<1> QED BY <1>7, <1>8, <1>9, <1>10 DEF Clean

\* What ShiftAdd does: the carried task is asked for its value and, with value,
\* goes to the place kept for it.
LEMMA ShiftAddFacts ==
    ASSUME IInv, ShiftAdd, NEW p \in Ptr, p = shifting.ptr
    PROVE  /\ shifting # Null /\ shifting' = Null /\ adding = Null
           /\ unread = {} /\ ~NoShift /\ unchecked = {} /\ places \in Nat
           /\ ~Live(p) => task' = task /\ m_buffers' = m_buffers
           /\ Live(p) =>
                /\ task[p] \in TaskRecord /\ task[p].id \in Id /\ Sane(task[p])
                /\ task' = [task EXCEPT ![p] = Latched(task[p], now)]
                /\ task'[p] = Latched(task[p], now)
                /\ task'[p] \in TaskRecord /\ Sane(task'[p])
                /\ task'[p].id = task[p].id
                /\ task'[p].category = task[p].category
                /\ task'[p].hasValue = IsValid(task[p], now)
                /\ task'[p].factor = task[p].factor
                /\ task'[p].cacheTime = task[p].cacheTime
                /\ task'[p].hasValue => task[p].hasValue
           /\ m_buffers' \in [Buffer -> SUBSET Id]
           /\ \A b \in Buffer : m_buffers'[b] =
                 IF Live(p) /\ task'[p].hasValue /\ b = task[p].category /\ ~IsFull(b)
                 THEN m_buffers[b] \cup {task[p].id} ELSE m_buffers[b]
<1>1. /\ shifting # Null /\ shifting' = Null /\ ~NoShift
  BY DEF ShiftAdd, NoShift
<1>2. adding = Null /\ unread = {} /\ unchecked = {} /\ places \in Nat /\ now \in Nat
  BY <1>1 DEF IInv, AddInv, LoopInv, TypeOK
<1>3. CASE ~Live(p)
  BY <1>1, <1>2, <1>3 DEF ShiftAdd, IInv, TypeOK
<1>4. CASE Live(p)
  <2> DEFINE t == Latched(task[p], now)
  <2>1. task[p] \in TaskRecord /\ task[p].id \in Id /\ Sane(task[p])
    BY <1>4, ObjectFacts DEF IInv
  <2>2. /\ t \in TaskRecord
        /\ t.id = task[p].id /\ t.category = task[p].category
        /\ t.rate = task[p].rate /\ t.life = task[p].life
        /\ t.created = task[p].created /\ t.cacheTime = task[p].cacheTime
        /\ t.factor = task[p].factor /\ t.hasValue = IsValid(task[p], now)
        /\ t.hasValue => task[p].hasValue
    <3>1. IsValid(task[p], now) => task[p].hasValue
      BY DEF IsValid
    <3> QED BY <1>2, <2>1, <3>1, LatchedFields
  <2>3. Sane(t)
    BY <2>1, <2>2 DEF Sane
  <2>4. /\ task' = [task EXCEPT ![p] = t]
        /\ m_buffers' = [m_buffers EXCEPT ![t.category] =
              @ \cup {i \in {t.id} : t.hasValue /\ ~IsFull(t.category)}]
    BY <1>4 DEF ShiftAdd
  <2>5. task'[p] = t
    BY <2>4 DEF IInv, TypeOK
  <2> HIDE DEF t
  <2>6. /\ m_buffers' \in [Buffer -> SUBSET Id]
        /\ \A b \in Buffer : m_buffers'[b] =
              IF t.hasValue /\ b = t.category /\ ~IsFull(b)
              THEN m_buffers[b] \cup {t.id} ELSE m_buffers[b]
    <3>1. m_buffers \in [Buffer -> SUBSET Id] /\ t.id \in Id
      BY <2>1, <2>2 DEF IInv, TypeOK
    <3> DEFINE new == {i \in {t.id} : t.hasValue /\ ~IsFull(t.category)}
    <3>2. new = IF t.hasValue /\ ~IsFull(t.category) THEN {t.id} ELSE {}
      OBVIOUS
    <3>3. m_buffers' = [m_buffers EXCEPT ![t.category] = @ \cup new]
      BY <2>4
    <3> HIDE DEF new
    <3>4. \A b \in Buffer : m_buffers'[b] =
             IF b = t.category THEN m_buffers[b] \cup new ELSE m_buffers[b]
      BY <3>1, <3>3
    <3>5. m_buffers' = [b \in Buffer |-> m_buffers'[b]]
      BY <3>1, <3>3
    <3>6. \A b \in Buffer : m_buffers'[b] \in SUBSET Id
      <4>1. new \subseteq Id
        BY <3>1, <3>2
      <4> QED BY <3>1, <3>4, <4>1
    <3> QED BY <3>2, <3>4, <3>5, <3>6
  <2> QED BY <1>1, <1>2, <1>4, <2>1, <2>2, <2>3, <2>4, <2>5, <2>6 DEF t
<1> QED BY <1>3, <1>4

LEMMA ShiftAddInv ==
    ASSUME IInv, ShiftAdd
    PROVE  IInv' /\ (Clean => Clean')
<1>0. shifting # Null /\ shifting \in Entry /\ shifting.ptr \in Ptr
  BY DEF ShiftAdd, IInv, TypeOK, Entry
<1> PICK p \in Ptr : p = shifting.ptr
  BY <1>0
<1>1. /\ shifting' = Null /\ adding = Null /\ unread = {} /\ ~NoShift
      /\ unchecked = {} /\ places \in Nat
  BY ShiftAddFacts
<1>2. CASE ~Live(p)
  <2>1. UNCHANGED <<now, m_idSeed, task, m_tasks, m_invalidTasks, overtaken,
                    m_buffers, m_idToTaskMap, adding, target, unread, pq, places,
                    unchecked, sweep>>
    BY <1>2, ShiftAddFacts DEF ShiftAdd, sets, timer
  <2>2. TypeOK' /\ IdsUnique' /\ SingleOwner' /\ ObjectsInv' /\ IdsGiven' /\ MapInv'
    BY <1>1, <2>1 DEF IInv, TypeOK, IdsUnique, SingleOwner, ObjectsInv, IdsGiven,
       MapInv, Live, Sane
  <2>3. AddInv' /\ LoopInv' /\ InvalidDead' /\ CapacityInv' /\ ShiftInv'
    BY <1>1, <2>1 DEF IInv, AddInv, LoopInv, InvalidDead, CapacityInv, ShiftInv
  <2>4. \A q \in m_tasks : ~Carried(q)
    BY <1>2 DEF Carried, IInv, SingleOwner
  <2>5. Placed'
    BY <2>1, <2>4 DEF IInv, Placed, HasTask
  <2>6. RoomInv'
    <3> SUFFICES ASSUME NEW q \in m_tasks, Asked(q)
                 PROVE  Cardinality(m_buffers[task[q].category]) + places + 0
                           <= BUFFER_CAPACITY[task[q].category]
      BY <1>1, <2>1 DEF RoomInv, Carried, Asked
    <3>1. Cardinality(m_buffers[task[q].category]) + places + 1
              <= BUFFER_CAPACITY[task[q].category]
      BY <1>0 DEF IInv, RoomInv
    <3>2. /\ Cardinality(m_buffers[task[q].category]) \in Nat
          /\ BUFFER_CAPACITY[task[q].category] \in Nat
      BY FiniteBuffers, Indices DEF IInv, Placed
    <3> QED BY <1>1, <3>1, <3>2
  <2>7. AskedInv'
    BY <2>1 DEF IInv, AskedInv, Asked, HasTask
  <2>8. Clean => Clean'
    BY <1>1, <2>1 DEF Clean, OneBuffer, Owned, OvertakenDead, AddClean, QueueClean,
       Held, HasTask, Live
  <2> QED BY <2>2, <2>3, <2>5, <2>6, <2>7, <2>8 DEF IInv
<1>3. CASE Live(p)
  <2> DEFINE id  == task[p].id
             idx == task[p].category
  <2>1. /\ id \in Id
        /\ task'[p] \in TaskRecord /\ Sane(task'[p]) /\ task'[p].id = id
        /\ task'[p].category = idx
        /\ task'[p].hasValue => task[p].hasValue
        /\ m_buffers' \in [Buffer -> SUBSET Id]
        /\ \A b \in Buffer : m_buffers'[b] =
              IF task'[p].hasValue /\ b = idx /\ ~IsFull(b)
              THEN m_buffers[b] \cup {id} ELSE m_buffers[b]
    BY <1>3, ShiftAddFacts
  <2>2. /\ task' \in [Ptr -> TaskRecord \cup {Null}]
        /\ \A q \in Ptr \ {p} : task'[q] = task[q]
    <3>1. task' = [task EXCEPT ![p] = task'[p]]
      BY <1>3, ShiftAddFacts
    <3> QED BY <2>1, <3>1 DEF IInv, TypeOK
  <2>3. task'[p].hasValue => idx \in Category
    BY <2>1 DEF Sane
  <2>4. /\ UNCHANGED <<now, m_idSeed, m_tasks, m_invalidTasks, overtaken, adding,
                       m_idToTaskMap, target, unread, pq, places, unchecked, sweep>>
        /\ m_tasks \subseteq Ptr /\ m_invalidTasks \subseteq Ptr
        /\ \A q \in m_tasks \cup m_invalidTasks : Live(q)
        /\ \A q \in Ptr : Live(q) /\ task[q].id = id => q = p
    BY <1>3, ObjectFacts DEF ShiftAdd, sets, timer, IInv, TypeOK, SingleOwner
  <2>5. /\ \A q \in Ptr : Live(q)' <=> Live(q)
        /\ \A q \in Ptr : task'[q].id = task[q].id /\ task'[q].category = task[q].category
    BY <1>3, <2>1, <2>2, Indices DEF Live
  <2>6. /\ m_buffers'[CACHE_BUFFER_INDEX] = m_buffers[CACHE_BUFFER_INDEX]
        /\ \A b \in Buffer : m_buffers[b] \subseteq m_buffers'[b]
                             /\ m_buffers'[b] \subseteq m_buffers[b] \cup {id}
    BY <2>1, <2>3, Indices
  <2>7. \A b \in Buffer : /\ Cardinality(m_buffers'[b]) \in Nat
                          /\ Cardinality(m_buffers[b]) \in Nat
                          /\ BUFFER_CAPACITY[b] \in Nat
                          /\ Cardinality(m_buffers'[b]) <= Cardinality(m_buffers[b]) + 1
                          /\ \/ Cardinality(m_buffers'[b]) <= BUFFER_CAPACITY[b]
                             \/ m_buffers'[b] = m_buffers[b]
    <3> SUFFICES ASSUME NEW b \in Buffer
                 PROVE  /\ Cardinality(m_buffers'[b]) \in Nat
                        /\ Cardinality(m_buffers[b]) \in Nat
                        /\ BUFFER_CAPACITY[b] \in Nat
                        /\ Cardinality(m_buffers'[b]) <= Cardinality(m_buffers[b]) + 1
                        /\ \/ Cardinality(m_buffers'[b]) <= BUFFER_CAPACITY[b]
                           \/ m_buffers'[b] = m_buffers[b]
      OBVIOUS
    <3>1. /\ IsFiniteSet(m_buffers[b]) /\ Cardinality(m_buffers[b]) \in Nat
          /\ BUFFER_CAPACITY[b] \in Nat
      BY FiniteBuffers DEF IInv
    <3> HIDE DEF id, idx
    <3>2. \/ Cardinality(m_buffers[b] \cup {id}) = Cardinality(m_buffers[b]) + 1
          \/ Cardinality(m_buffers[b] \cup {id}) = Cardinality(m_buffers[b])
      BY <3>1, FS_AddElement
    <3>3. \/ m_buffers'[b] = m_buffers[b]
          \/ m_buffers'[b] = m_buffers[b] \cup {id} /\ ~IsFull(b)
      BY <2>1
    <3>4. ~IsFull(b) => Cardinality(m_buffers[b]) < BUFFER_CAPACITY[b]
      BY <3>1 DEF IsFull
    <3>5. CASE m_buffers'[b] = m_buffers[b]
      BY <3>1, <3>5
    <3>6. CASE m_buffers'[b] = m_buffers[b] \cup {id} /\ ~IsFull(b)
      <4> DEFINE m == Cardinality(m_buffers[b])
                 n == Cardinality(m_buffers'[b])
      <4>1. n = m + 1 \/ n = m
        BY <3>2, <3>6
      <4>2. m \in Nat /\ m < BUFFER_CAPACITY[b] /\ BUFFER_CAPACITY[b] \in Nat
        BY <3>1, <3>4, <3>6
      <4> HIDE DEF m, n
      <4>3. n \in Nat /\ n <= m + 1 /\ n <= BUFFER_CAPACITY[b]
        BY <4>1, <4>2
      <4> QED BY <4>2, <4>3 DEF m, n
    <3> QED BY <3>3, <3>5, <3>6
  <2>8. p \in m_tasks => idx \in Category /\ ~IsFull(idx)
    <3> SUFFICES ASSUME p \in m_tasks PROVE idx \in Category /\ ~IsFull(idx)
      OBVIOUS
    <3>1. idx \in Category /\ idx \in Buffer
      BY Indices DEF IInv, Placed
    <3>2. Cardinality(m_buffers[idx]) + places + 1 <= BUFFER_CAPACITY[idx]
      BY <1>0 DEF IInv, RoomInv, Carried
    <3> HIDE DEF idx
    <3>3. Cardinality(m_buffers[idx]) \in Nat /\ BUFFER_CAPACITY[idx] \in Nat
      BY <2>7, <3>1
    <3> QED BY <1>1, <3>1, <3>2, <3>3 DEF IsFull
  <2> HIDE DEF id, idx
  <2>9. TypeOK'
    BY <1>1, <2>1, <2>2, <2>4 DEF IInv, TypeOK
  <2>10. IdsUnique' /\ SingleOwner' /\ InvalidDead'
    <3>1. \A q \in m_invalidTasks : task'[q].hasValue => task[q].hasValue
      BY <2>1, <2>2, <2>4
    <3>2. InvalidDead'
      BY <2>4, <3>1 DEF IInv, InvalidDead
    <3>3. IdsUnique'
      BY <2>4, <2>5 DEF IInv, IdsUnique
    <3>4. adding' = Null
      BY <1>1, <2>4
    <3>5. SingleOwner'
      BY <2>4, <2>5, <3>4 DEF IInv, SingleOwner
    <3> QED BY <3>2, <3>3, <3>5
  <2>11. ObjectsInv'
    BY <2>1, <2>2, <2>4, <2>5 DEF IInv, ObjectsInv, Sane
  <2>12. IdsGiven' /\ CapacityInv'
    <3>1. id <= m_idSeed
      BY <1>3 DEF IInv, IdsUnique, id
    <3> QED BY <2>4, <2>6, <2>7, <3>1 DEF IInv, IdsGiven, CapacityInv
  <2>13. MapInv'
    BY <2>4, <2>5, <2>6 DEF IInv, MapInv
  <2>14. AddInv' /\ LoopInv'
    BY <1>1, <2>4, <2>6 DEF IInv, AddInv, LoopInv
  <2>15. Placed'
    <3> SUFFICES ASSUME NEW q \in m_tasks
                 PROVE  /\ task'[q].category \in Category
                        /\ task'[q].hasValue => \E b \in Buffer : task'[q].id \in m_buffers'[b]
      BY <2>4 DEF Placed, HasTask
    <3>1. task[q].category \in Category /\ q \in Ptr
      BY <2>4 DEF IInv, Placed
    <3>2. CASE q # p
      BY <2>2, <2>4, <2>5, <2>6, <3>1, <3>2 DEF IInv, Placed, HasTask, Carried
    <3>3. CASE q = p
      BY <2>1, <2>5, <2>8, <3>1, <3>3, Indices
    <3> QED BY <3>2, <3>3
  <2>16. RoomInv'
    <3> SUFFICES ASSUME NEW q \in m_tasks, Asked(q)
                 PROVE  Cardinality(m_buffers'[task'[q].category]) + places + 0
                           <= BUFFER_CAPACITY[task'[q].category]
      BY <1>1, <2>4 DEF RoomInv, Carried, Asked
    <3> DEFINE c == task[q].category
    <3>1. task'[q].category = c /\ c \in Buffer
      BY <2>4, <2>5, Indices DEF IInv, Placed
    <3>2. Cardinality(m_buffers[c]) + places + 1 <= BUFFER_CAPACITY[c]
      BY <1>0 DEF IInv, RoomInv
    <3> HIDE DEF c
    <3>3. Cardinality(m_buffers'[c]) + places + 0 <= BUFFER_CAPACITY[c]
      BY <1>1, <2>7, <3>1, <3>2
    <3> QED BY <3>1, <3>3
  <2>17. AskedInv'
    <3>1. \A q \in m_tasks : Asked(q)' <=> Asked(q)
      BY <2>4 DEF Asked
    <3> QED BY <2>4, <2>5, <2>6, <3>1 DEF IInv, AskedInv, HasTask
  <2>18. ShiftInv'
    BY <1>1, <2>4 DEF IInv, ShiftInv
  <2>19. ASSUME Clean
         PROVE  Clean'
    <3>1. \A b \in Buffer : id \notin m_buffers[b]
      BY <1>0, <2>19 DEF Clean, QueueClean, HasTask, id
    <3>2. task'[p].hasValue => p \in m_tasks
      BY <1>0, <2>1, <2>19 DEF Clean, QueueClean, IInv, InvalidDead
    <3>3. Held = m_tasks /\ Held' = m_tasks
      BY <1>1, <2>4 DEF Held
    <3>4. OneBuffer'
      BY <2>1, <2>19, <3>1 DEF Clean, OneBuffer
    <3>5. Owned'
      <4> SUFFICES ASSUME NEW b \in Buffer, NEW i \in m_buffers'[b] \ overtaken
                   PROVE  \E q \in m_tasks :
                             /\ task'[q].id = i
                             /\ b \in {task'[q].category, CACHE_BUFFER_INDEX}
        BY <2>4, <3>3 DEF Owned
      <4>1. CASE i \in m_buffers[b]
        BY <2>4, <2>5, <2>19, <3>3, <4>1 DEF Clean, Owned
      <4>2. CASE i \notin m_buffers[b]
        BY <2>1, <3>2, <4>2
      <4> QED BY <4>1, <4>2
    <3>6. OvertakenDead' /\ AddClean'
      BY <1>1, <2>4, <2>5, <2>19 DEF Clean, OvertakenDead, AddClean
    <3>7. QueueClean'
      <4>1. \A f \in pq : f.ptr \in Ptr
        BY DEF IInv, TypeOK, Entry
      <4> QED BY <1>1, <2>4, <2>5, <2>6, <2>19, <4>1 DEF Clean, QueueClean
    <3> QED BY <3>4, <3>5, <3>6, <3>7 DEF Clean
  <2> QED
    BY <2>9, <2>10, <2>11, <2>12, <2>13, <2>14, <2>15, <2>16, <2>17, <2>18, <2>19
       DEF IInv
<1> QED BY <1>2, <1>3

-----------------------------------------------------------------------------
\* An id on the cache that no task has stays there: what leaves the cache is the
\* id of a live task, and a new task has a new id.
LEMMA StaysDangling ==
    ASSUME IInv, Dangling,
           \A i \in m_buffers[CACHE_BUFFER_INDEX] \ m_buffers'[CACHE_BUFFER_INDEX] :
               \E p \in Ptr : Live(p) /\ task[p].id = i,
           \A q \in Ptr : Live(q)' => \/ Live(q) /\ task'[q].id = task[q].id
                                      \/ task'[q].id > m_idSeed
    PROVE  Dangling'
<1>1. PICK i \in m_buffers[CACHE_BUFFER_INDEX] :
              \A p \in Ptr : Live(p) => task[p].id # i
  BY DEF Dangling
<1>2. i \in m_buffers'[CACHE_BUFFER_INDEX]
  BY <1>1
<1>3. i <= m_idSeed /\ i \in Nat /\ m_idSeed \in Nat
  BY Indices DEF IInv, IdsGiven, TypeOK, Id
<1>4. \A p \in Ptr : Live(p)' => task'[p].id # i
  BY <1>1, <1>3
<1> QED BY <1>2, <1>4 DEF Dangling

LEMMA DeleteDangling ==
    ASSUME IInv, Dangling, NEW p \in Ptr, Delete(p), DeleteFrame(p)
    PROVE  Dangling'
<1>1. CASE p \in m_tasks /\ Invalidate(p)
  <2>1. /\ Live(p) /\ m_buffers[CACHE_BUFFER_INDEX] \ {task[p].id}
                         \subseteq m_buffers'[CACHE_BUFFER_INDEX]
        /\ task'[p].id = task[p].id
        /\ \A q \in Ptr \ {p} : task'[q] = task[q]
    BY <1>1, InvalidateFacts, Indices
  <2> QED BY <2>1, StaysDangling DEF Live
<1>2. CASE p \notin m_tasks /\ p \in m_invalidTasks /\ Free(p)
  <2>1. /\ m_buffers' = m_buffers /\ task'[p] = Null
        /\ \A q \in Ptr \ {p} : task'[q] = task[q]
    BY <1>2 DEF Free, store, IInv, TypeOK
  <2> QED BY <2>1, StaysDangling DEF Live
<1>3. CASE UNCHANGED <<task, sets, store, shift>>
  BY <1>3, StaysDangling DEF store, Live
<1> QED BY <1>1, <1>2, <1>3 DEF Delete

LEMMA NextInv ==
    ASSUME Inv, Next
    PROVE  Inv'
<1> USE DEF Inv
<1>1. ASSUME NEW p \in Ptr, NEW m \in Message, New(p, m)
      PROVE  Inv'
  <2>1. IInv' /\ (Clean => Clean')
    BY <1>1, NewInv, NewClean
  <2>2. Dangling => Dangling'
    <3>1. /\ ~Live(p) /\ m_buffers' = m_buffers /\ m_idSeed \in Nat
          /\ task'[p].id = m_idSeed + 1
          /\ \A q \in Ptr \ {p} : task'[q] = task[q]
      BY <1>1 DEF New, store, NewTask, IInv, TypeOK
    <3>2. m_idSeed + 1 > m_idSeed
      BY <3>1
    <3> QED BY <3>1, <3>2, StaysDangling DEF Live
  <2> QED BY <2>1, <2>2
<1>2. ASSUME NEW p \in Ptr, AddCheck(p)
      PROVE  Inv'
  <2>1. IInv' /\ (Clean => Clean')
    BY <1>2, AddCheckInv, AddCheckClean
  <2>2. Dangling => Dangling'
    <3>1. /\ Live(p) /\ m_buffers' = m_buffers /\ task'[p].id = task[p].id
          /\ \A q \in Ptr \ {p} : task'[q] = task[q]
      <4>1. /\ Live(p) /\ task'[p].id = task[p].id
            /\ task' = [task EXCEPT ![p] = task'[p]]
        BY <1>2, AddCheckFacts
      <4> QED BY <1>2, <4>1 DEF AddCheck, store, IInv, TypeOK
    <3> QED BY <3>1, StaysDangling DEF Live
  <2> QED BY <2>1, <2>2
<1>3. ASSUME NEW p \in Ptr, Deliver(p)
      PROVE  Inv'
  <2>1. DeleteFrame(p) /\ Delete(p)
    BY <1>3 DEF Deliver, Unlocked, DeleteFrame, IInv, AddInv, LoopInv, NoShift, timer
  <2> QED BY <2>1, DeleteInv, DeleteDangling
<1>4. ASSUME DeleteInvalidTask
      PROVE  Inv'
  <2>1. Dangling => Dangling'
    BY <1>4 DEF DeleteInvalidTask, store, Dangling, Live
  <2> QED BY <1>4, <2>1, DeleteInvalidTaskInv
<1>5. ASSUME AddPlace
      PROVE  Inv'
  <2>1. IInv' /\ (Clean => Clean')
    BY <1>5, AddPlaceInv, AddPlaceClean
  <2>2. Dangling => Dangling'
    <3>1. /\ task' = [task EXCEPT ![adding] = Latched(task[adding], now)]
          /\ \A b \in Buffer : m_buffers[b] \subseteq m_buffers'[b]
      BY <1>5, AddPlaceFacts
    <3>2. /\ adding \in Ptr /\ Live(adding)
          /\ Latched(task[adding], now).id = task[adding].id
      BY <1>5, AddingFacts DEF AddPlace
    <3>3. \A q \in Ptr : task'[q] = task[q] \/ (Live(q) /\ task'[q].id = task[q].id)
      BY <3>1, <3>2 DEF IInv, TypeOK
    <3> QED BY <3>1, <3>3, StaysDangling, Indices DEF Live
  <2> QED BY <2>1, <2>2
<1>6. ASSUME AddRecord
      PROVE  Inv'
  <2>1. IInv' /\ (Clean => Clean')
    BY <1>6, AddRecordInv, AddRecordClean
  <2>2. Dangling => Dangling'
    <3>1. /\ task' = [task EXCEPT ![adding] = Latched(task[adding], now)]
          /\ m_buffers' = m_buffers
      BY <1>6 DEF AddRecord, store
    <3>2. /\ adding \in Ptr /\ Live(adding)
          /\ Latched(task[adding], now).id = task[adding].id
      BY <1>6, AddingFacts DEF AddRecord
    <3>3. \A q \in Ptr : task'[q] = task[q] \/ (Live(q) /\ task'[q].id = task[q].id)
      BY <3>1, <3>2 DEF IInv, TypeOK
    <3> QED BY <3>1, <3>3, StaysDangling DEF Live
  <2> QED BY <2>1, <2>2
<1>7. ASSUME NEW i \in Id, GetCacheTask(i)
      PROVE  Inv'
  <2>1. Dangling => Dangling'
    BY <1>7 DEF GetCacheTask, store, Dangling, Live
  <2> QED BY <1>7, <2>1, GetCacheTaskInv
<1>8. ASSUME NEW e \in pq, ShiftCacheTask(e)
      PROVE  Inv'
  <2>1. IInv' /\ (Clean => Clean')
    BY <1>8, ShiftCacheTaskInv, ShiftCacheTaskClean
  <2>2. Dangling => Dangling'
    <3> DEFINE p == e.ptr
    <3>1. /\ p \in Ptr
          /\ Live(p) => /\ task'[p].id = task[p].id
                        /\ m_buffers[CACHE_BUFFER_INDEX] \ {task[p].id}
                              \subseteq m_buffers'[CACHE_BUFFER_INDEX]
          /\ ~Live(p) => task'[p] = Null /\ m_buffers[CACHE_BUFFER_INDEX]
                                              \subseteq m_buffers'[CACHE_BUFFER_INDEX]
          /\ \A q \in Ptr \ {p} : task'[q] = task[q]
      BY <1>8, ShiftFacts, Indices
    <3> HIDE DEF p
    <3>2. \A q \in Ptr : Live(q)' => Live(q) /\ task'[q].id = task[q].id
      BY <3>1 DEF Live
    <3>3. \A i \in m_buffers[CACHE_BUFFER_INDEX] \ m_buffers'[CACHE_BUFFER_INDEX] :
             \E q \in Ptr : Live(q) /\ task[q].id = i
      BY <3>1
    <3> QED BY <3>2, <3>3, StaysDangling
  <2> QED BY <2>1, <2>2
<1>9. ASSUME ShiftAdd
      PROVE  Inv'
  <2>1. IInv' /\ (Clean => Clean')
    BY <1>9, ShiftAddInv
  <2>2. Dangling => Dangling'
    <3>1. shifting.ptr \in Ptr
      BY <1>9 DEF ShiftAdd, IInv, TypeOK, Entry
    <3>2. PICK p \in Ptr : p = shifting.ptr
      BY <3>1
    <3>3. /\ ~Live(p) => task' = task
          /\ Live(p) => /\ task' = [task EXCEPT ![p] = task'[p]]
                        /\ task'[p].id = task[p].id
          /\ \A b \in Buffer : m_buffers[b] \subseteq m_buffers'[b]
      BY <1>9, <3>2, ShiftAddFacts
    <3>4. \A q \in Ptr : task'[q] = task[q] \/ (Live(q) /\ task'[q].id = task[q].id)
      BY <3>3 DEF IInv, TypeOK
    <3> QED BY <3>3, <3>4, StaysDangling, Indices DEF Live
  <2> QED BY <2>1, <2>2
<1>10. ASSUME NEW p \in Ptr, CheckTask(p)
       PROVE  Inv'
  <2>1. IInv' /\ (Clean => Clean')
    BY <1>10, CheckTaskInv
  <2>2. Dangling => Dangling'
    <3>1. Live(p) /\ task[p] \in TaskRecord /\ now \in Nat
      BY <1>10, ObjectFacts DEF CheckTask, IInv, SingleOwner, TypeOK
    <3>2. /\ task' = [task EXCEPT ![p] = Latched(task[p], now)]
          /\ m_buffers' = m_buffers /\ Latched(task[p], now).id = task[p].id
      BY <1>10, <3>1, LatchedFields DEF CheckTask, store
    <3>3. \A q \in Ptr : task'[q] = task[q] \/ (Live(q) /\ task'[q].id = task[q].id)
      BY <3>1, <3>2 DEF IInv, TypeOK
    <3> QED BY <3>2, <3>3, StaysDangling DEF Live
  <2> QED BY <2>1, <2>2
<1>11. ASSUME NEW p \in Ptr, DeleteSwept(p)
       PROVE  Inv'
  <2>1. adding = Null
    BY <1>11 DEF DeleteSwept, IInv, AddInv
  <2>2. DeleteFrame(p) /\ Delete(p)
    BY <1>11, <2>1 DEF DeleteSwept, DeleteFrame, IInv, AddInv, LoopInv, NoShift
  <2> QED BY <2>2, DeleteInv, DeleteDangling
<1>12. ASSUME Tick
       PROVE  Inv'
  <2>1. Dangling => Dangling'
    BY <1>12 DEF Tick, store, Dangling, Live
  <2> QED BY <1>12, <2>1, TickInv, TickClean
<1> QED
  BY <1>1, <1>2, <1>3, <1>4, <1>5, <1>6, <1>7, <1>8, <1>9, <1>10, <1>11, <1>12
     DEF Next, Locked

LEMMA StepInv ==
    ASSUME Inv, [Next]_vars
    PROVE  Inv'
<1>1. CASE UNCHANGED vars
  <2> USE <1>1 DEF vars, sets, store, frame, shift, timer
  <2>1. TypeOK' /\ IdsUnique' /\ SingleOwner' /\ ObjectsInv' /\ IdsGiven' /\ MapInv'
    BY DEF Inv, IInv, TypeOK, IdsUnique, SingleOwner, ObjectsInv, IdsGiven, MapInv,
       Live, Sane
  <2>2. AddInv' /\ LoopInv' /\ Placed' /\ InvalidDead'
    BY DEF Inv, IInv, AddInv, LoopInv, Placed, InvalidDead, HasTask, NoShift, Carried,
       IsFull
  <2>3. RoomInv' /\ AskedInv' /\ ShiftInv' /\ CapacityInv'
    BY DEF Inv, IInv, RoomInv, AskedInv, ShiftInv, CapacityInv, Asked, Carried,
       HasTask, Live
  <2>4. (Clean => Clean') /\ (Dangling => Dangling')
    BY DEF Clean, OneBuffer, Owned, OvertakenDead, AddClean, QueueClean, Held,
       HasTask, Live, Dangling
  <2> QED BY <2>1, <2>2, <2>3, <2>4 DEF Inv, IInv
<1> QED BY <1>1, NextInv

\* The inductive invariant of process.cc: every handler keeps it between any two
\* of its questions to the clock.
THEOREM Inductive == Spec => []Inv
<1>1. Init => Inv
  BY InitInv, InitClean DEF Inv
<1>2. Inv /\ [Next]_vars => Inv'
  BY StepInv
<1> QED BY <1>1, <1>2, PTL DEF Spec

\* Every reachable state is well typed, through all handlers of process.cc.
THEOREM TypeCorrect == Spec => []TypeOK
<1>1. Inv => TypeOK
  BY DEF Inv, IInv
<1> QED BY <1>1, Inductive, PTL

\* A task known to the process is alive and in exactly one of m_tasks and
\* m_invalidTasks: Delete, DeleteInvalidTask and ~Process never free it twice.
THEOREM OwnedOnce == Spec => [](IdsUnique /\ SingleOwner)
<1>1. Inv => IdsUnique /\ SingleOwner
  BY DEF Inv, IInv
<1> QED BY <1>1, Inductive, PTL

\* However the clock runs, what is on a buffer is a task the process holds, on
\* that buffer only and found there through the cache's map, except for an id
\* whose Add the clock overtook, until such a task has been freed from the cache.
THEOREM BuffersFollowTasks == Spec => []BuffersHoldTasks
<1>1. ASSUME Inv PROVE BuffersHoldTasks
  <2> SUFFICES ASSUME ~Dangling, NEW b \in Buffer, NEW i \in m_buffers[b] \ overtaken
               PROVE  \E p \in Held :
                         /\ task[p].id = i
                         /\ \/ b = task[p].category
                            \/ b = CACHE_BUFFER_INDEX /\ m_idToTaskMap[i] = p
                         /\ BuffersOf(p) = {b}
    BY DEF BuffersHoldTasks
  <2>1. Clean /\ IInv
    BY <1>1 DEF Inv
  <2>2. PICK p \in Held : task[p].id = i /\ b \in {task[p].category, CACHE_BUFFER_INDEX}
    BY <2>1 DEF Clean, Owned
  <2>3. \A c \in Buffer : HasTask(c, p) <=> c = b
    BY <2>1, <2>2 DEF Clean, OneBuffer, HasTask
  <2>4. BuffersOf(p) = {b}
    BY <2>3 DEF BuffersOf
  <2>5. p \in Ptr /\ Live(p)
    BY <2>1, <2>2 DEF IInv, SingleOwner, Held, TypeOK
  <2>6. b = CACHE_BUFFER_INDEX => m_idToTaskMap[i] = p
    BY <2>1, <2>2, <2>5 DEF IInv, MapInv
  <2> QED BY <2>2, <2>4, <2>6
<1>2. Inv => BuffersHoldTasks
  BY <1>1
<1> QED BY <1>2, Inductive, PTL

\* A recorded task whose value is not known to be gone is on a buffer, or on its
\* way to its own, however Add, Delete and DeleteInvalidTask are overtaken by the
\* clock and whatever the cache mistakes for a task.
THEOREM NoValuableTaskLost == Spec => []ValuableIsPlaced
<1>1. ASSUME IInv PROVE ValuableIsPlaced
  BY <1>1 DEF IInv, Placed, ValuableIsPlaced, BuffersOf, HasTask
<1>2. Inv => ValuableIsPlaced
  BY <1>1 DEF Inv
<1> QED BY <1>2, Inductive, PTL

\* What m_invalidTasks holds is dead and, unless the clock overtook its Add, on
\* no buffer: `delete' in Process::Delete leaves no id behind but such a task's.
THEOREM FreedWithoutTrace == Spec => []InvalidIsGone
<1>1. ASSUME Inv PROVE InvalidIsGone
  <2>1. IInv
    BY <1>1 DEF Inv
  <2> SUFFICES ASSUME NEW p \in m_invalidTasks, NEW b \in Buffer, HasTask(b, p),
                      ~Dangling, task[p].id \notin overtaken
               PROVE  FALSE
    BY <2>1 DEF InvalidIsGone, BuffersOf, IInv, InvalidDead
  <2>2. Clean
    BY <1>1 DEF Inv
  <2>3. PICK q \in Held : task[q].id = task[p].id
    BY <2>2 DEF Clean, Owned, HasTask
  <2>4. q \in Ptr /\ p \in Ptr /\ Live(p) /\ Live(q) /\ p # q
    BY <2>1, <2>3 DEF IInv, SingleOwner, Held, TypeOK
  <2> QED BY <2>1, <2>3, <2>4 DEF IInv, IdsUnique
<1>2. Inv => InvalidIsGone
  BY <1>1
<1> QED BY <1>2, Inductive, PTL

\* No buffer of the process ever exceeds its capacity, and every task that a
\* running Delete is about to shift has its place there: Buffer::Add never
\* refuses one for lack of room.
THEOREM CapacityKept == Spec => []WithinCapacity
<1>1. ASSUME IInv PROVE WithinCapacity
  BY <1>1 DEF IInv, WithinCapacity, CapacityInv, RoomInv, Asked
<1>2. Inv => WithinCapacity
  BY <1>1 DEF Inv
<1> QED BY <1>2, Inductive, PTL
-----------------------------------------------------------------------------
(* What leaves the cache.                                                  *)

\* Only ShiftCacheTask takes an entry in hand, and only ShiftAdd puts it down.
LEMMA OnlyShiftTakes ==
    ASSUME IInv, [Next]_vars, NEW e \in pq, shifting = Null, shifting' = e
    PROVE  ShiftCacheTask(e)
<1>1. e \in Entry /\ e # Null
  BY Indices DEF IInv, TypeOK
<1>2. \A f \in pq : ShiftCacheTask(f) => f = e
  BY DEF ShiftCacheTask
<1>3. \A p \in Ptr : Delete(p) => shifting' = shifting
  BY DEF Delete, Invalidate, Free, shift
<1> QED BY <1>1, <1>2, <1>3 DEF Next, Locked, New, AddCheck, AddPlace, AddRecord,
        Deliver, DeleteSwept, DeleteInvalidTask, CheckTask, GetCacheTask, ShiftAdd,
        Tick, vars, frame, shift

LEMMA OnlyShiftAddEnds ==
    ASSUME IInv, [Next]_vars, shifting # Null, shifting' = Null
    PROVE  ShiftAdd
<1>1. \A e \in pq : ~ShiftCacheTask(e)
  BY DEF ShiftCacheTask
<1>2. \A p \in Ptr : Delete(p) => shifting' = shifting \/ shifting = Null
  BY DEF Delete, Invalidate, Free, shift
<1> QED BY <1>1, <1>2 DEF Next, Locked, New, AddCheck, AddPlace, AddRecord,
        Deliver, DeleteSwept, DeleteInvalidTask, CheckTask, GetCacheTask,
        Tick, vars, frame, shift

\* A task that leaves the cache for its own buffer leaves none of its category
\* behind that was not asked, or that answered with less time left.
THEOREM MostUrgentLeaves == Spec => UrgentFirst
<1>1. Inv /\ [Next]_vars =>
        [\A e \in pq : shifting = Null /\ shifting' = e /\ e.ptr \in m_tasks =>
            \A q \in m_tasks :
                /\ HasTask(CACHE_BUFFER_INDEX, q)'
                /\ task[q].category = task[e.ptr].category
                => \E f \in pq :
                      f.ptr = q /\ ~LeftAgeLess(task[q], f.at, task[e.ptr], e.at)]_vars
  <2> SUFFICES ASSUME IInv, [Next]_vars, NEW e \in pq,
                      shifting = Null, shifting' = e, e.ptr \in m_tasks,
                      NEW q \in m_tasks, HasTask(CACHE_BUFFER_INDEX, q)',
                      task[q].category = task[e.ptr].category
               PROVE  \E f \in pq :
                         f.ptr = q /\ ~LeftAgeLess(task[q], f.at, task[e.ptr], e.at)
    BY DEF Inv
  <2>1. ShiftCacheTask(e)
    BY OnlyShiftTakes
  <2>2. /\ unread = {} /\ \A f \in pq : ~Sooner(f, e)
        /\ m_buffers'[CACHE_BUFFER_INDEX] \subseteq m_buffers[CACHE_BUFFER_INDEX]
        /\ \A r \in Ptr \ {e.ptr} : task'[r] = task[r]
        /\ Live(e.ptr) => task'[e.ptr].id = task[e.ptr].id
    BY <2>1, ShiftFacts, Indices
  <2>3. Live(q) /\ Live(e.ptr) /\ q \in Ptr
    BY DEF IInv, SingleOwner, TypeOK
  <2>4. HasTask(CACHE_BUFFER_INDEX, q)
    <3>1. task'[q].id = task[q].id
      BY <2>2, <2>3
    <3> QED BY <2>2, <3>1 DEF HasTask
  <2>5. Asked(q)
    <3>1. Asked(e.ptr)
      BY DEF Asked
    <3> QED BY <2>4, <3>1 DEF IInv, AskedInv
  <2>6. PICK f \in pq : f.ptr = q
    BY <2>2, <2>5 DEF Asked
  <2>7. ~LeftAgeLess(task[q], f.at, task[e.ptr], e.at)
    BY <2>2, <2>3, <2>6 DEF Sooner
  <2> QED BY <2>6, <2>7
<1> QED BY <1>1, Inductive, PTL DEF Spec, UrgentFirst

\* The value of a task off the cache, and the time left it was ranked by.
LEMMA ValueOffCache ==
    ASSUME NEW t \in TaskRecord, NEW n \in Nat, NEW k \in Nat,
           t.hasValue, t.life > 0, t.rate > 0, t.factor = 1,
           k <= t.cacheTime, t.cacheTime <= n
    PROVE  IF IsValid(t, n) THEN t.life > (1 + 2 * t.rate) * GetAge(t, k)
                            ELSE t.life <= (1 + 2 * t.rate) * GetAge(t, n)
<1> DEFINE r == t.rate
           l == t.life
           a == GetAge(t, n)
           c == GetCacheAge(t)
           s == GetAge(t, k)
<1>1. /\ r \in Int /\ r > 0 /\ l \in Int /\ a \in Int /\ c \in Int /\ s \in Int
      /\ s <= c /\ c <= a
  BY DEF TaskRecord, GetAge, GetCacheAge
<1>2. GetValue(t, n) = (l - a) - r * (2 - 1) * (a - c) - r * 2 * c
  <2>1. ~(t.life <= 0)
    BY <1>1
  <2> QED BY <2>1 DEF GetValue
<1>3. IsValid(t, n) <=> GetValue(t, n) > 0
  BY DEF IsValid, TaskRecord
<1> HIDE DEF r, l, a, c, s
<1>4. /\ r * (2 - 1) * (a - c) = r * a - r * c
      /\ r * 2 * c = r * c + r * c
      /\ (1 + 2 * r) * s = s + (r * s + r * s)
      /\ (1 + 2 * r) * a = a + (r * a + r * a)
      /\ r * a \in Int /\ r * c \in Int /\ r * s \in Int
  BY <1>1
<1>5. r * s <= r * c /\ r * c <= r * a
  <2>1. r * (c - s) >= 0 /\ r * (a - c) >= 0
    BY <1>1
  <2>2. r * (c - s) = r * c - r * s /\ r * (a - c) = r * a - r * c
    BY <1>1
  <2> QED BY <1>4, <2>1, <2>2
<1>6. GetValue(t, n) = l - a - r * a - r * c
  BY <1>1, <1>2, <1>4
<1>7. IsValid(t, n) => l > (1 + 2 * r) * s
  BY <1>1, <1>3, <1>4, <1>5, <1>6
<1>8. ~IsValid(t, n) => l <= (1 + 2 * r) * a
  BY <1>1, <1>3, <1>4, <1>5, <1>6
<1> QED BY <1>7, <1>8 DEF l, r, a, s

\* The strategy's time left decides what a shift keeps, up to the seconds that
\* pass between GetAge in GetTasks and IsValid in Buffer::Add.
THEOREM ShiftKeepsWhatLasts == Spec => LeftAgeBrackets
<1>1. Inv /\ [Next]_vars =>
        [shifting # Null /\ shifting' = Null =>
            LET p == shifting.ptr
                t == task[p]
            IN  Live(p) /\ t.hasValue =>
                  IF task'[p].hasValue
                  THEN t.life > (1 + 2 * t.rate) * GetAge(t, shifting.at)
                  ELSE t.life <= (1 + 2 * t.rate) * GetAge(t, now)]_vars
  <2> SUFFICES ASSUME IInv, [Next]_vars, shifting # Null, shifting' = Null,
                      NEW p, p = shifting.ptr, Live(p), task[p].hasValue
               PROVE  IF task'[p].hasValue
                      THEN task[p].life > (1 + 2 * task[p].rate)
                                             * GetAge(task[p], shifting.at)
                      ELSE task[p].life <= (1 + 2 * task[p].rate) * GetAge(task[p], now)
    BY DEF Inv
  <2>1. ShiftAdd
    BY OnlyShiftAddEnds
  <2>2. p \in Ptr /\ shifting.at \in Nat /\ now \in Nat
    BY DEF IInv, TypeOK, Entry
  <2>3. task[p] \in TaskRecord /\ Sane(task[p]) /\ task'[p].hasValue = IsValid(task[p], now)
    BY <2>1, <2>2, ShiftAddFacts
  <2>4. /\ task[p].factor = 1 /\ shifting.at <= task[p].cacheTime
        /\ task[p].cacheTime <= now /\ task[p].life > 0 /\ task[p].rate > 0
    BY <2>3 DEF IInv, ShiftInv, Sane
  <2> QED BY <2>2, <2>3, <2>4, ValueOffCache
<1> QED BY <1>1, Inductive, PTL DEF Spec, LeftAgeBrackets

-----------------------------------------------------------------------------
(* No room is wasted.                                                      *)

\* NothingExpiredYet of the messages that can have a value.
Unspent == \A m \in Message : m.rate > 0 => (1 + 2 * m.rate) * now < m.life

OriginInv ==
    \A p \in Ptr : Live(p) =>
        \E m \in Message : task[p].life = m.life /\ task[p].rate = m.rate

\* Add goes to the cache only when the task's own buffer is full.
CacheLastInv ==
    target = CACHE_BUFFER_INDEX => IsFull(task[adding].category)

\* The tasks a running Delete has to do with.
Waiting == {p \in Ptr : Asked(p) \/ Carried(p)}

\* A task waits on the cache only for a buffer that is full, or will be when the
\* tasks it has places for have come.
PlaceInv ==
    \A b \in Category : Found(b) # {} =>
        IF \E p \in Waiting : task[p].category = b
        THEN Cardinality(m_buffers[b]) + places
                + (IF shifting = Null THEN 0 ELSE 1) >= BUFFER_CAPACITY[b]
        ELSE IsFull(b)

Shifting ==
    /\ places # 0 => pq # {} \/ unread # {}
    /\ shifting # Null => shifting.ptr \in m_tasks
    /\ \A p, q \in Waiting : task[p].category = task[q].category

\* What holds while no task can have run out of value.
Calm ==
    /\ overtaken = {} /\ Clean
    /\ \A p \in m_tasks : task[p].hasValue
    /\ Shifting /\ PlaceInv

WorkInv == OriginInv /\ CacheLastInv /\ (Unspent => Calm)
-----------------------------------------------------------------------------
LEMMA UnspentBefore ==
    ASSUME IInv, now' \in {now, now + 1}, Unspent'
    PROVE  Unspent
<1> SUFFICES ASSUME NEW m \in Message, m.rate > 0
             PROVE  (1 + 2 * m.rate) * now < m.life
  BY DEF Unspent
<1>1. m.rate \in Int /\ m.life \in Int /\ now \in Nat
  BY DEF IInv, TypeOK
<1>2. (1 + 2 * m.rate) * now' < m.life
  BY DEF Unspent
<1> DEFINE d == 1 + 2 * m.rate
<1>3. d \in Int /\ d > 0
  BY <1>1
<1> HIDE DEF d
<1>4. d * (now + 1) = d * now + d /\ d * now \in Int
  BY <1>1, <1>3
<1> QED BY <1>1, <1>2, <1>3, <1>4 DEF d

\* Before its time is up a task that had a value has one, on the cache or not.
LEMMA ValuableWhileUnspent ==
    ASSUME IInv, OriginInv, Unspent, NEW p \in Ptr, Live(p), task[p].hasValue
    PROVE  IsValid(task[p], now)
<1> DEFINE t    == task[p]
           age  == now - t.created
           wait == t.cacheTime - t.created
           r    == t.rate
<1>1. t \in TaskRecord /\ Sane(t) /\ now \in Nat
  BY ObjectFacts DEF IInv, TypeOK
<1>2. /\ r \in Int /\ t.life \in Int /\ t.created \in Nat /\ t.cacheTime \in Nat
      /\ t.factor \in {1, 2} /\ t.life > 0 /\ r > 0
      /\ t.created <= now /\ t.cacheTime <= now
  BY <1>1 DEF TaskRecord, Sane
<1>3. (1 + 2 * r) * now < t.life
  BY <1>2 DEF OriginInv, Unspent
<1>4. age \in Nat /\ wait \in Int /\ wait <= age /\ age <= now
  BY <1>1, <1>2
<1>5. GetAge(t, now) = age /\ GetCacheAge(t) = wait
  BY DEF GetAge, GetCacheAge
<1>6. GetValue(t, now) = (t.life - age) - r * (2 - t.factor) * (age - wait) - r * 2 * wait
  BY <1>2, <1>5 DEF GetValue
<1> HIDE DEF t, age, wait, r
<1>7. /\ r * age <= r * now /\ r * wait <= r * age
      /\ r * age \in Int /\ r * now \in Int /\ r * wait \in Int
      /\ (1 + 2 * r) * now = now + 2 * (r * now)
      /\ (1 + 2 * r) * age = age + 2 * (r * age)
      /\ r * 2 * wait = 2 * (r * wait)
  <2>1. r * (now - age) >= 0 /\ r * (age - wait) >= 0
    BY <1>1, <1>2, <1>4 DEF r
  <2> QED BY <2>1, <1>1, <1>2, <1>4 DEF r
<1>8. t.life \in Int /\ (1 + 2 * r) * age < t.life
  BY <1>1, <1>2, <1>3, <1>4, <1>7 DEF t
<1>9. CASE t.factor = 1
  <2>1. r * (2 - t.factor) * (age - wait) = r * age - r * wait
    BY <1>2, <1>4, <1>9 DEF r
  <2> QED BY <1>4, <1>6, <1>7, <1>8, <2>1 DEF IsValid, t
<1>10. CASE t.factor = 2
  <2>1. r * (2 - t.factor) * (age - wait) = 0
    BY <1>2, <1>4, <1>10 DEF r
  <2> QED BY <1>4, <1>6, <1>7, <1>8, <2>1 DEF IsValid, t
<1> QED BY <1>2, <1>9, <1>10 DEF t

\* While all is calm every cached id leads to the task that has it.
LEMMA CalmFacts ==
    ASSUME IInv, Calm
    PROVE  /\ \A i \in m_buffers[CACHE_BUFFER_INDEX] :
                 /\ i \in Id /\ m_idToTaskMap[i] \in Held
                 /\ m_idToTaskMap[i] \in Ptr /\ Live(m_idToTaskMap[i])
                 /\ task[m_idToTaskMap[i]].id = i
           /\ Astray = {} /\ ~Dangling
           /\ \A p \in Waiting : Live(p)
           /\ \A p \in m_invalidTasks, b \in Buffer : task[p].id \notin m_buffers[b]
<1>1. Held \subseteq Ptr /\ \A p \in Held : Live(p)
  BY DEF Held, IInv, TypeOK, SingleOwner
<1>2. \A i \in m_buffers[CACHE_BUFFER_INDEX] :
                 /\ i \in Id /\ m_idToTaskMap[i] \in Held
                 /\ m_idToTaskMap[i] \in Ptr /\ Live(m_idToTaskMap[i])
                 /\ task[m_idToTaskMap[i]].id = i
  <2> SUFFICES ASSUME NEW i \in m_buffers[CACHE_BUFFER_INDEX]
               PROVE  i \in Id /\ \E p \in Held : m_idToTaskMap[i] = p /\ task[p].id = i
    BY <1>1
  <2>1. i \in Id
    BY Indices DEF IInv, TypeOK
  <2>2. PICK p \in Held : task[p].id = i
    BY Indices DEF Calm, Clean, Owned
  <2>3. m_idToTaskMap[i] = p
    BY <1>1, <2>2 DEF IInv, MapInv
  <2> QED BY <2>1, <2>2, <2>3
<1>3. Astray = {} /\ ~Dangling
  BY <1>2 DEF Astray, Dangling
<1>4. \A p \in Waiting : Live(p)
  <2> SUFFICES ASSUME NEW p \in Waiting PROVE Live(p)
    OBVIOUS
  <2>1. CASE \E e \in pq : e.ptr = p
    BY <2>1 DEF Calm, Clean, QueueClean, IInv, SingleOwner
  <2>2. CASE \E i \in unread : m_idToTaskMap[i] = p
    BY <1>2, <2>2 DEF IInv, LoopInv
  <2>3. CASE Carried(p)
    BY <2>3 DEF Carried, Calm, Clean, QueueClean, IInv, SingleOwner
  <2> QED BY <2>1, <2>2, <2>3 DEF Waiting, Asked
<1>5. ASSUME NEW p \in m_invalidTasks, NEW b \in Buffer, task[p].id \in m_buffers[b]
      PROVE  FALSE
  <2>1. PICK q \in Held : task[q].id = task[p].id
    BY <1>5 DEF Calm, Clean, Owned
  <2>2. p \in Ptr /\ Live(p) /\ q \in Ptr /\ Live(q) /\ p # q
    BY <1>1, <2>1 DEF IInv, TypeOK, SingleOwner, Held
  <2> QED BY <2>1, <2>2 DEF IInv, IdsUnique
<1> QED BY <1>2, <1>3, <1>4, <1>5

\* A step that touches neither the buffers nor the shift.
LEMMA StillCalm ==
    ASSUME IInv, Calm, Clean', overtaken' = {},
           \A p \in m_tasks' : task'[p].hasValue,
           UNCHANGED <<m_buffers, m_idToTaskMap, unread, pq, places, shifting>>,
           shifting # Null => m_tasks \subseteq m_tasks',
           \A q \in Ptr : Live(q) => /\ Live(q)'
                                     /\ task'[q].category = task[q].category
    PROVE  Calm'
<1>1. Waiting' = Waiting
  BY DEF Waiting, Asked, Carried
<1>2. \A p \in Waiting : p \in Ptr /\ task'[p].category = task[p].category
  BY CalmFacts DEF Waiting
<1>3. Shifting'
  BY <1>1, <1>2 DEF Calm, Shifting
<1>4. \A b : Found(b)' = Found(b)
  BY CalmFacts DEF Found
<1>5. PlaceInv'
  BY <1>1, <1>2, <1>4 DEF Calm, PlaceInv, IsFull
<1> QED BY <1>3, <1>5 DEF Calm

LEMMA OriginsKept ==
    ASSUME OriginInv,
           \A q \in Ptr : Live(q)' => /\ Live(q) /\ task'[q].life = task[q].life
                                      /\ task'[q].rate = task[q].rate
    PROVE  OriginInv'
BY DEF OriginInv

-----------------------------------------------------------------------------
LEMMA NewWork ==
    ASSUME IInv, WorkInv, NEW p \in Ptr, NEW m \in Message, New(p, m)
    PROVE  WorkInv'
<1> DEFINE t == NewTask(m_idSeed', m, now, Category)
<1>1. /\ ~Live(p) /\ task' = [task EXCEPT ![p] = t]
      /\ task \in [Ptr -> TaskRecord \cup {Null}]
      /\ UNCHANGED <<now, m_tasks, m_invalidTasks, overtaken, m_buffers,
                     m_idToTaskMap, unread, pq, places, shifting, target, adding>>
  BY DEF New, sets, store, frame, shift, IInv, TypeOK
<1>2. t.life = m.life /\ t.rate = m.rate
  BY DEF NewTask
<1> HIDE DEF t
<1>3. task'[p] = t /\ \A q \in Ptr \ {p} : task'[q] = task[q]
  BY <1>1
<1>4. OriginInv'
  BY <1>2, <1>3 DEF WorkInv, OriginInv, Live
<1>5. p \notin m_tasks /\ p # adding /\ m_tasks \subseteq Ptr
  BY <1>1 DEF IInv, SingleOwner, TypeOK
<1>6. CacheLastInv'
  <2>1. target # Null => adding \in Ptr \ {p}
    BY <1>5 DEF IInv, AddInv, TypeOK
  <2>2. CACHE_BUFFER_INDEX # Null
    BY Indices
  <2> QED BY <1>1, <1>3, <2>1, <2>2 DEF WorkInv, CacheLastInv, IsFull
<1>7. ASSUME Unspent'
      PROVE  Calm'
  <2>1. Calm
    BY <1>1, <1>7, UnspentBefore DEF WorkInv
  <2>2. Clean'
    BY <2>1, NewClean DEF Calm
  <2>3. overtaken' = {} /\ \A q \in m_tasks' : task'[q].hasValue
    BY <1>1, <1>3, <1>5, <2>1 DEF Calm
  <2>4. \A q \in Ptr : Live(q) => Live(q)' /\ task'[q].category = task[q].category
    BY <1>1, <1>3 DEF Live
  <2> QED BY <1>1, <2>1, <2>2, <2>3, <2>4, StillCalm
<1> QED BY <1>4, <1>6, <1>7 DEF WorkInv

LEMMA TickWork ==
    ASSUME IInv, WorkInv, Tick \/ UNCHANGED vars
    PROVE  WorkInv'
<1>1. /\ UNCHANGED <<task, m_tasks, m_invalidTasks, overtaken, m_buffers,
                     m_idToTaskMap, unread, pq, places, shifting, target, adding>>
      /\ now' \in {now, now + 1}
  BY DEF Tick, vars, sets, store, frame, shift
<1>2. OriginInv' /\ CacheLastInv'
  BY <1>1 DEF WorkInv, OriginInv, CacheLastInv, Live, IsFull
<1>3. ASSUME Unspent'
      PROVE  Calm'
  <2>1. Calm
    BY <1>1, <1>3, UnspentBefore DEF WorkInv
  <2>2. Clean'
    BY <1>1, <2>1 DEF Calm, Clean, OneBuffer, Owned, OvertakenDead, AddClean,
       QueueClean, Held, HasTask, Live
  <2> QED BY <1>1, <2>1, <2>2, StillCalm DEF Calm, Live
<1> QED BY <1>2, <1>3 DEF WorkInv

LEMMA AddCheckWork ==
    ASSUME IInv, WorkInv, NEW p \in Ptr, AddCheck(p)
    PROVE  WorkInv'
<1> DEFINE t == Latched(task[p], now)
<1>1. /\ Live(p) /\ p \notin m_tasks /\ now \in Nat /\ adding' = p /\ shifting = Null
      /\ UNCHANGED <<now, m_tasks, m_invalidTasks, overtaken, m_buffers,
                     m_idToTaskMap, unread, pq, places, shifting>>
      /\ task \in [Ptr -> TaskRecord \cup {Null}] /\ m_tasks \subseteq Ptr
      /\ \E r \in {t, AddToCacheBuffer(t), Drop(t)} : task' = [task EXCEPT ![p] = r]
  BY DEF AddCheck, Unlocked, NoShift, sets, store, shift, IInv, TypeOK
<1>2. t \in TaskRecord /\ t.life = task[p].life /\ t.rate = task[p].rate
  BY <1>1, ObjectFacts, LatchedFields DEF IInv
<1>3. target' = CACHE_BUFFER_INDEX => IsFull(t.category) \/ t.category = CACHE_BUFFER_INDEX
  BY Indices DEF AddCheck
<1> HIDE DEF t
<1>4. \A r \in {t, AddToCacheBuffer(t), Drop(t)} :
         r \in TaskRecord /\ r.life = t.life /\ r.rate = t.rate /\ r.category = t.category
  BY <1>2 DEF AddToCacheBuffer, Drop, TaskRecord
<1>5. /\ task'[p].life = task[p].life /\ task'[p].rate = task[p].rate
      /\ task'[p].category = t.category
      /\ \A q \in Ptr \ {p} : task'[q] = task[q]
  BY <1>1, <1>2, <1>4
<1>6. OriginInv'
  BY <1>1, <1>5, OriginsKept DEF WorkInv, Live
<1>7. /\ task'[p] # Null /\ task'[p].category = task[p].category
      /\ target' = CACHE_BUFFER_INDEX => task[p].category \in Category
  <2>1. /\ task'[p] \in TaskRecord /\ task'[p].category = task[p].category
        /\ Sane(task'[p]) /\ (target' # Null => task'[p].hasValue)
    BY <1>1, AddCheckFacts DEF Sane
  <2> QED BY <2>1, Indices DEF Sane
<1>8. CacheLastInv'
  BY <1>1, <1>3, <1>5, <1>7, Indices DEF CacheLastInv, IsFull
<1>9. ASSUME Unspent'
      PROVE  Calm'
  <2>1. Calm
    BY <1>1, <1>9, UnspentBefore DEF WorkInv
  <2>2. Clean'
    BY <2>1, AddCheckClean DEF Calm
  <2>3. overtaken' = {} /\ \A q \in m_tasks' : task'[q].hasValue
    BY <1>1, <1>5, <2>1 DEF Calm
  <2>4. \A q \in Ptr : Live(q) => Live(q)' /\ task'[q].category = task[q].category
    BY <1>1, <1>5, <1>7 DEF Live
  <2> QED BY <1>1, <2>1, <2>2, <2>3, <2>4, StillCalm
<1> QED BY <1>6, <1>8, <1>9 DEF WorkInv

LEMMA AddRecordWork ==
    ASSUME IInv, WorkInv, AddRecord
    PROVE  WorkInv'
<1> DEFINE t == Latched(task[adding], now)
<1>1. /\ adding \in Ptr /\ Live(adding) /\ now \in Nat /\ task[adding] \in TaskRecord
      /\ UNCHANGED <<now, m_buffers, m_idToTaskMap, unread, pq, places, shifting>>
      /\ target' = Null /\ shifting = Null
      /\ task \in [Ptr -> TaskRecord \cup {Null}] /\ m_tasks \subseteq Ptr
      /\ task' = [task EXCEPT ![adding] = t] /\ adding \notin m_tasks
      /\ \/ m_tasks' = m_tasks \cup {adding} /\ t.hasValue /\ overtaken' = overtaken
         \/ /\ m_tasks' = m_tasks /\ ~t.hasValue
            /\ overtaken' = overtaken \cup {i \in {t.id} : task[adding].hasValue}
  BY AddingFacts DEF AddRecord, store, shift, IInv, TypeOK, NoShift
<1>2. /\ t \in TaskRecord /\ t.life = task[adding].life /\ t.rate = task[adding].rate
      /\ t.category = task[adding].category /\ t.hasValue = IsValid(task[adding], now)
  BY <1>1, LatchedFields
<1> HIDE DEF t
<1>3. task'[adding] = t /\ \A q \in Ptr \ {adding} : task'[q] = task[q]
  BY <1>1
<1>4. OriginInv'
  BY <1>1, <1>2, <1>3, OriginsKept DEF WorkInv, Live
<1>5. CacheLastInv'
  BY <1>1, Indices DEF CacheLastInv
<1>6. ASSUME Unspent'
      PROVE  Calm'
  <2>1. Calm /\ Unspent
    BY <1>1, <1>6, UnspentBefore DEF WorkInv
  <2>2. Clean'
    BY <2>1, AddRecordClean DEF Calm
  <2>3. task[adding].hasValue => t.hasValue
    BY <1>1, <1>2, <2>1, ValuableWhileUnspent DEF WorkInv
  <2>4. overtaken' = {} /\ \A q \in m_tasks' : task'[q].hasValue
    BY <1>1, <1>3, <2>1, <2>3 DEF Calm
  <2>5. \A q \in Ptr : Live(q) => Live(q)' /\ task'[q].category = task[q].category
    BY <1>2, <1>3, Indices DEF Live
  <2> QED BY <1>1, <2>1, <2>2, <2>4, <2>5, StillCalm
<1> QED BY <1>4, <1>5, <1>6 DEF WorkInv

LEMMA DeleteInvalidTaskWork ==
    ASSUME IInv, WorkInv, DeleteInvalidTask
    PROVE  WorkInv'
<1>1. UNCHANGED <<now, task, m_tasks, m_invalidTasks, overtaken, m_buffers,
                  m_idToTaskMap, unread, pq, places, shifting, target, adding>>
  BY DEF DeleteInvalidTask, sets, store, shift
<1>2. OriginInv' /\ CacheLastInv'
  BY <1>1 DEF WorkInv, OriginInv, CacheLastInv, Live, IsFull
<1>3. ASSUME Unspent'
      PROVE  Calm'
  <2>1. Calm
    BY <1>1, <1>3, UnspentBefore DEF WorkInv
  <2>2. Clean'
    BY <2>1, DeleteInvalidTaskInv DEF Calm
  <2> QED BY <1>1, <2>1, <2>2, StillCalm DEF Calm, Live
<1> QED BY <1>2, <1>3 DEF WorkInv

LEMMA CheckTaskWork ==
    ASSUME IInv, WorkInv, NEW p \in Ptr, CheckTask(p)
    PROVE  WorkInv'
<1> DEFINE t == Latched(task[p], now)
<1>1. /\ Live(p) /\ now \in Nat /\ task[p] \in TaskRecord /\ target = Null
      /\ UNCHANGED <<now, m_tasks, m_invalidTasks, overtaken, m_buffers,
                     m_idToTaskMap, unread, pq, places, shifting, target, adding>>
      /\ task \in [Ptr -> TaskRecord \cup {Null}]
      /\ task' = [task EXCEPT ![p] = t] /\ m_tasks \subseteq Ptr /\ p \in m_tasks
  <2>1. p \in unchecked
    BY DEF CheckTask
  <2>2. p \in m_tasks /\ Live(p) /\ target = Null
    BY <2>1 DEF IInv, SingleOwner, AddInv
  <2> QED BY <2>2, ObjectFacts DEF CheckTask, sets, store, shift, IInv, TypeOK
<1>2. /\ t \in TaskRecord /\ t.life = task[p].life /\ t.rate = task[p].rate
      /\ t.category = task[p].category /\ t.hasValue = IsValid(task[p], now)
  BY <1>1, LatchedFields
<1> HIDE DEF t
<1>3. task'[p] = t /\ \A q \in Ptr \ {p} : task'[q] = task[q]
  BY <1>1
<1>4. OriginInv'
  BY <1>1, <1>2, <1>3, OriginsKept DEF WorkInv, Live
<1>5. CacheLastInv'
  BY <1>1, Indices DEF CacheLastInv
<1>6. ASSUME Unspent'
      PROVE  Calm'
  <2>1. Calm /\ Unspent
    BY <1>1, <1>6, UnspentBefore DEF WorkInv
  <2>2. Clean'
    BY <2>1, CheckTaskInv DEF Calm
  <2>3. t.hasValue
    BY <1>1, <1>2, <2>1, ValuableWhileUnspent DEF WorkInv, Calm
  <2>4. overtaken' = {} /\ \A q \in m_tasks' : task'[q].hasValue
    BY <1>1, <1>3, <2>1, <2>3 DEF Calm
  <2>5. \A q \in Ptr : Live(q) => Live(q)' /\ task'[q].category = task[q].category
    BY <1>2, <1>3, Indices DEF Live
  <2> QED BY <1>1, <2>1, <2>2, <2>4, <2>5, StillCalm
<1> QED BY <1>4, <1>5, <1>6 DEF WorkInv

LEMMA AddPlaceWork ==
    ASSUME IInv, WorkInv, AddPlace
    PROVE  WorkInv'
<1> DEFINE p   == adding
           id  == task[p].id
           idx == task[p].category
           t   == Latched(task[p], now)
<1>1. /\ p # Null /\ target' = Null /\ target \in {idx, CACHE_BUFFER_INDEX}
      /\ target \in Buffer /\ ~IsFull(target) /\ task[p].hasValue
      /\ task' = [task EXCEPT ![p] = t]
      /\ m_buffers'[target] = IF t.hasValue THEN m_buffers[target] \cup {id}
                                            ELSE m_buffers[target]
      /\ \A b \in Buffer \ {target} : m_buffers'[b] = m_buffers[b]
      /\ \A b \in Buffer : m_buffers[b] \subseteq m_buffers'[b]
      /\ m_idToTaskMap'[id] = IF target = CACHE_BUFFER_INDEX THEN p
                              ELSE m_idToTaskMap[id]
      /\ \A i \in Id \ {id} : m_idToTaskMap'[i] = m_idToTaskMap[i]
  BY AddPlaceFacts
<1>2. /\ UNCHANGED <<now, m_tasks, overtaken, unread, pq, places, shifting>>
      /\ task \in [Ptr -> TaskRecord \cup {Null}] /\ now \in Nat
      /\ m_tasks \subseteq Ptr
  BY DEF AddPlace, sets, shift, IInv, TypeOK
<1>3. /\ p \in Ptr /\ Live(p) /\ p \notin m_tasks /\ id \in Id
      /\ task[p] \in TaskRecord /\ places = 0 /\ shifting = Null
      /\ unread = {} /\ pq = {} /\ Held = m_tasks \cup {p}
  BY <1>1, AddingFacts DEF NoShift
<1>4. /\ t \in TaskRecord /\ t.life = task[p].life /\ t.rate = task[p].rate
      /\ t.category = idx /\ t.id = id
  BY <1>2, <1>3, LatchedFields
<1> HIDE DEF t, id
<1>5. task'[p] = t /\ \A q \in Ptr \ {p} : task'[q] = task[q]
  BY <1>1, <1>2, <1>3
<1>6. OriginInv'
  BY <1>3, <1>4, <1>5, OriginsKept DEF WorkInv, Live
<1>7. CacheLastInv'
  BY <1>1, Indices DEF CacheLastInv
<1>8. Waiting = {} /\ Waiting' = {}
  BY <1>2, <1>3 DEF Waiting, Asked, Carried
<1>9. \A b \in Buffer : IsFull(b) => IsFull(b)'
  <2> SUFFICES ASSUME NEW b \in Buffer, Cardinality(m_buffers[b]) >= BUFFER_CAPACITY[b]
               PROVE  Cardinality(m_buffers'[b]) >= BUFFER_CAPACITY[b]
    BY DEF IsFull
  <2>1. /\ IsFiniteSet(m_buffers[b]) /\ Cardinality(m_buffers[b]) \in Nat
        /\ BUFFER_CAPACITY[b] \in Nat
    BY FiniteBuffers DEF IInv
  <2>2. m_buffers'[b] = m_buffers[b] \/ m_buffers'[b] = m_buffers[b] \cup {id}
    BY <1>1
  <2>3. \/ Cardinality(m_buffers'[b]) = Cardinality(m_buffers[b])
        \/ Cardinality(m_buffers'[b]) = Cardinality(m_buffers[b]) + 1
    BY <2>1, <2>2, FS_AddElement
  <2> QED BY <2>1, <2>3
<1>10. ASSUME Unspent'
       PROVE  Calm'
  <2>1. Calm
    BY <1>2, <1>10, UnspentBefore DEF WorkInv
  <2>2. Clean'
    BY <2>1, AddPlaceClean DEF Calm
  <2>3. overtaken' = {} /\ \A q \in m_tasks' : task'[q].hasValue
    BY <1>2, <1>3, <1>5, <2>1 DEF Calm
  <2>4. Shifting'
    BY <1>2, <1>3, <1>8 DEF Shifting
  <2>5. PlaceInv'
    <3> SUFFICES ASSUME NEW b \in Category, NEW i \in Found(b)'
                 PROVE  IsFull(b)'
      BY <1>8 DEF PlaceInv
    <3>1. i \in m_buffers'[CACHE_BUFFER_INDEX] /\ task'[m_idToTaskMap'[i]].category = b
      BY DEF Found
    <3>2. CASE i \in m_buffers[CACHE_BUFFER_INDEX]
      <4>1. /\ i \in Id /\ m_idToTaskMap[i] \in Ptr /\ Live(m_idToTaskMap[i])
            /\ task[m_idToTaskMap[i]].id = i
        BY <2>1, <3>2, CalmFacts
      <4>2. m_idToTaskMap'[i] = m_idToTaskMap[i]
        <5>1. CASE i # id
          BY <1>1, <4>1, <5>1
        <5>2. CASE i = id
          BY <1>1, <1>3, <4>1, <5>2, ObjectFacts DEF IInv, id
        <5> QED BY <5>1, <5>2
      <4>3. task[m_idToTaskMap[i]].category = b
        BY <1>4, <1>5, <3>1, <4>1, <4>2
      <4>4. i \in Found(b)
        BY <3>2, <4>1, <4>3 DEF Found
      <4>5. IsFull(b)
        BY <1>8, <2>1, <4>4 DEF Calm, PlaceInv
      <4> QED BY <1>9, <4>5, Indices
    <3>3. CASE i \notin m_buffers[CACHE_BUFFER_INDEX]
      <4>1. target = CACHE_BUFFER_INDEX /\ i = id
        BY <1>1, <3>1, <3>3, Indices
      <4>2. b = idx
        BY <1>1, <1>4, <1>5, <3>1, <4>1
      <4>3. IsFull(idx)
        BY <4>1 DEF WorkInv, CacheLastInv
      <4> QED BY <1>9, <4>2, <4>3, Indices
    <3> QED BY <3>2, <3>3
  <2> QED BY <2>2, <2>3, <2>4, <2>5 DEF Calm
<1> QED BY <1>6, <1>7, <1>10 DEF WorkInv

LEMMA FreeWork ==
    ASSUME IInv, WorkInv, NEW p \in Ptr, p \notin m_tasks, p \in m_invalidTasks,
           Free(p), DeleteFrame(p)
    PROVE  WorkInv'
<1>1. /\ UNCHANGED <<now, m_tasks, overtaken, m_buffers, m_idToTaskMap, unread, pq,
                     places, shifting>>
      /\ target' = Null /\ task'[p] = Null /\ m_tasks \subseteq Ptr
      /\ \A q \in Ptr \ {p} : task'[q] = task[q]
      /\ places = 0 /\ shifting = Null /\ unread = {} /\ pq = {}
  BY DEF Free, store, shift, DeleteFrame, NoShift, IInv, TypeOK
<1>2. OriginInv'
  BY <1>1, OriginsKept DEF WorkInv, Live
<1>3. CacheLastInv'
  BY <1>1, Indices DEF CacheLastInv
<1>4. Waiting = {} /\ Waiting' = {}
  BY <1>1 DEF Waiting, Asked, Carried
<1>5. ASSUME Unspent'
      PROVE  Calm'
  <2>1. Calm
    BY <1>1, <1>5, UnspentBefore DEF WorkInv
  <2>2. Clean'
    BY <2>1, FreeClean DEF Calm
  <2>3. overtaken' = {} /\ \A q \in m_tasks' : task'[q].hasValue
    BY <1>1, <2>1 DEF Calm
  <2>4. Shifting'
    BY <1>1, <1>4 DEF Shifting
  <2>5. \A b : Found(b)' \subseteq Found(b)
    <3>1. \A i \in m_buffers[CACHE_BUFFER_INDEX] : m_idToTaskMap[i] \in Ptr
      BY <2>1, CalmFacts
    <3> QED BY <1>1, <3>1 DEF Found, Live
  <2>6. PlaceInv'
    BY <1>1, <1>4, <2>1, <2>5 DEF Calm, PlaceInv, IsFull
  <2> QED BY <2>2, <2>3, <2>4, <2>6 DEF Calm
<1> QED BY <1>2, <1>3, <1>5 DEF WorkInv

LEMMA InvalidateWork ==
    ASSUME IInv, WorkInv, NEW p \in Ptr, p \in m_tasks, Invalidate(p), DeleteFrame(p)
    PROVE  WorkInv'
<1> DEFINE idx == GetBufferIdx(p)
           id  == task[p].id
<1>1. /\ Live(p) /\ id \in Id /\ idx \in Buffer
      /\ m_tasks' = m_tasks \ {p} /\ overtaken' = overtaken
      /\ pq' = {} /\ shifting' = Null
      /\ \A b \in Buffer : m_buffers'[b] =
            IF b = idx THEN m_buffers[b] \ {id} ELSE m_buffers[b]
      /\ \A i \in Id : m_idToTaskMap'[i] =
            IF idx = CACHE_BUFFER_INDEX /\ i = id THEN Null ELSE m_idToTaskMap[i]
      /\ task'[p] \in TaskRecord /\ task'[p].category = task[p].category
      /\ \A q \in Ptr \ {p} : task'[q] = task[q]
  BY InvalidateFacts
<1>2. /\ places' \in Nat
      /\ places' = 0 => unread' = {}
      /\ places' # 0 =>
            /\ idx \in Category
            /\ places' + Cardinality(m_buffers'[idx]) = BUFFER_CAPACITY[idx]
            /\ Found(idx) \subseteq unread'
            /\ unread' \subseteq Found(idx) \cup Astray
  BY PlacesFacts
<1>3. /\ now' = now /\ target' = Null /\ adding = Null /\ shifting = Null
      /\ unread = {} /\ pq = {} /\ m_tasks \subseteq Ptr
      /\ task[p] \in TaskRecord
  BY <1>1, ObjectFacts DEF DeleteFrame, NoShift, IInv, TypeOK
<1>4. /\ task'[p].life = task[p].life /\ task'[p].rate = task[p].rate
  <2>1. \/ task' = [task EXCEPT ![p] = Drop(SetCacheTime(task[p], now))]
        \/ task' = [task EXCEPT ![p] = Drop(task[p])]
    BY DEF Invalidate
  <2>2. task'[p] \in {Drop(SetCacheTime(task[p], now)), Drop(task[p])}
    BY <2>1 DEF IInv, TypeOK
  <2> QED BY <1>3, <2>2 DEF Drop, SetCacheTime, TaskRecord
<1>5. OriginInv'
  BY <1>1, <1>4, OriginsKept DEF WorkInv, Live
<1>6. CacheLastInv'
  BY <1>3, Indices DEF CacheLastInv
<1>7. Waiting = {}
  BY <1>3 DEF Waiting, Asked, Carried
<1>8. (places' = 0 /\ Found(idx) = {})
      \/ (places' = 0 /\ idx = CACHE_BUFFER_INDEX)
      \/ (places' = 0 /\ Cardinality(m_buffers'[idx]) >= BUFFER_CAPACITY[idx])
      \/ places' # 0
  <2>1. /\ Cardinality(m_buffers[idx] \ {id}) \in Nat /\ BUFFER_CAPACITY[idx] \in Nat
        /\ m_buffers'[idx] = m_buffers[idx] \ {id}
    BY <1>1, FiniteBuffers, FS_RemoveElement, FS_CardinalityType DEF IInv
  <2> DEFINE num == AvailableCacheSize(idx, m_buffers[idx] \ {id})
  <2>2. (num > 0 /\ Found(idx) # {}) => places' = num
    BY DEF Invalidate
  <2>3. num = IF idx = CACHE_BUFFER_INDEX THEN 0
              ELSE BUFFER_CAPACITY[idx] - Cardinality(m_buffers[idx] \ {id})
    BY DEF AvailableCacheSize
  <2> HIDE DEF num, idx
  <2> QED BY <2>1, <2>2, <2>3
<1> HIDE DEF idx
<1>9. ASSUME Unspent'
      PROVE  Calm'
  <2>1. Calm
    BY <1>3, <1>9, UnspentBefore DEF WorkInv
  <2>2. Clean'
    BY <2>1, InvalidateClean DEF Calm
  <2>3. overtaken' = {} /\ \A q \in m_tasks' : task'[q].hasValue
    BY <1>1, <1>3, <2>1 DEF Calm
  <2>4. \A i \in m_buffers[CACHE_BUFFER_INDEX] :
           /\ i \in Id /\ m_idToTaskMap[i] \in Ptr /\ Live(m_idToTaskMap[i])
           /\ task[m_idToTaskMap[i]].id = i
           /\ i \in m_buffers'[CACHE_BUFFER_INDEX] => m_idToTaskMap'[i] = m_idToTaskMap[i]
    <3>1. \A i \in m_buffers[CACHE_BUFFER_INDEX] :
           /\ i \in Id /\ m_idToTaskMap[i] \in Ptr /\ Live(m_idToTaskMap[i])
           /\ task[m_idToTaskMap[i]].id = i
      BY <2>1, CalmFacts
    <3> QED BY <1>1, <3>1, Indices
  <2>5. m_buffers'[CACHE_BUFFER_INDEX] \subseteq m_buffers[CACHE_BUFFER_INDEX]
    BY <1>1, Indices
  <2>6. \A b : Found(b)' \subseteq Found(b)
    BY <1>1, <2>4, <2>5 DEF Found
  <2>7. \A q \in Waiting' : task'[q].category = idx /\ idx \in Category /\ places' # 0
    <3> SUFFICES ASSUME NEW q \in Ptr, NEW i \in unread', m_idToTaskMap'[i] = q
                 PROVE  task'[q].category = idx /\ idx \in Category /\ places' # 0
      BY <1>1 DEF Waiting, Asked, Carried
    <3>1. places' # 0 /\ idx \in Category /\ i \in Found(idx)
      BY <1>2, <2>1, CalmFacts
    <3>2. i \in m_buffers[CACHE_BUFFER_INDEX] /\ task[m_idToTaskMap[i]].category = idx
      BY <3>1 DEF Found
    <3>3. i \in m_buffers'[CACHE_BUFFER_INDEX]
      BY <1>1, <3>1, <3>2, Indices
    <3> QED BY <1>1, <2>4, <3>1, <3>2, <3>3
  <2>8. places' # 0 => unread' # {}
    <3> DEFINE num == AvailableCacheSize(idx, m_buffers[idx] \ {id})
    <3>1. unread' = {} => places' = 0
      <4>1. PICK taken \in SUBSET Astray :
              IF num > 0 /\ Found(idx) \cup taken # {}
              THEN unread' = Found(idx) \cup taken /\ places' = num
              ELSE unread' = {} /\ places' = 0
        BY DEF Invalidate, idx
      <4> QED BY <4>1
    <3> QED BY <3>1
  <2>9. Shifting'
    BY <1>1, <2>7, <2>8 DEF Shifting
  <2>10. PlaceInv'
    <3> SUFFICES ASSUME NEW b \in Category, Found(b)' # {}
                 PROVE  IF \E q \in Waiting' : task'[q].category = b
                        THEN Cardinality(m_buffers'[b]) + places' + 0
                                >= BUFFER_CAPACITY[b]
                        ELSE IsFull(b)'
      BY <1>1 DEF PlaceInv
    <3>1. b \in Buffer /\ b # CACHE_BUFFER_INDEX
      BY Indices
    <3>2. Found(b) # {}
      BY <2>6
    <3>3. CASE b # idx
      <4>1. IsFull(b)
        BY <1>7, <2>1, <3>2 DEF Calm, PlaceInv
      <4>2. m_buffers'[b] = m_buffers[b]
        BY <1>1, <3>1, <3>3
      <4> QED BY <2>7, <3>3, <4>1, <4>2 DEF IsFull
    <3>4. CASE b = idx
      <4>1. /\ Cardinality(m_buffers'[idx]) \in Nat /\ BUFFER_CAPACITY[idx] \in Nat
        <5>1. m_buffers'[idx] = m_buffers[idx] \ {id} /\ idx \in Buffer
          BY <1>1
        <5> QED BY <5>1, FiniteBuffers, FS_RemoveElement, FS_CardinalityType DEF IInv
      <4>2. CASE places' = 0
        <5>1. Cardinality(m_buffers'[idx]) >= BUFFER_CAPACITY[idx]
          BY <1>8, <3>1, <3>2, <3>4, <4>2
        <5> QED BY <2>7, <3>4, <4>2, <5>1 DEF IsFull
      <4>3. CASE places' # 0
        <5>1. PICK i \in Found(b)' : TRUE
          OBVIOUS
        <5>2. i \in Found(b) /\ i \in m_buffers'[CACHE_BUFFER_INDEX]
          BY <2>6, <5>1 DEF Found
        <5>3. i \in unread' /\ i \in m_buffers[CACHE_BUFFER_INDEX]
          BY <1>2, <2>5, <3>4, <4>3, <5>2
        <5>4. m_idToTaskMap'[i] \in Waiting'
          BY <2>4, <5>2, <5>3 DEF Waiting, Asked
        <5>5. task'[m_idToTaskMap'[i]].category = b
          BY <2>7, <3>4, <5>4
        <5>6. Cardinality(m_buffers'[b]) + places' + 0 >= BUFFER_CAPACITY[b]
          BY <1>2, <3>4, <4>1, <4>3
        <5> QED BY <5>4, <5>5, <5>6
      <4> QED BY <4>2, <4>3
    <3> QED BY <3>3, <3>4
  <2> QED BY <2>2, <2>3, <2>9, <2>10 DEF Calm
<1> QED BY <1>5, <1>6, <1>9 DEF WorkInv

LEMMA DeleteWork ==
    ASSUME IInv, WorkInv, NEW p \in Ptr, Delete(p), DeleteFrame(p)
    PROVE  WorkInv'
<1>1. CASE p \in m_tasks /\ Invalidate(p)
  BY <1>1, InvalidateWork
<1>2. CASE p \notin m_tasks /\ p \in m_invalidTasks /\ Free(p)
  BY <1>2, FreeWork
<1>3. CASE UNCHANGED <<task, sets, store, shift>>
  <2>1. /\ UNCHANGED <<now, task, m_tasks, m_invalidTasks, overtaken, m_buffers,
                       m_idToTaskMap, unread, pq, places, shifting>>
        /\ adding = Null /\ adding' = Null /\ target' = Null
    BY <1>3 DEF sets, store, shift, DeleteFrame
  <2>2. OriginInv' /\ CacheLastInv'
    BY <2>1, Indices DEF WorkInv, OriginInv, CacheLastInv, Live
  <2>3. ASSUME Unspent'
        PROVE  Calm'
    <3>1. Calm
      BY <2>1, <2>3, UnspentBefore DEF WorkInv
    <3>2. Clean'
      BY <3>1, DeleteInv DEF Calm
    <3> QED BY <2>1, <3>1, <3>2, StillCalm DEF Calm, Live
  <2> QED BY <2>2, <2>3 DEF WorkInv
<1> QED BY <1>1, <1>2, <1>3 DEF Delete

LEMMA GetCacheTaskWork ==
    ASSUME IInv, WorkInv, NEW i \in Id, GetCacheTask(i)
    PROVE  WorkInv'
<1> DEFINE e == [id |-> i, ptr |-> m_idToTaskMap[i], at |-> now]
<1>1. /\ i \in unread /\ pq' = pq \cup {e} /\ unread' = unread \ {i}
      /\ UNCHANGED <<now, task, m_tasks, m_invalidTasks, overtaken, m_buffers,
                     m_idToTaskMap, adding, target, places, shifting>>
  BY DEF GetCacheTask, sets, store
<1>2. OriginInv' /\ CacheLastInv'
  BY <1>1 DEF WorkInv, OriginInv, CacheLastInv, Live, IsFull
<1>3. ASSUME Unspent'
      PROVE  Calm'
  <2>1. Calm
    BY <1>1, <1>3, UnspentBefore DEF WorkInv
  <2>2. Clean'
    BY <2>1, CalmFacts, GetCacheTaskInv DEF Calm
  <2>3. \A q \in Ptr : Asked(q)' <=> Asked(q)
    <3>1. e.ptr = m_idToTaskMap[i]
      OBVIOUS
    <3> HIDE DEF e
    <3> QED BY <1>1, <3>1 DEF Asked
  <2>4. Waiting' = Waiting
    BY <1>1, <2>3 DEF Waiting, Carried
  <2>5. pq' # {}
    BY <1>1
  <2>6. Shifting' /\ PlaceInv'
    BY <1>1, <2>1, <2>4, <2>5 DEF Calm, Shifting, PlaceInv, Found, Live, IsFull
  <2> QED BY <1>1, <2>1, <2>2, <2>6 DEF Calm
<1> QED BY <1>2, <1>3 DEF WorkInv

LEMMA ShiftCacheTaskWork ==
    ASSUME IInv, WorkInv, NEW e \in pq, ShiftCacheTask(e)
    PROVE  WorkInv'
<1> DEFINE p   == e.ptr
           idx == task[p].category
<1>1. /\ p \in Ptr /\ adding = Null /\ unread = {} /\ unread' = {}
      /\ shifting = Null /\ shifting' = e /\ e # Null
      /\ \A b \in Buffer : m_buffers'[b] =
            IF Live(p) /\ b = CACHE_BUFFER_INDEX
            THEN m_buffers[b] \ {task[p].id} ELSE m_buffers[b]
      /\ \A i \in Id : m_idToTaskMap'[i] =
            IF Live(p) /\ i = task[p].id THEN Null ELSE m_idToTaskMap[i]
      /\ \A q \in Ptr \ {p} : task'[q] = task[q]
      /\ Live(p) => /\ task'[p] \in TaskRecord /\ task'[p].category = idx
                    /\ task'[p].hasValue = task[p].hasValue
  BY ShiftFacts, Indices
<1>2. /\ UNCHANGED <<now, m_tasks, m_invalidTasks, overtaken, adding, target>>
      /\ m_tasks \subseteq Ptr /\ pq \subseteq Entry
      /\ task \in [Ptr -> TaskRecord \cup {Null}]
  BY DEF ShiftCacheTask, sets, IInv, TypeOK
<1>3. Live(p) => task'[p].life = task[p].life /\ task'[p].rate = task[p].rate
  <2> SUFFICES ASSUME Live(p)
               PROVE  task'[p].life = task[p].life /\ task'[p].rate = task[p].rate
    OBVIOUS
  <2>1. task'[p] = SetCacheTime(task[p], now) /\ task[p] \in TaskRecord
    BY <1>1, <1>2 DEF ShiftCacheTask, Live
  <2> QED BY <2>1 DEF SetCacheTime, TaskRecord
<1>4. OriginInv'
  BY <1>1, <1>2, <1>3, OriginsKept, Indices DEF WorkInv, Live, ShiftCacheTask
<1>5. CacheLastInv'
  BY <1>1, <1>2, Indices DEF CacheLastInv, IInv, AddInv
<1>6. ASSUME Unspent'
      PROVE  Calm'
  <2>1. Calm
    BY <1>2, <1>6, UnspentBefore DEF WorkInv
  <2>2. Clean'
    BY <2>1, ShiftCacheTaskClean DEF Calm
  <2>3. p \in m_tasks /\ Live(p) /\ task[p].id = e.id /\ e.id \in m_buffers[CACHE_BUFFER_INDEX]
    BY <2>1, CalmFacts, Indices DEF Calm, Clean, QueueClean, IInv, SingleOwner
  <2>4. overtaken' = {} /\ \A q \in m_tasks' : task'[q].hasValue
    BY <1>1, <1>2, <2>1, <2>3 DEF Calm
  <2>5. /\ \A q \in Ptr : Live(q)' <=> Live(q)
        /\ \A q \in Ptr : Live(q) => task'[q].category = task[q].category
    BY <1>1, <2>3, Indices DEF Live
  <2>6. pq' = IF places = 1 \/ pq = {e} THEN {} ELSE pq \ {e}
    BY DEF ShiftCacheTask
  <2>7. places' = IF places = 1 \/ pq = {e} THEN 0 ELSE places - 1
    BY DEF ShiftCacheTask
  <2>8. Asked(p) /\ p \in Waiting /\ p \in Waiting' /\ Waiting' \subseteq Waiting
    <3>1. Asked(p) /\ \A q \in Ptr : Asked(q)' => Asked(q)
      BY <1>1, <2>6 DEF Asked
    <3>2. \A q \in Ptr : Carried(q)' <=> q = p
      BY <1>1 DEF Carried
    <3> QED BY <1>1, <3>1, <3>2 DEF Waiting
  <2>9. \A q \in Waiting : Live(q) /\ task[q].category = idx
    BY <2>1, <2>8, CalmFacts DEF Calm, Shifting
  <2>10. \A q \in Waiting' : task'[q].category = idx
    BY <2>5, <2>8, <2>9 DEF Waiting
  <2>11. Shifting'
    BY <1>1, <1>2, <2>3, <2>6, <2>7, <2>10 DEF Shifting
  <2>12. \A i \in m_buffers'[CACHE_BUFFER_INDEX] :
            /\ i \in m_buffers[CACHE_BUFFER_INDEX] \ {e.id}
            /\ m_idToTaskMap'[i] = m_idToTaskMap[i]
    BY <1>1, <2>1, <2>3, CalmFacts, Indices
  <2>13. \A b : Found(b)' \subseteq Found(b)
    <3>1. \A i \in m_buffers[CACHE_BUFFER_INDEX] : m_idToTaskMap[i] \in Ptr
      BY <2>1, CalmFacts
    <3> SUFFICES ASSUME NEW b, NEW i \in Found(b)' PROVE i \in Found(b)
      OBVIOUS
    <3>2. /\ i \in m_buffers'[CACHE_BUFFER_INDEX] /\ Live(m_idToTaskMap[i])'
          /\ task'[m_idToTaskMap'[i]] # Null /\ task'[m_idToTaskMap'[i]].category = b
      BY DEF Found, Live
    <3>3. /\ i \in m_buffers[CACHE_BUFFER_INDEX] /\ m_idToTaskMap[i] \in Ptr
          /\ m_idToTaskMap'[i] = m_idToTaskMap[i] /\ Live(m_idToTaskMap[i])
      BY <2>1, <2>12, <3>1, <3>2, CalmFacts
    <3> QED BY <2>5, <3>2, <3>3 DEF Found
  <2>14. ASSUME pq = {e}, NEW c, c = idx
         PROVE  Found(c)' = {}
    <3> SUFFICES ASSUME NEW i \in Found(c)' PROVE FALSE
      OBVIOUS
    <3> DEFINE q == m_idToTaskMap[i]
    <3>1. i \in Found(idx) /\ i \in m_buffers[CACHE_BUFFER_INDEX] \ {e.id}
      <4>1. i \in m_buffers'[CACHE_BUFFER_INDEX]
        BY DEF Found
      <4> QED BY <2>12, <2>13, <2>14, <4>1
    <3>2. q \in m_tasks /\ task[q].id = i /\ task[q].category = idx
      BY <1>1, <2>1, <3>1, CalmFacts DEF Found, Held
    <3>3. Asked(q)
      BY <2>3, <2>8, <3>1, <3>2 DEF IInv, AskedInv, HasTask
    <3>4. q = p
      BY <1>1, <2>14, <3>3 DEF Asked
    <3> QED BY <2>3, <3>1, <3>2, <3>4
  <2>15. PlaceInv'
    <3> SUFFICES ASSUME NEW b \in Category, Found(b)' # {}
                 PROVE  IF \E q \in Waiting' : task'[q].category = b
                        THEN Cardinality(m_buffers'[b]) + places' + 1
                                >= BUFFER_CAPACITY[b]
                        ELSE IsFull(b)'
      BY <1>1, Indices DEF PlaceInv
    <3>1. m_buffers'[b] = m_buffers[b] /\ b \in Buffer /\ Found(b) # {}
      BY <1>1, <2>13, Indices
    <3>2. CASE b # idx
      <4>1. IsFull(b)
        BY <2>1, <2>9, <3>1, <3>2 DEF Calm, PlaceInv
      <4> QED BY <2>10, <3>1, <3>2, <4>1 DEF IsFull
    <3>3. CASE b = idx
      <4>1. Cardinality(m_buffers[b]) + places + 0 >= BUFFER_CAPACITY[b]
        BY <1>1, <2>1, <2>8, <3>1, <3>3 DEF Calm, PlaceInv
      <4>2. places' = places - 1 /\ places \in Nat
        <5>1. places \in Nat
          BY DEF IInv, TypeOK
        <5> QED BY <2>7, <2>14, <3>3, <5>1
      <4>3. Cardinality(m_buffers[b]) \in Nat /\ BUFFER_CAPACITY[b] \in Nat
        BY <3>1, FiniteBuffers DEF IInv
      <4>4. Cardinality(m_buffers'[b]) + places' + 1 >= BUFFER_CAPACITY[b]
        BY <3>1, <4>1, <4>2, <4>3
      <4>5. p \in Waiting' /\ task'[p].category = b
        BY <2>8, <2>10, <3>3
      <4> QED BY <4>4, <4>5
    <3> QED BY <3>2, <3>3
  <2> QED BY <2>2, <2>4, <2>11, <2>15 DEF Calm
<1> QED BY <1>4, <1>5, <1>6 DEF WorkInv

LEMMA ShiftAddWork ==
    ASSUME IInv, WorkInv, ShiftAdd
    PROVE  WorkInv'
<1>0. shifting # Null /\ shifting \in Entry /\ shifting.ptr \in Ptr
  BY DEF ShiftAdd, IInv, TypeOK, Entry
<1> PICK p \in Ptr : p = shifting.ptr
  BY <1>0
<1> DEFINE idx == task[p].category
           id  == task[p].id
<1>1. /\ shifting' = Null /\ adding = Null /\ unread = {} /\ places \in Nat
      /\ ~Live(p) => task' = task
  BY ShiftAddFacts
<1>2. /\ UNCHANGED <<now, m_tasks, m_invalidTasks, overtaken, m_idToTaskMap, adding,
                     target, unread, pq, places>>
      /\ m_tasks \subseteq Ptr /\ pq \subseteq Entry /\ now \in Nat
      /\ task \in [Ptr -> TaskRecord \cup {Null}]
  BY DEF ShiftAdd, sets, timer, IInv, TypeOK
<1>3. Live(p) => /\ task[p] \in TaskRecord
                 /\ task' = [task EXCEPT ![p] = Latched(task[p], now)]
                 /\ m_buffers' = [m_buffers EXCEPT ![Latched(task[p], now).category] =
                       @ \cup {i \in {Latched(task[p], now).id} :
                                 /\ Latched(task[p], now).hasValue
                                 /\ ~IsFull(Latched(task[p], now).category)}]
  BY <1>2 DEF ShiftAdd, Live
<1>4. OriginInv'
  <2>1. CASE Live(p)
    <3>1. task'[p].life = task[p].life /\ task'[p].rate = task[p].rate
      BY <1>2, <1>3, <2>1, LatchedFields
    <3>2. \A q \in Ptr \ {p} : task'[q] = task[q]
      BY <1>2, <1>3, <2>1
    <3> QED BY <2>1, <3>1, <3>2, OriginsKept DEF WorkInv, Live
  <2>2. CASE ~Live(p)
    BY <1>1, <2>2, OriginsKept DEF WorkInv, Live
  <2> QED BY <2>1, <2>2
<1>5. CacheLastInv'
  BY <1>1, <1>2, Indices DEF CacheLastInv, IInv, AddInv
<1>6. ASSUME Unspent'
      PROVE  Calm'
  <2>1. Calm /\ Unspent
    BY <1>2, <1>6, UnspentBefore DEF WorkInv
  <2>2. Clean'
    BY <2>1, ShiftAddInv DEF Calm
  <2>3. p \in m_tasks /\ Live(p) /\ task[p].hasValue
    BY <1>0, <2>1 DEF Calm, Shifting, IInv, SingleOwner
  <2>4. Latched(task[p], now) = task[p]
    BY <1>2, <1>3, <2>1, <2>3, LatchedFields, ValuableWhileUnspent DEF WorkInv
  <2>5. task' = task
    BY <1>2, <1>3, <2>3, <2>4
  <2>6. idx \in Category /\ idx \in Buffer /\ idx # CACHE_BUFFER_INDEX
    BY <2>3, Indices DEF IInv, Placed
  <2>7. /\ Cardinality(m_buffers[idx]) \in Nat /\ BUFFER_CAPACITY[idx] \in Nat
        /\ IsFiniteSet(m_buffers[idx])
    BY <2>6, FiniteBuffers DEF IInv
  <2>8. Cardinality(m_buffers[idx]) + places + 1 <= BUFFER_CAPACITY[idx]
    BY <1>0, <2>3 DEF IInv, RoomInv, Carried
  <2>9. m_buffers' = [m_buffers EXCEPT ![idx] = @ \cup {id}]
    BY <1>1, <1>3, <2>3, <2>4, <2>7, <2>8 DEF IsFull
  <2>10. /\ m_buffers'[idx] = m_buffers[idx] \cup {id}
         /\ \A b \in Buffer \ {idx} : m_buffers'[b] = m_buffers[b]
    BY <2>6, <2>9 DEF IInv, TypeOK
  <2>11. id \notin m_buffers[idx]
    BY <1>0, <2>1, <2>6 DEF Calm, Clean, QueueClean, HasTask
  <2>12. Cardinality(m_buffers'[idx]) = Cardinality(m_buffers[idx]) + 1
    BY <2>7, <2>10, <2>11, FS_AddElement
  <2>13. Waiting' \subseteq Waiting /\ p \in Waiting
    BY <1>0, <1>1, <1>2 DEF Waiting, Asked, Carried
  <2>14. \A q \in Waiting : task[q].category = idx
    BY <2>1, <2>13 DEF Calm, Shifting
  <2>15. Shifting'
    BY <1>1, <1>2, <2>1, <2>5, <2>13 DEF Calm, Shifting
  <2>16. \A b : Found(b)' = Found(b)
    BY <1>2, <2>5, <2>6, <2>10, Indices DEF Found, Live
  <2>17. places # 0 => \E q \in Waiting' : TRUE
    <3> SUFFICES ASSUME places # 0 PROVE \E q \in Waiting' : TRUE
      OBVIOUS
    <3>1. PICK f \in pq : TRUE
      BY <1>1, <2>1 DEF Calm, Shifting
    <3>2. f.ptr \in Ptr
      BY <1>2 DEF Entry
    <3> QED BY <1>2, <3>2 DEF Waiting, Asked
  <2>18. PlaceInv'
    <3> SUFFICES ASSUME NEW b \in Category, Found(b) # {}
                 PROVE  IF \E q \in Waiting' : task[q].category = b
                        THEN Cardinality(m_buffers'[b]) + places + 0
                                >= BUFFER_CAPACITY[b]
                        ELSE Cardinality(m_buffers'[b]) >= BUFFER_CAPACITY[b]
      BY <1>1, <1>2, <2>5, <2>16 DEF PlaceInv, IsFull
    <3>1. b \in Buffer
      BY Indices
    <3>2. CASE b # idx
      <4>1. IsFull(b)
        BY <2>1, <2>14, <3>2 DEF Calm, PlaceInv
      <4> QED BY <2>10, <2>13, <2>14, <3>1, <3>2, <4>1 DEF IsFull
    <3>3. CASE b = idx
      <4>1. Cardinality(m_buffers[b]) + places + 1 >= BUFFER_CAPACITY[b]
        BY <1>0, <2>1, <2>13, <3>3 DEF Calm, PlaceInv
      <4>2. Cardinality(m_buffers'[b]) + places >= BUFFER_CAPACITY[b]
        BY <1>1, <2>7, <2>12, <3>3, <4>1
      <4>3. Cardinality(m_buffers'[b]) \in Nat /\ BUFFER_CAPACITY[b] \in Nat
        BY <2>7, <2>12, <3>3
      <4>4. places # 0 => \E q \in Waiting' : task[q].category = b
        BY <2>13, <2>14, <2>17, <3>3
      <4> QED BY <1>1, <4>2, <4>3, <4>4
    <3> QED BY <3>2, <3>3
  <2> QED BY <1>2, <2>1, <2>2, <2>5, <2>15, <2>18 DEF Calm
<1> QED BY <1>4, <1>5, <1>6 DEF WorkInv

-----------------------------------------------------------------------------
LEMMA InitWork == Init => WorkInv
<1> SUFFICES ASSUME Init PROVE WorkInv
  OBVIOUS
<1>1. OriginInv
  BY DEF Init, OriginInv, Live
<1>2. CacheLastInv
  BY Indices DEF Init, CacheLastInv
<1>3. /\ \A b \in Buffer : m_buffers[b] = {}
      /\ m_tasks = {} /\ overtaken = {} /\ adding = Null
      /\ pq = {} /\ unread = {} /\ places = 0 /\ shifting = Null
      /\ \A p \in Ptr : ~Live(p)
  BY DEF Init, Live
<1>4. Clean
  BY <1>3, Indices DEF Clean, OneBuffer, Owned, OvertakenDead, AddClean, QueueClean
<1>5. Shifting
  BY <1>3 DEF Shifting, Waiting, Asked, Carried
<1>6. PlaceInv
  BY <1>3, Indices DEF PlaceInv, Found
<1> QED BY <1>1, <1>2, <1>3, <1>4, <1>5, <1>6 DEF WorkInv, Calm

LEMMA NextWork ==
    ASSUME IInv, WorkInv, [Next]_vars
    PROVE  WorkInv'
<1>1. ASSUME NEW p \in Ptr, NEW m \in Message, New(p, m) PROVE WorkInv'
  BY <1>1, NewWork
<1>2. ASSUME NEW p \in Ptr, AddCheck(p) PROVE WorkInv'
  BY <1>2, AddCheckWork
<1>3. ASSUME NEW p \in Ptr, Deliver(p) PROVE WorkInv'
  <2>1. DeleteFrame(p) /\ Delete(p)
    BY <1>3 DEF Deliver, Unlocked, DeleteFrame, IInv, AddInv, LoopInv, NoShift, timer
  <2> QED BY <2>1, DeleteWork
<1>4. ASSUME NEW p \in Ptr, DeleteSwept(p) PROVE WorkInv'
  <2>1. adding = Null
    BY <1>4 DEF DeleteSwept, IInv, AddInv
  <2>2. DeleteFrame(p) /\ Delete(p)
    BY <1>4, <2>1 DEF DeleteSwept, DeleteFrame, IInv, AddInv, LoopInv, NoShift
  <2> QED BY <2>2, DeleteWork
<1>5. ASSUME NEW i \in Id, GetCacheTask(i) PROVE WorkInv'
  BY <1>5, GetCacheTaskWork
<1>6. ASSUME NEW e \in pq, ShiftCacheTask(e) PROVE WorkInv'
  BY <1>6, ShiftCacheTaskWork
<1>7. CASE ShiftAdd
  BY <1>7, ShiftAddWork
<1>8. ASSUME NEW p \in Ptr, CheckTask(p) PROVE WorkInv'
  BY <1>8, CheckTaskWork
<1>9. CASE AddPlace
  BY <1>9, AddPlaceWork
<1>10. CASE AddRecord
  BY <1>10, AddRecordWork
<1>11. CASE DeleteInvalidTask
  BY <1>11, DeleteInvalidTaskWork
<1>12. CASE Tick \/ UNCHANGED vars
  BY <1>12, TickWork
<1> QED BY <1>1, <1>2, <1>3, <1>4, <1>5, <1>6, <1>7, <1>8, <1>9, <1>10, <1>11, <1>12
       DEF Next, Locked

\* While nothing can have expired, a task waits on the cache only when its own
\* buffer is full: Process::Delete moves up as many as there is room for,
\* whatever the clock does meanwhile.
THEOREM NoRoomWasted == Spec => []WorkConserving
<1>1. Inv /\ WorkInv /\ [Next]_vars => WorkInv'
  BY NextWork DEF Inv
<1>2. Inv /\ WorkInv => WorkConserving
  <2> SUFFICES ASSUME IInv, WorkInv, Unlocked, NothingExpiredYet,
                      NEW b \in Category, Found(b) # {}
               PROVE  IsFull(b)
    BY DEF WorkConserving, Inv
  <2>1. Calm
    BY DEF WorkInv, Unspent, NothingExpiredYet
  <2>2. Waiting = {}
    BY DEF Unlocked, NoShift, IInv, LoopInv, Waiting, Asked, Carried
  <2> QED BY <2>1, <2>2 DEF Calm, PlaceInv
<1> QED BY InitWork, <1>1, <1>2, Inductive, PTL DEF Spec

=============================================================================

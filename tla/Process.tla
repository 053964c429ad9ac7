------------------------------- MODULE Process -------------------------------
(***************************************************************************)
(* The Process singleton (process.h, process.cc) with its buffers          *)
(* (buffer.h, cache_buffer.cc) and the strategy that picks the tasks to    *)
(* leave the cache (task_strategy.h).                                      *)
(*                                                                         *)
(* A task is an object at an address: `task' is the heap, Null where no    *)
(* object lives.  m_tasks and m_invalidTasks hold addresses, the buffers   *)
(* hold ids, and the cache buffer's m_idToTaskMap turns an id back into an *)
(* address, as in the code.                                                *)
(*                                                                         *)
(* Every handler runs under m_taskMutex, but the wall clock does not stop  *)
(* for a mutex and a handler asks it several times.  A handler is cut at   *)
(* each of its calls of time(nullptr): one action per call, and the second *)
(* may change between any two.  Its locals are the variables adding and    *)
(* target (Add), unread, pq, places and shifting (GetTasks and the loop of *)
(* Delete), unchecked and sweep (DeleteInvalidTask).  The mutex is held    *)
(* exactly while one of them is in use.                                    *)
(*                                                                         *)
(* An Add that the clock overtakes may leave an id behind on a buffer, and *)
(* on the cache that id leads GetTasks to the task's address even after    *)
(* `delete'.  Where another task lives there by then, it is taken for a    *)
(* cached one; where none does, what the freed memory answers is undefined *)
(* and the model lets the entry be skipped or ranked anywhere.  Moving it  *)
(* then only uses up its turn: a crash, or a write through it into the     *)
(* allocator's memory, is left out, and so is what GetOriginalBufferIdx    *)
(* does when it meets a category it does not know: it enters it, as 0.     *)
(***************************************************************************)
EXTENDS Task, FiniteSets

CONSTANTS
    Ptr,              \* addresses a task can be allocated at
    Null,             \* no object / no address
    Message,          \* the parsed messages tasks are built from
    NoCategory,       \* a category task_type.cc does not know
    NUM_BUFFER,       \* process.h: number of buffers, the cache included
    BUFFER_CAPACITY,  \* process.h: capacity of each buffer
    MaxTasks,         \* bound: tasks constructed in one behaviour
    MaxTime           \* bound: last second of the clock

CACHE_BUFFER_INDEX == NUM_BUFFER - 1
Buffer   == 0 .. NUM_BUFFER - 1
Category == 0 .. NUM_BUFFER - 2   \* task_type.cc: a category is a buffer index
Id       == 1 .. MaxTasks

\* GetTasks' pair of a task and its value: the task, the id it was found under,
\* and the second its age was asked at.
Entry == [id : Id, ptr : Ptr, at : 0 .. MaxTime]

TaskRecord ==
    [id : Id, category : Category \cup {NoCategory}, life : Int, rate : Int,
     created : Nat, cacheTime : Nat, factor : {1, 2}, hasValue : BOOLEAN]

ASSUME PtrAssumption ==
    IsFiniteSet(Ptr) /\ Null \notin Ptr \cup Buffer \cup TaskRecord \cup Entry
ASSUME BufferAssumption ==
    /\ NUM_BUFFER \in Nat /\ NUM_BUFFER >= 2
    /\ BUFFER_CAPACITY \in [Buffer -> Nat]
ASSUME MessageAssumption ==
    /\ NoCategory \notin Category
    /\ Message \subseteq [category : Category \cup {NoCategory},
                          life : Int, rate : Int]
ASSUME BoundAssumption ==
    MaxTasks \in Nat /\ MaxTime \in Nat

VARIABLES
    now,             \* time(nullptr)
    m_idSeed,        \* Task::m_idSeed
    task,            \* the heap
    m_tasks,
    m_invalidTasks,
    m_buffers,       \* Buffer::m_tasks of every buffer
    m_idToTaskMap,   \* CacheBuffer::m_idToTaskMap, Null where an id is absent
    adding,          \* the argument of the Add that runs, or Null
    target,          \* the buffer that Add chose, or Null
    unread,          \* the cached ids GetTasks has still to ask about
    pq,              \* GetTasks' queue
    places,          \* Delete: how many tasks may still be shifted
    shifting,        \* the entry ShiftCacheTask has taken off the cache, or Null
    unchecked,       \* DeleteInvalidTask: the tasks still to ask
    sweep,           \* DeleteInvalidTask's invalidTasks still to delete
    overtaken        \* history: the ids of tasks that lost their value between
                     \* Add's placing and its last check

sets  == <<m_tasks, m_invalidTasks, overtaken>>
store == <<m_buffers, m_idToTaskMap>>
shift == <<unread, pq, places, shifting>>
timer == <<unchecked, sweep>>
frame == <<adding, target, shift, timer>>
vars  == <<now, m_idSeed, task, sets, store, frame>>

TypeOK ==
    /\ now \in 0 .. MaxTime
    /\ m_idSeed \in 0 .. MaxTasks
    /\ task \in [Ptr -> TaskRecord \cup {Null}]
    /\ m_tasks \in SUBSET Ptr
    /\ m_invalidTasks \in SUBSET Ptr
    /\ m_buffers \in [Buffer -> SUBSET Id]
    /\ m_idToTaskMap \in [Id -> Ptr \cup {Null}]
    /\ adding \in Ptr \cup {Null}
    /\ target \in Buffer \cup {Null}
    /\ unread \in SUBSET Id
    /\ pq \in SUBSET Entry
    /\ places \in Nat
    /\ shifting \in Entry \cup {Null}
    /\ unchecked \in SUBSET Ptr
    /\ sweep \in SUBSET Ptr
    /\ overtaken \in SUBSET Id
-----------------------------------------------------------------------------
\* Process::Process: empty buffers.  Nothing is allocated yet.
Init ==
    /\ now = 0
    /\ m_idSeed = 0
    /\ task = [p \in Ptr |-> Null]
    /\ m_tasks = {}
    /\ m_invalidTasks = {}
    /\ m_buffers = [b \in Buffer |-> {}]
    /\ m_idToTaskMap = [i \in Id |-> Null]
    /\ adding = Null
    /\ target = Null
    /\ unread = {} /\ pq = {} /\ places = 0 /\ shifting = Null
    /\ unchecked = {} /\ sweep = {}
    /\ overtaken = {}

\* No Delete is shifting tasks.
NoShift == places = 0 /\ shifting = Null

\* m_taskMutex is free.
Unlocked == adding = Null /\ NoShift /\ unchecked = {} /\ sweep = {}

Live(p) == task[p] # Null

\* Mutant of IsFull: one task too many.
IsFullLate(b) == Cardinality(m_buffers[b]) > BUFFER_CAPACITY[b]

IsFull(b) == Cardinality(m_buffers[b]) >= BUFFER_CAPACITY[b]

HasTask(b, p) == task[p].id \in m_buffers[b]

\* Mutants of AvailableCacheSize: one place too many, one too few.
OneTooMany(b, ids) ==
    IF b = CACHE_BUFFER_INDEX THEN 0 ELSE BUFFER_CAPACITY[b] - Cardinality(ids) + 1
OneTooFew(b, ids) ==
    IF b = CACHE_BUFFER_INDEX THEN 0 ELSE BUFFER_CAPACITY[b] - Cardinality(ids) - 1

\* Buffer::AvailableCacheSize of buffer b when it holds ids, and the cache
\* buffer's override of it.
AvailableCacheSize(b, ids) ==
    IF b = CACHE_BUFFER_INDEX THEN 0 ELSE BUFFER_CAPACITY[b] - Cardinality(ids)

\* Mutant of GetBufferIdx: the buffer the task is meant for.
IntendedIdx(p) == task[p].category

\* Process::GetBufferIdx: the buffer a task of m_tasks is on, and 0 when it is
\* on none.
GetBufferIdx(p) ==
    IF \E b \in Buffer : HasTask(b, p)
    THEN CHOOSE b \in Buffer : /\ HasTask(b, p)
                              /\ \A c \in Buffer : HasTask(c, p) => b <= c
    ELSE 0

\* The cached ids whose task is meant for buffer b, and those that lead to
\* freed memory.
Found(b) ==
    {i \in m_buffers[CACHE_BUFFER_INDEX] :
        Live(m_idToTaskMap[i]) /\ task[m_idToTaskMap[i]].category = b}

Astray ==
    {i \in m_buffers[CACHE_BUFFER_INDEX] : ~Live(m_idToTaskMap[i])}

\* Mutant of Sooner: the comparison of MAX_LEFT_TASK_AGE.
Later(f, e) ==
    /\ Live(f.ptr) /\ Live(e.ptr)
    /\ LeftAgeLess(task[e.ptr], e.at, task[f.ptr], f.at)

\* The order of the queue under MIN_LEFT_TASK_AGE: f had less time left when it
\* was asked than e when e was.  Ties are broken by address, that is, anyhow.
Sooner(f, e) ==
    /\ Live(f.ptr) /\ Live(e.ptr)
    /\ LeftAgeLess(task[f.ptr], f.at, task[e.ptr], e.at)
-----------------------------------------------------------------------------
\* The server builds a task from a message it has read (new Task, Task::Task).
New(p, m) ==
    /\ ~Live(p)
    /\ m_idSeed < MaxTasks
    /\ m_idSeed' = m_idSeed + 1
    /\ task' = [task EXCEPT ![p] = NewTask(m_idSeed', m, now, Category)]
    /\ UNCHANGED <<now, sets, store, frame>>

\* Process::Add up to the choice of a buffer.  p is a task no Add has had yet:
\* every task has one Dispatcher.
AddCheck(p) ==
    /\ Unlocked
    /\ Live(p)
    /\ p \notin m_tasks \cup m_invalidTasks
    /\ adding' = p
    /\ LET t   == Latched(task[p], now)
           idx == t.category
       IN  \/ /\ ~t.hasValue
              /\ target' = Null
              /\ task' = [task EXCEPT ![p] = t]
           \/ /\ t.hasValue
              /\ ~IsFull(idx)
              /\ target' = idx
              /\ task' = [task EXCEPT ![p] = t]
           \/ /\ t.hasValue
              /\ IsFull(idx)
              /\ ~IsFull(CACHE_BUFFER_INDEX)
              /\ target' = CACHE_BUFFER_INDEX
              /\ task' = [task EXCEPT ![p] = AddToCacheBuffer(t)]
           \/ /\ t.hasValue
              /\ IsFull(idx)
              /\ IsFull(CACHE_BUFFER_INDEX)
              /\ target' = Null
              /\ task' = [task EXCEPT ![p] = Drop(t)]
    /\ UNCHANGED <<now, m_idSeed, sets, store, shift, timer>>

\* Buffer::Add and CacheBuffer::Add on the chosen buffer.  The buffer asks for
\* validity again; the cache buffer writes its map whatever the answer was.
AddPlace ==
    /\ adding # Null
    /\ target # Null
    /\ LET t == Latched(task[adding], now)
       IN  /\ task' = [task EXCEPT ![adding] = t]
           /\ m_buffers' =
                [m_buffers EXCEPT ![target] =
                    @ \cup {i \in {t.id} : t.hasValue /\ ~IsFull(target)}]
           /\ m_idToTaskMap' =
                [m_idToTaskMap EXCEPT ![t.id] =
                    IF target = CACHE_BUFFER_INDEX THEN adding ELSE @]
    /\ target' = Null
    /\ UNCHANGED <<now, m_idSeed, sets, adding, shift, timer>>

\* The end of Process::Add: one more check, and the set it decides.
AddRecord ==
    /\ adding # Null
    /\ target = Null
    /\ LET t == Latched(task[adding], now)
       IN  /\ task' = [task EXCEPT ![adding] = t]
           /\ \/ /\ t.hasValue
                 /\ m_tasks' = m_tasks \cup {adding}
                 /\ UNCHANGED <<m_invalidTasks, overtaken>>
              \/ /\ ~t.hasValue
                 /\ m_invalidTasks' = m_invalidTasks \cup {adding}
                 /\ overtaken' = overtaken \cup
                                   {i \in {t.id} : task[adding].hasValue}
                 /\ UNCHANGED m_tasks
    /\ adding' = Null
    /\ UNCHANGED <<now, m_idSeed, store, target, shift, timer>>
-----------------------------------------------------------------------------
\* Process::Delete, first branch: a task of m_tasks leaves its buffer, loses
\* its value and moves to m_invalidTasks.  GetCacheTasks begins: the cached
\* tasks of that buffer are to be asked, unless there is no room for any.
Invalidate(p) ==
    LET idx == GetBufferIdx(p)
        t   == task[p]
        num == AvailableCacheSize(idx, m_buffers[idx] \ {t.id})
    IN  /\ m_buffers' = [m_buffers EXCEPT ![idx] = @ \ {t.id}]
        /\ IF idx = CACHE_BUFFER_INDEX
           THEN /\ m_idToTaskMap' = [m_idToTaskMap EXCEPT ![t.id] = Null]
                /\ task' = [task EXCEPT ![p] = Drop(SetCacheTime(t, now))]
           ELSE /\ task' = [task EXCEPT ![p] = Drop(t)]
                /\ UNCHANGED m_idToTaskMap
        /\ m_tasks' = m_tasks \ {p}
        /\ m_invalidTasks' = m_invalidTasks \cup {p}
        /\ \E taken \in SUBSET Astray :
              IF num > 0 /\ Found(idx) \cup taken # {}
              THEN unread' = Found(idx) \cup taken /\ places' = num
              ELSE unread' = {} /\ places' = 0
        /\ UNCHANGED <<pq, shifting, overtaken>>

\* Mutant of Free: the address stays in m_invalidTasks.
FreeKeepsAddress(p) ==
    /\ task' = [task EXCEPT ![p] = Null]
    /\ UNCHANGED <<sets, store, shift>>

\* Process::Delete, second branch: `delete task'.
Free(p) ==
    /\ m_invalidTasks' = m_invalidTasks \ {p}
    /\ task' = [task EXCEPT ![p] = Null]
    /\ UNCHANGED <<m_tasks, overtaken, store, shift>>

\* Mutant of Delete: a task of m_tasks is deleted on the spot.
DeleteAtOnce(p) ==
    \/ /\ p \in m_tasks
       /\ m_buffers' = [m_buffers EXCEPT ![GetBufferIdx(p)] = @ \ {task[p].id}]
       /\ m_tasks' = m_tasks \ {p}
       /\ task' = [task EXCEPT ![p] = Null]
       /\ UNCHANGED <<m_invalidTasks, overtaken, m_idToTaskMap, shift>>
    \/ p \notin m_tasks /\ p \in m_invalidTasks /\ Free(p)
    \/ p \notin m_tasks \cup m_invalidTasks /\ UNCHANGED <<task, sets, store, shift>>

Delete(p) ==
    \/ p \in m_tasks /\ Invalidate(p)
    \/ p \notin m_tasks /\ p \in m_invalidTasks /\ Free(p)
    \/ /\ p \notin m_tasks \cup m_invalidTasks
       /\ UNCHANGED <<task, sets, store, shift>>

\* One turn of GetTasks' loop over the cache: the task under id i is asked for
\* its age and queued.
GetCacheTask(i) ==
    /\ i \in unread
    /\ pq' = pq \cup {[id |-> i, ptr |-> m_idToTaskMap[i], at |-> now]}
    /\ unread' = unread \ {i}
    /\ UNCHANGED <<now, m_idSeed, task, sets, store, adding, target, places,
                   shifting, timer>>

\* One turn of Delete's loop: the next task off the queue, and ShiftCacheTask up
\* to CacheBuffer::Remove.  The queue is dropped after the last of the `num'
\* turns, or when it is empty.
ShiftCacheTask(e) ==
    /\ unread = {} /\ shifting = Null
    /\ e \in pq
    /\ \A f \in pq : ~Sooner(f, e)
    /\ shifting' = e
    /\ LET last == places = 1 \/ pq = {e}
       IN  /\ places' = IF last THEN 0 ELSE places - 1
           /\ pq' = IF last THEN {} ELSE pq \ {e}
    /\ \/ /\ Live(e.ptr)
          /\ LET t == SetCacheTime(task[e.ptr], now)
             IN  /\ task' = [task EXCEPT ![e.ptr] = t]
                 /\ m_buffers' = [m_buffers EXCEPT ![CACHE_BUFFER_INDEX] = @ \ {t.id}]
                 /\ m_idToTaskMap' = [m_idToTaskMap EXCEPT ![t.id] = Null]
       \/ ~Live(e.ptr) /\ UNCHANGED <<task, store>>
    /\ UNCHANGED <<now, m_idSeed, sets, adding, target, unread, timer>>

\* ShiftCacheTask's Buffer::Add: the task's own buffer asks for its value, and
\* refuses it without a word if it is gone.
ShiftAdd ==
    /\ shifting # Null
    /\ LET p == shifting.ptr
       IN  \/ /\ Live(p)
              /\ LET t   == Latched(task[p], now)
                     idx == t.category
                 IN  /\ task' = [task EXCEPT ![p] = t]
                     /\ m_buffers' =
                          [m_buffers EXCEPT ![idx] =
                              @ \cup {i \in {t.id} : t.hasValue /\ ~IsFull(idx)}]
           \/ ~Live(p) /\ UNCHANGED <<task, m_buffers>>
    /\ shifting' = Null
    /\ UNCHANGED <<now, m_idSeed, sets, m_idToTaskMap, adding, target, unread,
                   pq, places, timer>>

\* Process::Deliver.  p is an address a driver kept: it need not be alive.
Deliver(p) ==
    /\ Unlocked
    /\ Delete(p)
    /\ UNCHANGED <<now, m_idSeed, adding, target, timer>>

\* Mutant of DeleteInvalidTask: the tasks of m_tasks are not looked at.
SweepInvalidOnly ==
    /\ Unlocked
    /\ unchecked' = {}
    /\ sweep' = m_invalidTasks
    /\ UNCHANGED <<now, m_idSeed, task, sets, store, adding, target, shift>>

\* Process::DeleteInvalidTask begins: all of m_tasks is to be asked, and all of
\* m_invalidTasks to be deleted.
DeleteInvalidTask ==
    /\ Unlocked
    /\ unchecked' = m_tasks
    /\ sweep' = m_invalidTasks
    /\ UNCHANGED <<now, m_idSeed, task, sets, store, adding, target, shift>>

\* One turn of its first loop: task p is asked.
CheckTask(p) ==
    /\ p \in unchecked
    /\ task' = [task EXCEPT ![p] = Latched(@, now)]
    /\ sweep' = sweep \cup {q \in {p} : ~IsValid(task[p], now)}
    /\ unchecked' = unchecked \ {p}
    /\ UNCHANGED <<now, m_idSeed, sets, store, adding, target, shift>>

\* One turn of its second loop, in the order of a hash set.
DeleteSwept(p) ==
    /\ unchecked = {} /\ NoShift
    /\ p \in sweep
    /\ Delete(p)
    /\ sweep' = sweep \ {p}
    /\ UNCHANGED <<now, m_idSeed, adding, target, unchecked>>

\* The wall clock.
Tick ==
    /\ now < MaxTime
    /\ now' = now + 1
    /\ UNCHANGED <<m_idSeed, task, sets, store, frame>>

Locked ==
    \/ AddPlace
    \/ AddRecord
    \/ \E i \in Id : GetCacheTask(i)
    \/ \E e \in pq : ShiftCacheTask(e)
    \/ ShiftAdd
    \/ \E p \in Ptr : CheckTask(p)
    \/ \E p \in Ptr : DeleteSwept(p)

Next ==
    \/ \E p \in Ptr, m \in Message : New(p, m)
    \/ \E p \in Ptr : AddCheck(p)
    \/ \E p \in Ptr : Deliver(p)
    \/ DeleteInvalidTask
    \/ Locked
    \/ Tick

Spec == Init /\ [][Next]_vars
-----------------------------------------------------------------------------
\* The tasks whose ids may be on a buffer.
Held == m_tasks \cup ({adding} \ {Null})

BuffersOf(p) == {b \in Buffer : HasTask(b, p)}

\* ShiftCacheTask has taken the task at p off the cache and not yet added it.
Carried(p) == shifting # Null /\ shifting.ptr = p

\* The cache holds the id of a freed task: its map leads nowhere, or to another.
Dangling ==
    \E i \in m_buffers[CACHE_BUFFER_INDEX] :
        \A p \in Ptr : Live(p) => task[p].id # i

\* No two live objects carry the same id, and none an id not yet given out.
IdsUnique ==
    \A p \in Ptr : Live(p) =>
        /\ task[p].id <= m_idSeed
        /\ \A q \in Ptr \ {p} : Live(q) => task[q].id # task[p].id

\* A task the process knows is alive and in one set only, so that the loops of
\* DeleteInvalidTask and ~Process cannot delete it twice or use it after.
SingleOwner ==
    /\ m_tasks \cap m_invalidTasks = {}
    /\ \A p \in m_tasks \cup m_invalidTasks : Live(p)
    /\ unchecked \subseteq m_tasks
    /\ sweep \subseteq m_tasks \cup m_invalidTasks
    /\ adding # Null => Live(adding) /\ adding \notin m_tasks \cup m_invalidTasks

\* Every id on a buffer is that of a task held by the process, the buffer is
\* the task's own or the cache, whose map leads to the task, and no task is on
\* two buffers.  There is one exception, an id left behind by an Add that the
\* clock overtook between Buffer::Add and process.cc:92; and one end to it,
\* when the task of such an id on the cache has been freed.
BuffersHoldTasks ==
    ~Dangling =>
        \A b \in Buffer : \A i \in m_buffers[b] \ overtaken :
            \E p \in Held :
                /\ task[p].id = i
                /\ \/ b = task[p].category
                   \/ b = CACHE_BUFFER_INDEX /\ m_idToTaskMap[i] = p
                /\ BuffersOf(p) = {b}

\* A task that still counts as valuable is on a buffer, or on its way from the
\* cache to its own: no handler loses one that could still be delivered, however
\* the clock runs inside it.
ValuableIsPlaced ==
    \A p \in m_tasks : task[p].hasValue => BuffersOf(p) # {} \/ Carried(p)

\* A task waiting to be freed is dead, and unless the clock overtook its Add its
\* id is on no buffer, so that `delete' leaves no reference behind.
InvalidIsGone ==
    \A p \in m_invalidTasks :
        /\ ~task[p].hasValue
        /\ ~Dangling /\ task[p].id \notin overtaken => BuffersOf(p) = {}

\* No buffer holds more than its capacity, with the tasks that a running Delete
\* is about to shift counted in.
WithinCapacity ==
    /\ \A b \in Buffer : Cardinality(m_buffers[b]) <= BUFFER_CAPACITY[b]
    /\ \A p \in m_tasks :
          Carried(p) \/ (\E e \in pq : e.ptr = p) =>
              Cardinality(m_buffers[task[p].category]) + places
                  + (IF shifting = Null THEN 0 ELSE 1)
                      <= BUFFER_CAPACITY[task[p].category]

\* So early that no task can have run out of value, on the cache or elsewhere.
NothingExpiredYet == \A m \in Message : (1 + 2 * m.rate) * now < m.life

\* Until tasks expire, none waits on the cache while its own buffer has room.
\* (So Add, which looks at the own buffer first, overtakes nobody.)
WorkConserving ==
    Unlocked /\ NothingExpiredYet =>
        \A b \in Category : Found(b) # {} => IsFull(b)

\* A task that Delete takes off the cache leaves no task of its category there
\* that was not asked for its time left, or that had less of it when it was
\* asked: what stays is more urgent by at most the seconds between the two
\* questions, and not at all when the second did not change.
UrgentFirst ==
    [][\A e \in pq : shifting = Null /\ shifting' = e /\ e.ptr \in m_tasks =>
          \A q \in m_tasks :
              /\ HasTask(CACHE_BUFFER_INDEX, q)'
              /\ task[q].category = task[e.ptr].category
              => \E f \in pq :
                    f.ptr = q /\ ~LeftAgeLess(task[q], f.at, task[e.ptr], e.at)]_vars

\* The time left that the strategy reckons with, life / (1 + 2 * rate) - age,
\* brackets what a shift does: a task whose time was used up when Delete asked
\* for it is not saved, and one that is lost has used it up by now.  Within one
\* second the two are the same question.
LeftAgeBrackets ==
    [][shifting # Null /\ shifting' = Null =>
          LET p == shifting.ptr
              t == task[p]
          IN  Live(p) /\ t.hasValue =>
                IF task'[p].hasValue
                THEN t.life > (1 + 2 * t.rate) * GetAge(t, shifting.at)
                ELSE t.life <= (1 + 2 * t.rate) * GetAge(t, now)]_vars
-----------------------------------------------------------------------------
\* What comments claim and the code does not do.

\* task.h: "When an task is placed at the cache buffer [...] drop rate is
\* double": each second on the cache costs 1 + 2 * rate.
DropRateDoublesOnCache ==
    [][\A p \in m_tasks :
          now' = now + 1 /\ BuffersOf(p) = {CACHE_BUFFER_INDEX}
                         /\ task[p].hasValue =>
              GetValue(task[p], now') <= GetValue(task[p], now)
                                         - (1 + 2 * task[p].rate)]_vars

\* process.h: "Size() returns number of tasks on buffers."
SizeCountsTasksOnBuffers ==
    Unlocked => Cardinality(m_tasks) = Cardinality(UNION {m_buffers[b] : b \in Buffer})

\* process.h: "m_invalidTasks saves invalid tasks which can't be placed on
\* buffer."
InvalidTasksAreOnNoBuffer ==
    \A p \in m_invalidTasks : BuffersOf(p) = {}

\* buffer.h: "The mapping is aded in Add() method. And is removed by Remove()":
\* a mapping does not outlive its task.
MappingIsRemoved ==
    \A i \in Id : m_idToTaskMap[i] # Null =>
        Live(m_idToTaskMap[i]) /\ task[m_idToTaskMap[i]].id = i
=============================================================================

------------------------------ MODULE Scheduler ------------------------------
(***************************************************************************)
(* The fiber scheduler (Scheduler.h, Scheduler.cc): threads that take      *)
(* fibers and callbacks off one list, run them until they yield, and put   *)
(* them back; start, stop and, with use_caller, the thread that constructs *)
(* the scheduler and works for it only inside stop().                      *)
(*                                                                         *)
(* Every section under m_mutex is one step, and so is every unguarded      *)
(* access to a fiber's state, to m_activeThreadCount or to the flags that  *)
(* another thread can tell apart.  A worker's program counter is           *)
(*    off      its thread does not run                                     *)
(*    pop      at the head of the loop of run()                            *)
(*    check    has taken an entry off the list                             *)
(*    swap     about to swap a fiber in                                    *)
(*    run      the fiber's own code runs                                   *)
(*    park     the fiber is known to a waker and about to YieldToHold      *)
(*    ready    inside YieldToReady, the state written, not yet swapped out *)
(*    back     the fiber is off its stack                                  *)
(*    after    m_activeThreadCount is decremented                          *)
(*    requeue  has read READY                                              *)
(*    hold     has read none of READY, TERM and EXCEPT                     *)
(*    idle     in the idle fiber                                           *)
(*    done     run() has returned                                          *)
(* tickle() only logs, and m_idleThreadCount is never read: both are left  *)
(* out.  Callbacks are all alike.                                          *)
(***************************************************************************)
EXTENDS Fiber, Sequences

CONSTANTS
    Worker,      \* threads that ever execute run()
    Root,        \* the constructing thread under use_caller, else Null
    Null,        \* no fiber, no root
    AnyThread,   \* schedule's thread = -1
    Pin,         \* the values the application passes for thread
    MaxSubmit,   \* bound: schedule calls for new fibers and callbacks
    MaxStarts,   \* bound: calls of start()
    MaxStops,    \* bound: calls of stop()
    Careless     \* "stray": a fiber may be scheduled without having asked;
                 \* "late": threads may schedule after stop() was called

ASSUME WorkerAssumption ==
    /\ IsFiniteSet(Worker) /\ Worker # {}
    /\ Null \notin Worker \cup Fiber
    /\ AnyThread \notin Worker
    /\ Root \in Worker \cup {Null}
ASSUME UseAssumption ==
    /\ Pin \subseteq Worker \cup {AnyThread}
    /\ MaxSubmit \in Nat /\ MaxStarts \in Nat /\ MaxStops \in Nat
    /\ Careless \subseteq {"stray", "late"}

Threads == Worker \ {Root}   \* m_threads, of which there are m_threadCount

VARIABLES
    m_fibers,             \* the list, of entries
    m_activeThreadCount,
    m_stopping,
    m_autoStop,
    rootState,            \* m_rootFiber's state
    main,                 \* where the thread that calls start and stop is
    starts,               \* calls of start() so far
    stops,                \* calls of stop() so far
    pc,
    ft,                   \* run()'s local: the entry a worker has taken
    cbFiber,              \* run()'s local: the fiber kept for callbacks
    idleEnded,            \* run()'s local: idle_fiber is TERM
    armed,                \* fibers some waker will schedule
    submitted             \* schedule calls counted against MaxSubmit

flags == <<m_stopping, m_autoStop>>
locals == <<pc, ft, cbFiber, idleEnded>>
calls == <<starts, stops>>
mains == <<flags, rootState, main, calls>>
app == <<armed, submitted>>
vars == <<m_state, m_fibers, m_activeThreadCount, mains, locals, app>>

\* FiberAndThread: an entry without a fiber holds a callback.
Entry == [fiber : Fiber \cup {Null}, thread : Worker \cup {AnyThread}]
NoTask == [fiber |-> Null, thread |-> AnyThread]

Location == {"off", "pop", "check", "swap", "run", "park", "ready", "back",
             "after", "requeue", "hold", "idle", "done"}

TypeOK ==
    /\ m_state \in [Fiber -> State \cup {"none"}]
    /\ m_fibers \in Seq(Entry)
    /\ m_activeThreadCount \in 0 .. Cardinality(Worker)
    /\ m_stopping \in BOOLEAN /\ m_autoStop \in BOOLEAN
    /\ rootState \in {"INIT", "EXEC", "TERM"}
    /\ main \in {"ready", "running", "stop", "call", "join"}
    /\ starts \in 0 .. MaxStarts
    /\ stops \in 0 .. MaxStops
    /\ pc \in [Worker -> Location]
    /\ ft \in [Worker -> Entry]
    /\ cbFiber \in [Worker -> Fiber \cup {Null}]
    /\ idleEnded \in [Worker -> BOOLEAN]
    /\ armed \in SUBSET Fiber
    /\ submitted \in 0 .. MaxSubmit
-----------------------------------------------------------------------------
\* Scheduler::Scheduler.
Init ==
    /\ m_state = [f \in Fiber |-> "none"]
    /\ m_fibers = <<>>
    /\ m_activeThreadCount = 0
    /\ m_stopping = TRUE
    /\ m_autoStop = FALSE
    /\ rootState = "INIT"
    /\ main = "ready"
    /\ starts = 0
    /\ stops = 0
    /\ pc = [w \in Worker |-> "off"]
    /\ ft = [w \in Worker |-> NoTask]
    /\ cbFiber = [w \in Worker |-> Null]
    /\ idleEnded = [w \in Worker |-> FALSE]
    /\ armed = {}
    /\ submitted = 0

\* The fiber worker w has in hand.
Cur(w) == IF ft[w].fiber # Null THEN ft[w].fiber ELSE cbFiber[w]

GoTo(w, l) == pc' = [pc EXCEPT ![w] = l]

\* Scheduler::schedule and scheduleNoLock.
scheduleNoLock(f, t) == m_fibers' = Append(m_fibers, [fiber |-> f, thread |-> t])

\* Scheduler::stopping.
stopping ==
    /\ m_autoStop
    /\ m_stopping
    /\ m_fibers = <<>>
    /\ m_activeThreadCount = 0
-----------------------------------------------------------------------------
\* Scheduler::start.
start ==
    /\ main = "ready"
    /\ starts < MaxStarts
    /\ m_stopping
    /\ m_stopping' = FALSE
    /\ main' = "running"
    /\ starts' = starts + 1
    /\ pc' = [w \in Worker |-> IF w \in Threads THEN "pop" ELSE pc[w]]
    /\ UNCHANGED <<m_state, m_fibers, m_activeThreadCount, m_autoStop,
                   rootState, stops, ft, cbFiber, idleEnded, app>>

\* Scheduler::stop, called with or without a start before it, up to the flags.
\* Without threads, and nothing left to do, it returns at once.
stop ==
    /\ main \in {"ready", "running"}
    /\ stops < MaxStops
    /\ stops' = stops + 1
    /\ m_autoStop' = TRUE
    /\ m_stopping' = TRUE
    /\ UNCHANGED <<m_state, m_fibers, m_activeThreadCount, rootState, starts,
                   locals, app>>
    /\ main' = IF Threads = {} /\ stopping' THEN "ready" ELSE "stop"

\* stop() lets the calling thread work: m_rootFiber->call(), which runs run().
callRoot ==
    /\ main = "stop"
    /\ IF Root = Null \/ stopping
       THEN main' = "join" /\ UNCHANGED <<rootState, pc>>
       ELSE /\ rootState = "INIT"
            /\ rootState' = "EXEC"
            /\ main' = "call"
            /\ GoTo(Root, "pop")
    /\ UNCHANGED <<m_state, m_fibers, m_activeThreadCount, flags, calls,
                   ft, cbFiber, idleEnded, app>>

\* run() has returned on the root fiber, and call() returns.
rootReturns ==
    /\ main = "call"
    /\ pc[Root] = "done"
    /\ rootState' = "TERM"
    /\ main' = "join"
    /\ UNCHANGED <<m_state, m_fibers, m_activeThreadCount, flags, calls,
                   locals, app>>

\* stop() joins the threads and returns.
join ==
    /\ main = "join"
    /\ \A w \in Threads : pc[w] \in {"off", "done"}
    /\ main' = "ready"
    /\ pc' = [w \in Worker |-> IF w \in Threads THEN "off" ELSE pc[w]]
    /\ idleEnded' = [w \in Worker |-> w \notin Threads /\ idleEnded[w]]
    /\ UNCHANGED <<m_state, m_fibers, m_activeThreadCount, flags, rootState,
                   calls, ft, cbFiber, app>>
-----------------------------------------------------------------------------
\* Mutant of Takable: the state is not looked at.
TakableByThread(w, e) == e.thread \in {AnyThread, w}

\* May worker w take entry e?  A fiber in EXEC is still on some stack.
Takable(w, e) ==
    /\ e.thread \in {AnyThread, w}
    /\ e.fiber # Null => m_state[e.fiber] # "EXEC"

\* run() takes the first entry it may take.
pop(w) ==
    /\ pc[w] = "pop"
    /\ \E i \in DOMAIN m_fibers :
          /\ Takable(w, m_fibers[i])
          /\ \A j \in 1 .. i - 1 : ~Takable(w, m_fibers[j])
          /\ ft' = [ft EXCEPT ![w] = m_fibers[i]]
          /\ m_fibers' = SubSeq(m_fibers, 1, i - 1)
                         \o SubSeq(m_fibers, i + 1, Len(m_fibers))
    /\ m_activeThreadCount' = m_activeThreadCount + 1
    /\ GoTo(w, "check")
    /\ UNCHANGED <<m_state, mains, cbFiber, idleEnded, app>>

\* Mutant of popNothing: the end of the idle fiber is looked at first.
popUnlessIdleEnded(w) ==
    /\ pc[w] = "pop"
    /\ idleEnded[w] \/ \A i \in DOMAIN m_fibers : ~Takable(w, m_fibers[i])
    /\ GoTo(w, IF idleEnded[w] THEN "done" ELSE "idle")
    /\ UNCHANGED <<m_state, m_fibers, m_activeThreadCount, mains, ft, cbFiber,
                   idleEnded, app>>

\* run() finds nothing: it swaps the idle fiber in, or returns when that one
\* has ended.
popNothing(w) ==
    /\ pc[w] = "pop"
    /\ \A i \in DOMAIN m_fibers : ~Takable(w, m_fibers[i])
    /\ \/ /\ idleEnded[w]
          /\ GoTo(w, "done")
          /\ cbFiber' = [cbFiber EXCEPT ![w] = Null]
       \/ /\ ~idleEnded[w]
          /\ GoTo(w, "idle")
          /\ UNCHANGED cbFiber
    /\ UNCHANGED <<m_state, m_fibers, m_activeThreadCount, mains, ft,
                   idleEnded, app>>

\* Scheduler::idle, one turn of its loop.
idle(w) ==
    /\ pc[w] = "idle"
    /\ idleEnded' = [idleEnded EXCEPT ![w] = stopping]
    /\ GoTo(w, "pop")
    /\ UNCHANGED <<m_state, m_fibers, m_activeThreadCount, mains, ft, cbFiber,
                   app>>

\* Mutant of dropEnded: `continue' without the decrement.
dropUncounted(w) ==
    /\ pc[w] = "check"
    /\ ft[w].fiber # Null
    /\ m_state[ft[w].fiber] \in Ended
    /\ ft' = [ft EXCEPT ![w] = NoTask]
    /\ GoTo(w, "pop")
    /\ UNCHANGED <<m_state, m_fibers, m_activeThreadCount, mains, cbFiber,
                   idleEnded, app>>

\* run() with a fiber that has ended in the meantime.
dropEnded(w) ==
    /\ pc[w] = "check"
    /\ ft[w].fiber # Null
    /\ m_state[ft[w].fiber] \in Ended
    /\ m_activeThreadCount' = m_activeThreadCount - 1
    /\ ft' = [ft EXCEPT ![w] = NoTask]
    /\ GoTo(w, "pop")
    /\ UNCHANGED <<m_state, m_fibers, mains, cbFiber, idleEnded, app>>

\* run() with a fiber to run.
takeFiber(w) ==
    /\ pc[w] = "check"
    /\ ft[w].fiber # Null
    /\ m_state[ft[w].fiber] \notin Ended
    /\ GoTo(w, "swap")
    /\ UNCHANGED <<m_state, m_fibers, m_activeThreadCount, mains, ft, cbFiber,
                   idleEnded, app>>

\* run() with a callback: cb_fiber is reset, or a new one is made.
takeCallback(w) ==
    /\ pc[w] = "check"
    /\ ft[w].fiber = Null
    /\ \/ /\ cbFiber[w] # Null
          /\ CanReset(cbFiber[w])
          /\ reset(cbFiber[w])
          /\ UNCHANGED cbFiber
       \/ /\ cbFiber[w] = Null
          /\ \E f \in Fiber : /\ Construct(f)
                              /\ cbFiber' = [cbFiber EXCEPT ![w] = f]
    /\ ft' = [ft EXCEPT ![w] = NoTask]
    /\ GoTo(w, "swap")
    /\ UNCHANGED <<m_fibers, m_activeThreadCount, mains, idleEnded, app>>

swap(w) ==
    /\ pc[w] = "swap"
    /\ CanSwapIn(Cur(w))
    /\ swapIn(Cur(w))
    /\ GoTo(w, "run")
    /\ UNCHANGED <<m_fibers, m_activeThreadCount, mains, ft, cbFiber,
                   idleEnded, app>>
-----------------------------------------------------------------------------
\* What a running fiber may do with the scheduler.

\* The application schedules a callback or a new fiber, from a running fiber or
\* from any other thread.
Submit(t) ==
    /\ \/ main \in {"ready", "running"}
       \/ "late" \in Careless
       \/ \E w \in Worker : pc[w] = "run"
    /\ submitted < MaxSubmit
    /\ submitted' = submitted + 1
    /\ \/ scheduleNoLock(Null, t) /\ UNCHANGED m_state
       \/ \E f \in Fiber : Construct(f) /\ scheduleNoLock(f, t)
    /\ UNCHANGED <<m_activeThreadCount, mains, locals, armed>>

\* Scheduler::switchTo: the fiber schedules itself, then holds.
switchTo(w, t) ==
    /\ pc[w] = "run"
    /\ t # w /\ t # AnyThread
    /\ scheduleNoLock(Cur(w), t)
    /\ GoTo(w, "park")
    /\ UNCHANGED <<m_state, m_activeThreadCount, mains, ft, cbFiber, idleEnded,
                   app>>

\* The fiber hands itself to a waker, then holds.  The waker may be faster.
arm(w) ==
    /\ pc[w] = "run"
    /\ armed' = armed \cup {Cur(w)}
    /\ GoTo(w, "park")
    /\ UNCHANGED <<m_state, m_fibers, m_activeThreadCount, mains, ft, cbFiber,
                   idleEnded, submitted>>

hold(w) ==
    /\ pc[w] = "park"
    /\ CanYield(Cur(w))
    /\ YieldToHold(Cur(w))
    /\ GoTo(w, "back")
    /\ UNCHANGED <<m_fibers, m_activeThreadCount, mains, ft, cbFiber,
                   idleEnded, app>>

yield(w) ==
    /\ pc[w] = "run"
    /\ CanYield(Cur(w))
    /\ YieldToReady(Cur(w))
    /\ GoTo(w, "ready")
    /\ UNCHANGED <<m_fibers, m_activeThreadCount, mains, ft, cbFiber,
                   idleEnded, app>>

\* Fiber::swapOut of a fiber that yields READY.
swapOut(w) ==
    /\ pc[w] = "ready"
    /\ GoTo(w, "back")
    /\ UNCHANGED <<m_state, m_fibers, m_activeThreadCount, mains, ft, cbFiber,
                   idleEnded, app>>

finish(w) ==
    /\ pc[w] = "run"
    /\ MainFunc(Cur(w))
    /\ GoTo(w, "back")
    /\ UNCHANGED <<m_fibers, m_activeThreadCount, mains, ft, cbFiber,
                   idleEnded, app>>

\* A waker keeps its word; a stray one schedules any fiber it has a pointer to.
Wake(f, t) ==
    /\ \/ /\ f \in armed
          /\ armed' = armed \ {f}
          /\ UNCHANGED submitted
       \/ /\ "stray" \in Careless
          /\ Built(f)
          /\ submitted < MaxSubmit
          /\ submitted' = submitted + 1
          /\ UNCHANGED armed
    /\ scheduleNoLock(f, t)
    /\ UNCHANGED <<m_state, m_activeThreadCount, mains, locals>>
-----------------------------------------------------------------------------
\* Mutant of decrement: the worker counts as active for ever.
decrementNothing(w) ==
    /\ pc[w] = "back"
    /\ GoTo(w, "after")
    /\ UNCHANGED <<m_state, m_fibers, m_activeThreadCount, mains, ft, cbFiber,
                   idleEnded, app>>

\* run() after swapIn has returned.
decrement(w) ==
    /\ pc[w] = "back"
    /\ m_activeThreadCount' = m_activeThreadCount - 1
    /\ GoTo(w, "after")
    /\ UNCHANGED <<m_state, m_fibers, mains, ft, cbFiber, idleEnded, app>>

\* run() reads the fiber's state.  An ended callback fiber is kept, reset.
afterEnded(w) ==
    /\ pc[w] = "after"
    /\ m_state[Cur(w)] \in Ended
    /\ IF ft[w].fiber = Null THEN reset(Cur(w)) ELSE UNCHANGED m_state
    /\ ft' = [ft EXCEPT ![w] = NoTask]
    /\ GoTo(w, "pop")
    /\ UNCHANGED <<m_fibers, m_activeThreadCount, mains, cbFiber, idleEnded, app>>

afterYield(w) ==
    /\ pc[w] = "after"
    /\ m_state[Cur(w)] \notin Ended
    /\ GoTo(w, IF m_state[Cur(w)] = "READY" THEN "requeue" ELSE "hold")
    /\ UNCHANGED <<m_state, m_fibers, m_activeThreadCount, mains, ft, cbFiber,
                   idleEnded, app>>

\* run() lets go of the fiber it had in hand.
LetGo(w) ==
    /\ ft' = [ft EXCEPT ![w] = NoTask]
    /\ cbFiber' = [cbFiber EXCEPT ![w] = IF ft[w].fiber = Null THEN Null ELSE @]
    /\ GoTo(w, "pop")
    /\ UNCHANGED <<m_activeThreadCount, mains, idleEnded, app>>

\* Mutant of requeue: the fiber is forgotten.
requeueNothing(w) ==
    /\ pc[w] = "requeue"
    /\ LetGo(w)
    /\ UNCHANGED <<m_state, m_fibers>>

requeue(w) ==
    /\ pc[w] = "requeue"
    /\ scheduleNoLock(Cur(w), AnyThread)
    /\ LetGo(w)
    /\ UNCHANGED m_state

\* Mutants of setHold: the state is left as it is, and the fiber is put back
\* on the list as if it had yielded READY.
setNothing(w) == pc[w] = "hold" /\ LetGo(w) /\ UNCHANGED <<m_state, m_fibers>>

holdAndRequeue(w) ==
    /\ pc[w] = "hold"
    /\ m_state' = [m_state EXCEPT ![Cur(w)] = "HOLD"]
    /\ scheduleNoLock(Cur(w), AnyThread)
    /\ LetGo(w)

setHold(w) ==
    /\ pc[w] = "hold"
    /\ m_state' = [m_state EXCEPT ![Cur(w)] = "HOLD"]
    /\ LetGo(w)
    /\ UNCHANGED m_fibers
-----------------------------------------------------------------------------
Main == start \/ stop \/ callRoot \/ rootReturns \/ join

\* What a worker does by itself.
Loop(w) ==
    \/ pop(w) \/ popNothing(w) \/ idle(w)
    \/ dropEnded(w) \/ takeFiber(w) \/ takeCallback(w) \/ swap(w)
    \/ hold(w) \/ swapOut(w)
    \/ decrement(w) \/ afterEnded(w) \/ afterYield(w)
    \/ requeue(w) \/ setHold(w)

\* What the code of a running fiber chooses.
Choose(w) ==
    \/ \E t \in Pin : switchTo(w, t)
    \/ arm(w) \/ yield(w) \/ finish(w)

Application ==
    \/ \E t \in Pin : Submit(t)
    \/ \E f \in Fiber, t \in Pin : Wake(f, t)

\* Everything that was started has stopped.
Gone == \A w \in Worker : pc[w] \in {"off", "done"}

Terminated ==
    /\ main = "ready" \/ (main = "running" /\ Threads = {})
    /\ Gone
    /\ UNCHANGED vars

Next ==
    \/ Main
    \/ \E w \in Worker : Loop(w) \/ Choose(w)
    \/ Application
    \/ Terminated

Spec == Init /\ [][Next]_vars

\* Threads run, stop() goes on once it is called, and a fiber that is run again
\* and again comes to its end.
Fairness ==
    /\ WF_vars(callRoot) /\ WF_vars(rootReturns) /\ WF_vars(join)
    /\ \A w \in Worker : WF_vars(Loop(w)) /\ WF_vars(Choose(w))
    /\ \A f \in Fiber : SF_vars(\E w \in Worker : Cur(w) = f /\ finish(w))

FairSpec == Spec /\ Fairness
-----------------------------------------------------------------------------
Tickets(f) == {i \in DOMAIN m_fibers : m_fibers[i].fiber = f}

\* Workers between swapIn and the last look at the fiber.
OnStack == {"run", "park", "ready", "back"}
InHand == OnStack \cup {"check", "swap", "after", "requeue", "hold"}

\* The worker that has f in hand.  (check holds callbacks without a fiber yet.)
Holders(f) == {w \in Worker : pc[w] \in InHand /\ Cur(w) = f
                              /\ ~(pc[w] = "check" /\ ft[w].fiber = Null)}

\* m_activeThreadCount counts the workers that stopping() must wait for.
ActiveCountExact ==
    m_activeThreadCount =
        Cardinality({w \in Worker : pc[w] \in OnStack \cup {"check", "swap"}})

\* Every assertion of Fiber.cc on the state of a fiber, at the moment it is
\* evaluated.
AssertionsHold ==
    \A w \in Worker :
        /\ pc[w] = "check" /\ ft[w].fiber = Null /\ cbFiber[w] # Null =>
              CanReset(cbFiber[w])
        /\ pc[w] = "swap" => CanSwapIn(Cur(w))
        /\ pc[w] \in {"run", "park"} => CanYield(Cur(w))

\* A fiber is on one stack only: nobody has in hand, and nobody may take, a
\* fiber that a worker has not let go of.
OneStack ==
    \A f \in Fiber :
        /\ Cardinality(Holders(f)) <= 1
        /\ \A w \in Holders(f), v \in Worker, i \in Tickets(f) :
              w # v => ~Takable(v, m_fibers[i])

\* A fiber that waits to run has one ticket only, on the list or in the hands
\* of a waker.
OneTicket ==
    \A f \in Fiber : Cardinality(Tickets(f)) + (IF f \in armed THEN 1 ELSE 0) <= 1

\* The last worker to return leaves no entry that any worker could have taken.
NothingLeftBehind ==
    [][~Gone /\ Gone' =>
          \A i \in DOMAIN m_fibers' : m_fibers'[i].thread # AnyThread]_vars

\* A fiber on the list is run, unless the workers have gone.
ScheduledRuns ==
    \A f \in Fiber :
        main = "running" /\ Tickets(f) # {} ~>
            (\E w \in Holders(f) : pc[w] = "run") \/ Gone

\* stop() returns.
StopReturns == main \in {"stop", "call", "join"} ~> main = "ready"
-----------------------------------------------------------------------------
\* The fibers as RunQueue sees them: one that is in a worker's hand runs, or has
\* given way; one that is neither held nor queued is over.
GivenWay(f) ==
    /\ m_state[f] = "READY"
    /\ \E w \in Holders(f) : pc[w] \in {"ready", "back", "after", "requeue"}

StatusOf(f) ==
    IF ~Built(f) THEN "none"
    ELSE IF Holders(f) # {}
         THEN IF GivenWay(f) THEN "again" ELSE "run"
         ELSE IF m_state[f] \in {"HOLD", "READY"} \/ Tickets(f) # {}
              THEN "rest" ELSE "over"

\* Callbacks on the list, and in hands that have no fiber for them yet.
Callbacks ==
    Cardinality(Tickets(Null))
    + Cardinality({w \in Worker : pc[w] = "check" /\ ft[w].fiber = Null})

Queue == INSTANCE RunQueue
         WITH status <- [f \in Fiber |-> StatusOf(f)],
              queued <- [f \in Fiber |-> Tickets(f) # {}],
              calls  <- Callbacks

\* The scheduler implements the run queue: whatever the workers, yields and
\* wakers do, no fiber runs twice at once and none is lost.
ImplementsRunQueue == Queue!Spec
-----------------------------------------------------------------------------
\* What comments and assertions claim and the code does not do.

\* Scheduler.h: schedule's thread is the thread the fiber executes on.
RequeueKeepsThread ==
    [][\A w \in Worker :
          pc[w] = "requeue" /\ pc'[w] = "pop" /\ ft[w].fiber # Null =>
              m_fibers'[Len(m_fibers')].thread = ft[w].thread]_vars

\* Fiber.cc: an ended root fiber is "never" resumed.
RootNeverResumed ==
    main = "stop" /\ Root # Null /\ ~stopping => rootState = "INIT"
=============================================================================

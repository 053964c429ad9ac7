------------------------------ MODULE TaskServer ------------------------------
(***************************************************************************)
(* The threads of the task server around one Process: the loop of          *)
(* server2.cc that turns a message into a task, the detached Dispatcher    *)
(* that adds it (dispatcher.h), the Driver that sleeps and delivers it     *)
(* (driver.h) and the TaskTimer that sweeps every few seconds              *)
(* (task_timer.h).                                                         *)
(*                                                                         *)
(* Dispatcher and Driver are started together and nothing orders them.  A  *)
(* driver keeps the address it was started with; the allocator may have    *)
(* given that address to a later task when the driver wakes up.            *)
(***************************************************************************)
EXTENDS Process

CONSTANTS
    DRIVER_DELAY,   \* server2.cc: the shortest sleep of a driver
    TIMER_PERIOD,   \* server2.cc: TaskTimer's sleep between two sweeps
    LastArrival     \* bound: second after which no message arrives

ASSUME DelayAssumption ==
    DRIVER_DELAY \in Nat /\ TIMER_PERIOD \in Nat /\ LastArrival \in Nat

VARIABLES
    drivers,        \* the driver threads that still sleep
    timerDue        \* when TaskTimer's sleep ends

serverVars == <<vars, drivers, timerDue>>

\* A sleep that ends at second n is over; the last second of the clock stands
\* for all later ones.
Elapsed(n) == now >= n \/ now = MaxTime

ServerInit ==
    /\ Init
    /\ drivers = {}
    /\ timerDue = TIMER_PERIOD

\* Server::Run, one message: new Task, Dispatcher::Add, and a Driver with a
\* random sleep, of which only the lower end matters.
Receive(p, m) ==
    /\ now <= LastArrival
    /\ New(p, m)
    /\ drivers' = drivers \cup
                    {[id |-> m_idSeed', ptr |-> p, due |-> now + DRIVER_DELAY]}
    /\ UNCHANGED timerDue

\* Dispatcher::dispatch: Process::Add begins.
Dispatch(p) == AddCheck(p) /\ UNCHANGED <<drivers, timerDue>>

\* Driver::operator(): delivers the address it was given.
Drive(d) ==
    /\ Elapsed(d.due)
    /\ Deliver(d.ptr)
    /\ drivers' = drivers \ {d}
    /\ UNCHANGED timerDue

\* TaskTimer::operator(): a sleep is over and DeleteInvalidTask begins.  The
\* next sleep is counted from here, not from the end of the loop: a slow sweep
\* only makes the next one come sooner than in the code.
Sweep ==
    /\ Elapsed(timerDue)
    /\ DeleteInvalidTask
    /\ timerDue' = now + TIMER_PERIOD
    /\ UNCHANGED drivers

\* Whichever thread holds m_taskMutex goes on.
HandlerStep == Locked /\ UNCHANGED <<drivers, timerDue>>

Clock == Tick /\ UNCHANGED <<drivers, timerDue>>

ServerNext ==
    \/ \E p \in Ptr, m \in Message : Receive(p, m)
    \/ \E p \in Ptr : Dispatch(p)
    \/ \E d \in drivers : Drive(d)
    \/ Sweep
    \/ HandlerStep
    \/ Clock

ServerSpec == ServerInit /\ [][ServerNext]_serverVars

\* The threads the program starts do run, and the mutex is not denied for ever
\* to a thread that keeps asking: between two of its turns the timer sleeps, and
\* every other thread asks once.  Nobody has to send a message.
Fairness ==
    /\ SF_serverVars(\E p \in Ptr : Dispatch(p))
    /\ SF_serverVars(\E d \in drivers : Drive(d))
    /\ WF_serverVars(Sweep)
    /\ WF_serverVars(HandlerStep)
    /\ WF_serverVars(Clock)

FairServerSpec == ServerSpec /\ Fairness
-----------------------------------------------------------------------------
\* The life of the task with id i, as TaskLifecycle tells it.
PhaseOf(i) ==
    LET at == {p \in Ptr : Live(p) /\ task[p].id = i}
    IN  CASE i > m_idSeed                 -> "none"
          [] i <= m_idSeed /\ at = {}     -> "gone"
          [] at \cap m_invalidTasks # {} -> "dead"
          [] at \cap m_tasks # {}        ->
                IF \/ \E b \in Buffer : i \in m_buffers[b]
                   \/ \E p \in at : Carried(p) /\ task[p].hasValue
                THEN "placed" ELSE "lost"
          [] OTHER                       -> "fresh"

\* The places on all buffers.
Places == UNION {{b} \X (1 .. BUFFER_CAPACITY[b]) : b \in Buffer}

TotalCapacity == Cardinality(Places)

Lifecycle == INSTANCE TaskLifecycle
             WITH phase    <- [i \in Id |-> PhaseOf(i)],
                  Capacity <- TotalCapacity

\* The server implements the life cycle: no interleaving of dispatchers,
\* drivers and sweeps skips m_invalidTasks, revives a task or deletes one twice.
ImplementsLifecycle == Lifecycle!Spec

\* No task is leaked: delivered before it was added, lost on its way off the
\* cache or malformed, each is deleted in the end.
EveryTaskDeleted ==
    \A i \in Id : PhaseOf(i) = "fresh" ~> PhaseOf(i) = "gone"

\* process.cc: "The second time it would come here", to the branch of Delete
\* that does nothing: a driver whose task is gone changes nothing.
LateDeliverIsHarmless ==
    [][\A d \in drivers \ drivers' :
          PhaseOf(d.id) = "gone" => UNCHANGED <<task, sets, store>>]_serverVars
=============================================================================

-------------------------------- MODULE Thread --------------------------------
(***************************************************************************)
(* Thread (Thread.h) and the Semaphore (Mutex.h) of its start handshake.   *)
(* The constructor runs on one thread, the main one; it creates the new    *)
(* thread and waits for it to have set its id and taken the callback out   *)
(* of the object.                                                          *)
(*                                                                         *)
(* With Named a Semaphore is what the macOS branch makes of it: sem_open   *)
(* with O_CREAT|O_EXCL and the name std::to_string(count), which is never  *)
(* unlinked, so that the second one cannot be opened.                      *)
(***************************************************************************)
EXTENDS Naturals, FiniteSets

CONSTANTS Worker, Nobody, Named

ASSUME ThreadAssumption == Nobody \notin Worker /\ Named \in BOOLEAN

VARIABLES
    thread,         \* the thread objects and where their run() is
    sem,            \* m_semaphore's count
    ctor,           \* the object whose constructor the main thread is in
    failed          \* a Semaphore's constructor has thrown

tvars == <<thread, sem, ctor, failed>>

Object == [pc : {"none", "born", "set", "running", "ended"},
           m_id : BOOLEAN, m_cb : BOOLEAN, m_thread : BOOLEAN]

ThreadTypeOK ==
    /\ thread \in [Worker -> Object]
    /\ sem \in [Worker -> 0 .. 1]
    /\ ctor \in Worker \cup {Nobody}
    /\ failed \in BOOLEAN

\* m_id and m_thread say whether they have been set, m_cb whether it is full.
ThreadInit ==
    /\ thread = [w \in Worker |-> [pc |-> "none", m_id |-> FALSE, m_cb |-> FALSE,
                                   m_thread |-> FALSE]]
    /\ sem = [w \in Worker |-> 0]
    /\ ctor = Nobody
    /\ failed = FALSE

\* Semaphore::Semaphore: whether the name "0" can still be opened.
Opens == Named => \A w \in Worker : thread[w].pc = "none"

\* Thread::Thread up to its wait.
Construct(w) ==
    /\ ctor = Nobody /\ ~failed
    /\ thread[w].pc = "none"
    /\ IF Opens
       THEN /\ thread' = [thread EXCEPT ![w] = [pc |-> "born", m_id |-> FALSE,
                                                m_cb |-> TRUE, m_thread |-> TRUE]]
            /\ ctor' = w
            /\ UNCHANGED <<sem, failed>>
       ELSE /\ failed' = TRUE
            /\ UNCHANGED <<thread, sem, ctor>>

\* Mutant of Wait: the constructor returns at once.
WaitNot(w) ==
    /\ ctor = w
    /\ ctor' = Nobody
    /\ UNCHANGED <<thread, sem, failed>>

\* Semaphore::wait in the constructor, which then returns.
Wait(w) ==
    /\ ctor = w
    /\ sem[w] > 0
    /\ sem' = [sem EXCEPT ![w] = @ - 1]
    /\ ctor' = Nobody
    /\ UNCHANGED <<thread, failed>>

\* Thread::run before its notify.  t_thread is a copy of what GetThis()
\* returns, so the assignment to it is lost and no state.
Prepare(w) ==
    /\ thread[w].pc = "born"
    /\ thread' = [thread EXCEPT ![w].pc = "set", ![w].m_id = TRUE, ![w].m_cb = FALSE]
    /\ UNCHANGED <<sem, ctor, failed>>

\* Semaphore::notify.
Notify(w) ==
    /\ thread[w].pc = "set"
    /\ thread' = [thread EXCEPT ![w].pc = "running"]
    /\ sem' = [sem EXCEPT ![w] = @ + 1]
    /\ UNCHANGED <<ctor, failed>>

\* cb() returns.
Return(w) ==
    /\ thread[w].pc = "running"
    /\ thread' = [thread EXCEPT ![w].pc = "ended"]
    /\ UNCHANGED <<sem, ctor, failed>>

\* Thread::join.
Join(w) ==
    /\ ctor = Nobody
    /\ thread[w].m_thread /\ thread[w].pc = "ended"
    /\ thread' = [thread EXCEPT ![w].m_thread = FALSE]
    /\ UNCHANGED <<sem, ctor, failed>>

Constructed(w) == thread[w].pc # "none" /\ ctor # w

\* Hazard Thread.h:64.  Once the constructor has returned, the new thread is
\* through with the object: its id is set and the callback is out of it, so that
\* getId() answers and the object may be destroyed.
ConstructedIsReady ==
    \A w \in Worker : Constructed(w) => thread[w].m_id /\ ~thread[w].m_cb
=============================================================================

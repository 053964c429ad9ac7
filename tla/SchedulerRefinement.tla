------------------------- MODULE SchedulerRefinement -------------------------
(***************************************************************************)
(* The scheduler implements the run queue, for every set of workers and    *)
(* fibers: each step of the code is one step of RunQueue or none, when     *)
(* nobody schedules a fiber that has not asked for it.                     *)
(***************************************************************************)
EXTENDS SchedulerProofs

USE WorkerAssumption, UseAssumption

\* Worker w has f in hand.
Holds(w, f) ==
    /\ pc[w] \in InHand /\ Cur(w) = f
    /\ pc[w] = "check" => ft[w].fiber # Null

\* A waker has only fibers that hold, or are about to; a fiber in EXEC is in
\* somebody's hand.
WakeInv ==
    /\ \A f \in armed : m_state[f] \in {"HOLD", "EXEC"}
    /\ \A f \in Fiber : m_state[f] = "EXEC" => \E w \in Worker : Holds(w, f)

Inv == CountInv /\ FiberInv /\ WakeInv

Gave == {"ready", "back", "after", "requeue"}

\* Workers that have taken a callback and have no fiber for it yet.
Fresh == {w \in Worker : pc[w] = "check" /\ ft[w].fiber = Null}
-----------------------------------------------------------------------------
\* StatusOf, for a fiber in a worker's hand and for one in nobody's.
HeldStatus ==
    \A w \in Worker, f \in Fiber : Holds(w, f) =>
        StatusOf(f) =
            IF m_state[f] = "READY" /\ pc[w] \in Gave THEN "again" ELSE "run"

FreeStatus ==
    \A f \in Fiber : (\A w \in Worker : ~Holds(w, f)) =>
        StatusOf(f) = IF ~Built(f) THEN "none"
                      ELSE IF m_state[f] \in {"HOLD", "READY"} \/ Queued(f)
                           THEN "rest" ELSE "over"

LEMMA TicketsQueued == \A f : Tickets(f) # {} <=> Queued(f)
BY DEF Tickets, Queued

LEMMA HoldersHold == \A f : Holders(f) = {w \in Worker : Holds(w, f)}
BY DEF Holders, Holds

LEMMA OneHolder ==
    ASSUME FiberInv, NEW f \in Fiber, NEW v \in Worker, NEW w \in Worker,
           Holds(w, f)
    PROVE  Holds(v, f) => v = w
BY DEF Holds, Cur, Owns, FiberInv, DistinctInv

LEMMA HeldKnown ==
    ASSUME CountInv, FiberInv, NEW w \in Worker, NEW f \in Fiber, Holds(w, f)
    PROVE  /\ Knows(pc[w], m_state[f], Due(f))
           /\ m_state[f] \in State
           /\ Owns(w, f)
<1>1. Knows(pc[w], m_state[f], Due(f)) /\ pc[w] \in InHand
  BY DEF Holds, FiberInv, WorkerInv
<1>2. Owns(w, f)
  BY DEF Holds, Cur, Owns
<1> QED BY <1>1, <1>2 DEF Knows, InHand, OnStack, Resting, State, Ended

LEMMA StatusKnown == CountInv /\ FiberInv => HeldStatus /\ FreeStatus
<1> SUFFICES ASSUME CountInv, FiberInv PROVE HeldStatus /\ FreeStatus
  OBVIOUS
<1>1. ASSUME NEW w \in Worker, NEW f \in Fiber, Holds(w, f)
      PROVE  StatusOf(f) =
                 IF m_state[f] = "READY" /\ pc[w] \in Gave THEN "again" ELSE "run"
  <2>1. Holders(f) = {w}
    BY <1>1, OneHolder, HoldersHold
  <2>2. Built(f)
    BY <1>1, HeldKnown DEF Built, State, Ended
  <2>3. GivenWay(f) <=> m_state[f] = "READY" /\ pc[w] \in Gave
    BY <2>1 DEF GivenWay, Gave
  <2> QED BY <2>1, <2>2, <2>3 DEF StatusOf
<1>2. ASSUME NEW f \in Fiber, \A w \in Worker : ~Holds(w, f)
      PROVE  StatusOf(f) = IF ~Built(f) THEN "none"
                           ELSE IF m_state[f] \in {"HOLD", "READY"} \/ Queued(f)
                                THEN "rest" ELSE "over"
  <2>1. Holders(f) = {}
    BY <1>2, HoldersHold
  <2> QED BY <2>1, TicketsQueued DEF StatusOf
<1> QED BY <1>1, <1>2 DEF HeldStatus, FreeStatus

LEMMA StatusKnownNext == (CountInv /\ FiberInv => HeldStatus /\ FreeStatus)'
BY StatusKnown, PTL
-----------------------------------------------------------------------------
\* The step does nothing to fiber g that the run queue could see.
Same(g) ==
    /\ m_state'[g] = m_state[g]
    /\ Queued(g)' <=> Queued(g)
    /\ g \in armed' => g \in armed
    /\ \A v \in Worker : /\ Holds(v, g)' <=> Holds(v, g)
                         /\ Holds(v, g) => (pc'[v] \in Gave <=> pc[v] \in Gave)

\* The step is one of the run queue's for fiber f, or none.
Allowed(f) ==
    \/ /\ StatusOf(f) = "none" /\ StatusOf(f)' = "rest"
       /\ Queued(f)' /\ Callbacks' = Callbacks
    \/ /\ StatusOf(f) \in {"rest", "run"} /\ StatusOf(f)' = StatusOf(f)
       /\ ~Queued(f) /\ Queued(f)' /\ Callbacks' = Callbacks
    \/ /\ StatusOf(f) = "rest" /\ StatusOf(f)' = "run"
       /\ Queued(f) /\ ~Queued(f)' /\ Callbacks' = Callbacks
    \/ /\ StatusOf(f) \in {"none", "over"} /\ StatusOf(f)' = "run"
       /\ ~Queued(f) /\ ~Queued(f)' /\ Callbacks > 0 /\ Callbacks' = Callbacks - 1
    \/ /\ StatusOf(f) = "run" /\ StatusOf(f)' \in {"rest", "again"}
       /\ (Queued(f)' <=> Queued(f)) /\ Callbacks' = Callbacks
    \/ /\ StatusOf(f) = "run" /\ StatusOf(f)' = "over"
       /\ ~Queued(f) /\ ~Queued(f)' /\ Callbacks' = Callbacks
    \/ /\ StatusOf(f) = "again" /\ StatusOf(f)' = "rest"
       /\ ~Queued(f) /\ Queued(f)' /\ Callbacks' = Callbacks
    \/ /\ StatusOf(f)' = StatusOf(f) /\ (Queued(f)' <=> Queued(f))
       /\ Callbacks' \in {Callbacks, Callbacks + 1}

stat == [f \in Fiber |-> StatusOf(f)]
que == [f \in Fiber |-> Tickets(f) # {}]

LEMMA RunStep ==
    ASSUME NEW f \in Fiber, Allowed(f),
           \A g \in Fiber \ {f} :
               StatusOf(g)' = StatusOf(g) /\ (Queued(g)' <=> Queued(g))
    PROVE  [Queue!Next]_(Queue!qvars)
<1>1. /\ stat' = [stat EXCEPT ![f] = StatusOf(f)']
      /\ stat[f] = StatusOf(f)
      /\ StatusOf(f)' = StatusOf(f) => stat' = stat
  BY DEF stat
<1>2. /\ que[f] <=> Queued(f)
      /\ Queued(f)' => que' = [que EXCEPT ![f] = TRUE]
      /\ ~Queued(f)' => que' = [que EXCEPT ![f] = FALSE]
      /\ (Queued(f)' <=> Queued(f)) => que' = que
  <2>1. \A g \in Fiber : (Tickets(g) # {} <=> Queued(g)) /\ ((Tickets(g) # {})' <=> Queued(g)')
    BY DEF Tickets, Queued
  <2> QED BY <2>1 DEF que
<1>3. Queue!qvars = <<stat, que, Callbacks>>
  BY DEF Queue!qvars, stat, que
<1>4. Queue!qvars' = <<stat', que', Callbacks'>>
  BY DEF Queue!qvars, stat, que
<1>5. /\ Queue!New(f) <=> /\ stat[f] = "none" /\ stat' = [stat EXCEPT ![f] = "rest"]
                         /\ que' = [que EXCEPT ![f] = TRUE] /\ Callbacks' = Callbacks
      /\ Queue!Call <=> Callbacks' = Callbacks + 1 /\ <<stat, que>>' = <<stat, que>>
      /\ Queue!Wake(f) <=> /\ stat[f] \in {"rest", "run"} /\ ~que[f]
                          /\ que' = [que EXCEPT ![f] = TRUE]
                          /\ <<stat, Callbacks>>' = <<stat, Callbacks>>
      /\ Queue!Take(f) <=> /\ stat[f] = "rest" /\ que[f]
                          /\ stat' = [stat EXCEPT ![f] = "run"]
                          /\ que' = [que EXCEPT ![f] = FALSE] /\ Callbacks' = Callbacks
      /\ Queue!TakeCall(f) <=> /\ stat[f] \in {"none", "over"} /\ ~que[f] /\ Callbacks > 0
                              /\ stat' = [stat EXCEPT ![f] = "run"]
                              /\ Callbacks' = Callbacks - 1 /\ que' = que
  BY DEF Queue!New, Queue!Call, Queue!Wake, Queue!Take, Queue!TakeCall,
     Queue!Become, Queue!Queue, stat, que
<1>6. /\ Queue!Rest(f) <=> /\ stat[f] = "run" /\ stat' = [stat EXCEPT ![f] = "rest"]
                          /\ <<que, Callbacks>>' = <<que, Callbacks>>
      /\ Queue!Yield(f) <=> /\ stat[f] = "run" /\ stat' = [stat EXCEPT ![f] = "again"]
                           /\ <<que, Callbacks>>' = <<que, Callbacks>>
      /\ Queue!Again(f) <=> /\ stat[f] = "again" /\ ~que[f]
                           /\ stat' = [stat EXCEPT ![f] = "rest"]
                           /\ que' = [que EXCEPT ![f] = TRUE] /\ Callbacks' = Callbacks
      /\ Queue!End(f) <=> /\ stat[f] = "run" /\ ~que[f]
                         /\ stat' = [stat EXCEPT ![f] = "over"]
                         /\ <<que, Callbacks>>' = <<que, Callbacks>>
  BY DEF Queue!Rest, Queue!Yield, Queue!Again, Queue!End,
     Queue!Become, Queue!Queue, stat, que
<1>7. \/ Queue!New(f) \/ Queue!Call \/ Queue!Wake(f) \/ Queue!Take(f)
      \/ Queue!TakeCall(f) \/ Queue!Rest(f) \/ Queue!Yield(f) \/ Queue!Again(f)
      \/ Queue!End(f)
      \/ stat' = stat /\ que' = que /\ Callbacks' = Callbacks
  BY <1>1, <1>2, <1>5, <1>6 DEF Allowed
<1>8. CASE Queue!Call \/ Queue!New(f) \/ Queue!Wake(f) \/ Queue!Take(f)
           \/ Queue!TakeCall(f) \/ Queue!Rest(f) \/ Queue!Yield(f)
           \/ Queue!Again(f) \/ Queue!End(f)
  BY <1>8 DEF Queue!Next
<1>9. CASE stat' = stat /\ que' = que /\ Callbacks' = Callbacks
  BY <1>3, <1>4, <1>9
<1> QED BY <1>7, <1>8, <1>9
-----------------------------------------------------------------------------
LEMMA StatusSame ==
    ASSUME CountInv, FiberInv, CountInv', FiberInv', NEW g \in Fiber, Same(g)
    PROVE  StatusOf(g)' = StatusOf(g) /\ (Queued(g)' <=> Queued(g))
<1>1. HeldStatus /\ FreeStatus /\ HeldStatus' /\ FreeStatus'
  BY StatusKnown, StatusKnownNext
<1>2. CASE \E w \in Worker : Holds(w, g)
  <2>1. PICK w \in Worker : Holds(w, g)
    BY <1>2
  <2>2. Holds(w, g)' /\ (pc'[w] \in Gave <=> pc[w] \in Gave) /\ m_state'[g] = m_state[g]
    BY <2>1 DEF Same
  <2>3. StatusOf(g) = IF m_state[g] = "READY" /\ pc[w] \in Gave THEN "again" ELSE "run"
    BY <1>1, <2>1 DEF HeldStatus
  <2>4. StatusOf(g)' = IF m_state'[g] = "READY" /\ pc'[w] \in Gave THEN "again" ELSE "run"
    BY <1>1, <2>2 DEF HeldStatus
  <2> QED BY <2>2, <2>3, <2>4 DEF Same
<1>3. CASE \A w \in Worker : ~Holds(w, g)
  <2>1. (\A w \in Worker : ~Holds(w, g)') /\ m_state'[g] = m_state[g]
        /\ (Queued(g)' <=> Queued(g))
    BY <1>3 DEF Same
  <2>2. StatusOf(g) = IF ~Built(g) THEN "none"
                      ELSE IF m_state[g] \in {"HOLD", "READY"} \/ Queued(g)
                           THEN "rest" ELSE "over"
    BY <1>1, <1>3 DEF FreeStatus
  <2>3. StatusOf(g)' = IF ~Built(g)' THEN "none"
                       ELSE IF m_state'[g] \in {"HOLD", "READY"} \/ Queued(g)'
                            THEN "rest" ELSE "over"
    BY <1>1, <2>1 DEF FreeStatus
  <2> QED BY <2>1, <2>2, <2>3 DEF Built
<1> QED BY <1>2, <1>3

\* What a step does to no fiber but f: the run queue sees it at f only.
LEMMA SeenAt ==
    ASSUME CountInv, FiberInv, CountInv', FiberInv', NEW f \in Fiber, Allowed(f),
           \A g \in Fiber \ {f} : Same(g)
    PROVE  [Queue!Next]_(Queue!qvars)
BY StatusSame, RunStep

\* What it does to none: it sees nothing, or one more callback.
LEMMA SeenNowhere ==
    ASSUME CountInv, FiberInv, CountInv', FiberInv', \A g \in Fiber : Same(g),
           Callbacks' \in {Callbacks, Callbacks + 1}
    PROVE  [Queue!Next]_(Queue!qvars)
<1>1. \A g \in Fiber : StatusOf(g)' = StatusOf(g) /\ (Queued(g)' <=> Queued(g))
  BY StatusSame
<1>2. stat' = stat
  BY <1>1 DEF stat
<1>3. que' = que
  <2>1. \A g \in Fiber : (Tickets(g) # {})' <=> Tickets(g) # {}
    BY <1>1 DEF Tickets, Queued
  <2> QED BY <2>1 DEF que
<1>4. Queue!qvars = <<stat, que, Callbacks>> /\ Queue!qvars' = <<stat', que', Callbacks'>>
  BY DEF Queue!qvars, stat, que
<1>5. Queue!Call <=> Callbacks' = Callbacks + 1 /\ <<stat, que>>' = <<stat, que>>
  BY DEF Queue!Call, stat, que
<1>6. CASE Callbacks' = Callbacks
  BY <1>2, <1>3, <1>4, <1>6
<1>7. CASE Callbacks' = Callbacks + 1
  <2>1. Queue!Call
    BY <1>2, <1>3, <1>5, <1>7
  <2> QED BY <2>1 DEF Queue!Next
<1> QED BY <1>6, <1>7

\* A worker that moves sees to no fiber but f, before and after.
LEMMA OnlyOne ==
    ASSUME NEW w \in Worker, NEW f,
           \A v \in Worker \ {w} : /\ pc'[v] = pc[v] /\ ft'[v] = ft[v]
                                   /\ cbFiber'[v] = cbFiber[v],
           \A g \in Fiber \ {f} : /\ m_state'[g] = m_state[g]
                                  /\ Queued(g)' <=> Queued(g)
                                  /\ g \in armed' => g \in armed
                                  /\ ~Holds(w, g) /\ ~Holds(w, g)'
    PROVE  /\ \A g \in Fiber \ {f} : Same(g)
           /\ \A v \in Worker \ {w}, g \in Fiber : Holds(v, g)' <=> Holds(v, g)
<1>1. \A v \in Worker \ {w}, g \in Fiber : Holds(v, g)' <=> Holds(v, g)
  BY DEF Holds, Cur
<1>2. ASSUME NEW g \in Fiber \ {f}
      PROVE  Same(g)
  <2>1. ASSUME NEW v \in Worker
        PROVE  /\ Holds(v, g)' <=> Holds(v, g)
               /\ Holds(v, g) => (pc'[v] \in Gave <=> pc[v] \in Gave)
    <3>1. CASE v = w
      BY <3>1
    <3>2. CASE v # w
      BY <1>1, <3>2
    <3> QED BY <3>1, <3>2
  <2> QED BY <2>1 DEF Same
<1> QED BY <1>1, <1>2

LEMMA WakeStep ==
    ASSUME CountInv', WakeInv, NEW f \in Fiber,
           \A g \in Fiber \ {f} : Same(g),
           f \in armed' => m_state'[f] \in {"HOLD", "EXEC"},
           m_state'[f] = "EXEC" => \E w \in Worker : Holds(w, f)'
    PROVE  WakeInv'
<1>1. armed' \subseteq Fiber
  BY DEF CountInv, TypeInv
<1>2. ASSUME NEW g \in Fiber \ {f}
      PROVE  /\ g \in armed' => m_state'[g] \in {"HOLD", "EXEC"}
             /\ m_state'[g] = "EXEC" => \E w \in Worker : Holds(w, g)'
  BY Same(g) DEF Same, WakeInv
<1> QED BY <1>1, <1>2 DEF WakeInv

LEMMA WakeNowhere ==
    ASSUME CountInv', WakeInv, \A g \in Fiber : Same(g)
    PROVE  WakeInv'
<1>1. armed' \subseteq Fiber
  BY DEF CountInv, TypeInv
<1> QED BY <1>1 DEF WakeInv, Same
-----------------------------------------------------------------------------
\* How many callbacks wait: on the list, and with workers that have no fiber
\* for them yet.
LEMMA CallbacksCount ==
    ASSUME CountInv
    PROVE  /\ IsFiniteSet(Tickets(Null)) /\ Cardinality(Tickets(Null)) \in Nat
           /\ IsFiniteSet(Fresh) /\ Cardinality(Fresh) \in Nat
           /\ Callbacks = Cardinality(Tickets(Null)) + Cardinality(Fresh)
<1>1. m_fibers \in Seq(Entry)
  BY DEF CountInv, TypeInv
<1>2. DOMAIN m_fibers = 1 .. Len(m_fibers) /\ Len(m_fibers) \in Nat
  BY <1>1, LenProperties
<1>3. IsFiniteSet(DOMAIN m_fibers)
  BY <1>2, FS_Interval
<1>4. Tickets(Null) \in SUBSET DOMAIN m_fibers /\ Fresh \in SUBSET Worker
  BY DEF Tickets, Fresh
<1> QED BY <1>3, <1>4, FS_Subset, FS_CardinalityType DEF Callbacks, Fresh

LEMMA CallbacksSame ==
    ASSUME UNCHANGED m_fibers, Fresh' = Fresh
    PROVE  Callbacks' = Callbacks
BY DEF Callbacks, Tickets, Fresh

LEMMA CallbacksScheduled ==
    ASSUME CountInv, Fresh' = Fresh, NEW f \in Fiber \cup {Null},
           NEW t \in Worker \cup {AnyThread}, scheduleNoLock(f, t)
    PROVE  Callbacks' = IF f = Null THEN Callbacks + 1 ELSE Callbacks
<1> DEFINE e == [fiber |-> f, thread |-> t]
<1>1. e \in Entry /\ e.fiber = f /\ m_fibers \in Seq(Entry)
  BY DEF CountInv, TypeInv, Entry
<1>2. m_fibers' = Append(m_fibers, e)
  BY DEF scheduleNoLock
<1> HIDE DEF e
<1>3. /\ Len(m_fibers) \in Nat
      /\ DOMAIN m_fibers = 1 .. Len(m_fibers)
      /\ DOMAIN m_fibers' = 1 .. Len(m_fibers) + 1
      /\ \A i \in 1 .. Len(m_fibers) : m_fibers'[i] = m_fibers[i]
      /\ m_fibers'[Len(m_fibers) + 1] = e
  BY <1>1, <1>2, Appended
<1>4. CASE f = Null
  <2>1. Tickets(Null)' = Tickets(Null) \cup {Len(m_fibers) + 1}
        /\ Len(m_fibers) + 1 \notin Tickets(Null)
    BY <1>1, <1>3, <1>4 DEF Tickets
  <2>2. Cardinality(Tickets(Null)') = Cardinality(Tickets(Null)) + 1
    BY <2>1, CallbacksCount, FS_AddElement
  <2>3. Callbacks' = Cardinality(Tickets(Null)') + Cardinality(Fresh')
    BY DEF Callbacks, Fresh
  <2> QED BY <1>4, <2>2, <2>3, CallbacksCount
<1>5. CASE f # Null
  <2>1. Tickets(Null)' = Tickets(Null)
    BY <1>1, <1>3, <1>5 DEF Tickets
  <2> QED BY <1>5, <2>1 DEF Callbacks, Fresh
<1> QED BY <1>4, <1>5

\* Taking an entry off the list takes its ticket, and shifts the others.
LEMMA TicketsTaken ==
    ASSUME CountInv, CountInv', NEW i \in DOMAIN m_fibers,
           m_fibers' = SubSeq(m_fibers, 1, i - 1)
                       \o SubSeq(m_fibers, i + 1, Len(m_fibers))
    PROVE  Cardinality(Tickets(Null)') = Cardinality(Tickets(Null) \ {i})
<1>1. m_fibers \in Seq(Entry)
  BY DEF CountInv, TypeInv
<1>2. /\ Len(m_fibers) \in Nat
      /\ DOMAIN m_fibers = 1 .. Len(m_fibers)
      /\ i \in 1 .. Len(m_fibers)
      /\ DOMAIN m_fibers' = 1 .. Len(m_fibers) - 1
      /\ \A j \in 1 .. Len(m_fibers) - 1 :
            m_fibers'[j] = IF j < i THEN m_fibers[j] ELSE m_fibers[j + 1]
  BY <1>1, Taken
<1> DEFINE S == Tickets(Null) \ {i}
           T == Tickets(Null)'
           shift == [n \in S |-> IF n < i THEN n ELSE n - 1]
<1>3. ASSUME NEW n \in S
      PROVE  /\ n \in 1 .. Len(m_fibers) /\ n # i
             /\ shift[n] \in T
             /\ shift[n] = IF n < i THEN n ELSE n - 1
  <2>1. n \in 1 .. Len(m_fibers) /\ n # i /\ m_fibers[n].fiber = Null
    BY <1>2 DEF Tickets
  <2>2. shift[n] = IF n < i THEN n ELSE n - 1
    OBVIOUS
  <2>3. shift[n] \in 1 .. Len(m_fibers) - 1 /\ m_fibers'[shift[n]] = m_fibers[n]
    <3>1. CASE n < i
      BY <1>2, <2>1, <2>2, <3>1
    <3>2. CASE ~(n < i)
      <4>1. n - 1 \in 1 .. Len(m_fibers) - 1 /\ ~(n - 1 < i) /\ (n - 1) + 1 = n
        BY <1>2, <2>1, <3>2
      <4> QED BY <1>2, <2>2, <3>2, <4>1
    <3> QED BY <3>1, <3>2
  <2> HIDE DEF shift
  <2>4. shift[n] \in T
    BY <1>2, <2>1, <2>3 DEF Tickets
  <2> QED BY <2>1, <2>2, <2>4
<1>4. shift \in [S -> T]
  BY <1>3
<1>5. \A m, n \in S : shift[m] = shift[n] => m = n
  BY <1>2, <1>3
<1>6. ASSUME NEW k \in T
      PROVE  \E n \in S : shift[n] = k
  <2>1. k \in 1 .. Len(m_fibers) - 1 /\ m_fibers'[k].fiber = Null
    BY <1>2 DEF Tickets
  <2>2. CASE k < i
    <3>1. k \in S
      BY <1>2, <2>1, <2>2 DEF Tickets
    <3> QED BY <2>2, <3>1
  <2>3. CASE ~(k < i)
    <3>1. k + 1 \in 1 .. Len(m_fibers) /\ k + 1 # i /\ ~(k + 1 < i) /\ (k + 1) - 1 = k
      BY <1>2, <2>1, <2>3
    <3>2. m_fibers[k + 1].fiber = Null
      BY <1>2, <2>1, <2>3
    <3>3. k + 1 \in S
      BY <1>2, <3>1, <3>2 DEF Tickets
    <3> QED BY <3>1, <3>3
  <2> QED BY <2>2, <2>3
<1> HIDE DEF shift
<1>7. shift \in Bijection(S, T)
  BY <1>4, <1>5, <1>6 DEF Bijection, Injection, Surjection, IsInjective
<1>8. ExistsBijection(S, T)
  BY <1>7 DEF ExistsBijection
<1>9. IsFiniteSet(S)
  BY CallbacksCount, FS_RemoveElement
<1> QED BY <1>8, <1>9, FS_Bijection
-----------------------------------------------------------------------------
\* A worker that goes on with what it has in hand: nothing, or a yield.
LEMMA CarryOnStep ==
    ASSUME Inv, CountInv', FiberInv', NEW w \in Worker,
           \/ takeFiber(w) \/ swap(w) \/ hold(w) \/ swapOut(w) \/ decrement(w)
           \/ afterYield(w) \/ yield(w) \/ finish(w) \/ arm(w)
           \/ \E t \in Pin : switchTo(w, t)
    PROVE  WakeInv' /\ [Queue!Next]_(Queue!qvars)
<1> USE DEF app, Inv
<1>1. HeldStatus /\ HeldStatus'
  BY StatusKnown, StatusKnownNext
<1>2. \E l \in InHand \ {"check"} : GoTo(w, l)
  BY DEF takeFiber, swap, hold, swapOut, decrement, afterYield, yield, finish, arm,
     switchTo, InHand, OnStack
<1>3. /\ pc'[w] \in InHand \ {"check"}
      /\ \A v \in Worker \ {w} : pc'[v] = pc[v]
      /\ \A l : GoTo(w, l) => pc'[w] = l
  BY <1>2 DEF GoTo, CountInv, TypeInv
<1>4. /\ pc[w] \in InHand /\ UNCHANGED <<ft, cbFiber>>
      /\ pc[w] = "check" => ft[w].fiber # Null
  BY DEF takeFiber, swap, hold, swapOut, decrement, afterYield, yield, finish, arm,
     switchTo, InHand, OnStack
<1>5. Cur(w)' = Cur(w)
  BY <1>4 DEF Cur
<1>6. Cur(w) \in Fiber
  BY <1>3, <1>5 DEF CountInv, HandInv
<1> PICK F \in Fiber : F = Cur(w)
  BY <1>6
<1>7. Holds(w, F) /\ Holds(w, F)'
  BY <1>3, <1>4, <1>5 DEF Holds
<1>8. \A g \in Fiber \ {F} : ~Holds(w, g) /\ ~Holds(w, g)'
  BY <1>5 DEF Holds
<1>9. Knows(pc[w], m_state[F], Due(F))
  BY <1>7, HeldKnown
<1>10. /\ m_state \in [Fiber -> State \cup {"none"}]
       /\ \A g \in Fiber \ {F} : m_state'[g] = m_state[g]
  <2>1. m_state \in [Fiber -> State \cup {"none"}]
    BY DEF CountInv, TypeInv
  <2> QED BY <2>1 DEF takeFiber, swap, swapIn, hold, YieldToHold, swapOut, decrement,
             afterYield, yield, YieldToReady, finish, MainFunc, arm, switchTo
<1>11. Fresh' = Fresh
  BY <1>3, <1>4 DEF Fresh
<1>12. /\ StatusOf(F) = IF m_state[F] = "READY" /\ pc[w] \in Gave THEN "again" ELSE "run"
       /\ StatusOf(F)' = IF m_state'[F] = "READY" /\ pc'[w] \in Gave THEN "again" ELSE "run"
  BY <1>1, <1>7 DEF HeldStatus
<1>13. CASE \E t \in Pin : switchTo(w, t)
  <2>1. PICK t \in Worker \cup {AnyThread} : scheduleNoLock(F, t)
    BY <1>13 DEF switchTo
  <2>2. \A g : Queued(g)' <=> Queued(g) \/ g = F
    BY <2>1, Scheduled DEF CountInv
  <2>3. pc[w] = "run" /\ GoTo(w, "park") /\ UNCHANGED <<m_state, armed>>
    BY <1>13 DEF switchTo
  <2>4. m_state[F] = "EXEC" /\ ~Due(F)
    BY <1>9, <2>3 DEF Knows
  <2>5. StatusOf(F) = "run" /\ StatusOf(F)' = "run"
    BY <1>3, <1>12, <2>3, <2>4 DEF Gave
  <2>6. Callbacks' = Callbacks
    BY <1>11, <2>1, CallbacksScheduled
  <2>7. Allowed(F)
    BY <2>2, <2>4, <2>5, <2>6 DEF Allowed, Due
  <2>8. \A g \in Fiber \ {F} : Same(g)
    BY <1>3, <1>4, <1>8, <1>10, <2>2, <2>3, OnlyOne
  <2> QED BY <1>7, <2>3, <2>4, <2>7, <2>8, WakeStep, SeenAt
<1>14. CASE ~\E t \in Pin : switchTo(w, t)
  <2>1. UNCHANGED m_fibers /\ \A g \in Fiber \ {F} : g \in armed' => g \in armed
    BY <1>14 DEF takeFiber, swap, hold, swapOut, decrement, afterYield, yield, finish,
       arm
  <2>2. /\ \A g : Queued(g)' <=> Queued(g)
        /\ Callbacks' = Callbacks
    BY <1>11, <2>1, CallbacksSame DEF Queued
  <2>3. \A g \in Fiber \ {F} : Same(g)
    BY <1>3, <1>4, <1>8, <1>10, <2>1, <2>2, OnlyOne
  <2>4. \/ StatusOf(F)' = StatusOf(F)
        \/ StatusOf(F) = "run" /\ StatusOf(F)' = "again"
    <3>1. CASE arm(w) \/ takeFiber(w) \/ swap(w)
      <4>1. pc[w] \notin Gave /\ pc'[w] \notin Gave
        BY <1>3, <3>1 DEF arm, takeFiber, swap, Gave
      <4> QED BY <1>12, <4>1
    <3>2. CASE hold(w)
      <4>1. m_state[F] = "EXEC" /\ m_state'[F] = "EXEC"
        BY <1>9, <3>2 DEF hold, YieldToHold, Knows
      <4> QED BY <1>12, <4>1
    <3>3. CASE swapOut(w) \/ decrement(w)
      <4>1. pc[w] \in Gave /\ pc'[w] \in Gave /\ m_state' = m_state
        BY <1>3, <3>3 DEF swapOut, decrement, Gave
      <4> QED BY <1>12, <4>1
    <3>4. CASE afterYield(w)
      <4>1. m_state' = m_state /\ pc[w] = "after"
            /\ (m_state[F] = "READY" => pc'[w] = "requeue")
        BY <1>3, <3>4 DEF afterYield
      <4> QED BY <1>12, <4>1 DEF Gave
    <3>5. CASE yield(w)
      <4>1. pc[w] = "run"
        BY <3>5 DEF yield
      <4> QED BY <1>12, <4>1 DEF Gave
    <3>6. CASE finish(w)
      <4>1. pc[w] = "run" /\ m_state'[F] \in Ended
        BY <1>10, <3>6 DEF finish, MainFunc
      <4> QED BY <1>12, <4>1 DEF Gave, Ended
    <3> QED BY <1>14, <3>1, <3>2, <3>3, <3>4, <3>5, <3>6
  <2>5. Allowed(F)
    BY <2>2, <2>4 DEF Allowed
  <2>6. F \in armed' => m_state'[F] \in {"HOLD", "EXEC"}
    <3>1. CASE arm(w)
      BY <1>9, <3>1 DEF arm, Knows
    <3>2. CASE ~arm(w)
      <4>1. armed' = armed
        BY <1>14, <3>2 DEF takeFiber, swap, hold, swapOut, decrement, afterYield, yield,
           finish
      <4>2. F \in armed => pc[w] \in {"park", "hold", "back", "after"}
        BY <1>4, <1>9 DEF Knows, InHand, OnStack, Due
      <4>3. CASE hold(w) \/ decrement(w) \/ afterYield(w)
        BY <4>1, <4>3 DEF hold, YieldToHold, decrement, afterYield, WakeInv
      <4>4. CASE takeFiber(w) \/ swap(w) \/ swapOut(w) \/ yield(w) \/ finish(w)
        BY <4>1, <4>2, <4>4 DEF takeFiber, swap, swapOut, yield, finish
      <4> QED BY <1>14, <3>2, <4>3, <4>4
    <3> QED BY <3>1, <3>2
  <2> QED BY <1>7, <2>3, <2>5, <2>6, WakeStep, SeenAt
<1> QED BY <1>13, <1>14

\* A worker that takes an entry off the list.
LEMMA PopStep ==
    ASSUME Inv, CountInv', FiberInv', NEW w \in Worker, pop(w)
    PROVE  WakeInv' /\ [Queue!Next]_(Queue!qvars)
<1> USE DEF mains, flags, app, Inv
<1>1. PICK i \in DOMAIN m_fibers :
          /\ Takable(w, m_fibers[i])
          /\ ft' = [ft EXCEPT ![w] = m_fibers[i]]
          /\ m_fibers' = SubSeq(m_fibers, 1, i - 1)
                         \o SubSeq(m_fibers, i + 1, Len(m_fibers))
  BY DEF pop
<1>2. /\ pc[w] = "pop" /\ GoTo(w, "check") /\ UNCHANGED <<m_state, cbFiber, armed>>
      /\ TypeInv
  BY DEF pop, CountInv
<1>3. m_fibers[i] \in Entry
  BY <1>2, LenProperties, ElementOfSeq DEF TypeInv
<1>4. /\ pc'[w] = "check" /\ ft'[w].fiber = m_fibers[i].fiber
      /\ \A v \in Worker \ {w} : /\ pc'[v] = pc[v] /\ ft'[v] = ft[v]
                                 /\ cbFiber'[v] = cbFiber[v]
  BY <1>1, <1>2 DEF GoTo, TypeInv
<1>5. \A g \in Fiber : Queued(g)' <=> Queued(g) /\ g # m_fibers[i].fiber
  BY <1>1, <1>2, Unscheduled DEF FiberInv
<1>6. Cardinality(Tickets(Null)') = Cardinality(Tickets(Null) \ {i})
  BY <1>1, TicketsTaken
<1>7. /\ Callbacks = Cardinality(Tickets(Null)) + Cardinality(Fresh)
      /\ Callbacks' = Cardinality(Tickets(Null)') + Cardinality(Fresh')
      /\ IsFiniteSet(Tickets(Null)) /\ Cardinality(Tickets(Null)) \in Nat
      /\ IsFiniteSet(Fresh) /\ Cardinality(Fresh) \in Nat
  BY CallbacksCount DEF Callbacks, Fresh
<1>8. \A g \in Fiber : ~Holds(w, g) /\ (Holds(w, g)' <=> g = m_fibers[i].fiber)
  BY <1>2, <1>4 DEF Holds, Cur, InHand, OnStack
<1>9. CASE m_fibers[i].fiber = Null
  <2>1. \A g \in Fiber : ~Holds(w, g)'
    BY <1>8, <1>9
  <2>2. i \in Tickets(Null)
    BY <1>9 DEF Tickets
  <2>3. Cardinality(Tickets(Null)') = Cardinality(Tickets(Null)) - 1
    BY <1>6, <1>7, <2>2, FS_RemoveElement
  <2>4. Fresh' = Fresh \cup {w} /\ w \notin Fresh
    BY <1>2, <1>4, <1>9 DEF Fresh
  <2>5. Cardinality(Fresh') = Cardinality(Fresh) + 1
    BY <1>7, <2>4, FS_AddElement
  <2>6. Callbacks' = Callbacks
    BY <1>7, <2>3, <2>5
  <2>7. ASSUME NEW g \in Fiber
        PROVE  Same(g)
    <3>1. Queued(g)' <=> Queued(g)
      BY <1>5, <1>9
    <3> QED BY <1>2, <1>4, <1>5, <1>8, <1>9, <2>1, <3>1, OnlyOne
  <2>8. WakeInv'
    BY <2>7, WakeNowhere
  <2>9. [Queue!Next]_(Queue!qvars)
    BY <2>6, <2>7, SeenNowhere
  <2> QED BY <2>8, <2>9
<1>10. CASE m_fibers[i].fiber # Null
  <2> PICK F \in Fiber : F = m_fibers[i].fiber
    BY <1>3, <1>10 DEF Entry
  <2>1. Queued(F) /\ Due(F) /\ m_state[F] # "EXEC"
    BY <1>1 DEF Queued, Due, Takable
  <2>2. m_state[F] \in Resting /\ \A v \in Worker : ~Owns(v, F)
    BY <2>1, Unowned
  <2>3. \A v \in Worker : ~Holds(v, F)
    BY <2>2 DEF Holds, Cur, Owns
  <2>4. i \notin Tickets(Null)
    BY <1>10 DEF Tickets
  <2>5. Cardinality(Tickets(Null)') = Cardinality(Tickets(Null))
    BY <1>6, <1>7, <2>4, FS_RemoveElement
  <2>6. Fresh' = Fresh
    BY <1>2, <1>4, <1>10 DEF Fresh
  <2>7. Callbacks' = Callbacks
    BY <1>7, <2>5, <2>6
  <2>8. StatusOf(F) = "rest"
    <3>1. FreeStatus /\ Built(F)
      BY <2>2, StatusKnown DEF Resting, Built
    <3> QED BY <2>1, <2>3, <3>1 DEF FreeStatus
  <2>9. StatusOf(F)' = "run"
    <3>1. HeldStatus' /\ Holds(w, F)' /\ pc'[w] \notin Gave
      BY <1>4, <1>8, StatusKnownNext DEF Gave
    <3> QED BY <3>1 DEF HeldStatus
  <2>10. Allowed(F)
    BY <1>5, <2>1, <2>7, <2>8, <2>9 DEF Allowed
  <2>11. \A g \in Fiber \ {F} : Same(g)
    BY <1>2, <1>4, <1>5, <1>8, OnlyOne
  <2>12. F \notin armed'
    BY <1>2, <2>1 DEF FiberInv, ArmedInv
  <2>13. m_state'[F] # "EXEC"
    BY <1>2, <2>1
  <2> QED BY <2>10, <2>11, <2>12, <2>13, WakeStep, SeenAt
<1> QED BY <1>9, <1>10

\* A worker that finds a fiber for the callback it has taken.
LEMMA CallbackStep ==
    ASSUME Inv, CountInv', FiberInv', NEW w \in Worker, takeCallback(w)
    PROVE  WakeInv' /\ [Queue!Next]_(Queue!qvars)
<1> USE DEF mains, flags, app, Inv
<1>1. /\ pc[w] = "check" /\ ft[w].fiber = Null /\ GoTo(w, "swap") /\ TypeInv
      /\ UNCHANGED <<m_fibers, armed>> /\ ft' = [ft EXCEPT ![w] = NoTask]
  BY DEF takeCallback, CountInv
<1>2. PICK F \in Fiber :
          /\ m_state' = [m_state EXCEPT ![F] = "INIT"]
          /\ cbFiber' = [cbFiber EXCEPT ![w] = F]
          /\ ~Due(F)
          /\ m_state[F] \in {"INIT", "none"}
          /\ \A v \in Worker \ {w} : ~Owns(v, F)
  <2>1. CASE cbFiber[w] # Null /\ reset(cbFiber[w]) /\ UNCHANGED cbFiber
    <3>1. /\ cbFiber[w] \in Fiber /\ Owns(w, cbFiber[w])
          /\ m_state[cbFiber[w]] = "INIT" /\ ~Due(cbFiber[w])
      BY <1>1, <2>1 DEF TypeInv, Owns, Kept, FiberInv, WorkerInv
    <3>2. \A v \in Worker \ {w} : ~Owns(v, cbFiber[w])
      BY <3>1 DEF FiberInv, DistinctInv
    <3>3. cbFiber' = [cbFiber EXCEPT ![w] = cbFiber[w]]
      BY <1>1, <2>1 DEF TypeInv
    <3> QED BY <2>1, <3>1, <3>2, <3>3 DEF reset
  <2>2. CASE \E f \in Fiber : /\ Construct(f)
                              /\ cbFiber' = [cbFiber EXCEPT ![w] = f]
    <3>1. PICK f \in Fiber : /\ ~Built(f) /\ m_state' = [m_state EXCEPT ![f] = "INIT"]
                             /\ cbFiber' = [cbFiber EXCEPT ![w] = f]
      BY <2>2 DEF Construct
    <3> QED BY <3>1, Unowned DEF Built
  <2> QED BY <2>1, <2>2 DEF takeCallback
<1>3. /\ pc'[w] = "swap" /\ ft'[w].fiber = Null /\ cbFiber'[w] = F
      /\ m_state'[F] = "INIT"
      /\ \A v \in Worker \ {w} : /\ pc'[v] = pc[v] /\ ft'[v] = ft[v]
                                 /\ cbFiber'[v] = cbFiber[v]
      /\ \A g \in Fiber \ {F} : m_state'[g] = m_state[g]
  BY <1>1, <1>2 DEF GoTo, TypeInv, NoTask
<1>4. \A g \in Fiber : ~Holds(w, g) /\ (Holds(w, g)' <=> g = F)
  BY <1>1, <1>3 DEF Holds, Cur, InHand, OnStack
<1>5. \A v \in Worker : ~Holds(v, F)
  BY <1>2, <1>4 DEF Holds, Cur, Owns
<1>6. StatusOf(F) \in {"none", "over"}
  <2>1. FreeStatus
    BY StatusKnown
  <2>2. StatusOf(F) = IF ~Built(F) THEN "none"
                      ELSE IF m_state[F] \in {"HOLD", "READY"} \/ Queued(F)
                           THEN "rest" ELSE "over"
    BY <1>5, <2>1 DEF FreeStatus
  <2> QED BY <1>2, <2>2 DEF Due, Built
<1>7. StatusOf(F)' = "run"
  <2>1. HeldStatus' /\ Holds(w, F)' /\ pc'[w] \notin Gave
    BY <1>3, <1>4, StatusKnownNext DEF Gave
  <2> QED BY <2>1 DEF HeldStatus
<1>8. Fresh' = Fresh \ {w} /\ w \in Fresh
  BY <1>1, <1>3 DEF Fresh
<1>9. Callbacks > 0 /\ Callbacks' = Callbacks - 1
  <2>1. Tickets(Null)' = Tickets(Null)
    BY <1>1 DEF Tickets
  <2>2. Cardinality(Fresh') = Cardinality(Fresh) - 1 /\ Cardinality(Fresh') \in Nat
    <3>1. IsFiniteSet(Fresh)
      BY CallbacksCount
    <3>2. IsFiniteSet(Fresh \ {w}) /\ Cardinality(Fresh \ {w}) = Cardinality(Fresh) - 1
      BY <1>8, <3>1, FS_RemoveElement
    <3> QED BY <1>8, <3>2, FS_CardinalityType
  <2>3. Callbacks' = Cardinality(Tickets(Null)') + Cardinality(Fresh')
    BY DEF Callbacks, Fresh
  <2> QED BY <2>1, <2>2, <2>3, CallbacksCount
<1>10. \A g : (Queued(g)' <=> Queued(g))
  BY <1>1 DEF Queued
<1>11. Allowed(F)
  BY <1>2, <1>6, <1>7, <1>9, <1>10 DEF Allowed, Due
<1>12. \A g \in Fiber \ {F} : Same(g)
  BY <1>1, <1>3, <1>4, <1>10, OnlyOne
<1>13. F \notin armed' /\ m_state'[F] # "EXEC"
  BY <1>1, <1>2, <1>3 DEF Due
<1> QED BY <1>11, <1>12, <1>13, WakeStep, SeenAt

\* A worker that lets go of the fiber it had in hand.
LEMMA ReleaseStep ==
    ASSUME Inv, CountInv', FiberInv', NEW w \in Worker,
           afterEnded(w) \/ requeue(w) \/ setHold(w)
    PROVE  WakeInv' /\ [Queue!Next]_(Queue!qvars)
<1> USE DEF mains, flags, app, Inv
<1>1. /\ pc[w] \in {"after", "requeue", "hold"} /\ GoTo(w, "pop") /\ TypeInv
      /\ ft' = [ft EXCEPT ![w] = NoTask] /\ UNCHANGED armed
  BY DEF afterEnded, requeue, setHold, LetGo, CountInv
<1> PICK F \in Fiber : F = Cur(w)
  BY <1>1 DEF CountInv, HandInv, InHand, OnStack
<1>2. /\ pc'[w] = "pop" /\ Fresh' = Fresh
      /\ \A v \in Worker \ {w} : /\ pc'[v] = pc[v] /\ ft'[v] = ft[v]
                                 /\ cbFiber'[v] = cbFiber[v]
  <2>1. pc'[w] = "pop" /\ \A v \in Worker \ {w} : pc'[v] = pc[v] /\ ft'[v] = ft[v]
    BY <1>1 DEF GoTo, TypeInv
  <2>2. \A v \in Worker \ {w} : cbFiber'[v] = cbFiber[v]
    BY <1>1 DEF afterEnded, requeue, setHold, LetGo, TypeInv
  <2>3. Fresh' = Fresh
    BY <1>1, <2>1 DEF Fresh
  <2> QED BY <2>1, <2>2, <2>3
<1>3. Holds(w, F) /\ \A g \in Fiber : (Holds(w, g) <=> g = F) /\ ~Holds(w, g)'
  BY <1>1, <1>2 DEF Holds, InHand, OnStack
<1>4. \A v \in Worker \ {w} : ~Holds(v, F)
  BY <1>3, OneHolder
<1>5. Knows(pc[w], m_state[F], Due(F))
  BY <1>3, HeldKnown
<1>6. /\ m_state \in [Fiber -> State \cup {"none"}]
      /\ \A g \in Fiber \ {F} : m_state'[g] = m_state[g]
  BY <1>1 DEF TypeInv, afterEnded, reset, setHold, requeue
<1>7. StatusOf(F) = IF m_state[F] = "READY" /\ pc[w] \in Gave THEN "again" ELSE "run"
  BY <1>3, StatusKnown DEF HeldStatus
<1>8. \A g \in Fiber : Queued(g)' <=> Queued(g) \/ (requeue(w) /\ g = F)
  <2>1. CASE requeue(w)
    BY <1>1, <2>1, Scheduled DEF requeue
  <2>2. CASE ~requeue(w)
    <3>1. UNCHANGED m_fibers
      BY <2>2 DEF afterEnded, setHold
    <3> QED BY <2>2, <3>1 DEF Queued
  <2> QED BY <2>1, <2>2
<1>9. \A g \in Fiber \ {F} : Same(g)
  BY <1>1, <1>2, <1>3, <1>6, <1>8, OnlyOne
<1>10. \A v \in Worker : ~Holds(v, F)'
  <2>1. \A v \in Worker \ {w} : Holds(v, F)' <=> Holds(v, F)
    BY <1>2 DEF Holds, Cur
  <2> QED BY <1>3, <1>4, <2>1
<1>11. StatusOf(F)' = IF ~Built(F)' THEN "none"
                      ELSE IF m_state'[F] \in {"HOLD", "READY"} \/ Queued(F)'
                           THEN "rest" ELSE "over"
  BY <1>10, StatusKnownNext DEF FreeStatus
<1>12. Callbacks' = Callbacks
  <2>1. CASE requeue(w)
    BY <1>2, <2>1, CallbacksScheduled DEF requeue
  <2>2. CASE ~requeue(w)
    <3>1. UNCHANGED m_fibers
      BY <2>2 DEF afterEnded, setHold
    <3> QED BY <1>2, <3>1, CallbacksSame
  <2> QED BY <2>1, <2>2
<1>13. CASE afterEnded(w)
  <2>1. pc[w] = "after" /\ m_state[F] \in Ended /\ ~Due(F) /\ ~requeue(w)
    BY <1>5, <1>13 DEF afterEnded, requeue, Knows, Ended
  <2>2. m_state'[F] \in Ended \cup {"INIT"}
    BY <1>6, <1>13, <2>1 DEF afterEnded, reset
  <2>3. StatusOf(F) = "run" /\ StatusOf(F)' = "over"
    BY <1>7, <1>8, <1>11, <2>1, <2>2 DEF Built, Ended, Due
  <2>4. Allowed(F)
    BY <1>8, <1>12, <2>1, <2>3 DEF Allowed, Due
  <2>5. F \notin armed' /\ m_state'[F] # "EXEC"
    BY <1>1, <2>1, <2>2 DEF Due, Ended
  <2> QED BY <1>9, <2>4, <2>5, WakeStep, SeenAt
<1>14. CASE requeue(w)
  <2>1. pc[w] = "requeue" /\ m_state[F] = "READY" /\ ~Due(F) /\ m_state' = m_state
    BY <1>5, <1>14 DEF requeue, Knows
  <2>2. StatusOf(F) = "again" /\ StatusOf(F)' = "rest"
    BY <1>7, <1>11, <2>1 DEF Built, Gave
  <2>3. Allowed(F)
    BY <1>8, <1>12, <1>14, <2>1, <2>2 DEF Allowed, Due
  <2>4. F \notin armed' /\ m_state'[F] # "EXEC"
    BY <1>1, <2>1 DEF Due
  <2> QED BY <1>9, <2>3, <2>4, WakeStep, SeenAt
<1>15. CASE setHold(w)
  <2>1. /\ pc[w] = "hold" /\ m_state[F] = "EXEC" /\ m_state'[F] = "HOLD"
        /\ ~requeue(w)
    BY <1>5, <1>6, <1>15 DEF setHold, requeue, Knows
  <2>2. StatusOf(F) = "run" /\ StatusOf(F)' = "rest"
    BY <1>7, <1>11, <2>1 DEF Built
  <2>3. Allowed(F)
    BY <1>8, <1>12, <2>1, <2>2 DEF Allowed
  <2> QED BY <1>9, <2>1, <2>3, WakeStep, SeenAt
<1> QED BY <1>13, <1>14, <1>15

\* A worker with nothing in hand, start, stop and join are nothing to the queue.
LEMMA QuietStep ==
    ASSUME Inv, CountInv', FiberInv',
           Main \/ \E w \in Worker : popNothing(w) \/ idle(w)
    PROVE  WakeInv' /\ [Queue!Next]_(Queue!qvars)
<1> USE DEF flags, locals, calls, mains, app, Inv
<1>1. UNCHANGED <<m_state, m_fibers, ft, armed>>
  BY DEF Main, start, stop, callRoot, rootReturns, join, popNothing, idle
<1>2. ASSUME NEW v \in Worker
      PROVE  \/ pc'[v] = pc[v] /\ cbFiber'[v] = cbFiber[v]
             \/ pc[v] \notin InHand /\ pc'[v] \notin InHand
  <2>1. pc \in [Worker -> Location] /\ cbFiber \in [Worker -> Fiber \cup {Null}] /\ MainInv
    BY DEF CountInv, TypeInv
  <2>2. CASE start \/ callRoot
    BY <2>1, <2>2 DEF start, callRoot, MainInv, GoTo, InHand, OnStack
  <2>3. CASE stop \/ rootReturns
    BY <2>3 DEF stop, rootReturns
  <2>4. CASE join
    BY <2>1, <2>4 DEF join, InHand, OnStack
  <2>5. CASE \E w \in Worker : popNothing(w) \/ idle(w)
    BY <2>1, <2>5 DEF popNothing, idle, GoTo, InHand, OnStack
  <2> QED BY <2>2, <2>3, <2>4, <2>5 DEF Main
<1>3. \A g : Queued(g)' <=> Queued(g)
  BY <1>1 DEF Queued
<1>4. ASSUME NEW g \in Fiber
      PROVE  Same(g)
  <2>1. ASSUME NEW v \in Worker
        PROVE  /\ Holds(v, g)' <=> Holds(v, g)
               /\ Holds(v, g) => (pc'[v] \in Gave <=> pc[v] \in Gave)
    BY <1>1, <1>2 DEF Holds, Cur
  <2> QED BY <1>1, <1>3, <2>1 DEF Same
<1>5. Fresh' = Fresh
  BY <1>1, <1>2 DEF Fresh, InHand
<1>6. Callbacks' = Callbacks
  BY <1>1, <1>5, CallbacksSame
<1> QED BY <1>4, <1>6, WakeNowhere, SeenNowhere

\* The application's calls of schedule.
LEMMA ApplicationStep ==
    ASSUME Inv, CountInv', FiberInv', Application, "stray" \notin Careless
    PROVE  WakeInv' /\ [Queue!Next]_(Queue!qvars)
<1> USE DEF mains, locals, flags, calls, Inv
<1>1. UNCHANGED <<pc, ft, cbFiber>> /\ TypeInv
  BY DEF Application, Submit, Wake, CountInv
<1>2. /\ \A g, v : Holds(v, g)' <=> Holds(v, g)
      /\ Fresh' = Fresh
  BY <1>1 DEF Holds, Cur, Fresh
<1>3. ASSUME NEW g \in Fiber, m_state'[g] = m_state[g], Queued(g)' <=> Queued(g),
             g \in armed' => g \in armed
      PROVE  Same(g)
  BY <1>1, <1>2, <1>3 DEF Same
<1>4. ASSUME NEW f \in Fiber, NEW t \in Pin, Wake(f, t)
      PROVE  WakeInv' /\ [Queue!Next]_(Queue!qvars)
  <2>1. /\ f \in armed /\ armed' = armed \ {f} /\ UNCHANGED m_state
        /\ ~Queued(f) /\ scheduleNoLock(f, t) /\ t \in Worker \cup {AnyThread}
    BY <1>4 DEF Wake, FiberInv, ArmedInv
  <2>2. \A g : Queued(g)' <=> Queued(g) \/ g = f
    BY <1>1, <2>1, Scheduled
  <2>3. \A g \in Fiber \ {f} : Same(g)
    BY <1>3, <2>1, <2>2
  <2>4. m_state[f] \in {"HOLD", "EXEC"}
    BY <2>1 DEF WakeInv
  <2>5. Callbacks' = Callbacks
    BY <1>2, <2>1, CallbacksScheduled
  <2>6. StatusOf(f) \in {"rest", "run"} /\ StatusOf(f)' = StatusOf(f)
    <3>1. HeldStatus /\ FreeStatus /\ HeldStatus' /\ FreeStatus'
      BY StatusKnown, StatusKnownNext
    <3>2. CASE \E w \in Worker : Holds(w, f)
      <4>1. PICK w \in Worker : Holds(w, f)
        BY <3>2
      <4>2. Holds(w, f)'
        BY <1>2, <4>1
      <4>3. StatusOf(f) = IF m_state[f] = "READY" /\ pc[w] \in Gave THEN "again" ELSE "run"
        BY <3>1, <4>1 DEF HeldStatus
      <4>4. StatusOf(f)' = IF m_state'[f] = "READY" /\ pc'[w] \in Gave THEN "again" ELSE "run"
        BY <3>1, <4>2 DEF HeldStatus
      <4>5. m_state[f] # "READY"
        <5>1. Knows(pc[w], m_state[f], Due(f)) /\ pc[w] \in InHand /\ Due(f)
          BY <2>1, <4>1, HeldKnown DEF Holds, Due
        <5> QED BY <2>4
      <4> QED BY <2>1, <4>3, <4>4, <4>5
    <3>3. CASE \A w \in Worker : ~Holds(w, f)
      <4>1. m_state[f] = "HOLD"
        BY <2>4, <3>3 DEF WakeInv
      <4>2. \A w \in Worker : ~Holds(w, f)'
        BY <1>2, <3>3
      <4>3. StatusOf(f) = IF ~Built(f) THEN "none"
                          ELSE IF m_state[f] \in {"HOLD", "READY"} \/ Queued(f)
                               THEN "rest" ELSE "over"
        BY <3>1, <3>3 DEF FreeStatus
      <4>4. StatusOf(f)' = IF ~Built(f)' THEN "none"
                           ELSE IF m_state'[f] \in {"HOLD", "READY"} \/ Queued(f)'
                                THEN "rest" ELSE "over"
        BY <3>1, <4>2 DEF FreeStatus
      <4> QED BY <2>1, <4>1, <4>3, <4>4 DEF Built
    <3> QED BY <3>2, <3>3
  <2>7. Allowed(f)
    BY <2>1, <2>2, <2>5, <2>6 DEF Allowed
  <2>8. m_state'[f] = "EXEC" => \E w \in Worker : Holds(w, f)'
    BY <1>2, <2>1 DEF WakeInv
  <2> QED BY <2>1, <2>3, <2>4, <2>7, <2>8, WakeStep, SeenAt
<1>5. ASSUME NEW t \in Pin, Submit(t), scheduleNoLock(Null, t), UNCHANGED m_state
      PROVE  WakeInv' /\ [Queue!Next]_(Queue!qvars)
  <2>1. UNCHANGED armed /\ t \in Worker \cup {AnyThread} /\ Null \notin Fiber
    BY <1>5 DEF Submit
  <2>2. \A g : Queued(g)' <=> Queued(g) \/ g = Null
    BY <1>1, <1>5, <2>1, Scheduled
  <2>3. \A g \in Fiber : Same(g)
    BY <1>3, <1>5, <2>1, <2>2
  <2>4. Callbacks' = Callbacks + 1
    BY <1>2, <1>5, <2>1, CallbacksScheduled
  <2> QED BY <2>3, <2>4, WakeNowhere, SeenNowhere
<1>6. ASSUME NEW t \in Pin, NEW f \in Fiber,
             Submit(t), Construct(f), scheduleNoLock(f, t)
      PROVE  WakeInv' /\ [Queue!Next]_(Queue!qvars)
  <2>1. UNCHANGED armed /\ t \in Worker \cup {AnyThread} /\ ~Built(f)
    BY <1>6 DEF Submit, Construct
  <2>2. ~Due(f) /\ \A v \in Worker : ~Owns(v, f)
    BY <2>1, Unowned
  <2>3. m_state'[f] = "INIT" /\ \A g \in Fiber \ {f} : m_state'[g] = m_state[g]
    BY <1>1, <1>6 DEF Construct, TypeInv
  <2>4. \A g : Queued(g)' <=> Queued(g) \/ g = f
    BY <1>1, <1>6, <2>1, Scheduled
  <2>5. \A g \in Fiber \ {f} : Same(g)
    BY <1>3, <2>1, <2>3, <2>4
  <2>6. Callbacks' = Callbacks
    BY <1>2, <1>6, <2>1, CallbacksScheduled
  <2>7. \A v \in Worker : ~Holds(v, f) /\ ~Holds(v, f)'
    BY <1>2, <2>2 DEF Holds, Cur, Owns
  <2>8. StatusOf(f) = "none"
    BY <2>1, <2>7, StatusKnown DEF FreeStatus
  <2>9. StatusOf(f)' = "rest"
    <3>1. FreeStatus' /\ Built(f)' /\ Queued(f)'
      BY <2>3, <2>4, StatusKnownNext DEF Built
    <3> QED BY <2>7, <3>1 DEF FreeStatus
  <2>10. Allowed(f)
    BY <2>4, <2>6, <2>8, <2>9 DEF Allowed
  <2>11. f \notin armed' /\ m_state'[f] # "EXEC"
    BY <2>1, <2>2, <2>3 DEF Due
  <2> QED BY <2>5, <2>10, <2>11, WakeStep, SeenAt
<1> QED BY <1>4, <1>5, <1>6 DEF Application, Submit
-----------------------------------------------------------------------------
LEMMA InitQueue == Init => WakeInv /\ Queue!Init
<1> SUFFICES ASSUME Init PROVE WakeInv /\ Queue!Init
  OBVIOUS
<1>1. CountInv /\ FiberInv
  BY InitCount, InitFiber
<1>2. WakeInv
  BY DEF Init, WakeInv
<1>3. /\ \A w \in Worker : pc[w] = "off"
      /\ m_fibers = <<>>
      /\ \A f \in Fiber : m_state[f] = "none"
  BY DEF Init
<1>4. \A f \in Fiber : StatusOf(f) = "none"
  BY <1>3 DEF StatusOf, Built
<1>5. \A f : Tickets(f) = {}
  BY <1>3 DEF Tickets
<1>6. Fresh = {}
  BY <1>3 DEF Fresh
<1>7. Callbacks = 0
  BY <1>1, <1>5, <1>6, CallbacksCount, FS_EmptySet
<1> QED BY <1>2, <1>4, <1>5, <1>7 DEF Queue!Init

LEMMA NextQueue ==
    ASSUME "stray" \notin Careless
    PROVE  Inv /\ CountInv' /\ FiberInv' /\ [Next]_vars
               => WakeInv' /\ [Queue!Next]_(Queue!qvars)
<1> SUFFICES ASSUME Inv, CountInv', FiberInv', [Next]_vars
             PROVE  WakeInv' /\ [Queue!Next]_(Queue!qvars)
  OBVIOUS
<1>1. CASE Main
  BY <1>1, QuietStep
<1>2. ASSUME NEW w \in Worker, Loop(w) \/ Choose(w)
      PROVE  WakeInv' /\ [Queue!Next]_(Queue!qvars)
  <2>1. ~dropEnded(w)
    BY NeverDropped DEF Inv
  <2> QED BY <1>2, <2>1, CarryOnStep, PopStep, CallbackStep, ReleaseStep, QuietStep
          DEF Loop, Choose
<1>3. CASE Application
  BY <1>3, ApplicationStep
<1>4. CASE UNCHANGED vars
  <2>1. UNCHANGED <<m_state, m_fibers, pc, ft, cbFiber, armed>>
    BY <1>4 DEF vars, locals, app
  <2>2. Fresh' = Fresh
    BY <2>1 DEF Fresh
  <2>3. Callbacks' = Callbacks
    BY <2>1, <2>2, CallbacksSame
  <2>4. \A g \in Fiber : Same(g)
    BY <2>1 DEF Same, Queued, Holds, Cur
  <2> QED BY <2>3, <2>4, WakeNowhere, SeenNowhere DEF Inv
<1> QED BY <1>1, <1>2, <1>3, <1>4 DEF Next, Terminated

\* Scheduler implements RunQueue: whatever the workers, the yields and the
\* wakers do, a fiber runs at most once at a time and only after it was queued,
\* no queued fiber is forgotten, and each callback is run once, by a fiber of
\* its own.
THEOREM Implements ==
    ASSUME "stray" \notin Careless
    PROVE  Spec => ImplementsRunQueue
<1>1. Init => Queue!Init /\ WakeInv
  BY InitQueue
<1>2. Inv /\ (CountInv /\ FiberInv)' /\ [Next]_vars
          => WakeInv' /\ [Queue!Next]_(Queue!qvars)
  BY NextQueue
<1> QED BY <1>1, <1>2, Inductive, PTL DEF Spec, Inv, ImplementsRunQueue, Queue!Spec
-----------------------------------------------------------------------------
\* The last worker to return has found nothing on the list.
LEMMA LastReturns ==
    ASSUME CountInv, Next, ~Gone, Gone'
    PROVE  \E w \in Worker : popNothing(w) /\ pc' = [pc EXCEPT ![w] = "done"]
<1>1. pc \in [Worker -> Location]
  BY DEF CountInv, TypeInv
<1>2. ~Main
  BY <1>1 DEF Main, start, stop, callRoot, rootReturns, join, Gone, locals, GoTo, Threads
<1>3. ~Application /\ ~Terminated
  BY DEF Application, Submit, Wake, Terminated, Gone, locals
<1>4. PICK w \in Worker : Loop(w) \/ Choose(w)
  BY <1>2, <1>3 DEF Next
<1>5. pc'[w] \in {"off", "done"}
  BY DEF Gone
<1>6. ~Choose(w)
  BY <1>1, <1>5 DEF Choose, switchTo, arm, yield, finish, GoTo
<1>7. popNothing(w)
  BY <1>1, <1>4, <1>5, <1>6 DEF Loop, pop, popNothing, idle, dropEnded, takeFiber,
     takeCallback, swap, hold, swapOut, decrement, afterEnded, afterYield, requeue,
     setHold, LetGo, GoTo
<1>8. pc' = [pc EXCEPT ![w] = "done"]
  BY <1>1, <1>5, <1>7 DEF popNothing, GoTo
<1> QED BY <1>7, <1>8

\* The last worker to return leaves no entry on the list that any worker could
\* have taken: an entry in EXEC would be in the hands of another worker.
THEOREM NothingForgotten ==
    ASSUME "stray" \notin Careless
    PROVE  Spec => NothingLeftBehind
<1>1. Inv /\ [Next]_vars =>
          [~Gone /\ Gone' =>
              \A i \in DOMAIN m_fibers' : m_fibers'[i].thread # AnyThread]_vars
  <2> SUFFICES ASSUME Inv, Next, ~Gone, Gone', NEW i \in DOMAIN m_fibers'
               PROVE  m_fibers'[i].thread # AnyThread
    OBVIOUS
  <2>1. PICK w \in Worker : popNothing(w) /\ pc' = [pc EXCEPT ![w] = "done"]
    BY LastReturns DEF Inv
  <2>2. m_fibers' = m_fibers /\ ~Takable(w, m_fibers[i]) /\ pc[w] = "pop"
    BY <2>1 DEF popNothing
  <2>3. m_fibers[i] \in Entry
    BY <2>2 DEF Inv, CountInv, TypeInv
  <2>4. \A v \in Worker : pc[v] \notin InHand
    <3>1. pc \in [Worker -> Location]
      BY DEF Inv, CountInv, TypeInv
    <3>2. \A v \in Worker : pc[v] \in {"off", "done", "pop"}
      BY <2>1, <2>2, <3>1 DEF Gone
    <3> QED BY <3>2 DEF InHand, OnStack
  <2>5. \A f \in Fiber : m_state[f] # "EXEC"
    BY <2>4 DEF Inv, WakeInv, Holds
  <2> QED BY <2>2, <2>3, <2>5 DEF Takable, Entry
<1>2. Init => WakeInv
  BY InitQueue
<1>3. Inv /\ (CountInv /\ FiberInv)' /\ [Next]_vars => WakeInv'
  BY NextQueue
<1> QED BY <1>1, <1>2, <1>3, Inductive, PTL DEF Spec, Inv, NothingLeftBehind
=============================================================================

--------------------------- MODULE SchedulerProofs ---------------------------
(***************************************************************************)
(* Safety of Scheduler for every set of workers and fibers, every number   *)
(* of calls, and with or without a root fiber.  That the count of active   *)
(* workers is exact needs no assumption on the application.  That a fiber  *)
(* is on one stack only, has one ticket only and meets every assertion of  *)
(* Fiber.cc needs one: nobody schedules a fiber that has not asked for it. *)
(***************************************************************************)
EXTENDS Scheduler, FiniteSetTheorems, SequenceTheorems, TLAPS

USE WorkerAssumption, UseAssumption

\* TypeOK, but for the bound of m_activeThreadCount.
TypeInv ==
    /\ m_state \in [Fiber -> State \cup {"none"}]
    /\ m_fibers \in Seq(Entry)
    /\ m_activeThreadCount \in Int
    /\ m_stopping \in BOOLEAN /\ m_autoStop \in BOOLEAN
    /\ rootState \in {"INIT", "EXEC", "TERM"}
    /\ main \in {"ready", "running", "stop", "call", "join"}
    /\ starts \in 0 .. MaxStarts
    /\ stops \in 0 .. MaxStops
    /\ pc \in [Worker -> Location]
    /\ ft \in [Worker -> Entry]
    /\ cbFiber \in [Worker -> Fiber \cup {Null}]
    /\ idleEnded \in [Worker -> BOOLEAN]
    /\ armed \in SUBSET Fiber
    /\ submitted \in 0 .. MaxSubmit

\* Where start and callRoot find the workers they send to the loop.
MainInv ==
    /\ main = "ready" => \A w \in Threads : pc[w] = "off"
    /\ rootState = "INIT" /\ Root # Null => pc[Root] = "off"

\* The workers that m_activeThreadCount counts.
Active == {w \in Worker : pc[w] \in OnStack \cup {"check", "swap"}}

\* Past the choice of a fiber a worker has one in hand.
HandInv == \A w \in Worker : pc[w] \in InHand \ {"check"} => Cur(w) \in Fiber

CountInv == TypeInv /\ MainInv /\ HandInv /\ ActiveCountExact
-----------------------------------------------------------------------------
\* Somebody is going to run f: it is on the list, or a waker has it.
Queued(f) == \E i \in DOMAIN m_fibers : m_fibers[i].fiber = f
Due(f) == f \in armed \/ Queued(f)

\* f is in one of the two locals of worker w.
Owns(w, f) == f = ft[w].fiber \/ f = cbFiber[w]

\* cbFiber is only kept, and not what the worker has in hand.
Kept(w) ==
    /\ cbFiber[w] # Null
    /\ \/ ft[w].fiber # Null
       \/ pc[w] \in {"off", "pop", "check", "idle", "done"}

Resting == {"INIT", "HOLD", "READY"}

\* No fiber is twice on the list, nor on the list while a waker has it.
ListInv ==
    \A i, j \in DOMAIN m_fibers :
        m_fibers[i].fiber \in Fiber /\ m_fibers[i].fiber = m_fibers[j].fiber
            => i = j

ArmedInv == \A f \in armed : ~Queued(f)

DueInv == \A f \in Fiber : Due(f) => m_state[f] \in Resting \cup {"EXEC"}

DistinctInv ==
    /\ \A v, w \in Worker : \A f \in Fiber : Owns(v, f) /\ Owns(w, f) => v = w
    /\ \A w \in Worker : ft[w].fiber # Null => ft[w].fiber # cbFiber[w]

\* What a worker knows of the fiber it has in hand, whose state is s, and which
\* is due if d.
Knows(l, s, d) ==
    /\ l \in {"check", "swap"} => s \in Resting /\ ~d
    /\ l = "run" => s = "EXEC" /\ ~d
    /\ l \in {"park", "hold"} => s = "EXEC"
    /\ l \in {"ready", "requeue"} => s = "READY" /\ ~d
    /\ l \in {"back", "after"} =>
          s = "EXEC" \/ (s \in Ended \cup {"READY"} /\ ~d)

WorkerInv(w) ==
    /\ pc[w] \in {"off", "pop", "idle", "done"} => ft[w].fiber = Null
    /\ Kept(w) => m_state[cbFiber[w]] = "INIT" /\ ~Due(cbFiber[w])
    /\ (pc[w] = "check" => ft[w].fiber # Null) =>
          Knows(pc[w], m_state[Cur(w)], Due(Cur(w)))

FiberInv ==
    /\ ListInv /\ ArmedInv /\ DueInv /\ DistinctInv
    /\ \A w \in Worker : WorkerInv(w)
-----------------------------------------------------------------------------
\* What schedule and pop make of the list.
LEMMA Appended ==
    ASSUME NEW s \in Seq(Entry), NEW e \in Entry
    PROVE  /\ Append(s, e) \in Seq(Entry)
           /\ Len(s) \in Nat
           /\ DOMAIN s = 1 .. Len(s)
           /\ DOMAIN Append(s, e) = 1 .. Len(s) + 1
           /\ \A i \in 1 .. Len(s) : Append(s, e)[i] = s[i]
           /\ Append(s, e)[Len(s) + 1] = e
BY LenProperties, AppendProperties

LEMMA Joined ==
    ASSUME NEW S, NEW a \in Seq(S), NEW b \in Seq(S)
    PROVE  /\ a \o b \in Seq(S)
           /\ Len(a \o b) = Len(a) + Len(b)
           /\ \A j \in 1 .. Len(a) + Len(b) :
                 (a \o b)[j] = IF j <= Len(a) THEN a[j] ELSE b[j - Len(a)]
BY ConcatProperties

LEMMA Taken ==
    ASSUME NEW s \in Seq(Entry), NEW i \in DOMAIN s
    PROVE  LET t == SubSeq(s, 1, i - 1) \o SubSeq(s, i + 1, Len(s)) IN
           /\ t \in Seq(Entry)
           /\ Len(s) \in Nat
           /\ DOMAIN s = 1 .. Len(s)
           /\ DOMAIN t = 1 .. Len(s) - 1
           /\ \A j \in 1 .. Len(s) - 1 : t[j] = IF j < i THEN s[j] ELSE s[j + 1]
<1> DEFINE a == SubSeq(s, 1, i - 1)
           b == SubSeq(s, i + 1, Len(s))
<1>1. Len(s) \in Nat /\ DOMAIN s = 1 .. Len(s) /\ i \in 1 .. Len(s)
      /\ \A j \in 1 .. Len(s) : s[j] \in Entry
  BY LenProperties, ElementOfSeq
<1>2. /\ a \in Seq(Entry) /\ Len(a) = i - 1
      /\ \A j \in 1 .. i - 1 : a[j] = s[j]
  BY <1>1, SubSeqProperties
<1>3. /\ b \in Seq(Entry) /\ Len(b) = Len(s) - i
      /\ \A j \in 1 .. Len(s) - i : b[j] = s[i + j]
  <2>1. /\ i + 1 \in Int /\ Len(s) \in Int
        /\ \A j \in i + 1 .. Len(s) : s[j] \in Entry
    BY <1>1
  <2>2. /\ b \in Seq(Entry)
        /\ Len(b) = IF i + 1 <= Len(s) THEN Len(s) - (i + 1) + 1 ELSE 0
        /\ \A j \in 1 .. Len(s) - (i + 1) + 1 : b[j] = s[i + 1 + j - 1]
    BY <2>1, SubSeqProperties
  <2>3. Len(b) = Len(s) - i
    BY <1>1, <2>2
  <2>4. ASSUME NEW j \in 1 .. Len(s) - i
        PROVE  b[j] = s[i + j]
    <3>1. j \in 1 .. Len(s) - (i + 1) + 1 /\ i + 1 + j - 1 = i + j
      BY <1>1, <2>4
    <3> QED BY <2>2, <3>1
  <2> QED BY <2>2, <2>3, <2>4
<1> HIDE DEF a, b
<1>4. /\ a \o b \in Seq(Entry) /\ Len(a \o b) = Len(s) - 1
      /\ \A j \in 1 .. Len(s) - 1 :
            (a \o b)[j] = IF j <= i - 1 THEN a[j] ELSE b[j - (i - 1)]
  <2> a \in Seq(Entry) /\ b \in Seq(Entry)
    BY <1>2, <1>3
  <2>1. /\ a \o b \in Seq(Entry) /\ Len(a \o b) = Len(a) + Len(b)
        /\ \A j \in 1 .. Len(a) + Len(b) :
              (a \o b)[j] = IF j <= Len(a) THEN a[j] ELSE b[j - Len(a)]
    BY Joined
  <2>2. Len(a) + Len(b) = Len(s) - 1
    BY <1>1, <1>2, <1>3
  <2> QED BY <1>2, <2>1, <2>2
<1>5. DOMAIN (a \o b) = 1 .. Len(s) - 1
  BY <1>4, LenProperties
<1>6. ASSUME NEW j \in 1 .. Len(s) - 1
      PROVE  (a \o b)[j] = IF j < i THEN s[j] ELSE s[j + 1]
  <2>1. CASE j < i
    BY <1>1, <1>2, <1>4, <2>1
  <2>2. CASE ~(j < i)
    <3>1. j - (i - 1) \in 1 .. Len(s) - i /\ i + (j - (i - 1)) = j + 1
      BY <1>1, <2>2
    <3>2. b[j - (i - 1)] = s[j + 1]
      BY <1>3, <3>1
    <3> QED BY <1>1, <1>4, <2>2, <3>2
  <2> QED BY <2>1, <2>2
<1> QED BY <1>1, <1>4, <1>5, <1>6 DEF a, b

LEMMA ActiveFinite == IsFiniteSet(Active) /\ Cardinality(Active) \in Nat
<1>1. Active \in SUBSET Worker
  BY DEF Active
<1> QED BY <1>1, FS_Subset, FS_CardinalityType

\* A worker that moves changes the count as it enters or leaves the stretch
\* that is counted.
LEMMA ActiveMoves ==
    ASSUME NEW w \in Worker, NEW l, TypeInv, GoTo(w, l)
    PROVE  /\ w \notin Active /\ w \in Active' =>
                  Cardinality(Active') = Cardinality(Active) + 1
           /\ w \in Active /\ w \notin Active' =>
                  Cardinality(Active') = Cardinality(Active) - 1
           /\ (w \in Active <=> w \in Active') =>
                  Cardinality(Active') = Cardinality(Active)
<1>1. \A v \in Worker : v # w => pc'[v] = pc[v]
  BY DEF TypeInv, GoTo
<1>2. Active' = (IF w \in Active' THEN Active \cup {w} ELSE Active \ {w})
  BY <1>1 DEF Active
<1> QED BY <1>2, ActiveFinite, FS_AddElement, FS_RemoveElement
-----------------------------------------------------------------------------
LEMMA InitCount == Init => CountInv
<1> SUFFICES ASSUME Init PROVE CountInv
  OBVIOUS
<1>1. TypeInv
  <2>1. <<>> \in Seq(Entry)
    BY EmptySeq
  <2>2. m_fibers \in Seq(Entry)
    BY <2>1 DEF Init
  <2>3. m_state \in [Fiber -> State \cup {"none"}] /\ pc \in [Worker -> Location]
    BY DEF Init, Location
  <2>4. NoTask \in Entry
    BY DEF NoTask, Entry
  <2>5. /\ ft \in [Worker -> Entry] /\ cbFiber \in [Worker -> Fiber \cup {Null}]
        /\ idleEnded \in [Worker -> BOOLEAN]
    BY <2>4 DEF Init
  <2>6. /\ m_activeThreadCount \in Int /\ starts \in 0 .. MaxStarts
        /\ stops \in 0 .. MaxStops /\ submitted \in 0 .. MaxSubmit
        /\ armed \in SUBSET Fiber
    BY DEF Init
  <2> QED BY <2>2, <2>3, <2>5, <2>6 DEF Init, TypeInv
<1>2. MainInv
  BY DEF Init, MainInv, Threads
<1>3. {w \in Worker : pc[w] \in OnStack \cup {"check", "swap"}} = {}
  BY DEF Init, OnStack
<1>4. ActiveCountExact
  BY <1>3, FS_EmptySet DEF Init, ActiveCountExact
<1>5. HandInv
  BY DEF Init, HandInv, InHand, OnStack
<1> QED BY <1>1, <1>2, <1>4, <1>5 DEF CountInv

\* The steps of start, stop and the root fiber.
LEMMA MainCount ==
    ASSUME CountInv, Main
    PROVE  CountInv'
<1> USE DEF flags, locals, calls, mains, app
<1>1. TypeInv /\ MainInv /\ HandInv
  BY DEF CountInv
<1>2. CASE start
  <2>1. TypeInv'
    <3>1. pc' \in [Worker -> Location]
      BY <1>1, <1>2 DEF start, TypeInv, Location
    <3>2. starts' \in 0 .. MaxStarts
      BY <1>1, <1>2 DEF start, TypeInv
    <3> QED BY <1>1, <1>2, <3>1, <3>2 DEF start, TypeInv
  <2>2. MainInv'
    BY <1>1, <1>2 DEF start, TypeInv, MainInv, Threads
  <2>3. Active' = Active
    BY <1>1, <1>2 DEF start, TypeInv, MainInv, Active, OnStack
  <2>4. HandInv'
    BY <1>1, <1>2 DEF start, TypeInv, HandInv, Cur, InHand, OnStack
  <2> QED BY <1>2, <2>1, <2>2, <2>3, <2>4 DEF start, CountInv, ActiveCountExact, Active
<1>3. CASE stop
  <2>1. TypeInv'
    BY <1>1, <1>3 DEF stop, TypeInv
  <2>2. MainInv'
    BY <1>1, <1>3 DEF stop, TypeInv, MainInv
  <2> QED BY <1>3, <2>1, <2>2 DEF stop, CountInv, ActiveCountExact, HandInv, Cur
<1>4. CASE callRoot
  <2>1. TypeInv'
    BY <1>1, <1>4 DEF callRoot, TypeInv, GoTo, Location
  <2>2. MainInv'
    BY <1>1, <1>4 DEF callRoot, TypeInv, MainInv, GoTo
  <2>3. Active' = Active
    BY <1>1, <1>4 DEF callRoot, TypeInv, MainInv, GoTo, Active, OnStack
  <2>4. HandInv'
    BY <1>1, <1>4 DEF callRoot, TypeInv, HandInv, GoTo, Cur, InHand, OnStack
  <2> QED BY <1>4, <2>1, <2>2, <2>3, <2>4 DEF callRoot, CountInv, ActiveCountExact, Active
<1>5. CASE rootReturns
  <2>1. TypeInv'
    BY <1>1, <1>5 DEF rootReturns, TypeInv
  <2>2. MainInv'
    BY <1>1, <1>5 DEF rootReturns, TypeInv, MainInv
  <2> QED BY <1>5, <2>1, <2>2 DEF rootReturns, CountInv, ActiveCountExact, HandInv, Cur
<1>6. CASE join
  <2>1. TypeInv'
    BY <1>1, <1>6 DEF join, TypeInv, Location
  <2>2. MainInv'
    BY <1>1, <1>6 DEF join, TypeInv, MainInv, Threads
  <2>3. Active' = Active
    BY <1>1, <1>6 DEF join, TypeInv, Active, OnStack
  <2>4. HandInv'
    BY <1>1, <1>6 DEF join, TypeInv, HandInv, Cur, InHand, OnStack
  <2> QED BY <1>6, <2>1, <2>2, <2>3, <2>4 DEF join, CountInv, ActiveCountExact, Active
<1> QED BY <1>2, <1>3, <1>4, <1>5, <1>6 DEF Main

\* A worker that is on its way through run() keeps what start and callRoot
\* rely on, wherever it goes.
LEMMA WorkerMain ==
    ASSUME TypeInv, MainInv, NEW w \in Worker, NEW l, pc[w] # "off", GoTo(w, l),
           UNCHANGED <<main, rootState>>
    PROVE  MainInv'
BY DEF TypeInv, MainInv, GoTo, Threads

\* What moves a worker, and the list, and nothing that is counted.
LEMMA TypeSteps ==
    ASSUME TypeInv, HandInv, NEW w \in Worker, Loop(w) \/ Choose(w)
    PROVE  TypeInv'
<1> USE DEF flags, locals, calls, mains, app
<1>1. /\ pc \in [Worker -> Location]
      /\ ft[w] \in Entry /\ NoTask \in Entry
      /\ m_fibers \in Seq(Entry)
      /\ \A f \in Fiber \cup {Null}, t \in Worker \cup {AnyThread} :
            [fiber |-> f, thread |-> t] \in Entry
  BY DEF TypeInv, Entry, NoTask
<1>2. Cur(w) \in Fiber \cup {Null}
  BY DEF TypeInv, Cur, Entry
<1>3. ASSUME NEW t \in Worker \cup {AnyThread}, scheduleNoLock(Cur(w), t)
      PROVE  m_fibers' \in Seq(Entry)
  BY <1>1, <1>2, <1>3, Appended DEF scheduleNoLock
<1>4. ASSUME NEW l \in Location, GoTo(w, l)
      PROVE  /\ pc' \in [Worker -> Location]
             /\ m_activeThreadCount \in Int
  BY <1>1, <1>4 DEF GoTo, TypeInv
<1>5. CASE pop(w)
  <2>1. PICK i \in DOMAIN m_fibers :
            /\ ft' = [ft EXCEPT ![w] = m_fibers[i]]
            /\ m_fibers' = SubSeq(m_fibers, 1, i - 1)
                           \o SubSeq(m_fibers, i + 1, Len(m_fibers))
    BY <1>5 DEF pop
  <2>2. m_fibers' \in Seq(Entry) /\ m_fibers[i] \in Entry
    BY <1>1, <2>1, Taken, LenProperties, ElementOfSeq
  <2>3. pc' \in [Worker -> Location] /\ ft' \in [Worker -> Entry]
    BY <1>1, <1>5, <2>1, <2>2 DEF pop, TypeInv, GoTo, Location
  <2>4. m_activeThreadCount' \in Int
    BY <1>5 DEF pop, TypeInv
  <2> QED BY <1>5, <2>2, <2>3, <2>4 DEF pop, TypeInv
<1>6. CASE popNothing(w)
  <2>1. pc' \in [Worker -> Location]
    BY <1>4, <1>6 DEF popNothing, Location
  <2> QED BY <1>1, <1>6, <2>1 DEF popNothing, TypeInv
<1>7. CASE idle(w)
  <2>1. pc' \in [Worker -> Location]
    BY <1>4, <1>7 DEF idle, Location
  <2> QED BY <1>1, <1>7, <2>1 DEF idle, TypeInv, stopping
<1>8. CASE dropEnded(w)
  <2>1. pc' \in [Worker -> Location]
    BY <1>4, <1>8 DEF dropEnded, Location
  <2>2. ft' \in [Worker -> Entry] /\ m_activeThreadCount' \in Int
    BY <1>1, <1>8 DEF dropEnded, TypeInv
  <2> QED BY <1>8, <2>1, <2>2 DEF dropEnded, TypeInv
<1>9. CASE takeFiber(w)
  <2>1. pc' \in [Worker -> Location]
    BY <1>4, <1>9 DEF takeFiber, Location
  <2> QED BY <1>1, <1>9, <2>1 DEF takeFiber, TypeInv
<1>10. CASE swap(w)
  <2>1. pc' \in [Worker -> Location]
    BY <1>4, <1>10 DEF swap, Location
  <2> QED BY <1>1, <1>10, <2>1 DEF swap, TypeInv, swapIn, State
<1>11. CASE takeCallback(w)
  <2>1. pc' \in [Worker -> Location]
    BY <1>4, <1>11 DEF takeCallback, Location
  <2>2. m_state' \in [Fiber -> State \cup {"none"}]
    BY <1>11 DEF takeCallback, TypeInv, reset, Construct, State
  <2>3. ft' \in [Worker -> Entry] /\ cbFiber' \in [Worker -> Fiber \cup {Null}]
    BY <1>1, <1>11 DEF takeCallback, TypeInv
  <2> QED BY <1>11, <2>1, <2>2, <2>3 DEF takeCallback, TypeInv
<1>12. CASE hold(w)
  <2>1. pc' \in [Worker -> Location]
    BY <1>4, <1>12 DEF hold, Location
  <2> QED BY <1>1, <1>12, <2>1 DEF hold, TypeInv, YieldToHold
<1>13. CASE swapOut(w)
  <2>1. pc' \in [Worker -> Location]
    BY <1>4, <1>13 DEF swapOut, Location
  <2> QED BY <1>1, <1>13, <2>1 DEF swapOut, TypeInv
<1>14. CASE yield(w)
  <2>1. pc' \in [Worker -> Location]
    BY <1>4, <1>14 DEF yield, Location
  <2> QED BY <1>1, <1>14, <2>1 DEF yield, TypeInv, YieldToReady, State
<1>15. CASE decrement(w)
  <2>1. pc' \in [Worker -> Location]
    BY <1>4, <1>15 DEF decrement, Location
  <2> QED BY <1>1, <1>15, <2>1 DEF decrement, TypeInv
<1>16. CASE afterEnded(w)
  <2>1. pc' \in [Worker -> Location]
    BY <1>4, <1>16 DEF afterEnded, Location
  <2> QED BY <1>1, <1>16, <2>1 DEF afterEnded, TypeInv, reset, State
<1>17. CASE afterYield(w)
  <2>1. pc' \in [Worker -> Location]
    BY <1>4, <1>17 DEF afterYield, Location
  <2> QED BY <1>1, <1>17, <2>1 DEF afterYield, TypeInv
<1>18. CASE requeue(w)
  <2>1. m_fibers' \in Seq(Entry)
    BY <1>3, <1>18 DEF requeue
  <2>2. pc' \in [Worker -> Location]
    BY <1>1, <1>18 DEF requeue, LetGo, GoTo, Location
  <2> QED BY <1>1, <1>18, <2>1, <2>2 DEF requeue, LetGo, TypeInv
<1>19. CASE setHold(w)
  <2>1. pc' \in [Worker -> Location]
    BY <1>1, <1>19 DEF setHold, LetGo, GoTo, Location
  <2> QED BY <1>1, <1>19, <2>1 DEF setHold, LetGo, TypeInv, State
<1>20. CASE \E t \in Pin : switchTo(w, t)
  <2>1. m_fibers' \in Seq(Entry)
    BY <1>3, <1>20 DEF switchTo
  <2>2. pc' \in [Worker -> Location]
    BY <1>4, <1>20 DEF switchTo, Location
  <2> QED BY <1>1, <1>20, <2>1, <2>2 DEF switchTo, TypeInv
<1>21. CASE arm(w)
  <2>1. Cur(w) \in Fiber
    BY <1>21 DEF arm, HandInv, InHand, OnStack
  <2>2. pc' \in [Worker -> Location]
    BY <1>4, <1>21 DEF arm, Location
  <2> QED BY <1>1, <1>21, <2>1, <2>2 DEF arm, TypeInv
<1>22. CASE finish(w)
  <2>1. pc' \in [Worker -> Location]
    BY <1>4, <1>22 DEF finish, Location
  <2> QED BY <1>1, <1>22, <2>1 DEF finish, MainFunc, TypeInv, State, Ended
<1> QED BY <1>5, <1>6, <1>7, <1>8, <1>9, <1>10, <1>11, <1>12, <1>13,
           <1>14, <1>15, <1>16, <1>17, <1>18, <1>19, <1>20, <1>21, <1>22
           DEF Loop, Choose

\* A step that leaves the locals of every other worker alone.
LEMMA HandSteps ==
    ASSUME TypeInv, HandInv, NEW w \in Worker,
           \A v \in Worker \ {w} : /\ pc'[v] = pc[v] /\ ft'[v] = ft[v]
                                   /\ cbFiber'[v] = cbFiber[v],
           pc'[w] \in InHand \ {"check"} => Cur(w)' \in Fiber
    PROVE  HandInv'
<1> SUFFICES ASSUME NEW v \in Worker, pc'[v] \in InHand \ {"check"}
             PROVE  Cur(v)' \in Fiber
  BY DEF HandInv
<1>1. CASE v = w
  BY <1>1
<1>2. CASE v # w
  BY <1>2 DEF HandInv, Cur
<1> QED BY <1>1, <1>2

LEMMA WorkerCount ==
    ASSUME CountInv, NEW w \in Worker, Loop(w) \/ Choose(w)
    PROVE  CountInv'
<1> USE DEF mains
<1>1. TypeInv /\ MainInv /\ HandInv /\ m_activeThreadCount = Cardinality(Active)
      /\ m_activeThreadCount \in Int
  BY DEF CountInv, ActiveCountExact, Active, TypeInv
<1>2. TypeInv'
  BY <1>1, TypeSteps
<1>3. \A v \in Worker : v \in Active <=> pc[v] \in OnStack \cup {"check", "swap"}
  BY DEF Active
<1>4. \A v \in Worker : (v \in Active)' <=> pc'[v] \in OnStack \cup {"check", "swap"}
  BY DEF Active
<1>5. ASSUME NEW l, GoTo(w, l)
      PROVE  /\ pc'[w] = l
             /\ \A v \in Worker \ {w} : pc'[v] = pc[v]
             /\ w \notin Active /\ w \in Active' =>
                  Cardinality(Active') = Cardinality(Active) + 1
             /\ w \in Active /\ w \notin Active' =>
                  Cardinality(Active') = Cardinality(Active) - 1
             /\ (w \in Active <=> w \in Active') =>
                  Cardinality(Active') = Cardinality(Active)
  <2>1. pc'[w] = l /\ \A v \in Worker \ {w} : pc'[v] = pc[v]
    BY <1>1, <1>5 DEF GoTo, TypeInv
  <2> QED BY <2>1, <1>1, <1>5, ActiveMoves
<1>6. ASSUME NEW l, GoTo(w, l), pc[w] # "off", UNCHANGED <<main, rootState>>,
             \A v \in Worker \ {w} : ft'[v] = ft[v] /\ cbFiber'[v] = cbFiber[v],
             l \in InHand \ {"check"} => Cur(w)' \in Fiber,
             m_activeThreadCount' = Cardinality(Active')
      PROVE  CountInv'
  <2>1. MainInv'
    BY <1>1, <1>6, WorkerMain
  <2>2. HandInv'
    BY <1>1, <1>5, <1>6, HandSteps
  <2> QED BY <1>2, <1>6, <2>1, <2>2 DEF CountInv, ActiveCountExact, Active
<1>7. UNCHANGED <<ft, cbFiber>> => Cur(w)' = Cur(w)
  BY DEF Cur
<1>8. pc[w] \in InHand \ {"check"} => Cur(w) \in Fiber
  BY <1>1 DEF HandInv
<1>9. ASSUME UNCHANGED <<ft, cbFiber, mains>>, NEW l, GoTo(w, l), pc[w] # "off",
             l \in InHand \ {"check"} => Cur(w) \in Fiber,
             m_activeThreadCount' = Cardinality(Active')
      PROVE  CountInv'
  BY <1>6, <1>7, <1>9
<1>10. /\ ft \in [Worker -> Entry] /\ cbFiber \in [Worker -> Fiber \cup {Null}]
       /\ ft[w].fiber \in Fiber \cup {Null}
  BY <1>1 DEF TypeInv, Entry
<1>11. CASE pop(w)
  <2>1. m_activeThreadCount' = Cardinality(Active')
    BY <1>1, <1>3, <1>4, <1>5, <1>11 DEF pop, OnStack
  <2>2. \A v \in Worker \ {w} : ft'[v] = ft[v] /\ cbFiber'[v] = cbFiber[v]
    BY <1>10, <1>11 DEF pop
  <2> QED BY <1>6, <1>11, <2>1, <2>2 DEF pop
<1>12. CASE popNothing(w)
  <2>1. PICK l \in {"done", "idle"} : GoTo(w, l)
    BY <1>12 DEF popNothing
  <2>2. m_activeThreadCount' = Cardinality(Active')
    BY <1>1, <1>3, <1>4, <1>5, <1>12, <2>1 DEF popNothing, OnStack
  <2>3. \A v \in Worker \ {w} : ft'[v] = ft[v] /\ cbFiber'[v] = cbFiber[v]
    BY <1>10, <1>12 DEF popNothing
  <2> QED BY <1>6, <1>12, <2>1, <2>2, <2>3 DEF popNothing, InHand, OnStack
<1>13. CASE idle(w)
  <2>1. m_activeThreadCount' = Cardinality(Active')
    BY <1>1, <1>3, <1>4, <1>5, <1>13 DEF idle, OnStack
  <2> QED BY <1>9, <1>13, <2>1 DEF idle, InHand, OnStack
<1>14. CASE dropEnded(w)
  <2>1. m_activeThreadCount' = Cardinality(Active')
    BY <1>1, <1>3, <1>4, <1>5, <1>14 DEF dropEnded, OnStack
  <2>2. \A v \in Worker \ {w} : ft'[v] = ft[v] /\ cbFiber'[v] = cbFiber[v]
    BY <1>10, <1>14 DEF dropEnded
  <2> QED BY <1>6, <1>14, <2>1, <2>2 DEF dropEnded, InHand, OnStack
<1>15. CASE takeFiber(w)
  <2>1. m_activeThreadCount' = Cardinality(Active')
    BY <1>1, <1>3, <1>4, <1>5, <1>15 DEF takeFiber, OnStack
  <2>2. Cur(w) \in Fiber
    BY <1>10, <1>15 DEF takeFiber, Cur
  <2> QED BY <1>9, <1>15, <2>1, <2>2 DEF takeFiber
<1>16. CASE takeCallback(w)
  <2>1. m_activeThreadCount' = Cardinality(Active')
    BY <1>1, <1>3, <1>4, <1>5, <1>16 DEF takeCallback, OnStack
  <2>2. \A v \in Worker \ {w} : ft'[v] = ft[v] /\ cbFiber'[v] = cbFiber[v]
    BY <1>10, <1>16 DEF takeCallback
  <2>3. ft'[w].fiber = Null /\ cbFiber'[w] \in Fiber
    BY <1>10, <1>16 DEF takeCallback, NoTask
  <2> QED BY <1>6, <1>16, <2>1, <2>2, <2>3 DEF takeCallback, Cur
<1>17. CASE swap(w)
  <2>1. m_activeThreadCount' = Cardinality(Active')
    BY <1>1, <1>3, <1>4, <1>5, <1>17 DEF swap, OnStack
  <2> QED BY <1>8, <1>9, <1>17, <2>1 DEF swap, InHand
<1>18. CASE hold(w) \/ swapOut(w)
  <2>1. m_activeThreadCount' = Cardinality(Active')
    BY <1>1, <1>3, <1>4, <1>5, <1>18 DEF hold, swapOut, OnStack
  <2> QED BY <1>8, <1>9, <1>18, <2>1 DEF hold, swapOut, InHand, OnStack
<1>19. CASE decrement(w)
  <2>1. m_activeThreadCount' = Cardinality(Active')
    BY <1>1, <1>3, <1>4, <1>5, <1>19 DEF decrement, OnStack
  <2> QED BY <1>8, <1>9, <1>19, <2>1 DEF decrement, InHand, OnStack
<1>20. CASE afterEnded(w)
  <2>1. m_activeThreadCount' = Cardinality(Active')
    BY <1>1, <1>3, <1>4, <1>5, <1>20 DEF afterEnded, OnStack
  <2>2. \A v \in Worker \ {w} : ft'[v] = ft[v] /\ cbFiber'[v] = cbFiber[v]
    BY <1>10, <1>20 DEF afterEnded
  <2> QED BY <1>6, <1>20, <2>1, <2>2 DEF afterEnded, InHand, OnStack
<1>21. CASE afterYield(w)
  <2>1. PICK l \in {"requeue", "hold"} : GoTo(w, l)
    BY <1>21 DEF afterYield
  <2>2. m_activeThreadCount' = Cardinality(Active')
    BY <1>1, <1>3, <1>4, <1>5, <1>21, <2>1 DEF afterYield, OnStack
  <2> QED BY <1>8, <1>9, <1>21, <2>1, <2>2 DEF afterYield, InHand
<1>22. CASE requeue(w) \/ setHold(w)
  <2>1. pc[w] \in {"requeue", "hold"} /\ LetGo(w)
    BY <1>22 DEF requeue, setHold
  <2>2. m_activeThreadCount' = Cardinality(Active')
    BY <1>1, <1>3, <1>4, <1>5, <2>1 DEF LetGo, OnStack
  <2>3. \A v \in Worker \ {w} : ft'[v] = ft[v] /\ cbFiber'[v] = cbFiber[v]
    BY <1>10, <2>1 DEF LetGo
  <2> QED BY <1>6, <2>1, <2>2, <2>3 DEF LetGo, InHand, OnStack
<1>23. CASE \E t \in Pin : switchTo(w, t)
  <2>1. m_activeThreadCount' = Cardinality(Active')
    BY <1>1, <1>3, <1>4, <1>5, <1>23 DEF switchTo, OnStack
  <2> QED BY <1>8, <1>9, <1>23, <2>1 DEF switchTo, InHand, OnStack
<1>24. CASE arm(w)
  <2>1. m_activeThreadCount' = Cardinality(Active')
    BY <1>1, <1>3, <1>4, <1>5, <1>24 DEF arm, OnStack
  <2> QED BY <1>8, <1>9, <1>24, <2>1 DEF arm, InHand, OnStack
<1>25. CASE yield(w) \/ finish(w)
  <2>1. PICK l \in {"ready", "back"} : GoTo(w, l)
    BY <1>25 DEF yield, finish
  <2>2. m_activeThreadCount' = Cardinality(Active')
    BY <1>1, <1>3, <1>4, <1>5, <1>25, <2>1 DEF yield, finish, OnStack
  <2> QED BY <1>8, <1>9, <1>25, <2>1, <2>2 DEF yield, finish, InHand, OnStack
<1> QED BY <1>11, <1>12, <1>13, <1>14, <1>15, <1>16, <1>17, <1>18, <1>19, <1>20,
           <1>21, <1>22, <1>23, <1>24, <1>25 DEF Loop, Choose

LEMMA ApplicationCount ==
    ASSUME CountInv, Application
    PROVE  CountInv'
<1> USE DEF mains, locals, flags, calls
<1>1. TypeInv /\ MainInv /\ HandInv
  BY DEF CountInv
<1>2. UNCHANGED <<m_activeThreadCount, mains, locals>>
  BY DEF Application, Submit, Wake
<1>3. \A f \in Fiber \cup {Null}, t \in Pin : [fiber |-> f, thread |-> t] \in Entry
  BY DEF Entry
<1>4. m_fibers' \in Seq(Entry)
  <2>1. PICK f \in Fiber \cup {Null}, t \in Pin : scheduleNoLock(f, t)
    BY DEF Application, Submit, Wake
  <2>2. m_fibers \in Seq(Entry)
    BY <1>1 DEF TypeInv
  <2> QED BY <1>3, <2>1, <2>2, Appended DEF scheduleNoLock
<1>5. TypeInv'
  <2>1. m_state' \in [Fiber -> State \cup {"none"}]
    BY <1>1 DEF Application, Submit, Wake, Construct, TypeInv, State
  <2>2. armed' \in SUBSET Fiber /\ submitted' \in 0 .. MaxSubmit
    BY <1>1 DEF Application, Submit, Wake, TypeInv
  <2> QED BY <1>1, <1>2, <1>4, <2>1, <2>2 DEF TypeInv
<1> QED BY <1>1, <1>2, <1>5 DEF CountInv, MainInv, HandInv, Cur, ActiveCountExact

LEMMA NextCount == CountInv /\ [Next]_vars => CountInv'
<1> SUFFICES ASSUME CountInv, [Next]_vars PROVE CountInv'
  OBVIOUS
<1>1. CASE Main
  BY <1>1, MainCount
<1>2. CASE \E w \in Worker : Loop(w) \/ Choose(w)
  BY <1>2, WorkerCount
<1>3. CASE Application
  BY <1>3, ApplicationCount
<1>4. CASE UNCHANGED vars
  BY <1>4 DEF vars, mains, flags, calls, locals, app, CountInv, TypeInv, MainInv,
     HandInv, Cur, ActiveCountExact
<1> QED BY <1>1, <1>2, <1>3, <1>4 DEF Next, Terminated

\* Whatever the application does: m_activeThreadCount is the number of workers
\* that stopping() has to wait for, through every early `continue' of run() and
\* every way a fiber comes back to it.
THEOREM ActiveIsCounted == Spec => []ActiveCountExact
<1>1. CountInv => ActiveCountExact
  BY DEF CountInv
<1> QED BY <1>1, InitCount, NextCount, PTL DEF Spec

\* Every variable of the scheduler keeps its type; m_activeThreadCount, an
\* unsigned number that run() and idle() take down by turns, stays between zero
\* and the number of workers.
THEOREM TypeCorrect == Spec => []TypeOK
<1>1. ASSUME CountInv PROVE TypeOK
  <2>1. Active \subseteq Worker
    BY DEF Active
  <2>2. /\ Cardinality(Active) \in Nat
        /\ Cardinality(Active) <= Cardinality(Worker)
    BY <2>1, WorkerAssumption, FS_Subset, FS_CardinalityType
  <2>3. Cardinality(Worker) \in Nat
    BY WorkerAssumption, FS_CardinalityType
  <2>4. m_activeThreadCount = Cardinality(Active)
    BY <1>1 DEF CountInv, ActiveCountExact, Active
  <2>5. m_activeThreadCount \in 0 .. Cardinality(Worker)
    BY <2>2, <2>3, <2>4
  <2> QED BY <1>1, <2>5 DEF CountInv, TypeInv, TypeOK
<1> QED BY <1>1, InitCount, NextCount, PTL DEF Spec
-----------------------------------------------------------------------------
\* Who is due after a schedule, and after an entry is taken off the list.
LEMMA Scheduled ==
    ASSUME TypeInv, NEW f \in Fiber \cup {Null}, NEW t \in Worker \cup {AnyThread},
           scheduleNoLock(f, t)
    PROVE  /\ \A g : Queued(g)' <=> Queued(g) \/ g = f
           /\ ListInv /\ (f = Null \/ ~Queued(f)) => ListInv'
<1> DEFINE e == [fiber |-> f, thread |-> t]
<1>1. e \in Entry /\ e.fiber = f /\ m_fibers \in Seq(Entry)
  BY DEF TypeInv, Entry
<1>2. m_fibers' = Append(m_fibers, e)
  BY DEF scheduleNoLock
<1> HIDE DEF e
<1>3. /\ Len(m_fibers) \in Nat
      /\ DOMAIN m_fibers = 1 .. Len(m_fibers)
      /\ DOMAIN m_fibers' = 1 .. Len(m_fibers) + 1
      /\ \A i \in 1 .. Len(m_fibers) : m_fibers'[i] = m_fibers[i]
      /\ m_fibers'[Len(m_fibers) + 1] = e
  BY <1>1, <1>2, Appended
<1>4. \A g : Queued(g)' <=> Queued(g) \/ g = f
  BY <1>1, <1>3 DEF Queued
<1>5. ListInv /\ (f = Null \/ ~Queued(f)) => ListInv'
  BY <1>1, <1>3 DEF ListInv, Queued
<1> QED BY <1>4, <1>5

\* Closing the gap that position i leaves keeps positions apart.
LEMMA GapClosed ==
    ASSUME NEW i \in Nat, NEW j \in Nat, NEW k \in Nat,
           (IF j < i THEN j ELSE j + 1) = IF k < i THEN k ELSE k + 1
    PROVE  j = k
OBVIOUS

LEMMA Unscheduled ==
    ASSUME TypeInv, ListInv, NEW i \in DOMAIN m_fibers,
           m_fibers' = SubSeq(m_fibers, 1, i - 1)
                       \o SubSeq(m_fibers, i + 1, Len(m_fibers))
    PROVE  /\ \A g \in Fiber : Queued(g)' <=> Queued(g) /\ g # m_fibers[i].fiber
           /\ ListInv'
<1>1. m_fibers \in Seq(Entry)
  BY DEF TypeInv
<1>2. /\ Len(m_fibers) \in Nat
      /\ DOMAIN m_fibers = 1 .. Len(m_fibers)
      /\ i \in 1 .. Len(m_fibers)
      /\ DOMAIN m_fibers' = 1 .. Len(m_fibers) - 1
      /\ \A j \in 1 .. Len(m_fibers) - 1 :
            m_fibers'[j] = IF j < i THEN m_fibers[j] ELSE m_fibers[j + 1]
  BY <1>1, Taken
<1>3. ASSUME NEW g \in Fiber
      PROVE  Queued(g)' <=> Queued(g) /\ g # m_fibers[i].fiber
  <2>1. ASSUME NEW j \in DOMAIN m_fibers', m_fibers'[j].fiber = g
        PROVE  Queued(g) /\ g # m_fibers[i].fiber
    <3>1. CASE j < i
      <4>1. j \in DOMAIN m_fibers /\ j # i /\ m_fibers'[j] = m_fibers[j]
        BY <1>2, <3>1
      <4> QED BY <2>1, <4>1 DEF ListInv, Queued
    <3>2. CASE ~(j < i)
      <4>1. j \in 1 .. Len(m_fibers) - 1
        BY <1>2, <2>1
      <4>2. j + 1 \in 1 .. Len(m_fibers) /\ j + 1 # i
        BY <1>2, <3>2, <4>1
      <4>3. j + 1 \in DOMAIN m_fibers /\ m_fibers'[j] = m_fibers[j + 1]
        BY <1>2, <3>2, <4>1, <4>2
      <4> QED BY <2>1, <4>2, <4>3 DEF ListInv, Queued
    <3> QED BY <3>1, <3>2
  <2>2. ASSUME NEW k \in DOMAIN m_fibers, m_fibers[k].fiber = g, k # i
        PROVE  \E j \in DOMAIN m_fibers' : m_fibers'[j].fiber = g
    <3>1. CASE k < i
      <4>1. k \in 1 .. Len(m_fibers) - 1 /\ k < i
        BY <1>2, <2>2, <3>1
      <4> QED BY <1>2, <2>2, <4>1
    <3>2. CASE ~(k < i)
      <4>1. k - 1 \in 1 .. Len(m_fibers) - 1 /\ ~(k - 1 < i) /\ (k - 1) + 1 = k
        BY <1>2, <2>2, <3>2
      <4>2. m_fibers'[k - 1] = m_fibers[k] /\ k - 1 \in DOMAIN m_fibers'
        BY <1>2, <4>1
      <4> QED BY <2>2, <4>2
    <3> QED BY <3>1, <3>2
  <2> QED BY <2>1, <2>2 DEF Queued
<1>4. Len(m_fibers) \in Nat /\ i \in 1 .. Len(m_fibers)
  BY <1>2
<1>5. ASSUME NEW j \in 1 .. Len(m_fibers) - 1, NEW k \in 1 .. Len(m_fibers) - 1,
             m_fibers'[j].fiber \in Fiber, m_fibers'[j].fiber = m_fibers'[k].fiber
      PROVE  j = k
  <2>1. ASSUME NEW n \in 1 .. Len(m_fibers) - 1
        PROVE  \E m \in DOMAIN m_fibers : /\ m_fibers'[n] = m_fibers[m]
                                          /\ m = IF n < i THEN n ELSE n + 1
    <3>1. CASE n < i
      <4>1. n \in DOMAIN m_fibers /\ m_fibers'[n] = m_fibers[n]
        BY <1>2, <3>1
      <4> QED BY <3>1, <4>1
    <3>2. CASE ~(n < i)
      <4>1. n + 1 \in 1 .. Len(m_fibers)
        BY <1>4
      <4>2. n + 1 \in DOMAIN m_fibers /\ m_fibers'[n] = m_fibers[n + 1]
        BY <1>2, <3>2, <4>1
      <4> QED BY <3>2, <4>2
    <3> QED BY <3>1, <3>2
  <2>2. PICK a \in DOMAIN m_fibers : m_fibers'[j] = m_fibers[a]
                                    /\ a = IF j < i THEN j ELSE j + 1
    BY <2>1
  <2>3. PICK b \in DOMAIN m_fibers : m_fibers'[k] = m_fibers[b]
                                    /\ b = IF k < i THEN k ELSE k + 1
    BY <2>1
  <2>4. m_fibers[a].fiber \in Fiber /\ m_fibers[a].fiber = m_fibers[b].fiber
    BY <1>5, <2>2, <2>3
  <2>5. a = b
    BY <2>4 DEF ListInv
  <2>6. i \in Nat /\ j \in Nat /\ k \in Nat
    BY <1>4
  <2> QED BY <2>2, <2>3, <2>5, <2>6, GapClosed
<1>6. ListInv'
  <2>1. DOMAIN m_fibers' = 1 .. Len(m_fibers) - 1
    BY <1>2
  <2> QED BY <2>1, <1>5 DEF ListInv
<1> QED BY <1>3, <1>6

\* What the state of a fiber says of who owns it.
LEMMA Unowned ==
    ASSUME CountInv, FiberInv, NEW f \in Fiber
    PROVE  /\ Due(f) /\ m_state[f] # "EXEC" =>
                 m_state[f] \in Resting /\ \A w \in Worker : ~Owns(w, f)
           /\ ~Built(f) => ~Due(f) /\ \A w \in Worker : ~Owns(w, f)
<1>1. Due(f) => m_state[f] \in Resting \cup {"EXEC"}
  BY DEF FiberInv, DueInv
<1>2. ASSUME NEW w \in Worker, Owns(w, f)
      PROVE  Built(f) /\ (Due(f) => m_state[f] = "EXEC")
  <2>1. WorkerInv(w) /\ f # Null /\ pc[w] \in Location
    BY DEF FiberInv, CountInv, TypeInv
  <2>2. CASE Kept(w) /\ f = cbFiber[w]
    BY <2>1, <2>2 DEF WorkerInv, Built
  <2>3. CASE ~(Kept(w) /\ f = cbFiber[w])
    <3>1. Cur(w) = f
      BY <1>2, <2>1, <2>3 DEF Owns, Kept, Cur
    <3>2. pc[w] \notin {"off", "pop", "idle", "done"}
      BY <1>2, <2>1, <2>3 DEF Owns, Kept, WorkerInv
    <3>3. pc[w] = "check" => ft[w].fiber # Null
      BY <1>2, <2>1, <2>3 DEF Owns, Kept
    <3>4. Knows(pc[w], m_state[f], Due(f))
      BY <2>1, <3>1, <3>3 DEF WorkerInv
    <3> QED BY <2>1, <3>2, <3>4 DEF Knows, Location, Built, Resting, Ended
  <2> QED BY <2>2, <2>3
<1> QED BY <1>1, <1>2 DEF Built, Resting

\* A worker that does not move, and whose fibers nobody touches.
LEMMA Untouched ==
    ASSUME NEW v \in Worker, WorkerInv(v), TypeInv,
           pc'[v] = pc[v], ft'[v] = ft[v], cbFiber'[v] = cbFiber[v],
           pc[v] \in InHand \ {"check"} => Cur(v) \in Fiber,
           \A f \in Fiber : Owns(v, f) =>
               m_state'[f] = m_state[f] /\ (Due(f)' <=> Due(f))
    PROVE  WorkerInv(v)'
<1>1. Cur(v)' = Cur(v) /\ (Kept(v)' <=> Kept(v))
  BY DEF Cur, Kept
<1>2. ft[v].fiber \in Fiber \cup {Null} /\ cbFiber[v] \in Fiber \cup {Null}
      /\ pc[v] \in Location
  BY DEF TypeInv, Entry
<1>3. Kept(v) => (m_state[cbFiber[v]] = "INIT" /\ ~Due(cbFiber[v]))'
  BY <1>2 DEF WorkerInv, Kept, Owns
<1>4. ASSUME pc[v] = "check" => ft[v].fiber # Null
      PROVE  Knows(pc[v], m_state[Cur(v)], Due(Cur(v)))'
  <2>1. CASE Cur(v) \in Fiber
    <3>1. Owns(v, Cur(v))
      BY DEF Cur, Owns
    <3>2. m_state'[Cur(v)] = m_state[Cur(v)] /\ (Due(Cur(v))' <=> Due(Cur(v)))
      BY <1>1, <2>1, <3>1
    <3>3. Knows(pc[v], m_state[Cur(v)], Due(Cur(v)))
      BY <1>4 DEF WorkerInv
    <3> QED BY <1>1, <3>2, <3>3 DEF Knows
  <2>2. CASE Cur(v) \notin Fiber
    <3>1. pc[v] \in {"off", "pop", "idle", "done"}
      BY <1>2, <1>4, <2>2 DEF Location, InHand, OnStack, Cur
    <3> QED BY <3>1 DEF Knows
  <2> QED BY <2>1, <2>2
<1> QED BY <1>1, <1>3, <1>4 DEF WorkerInv

\* A step that touches at most one fiber, F, which no worker but w owns.
LEMMA FiberStep ==
    ASSUME CountInv, FiberInv, NEW w \in Worker, NEW F,
           \A v \in Worker \ {w} : /\ pc'[v] = pc[v] /\ ft'[v] = ft[v]
                                   /\ cbFiber'[v] = cbFiber[v],
           F \in Fiber => \A v \in Worker \ {w} : ~Owns(v, F),
           \A g \in Fiber \ {F} : m_state'[g] = m_state[g] /\ (Due(g)' <=> Due(g)),
           \A g \in Fiber : Owns(w, g)' => Owns(w, g) \/ g = F,
           ListInv', ArmedInv',
           F \in Fiber /\ Due(F)' => m_state'[F] \in Resting \cup {"EXEC"},
           ft'[w].fiber # Null => ft'[w].fiber # cbFiber'[w],
           WorkerInv(w)'
    PROVE  FiberInv'
<1>1. DueInv'
  BY DEF FiberInv, DueInv
<1>2. DistinctInv'
  <2>1. \A v \in Worker \ {w} : \A g \in Fiber : Owns(v, g)' <=> Owns(v, g)
    BY DEF Owns
  <2>2. ASSUME NEW u \in Worker, NEW v \in Worker, NEW f \in Fiber,
               Owns(u, f)', Owns(v, f)'
        PROVE  u = v
    BY <2>1, <2>2 DEF FiberInv, DistinctInv
  <2>3. \A v \in Worker : ft'[v].fiber # Null => ft'[v].fiber # cbFiber'[v]
    BY DEF FiberInv, DistinctInv
  <2> QED BY <2>2, <2>3 DEF DistinctInv
<1>3. ASSUME NEW v \in Worker \ {w}
      PROVE  WorkerInv(v)'
  <2>1. WorkerInv(v) /\ TypeInv /\ (pc[v] \in InHand \ {"check"} => Cur(v) \in Fiber)
    BY DEF FiberInv, CountInv, HandInv
  <2>2. ASSUME NEW f \in Fiber, Owns(v, f)
        PROVE  m_state'[f] = m_state[f] /\ (Due(f)' <=> Due(f))
    BY <2>2
  <2> QED BY <2>1, <2>2, Untouched
<1> QED BY <1>1, <1>2, <1>3 DEF FiberInv

\* A worker that goes on with the fiber it has in hand.
LEMMA HandStep ==
    ASSUME CountInv, FiberInv, NEW w \in Worker, NEW l, GoTo(w, l),
           UNCHANGED <<ft, cbFiber>>,
           pc[w] \in InHand, pc[w] = "check" => ft[w].fiber # Null,
           l \in InHand \ {"check"},
           Cur(w) \in Fiber,
           \A g \in Fiber \ {Cur(w)} :
               m_state'[g] = m_state[g] /\ (Due(g)' <=> Due(g)),
           Knows(l, m_state'[Cur(w)], Due(Cur(w))'),
           ListInv', ArmedInv'
    PROVE  FiberInv'
<1> PICK F \in Fiber : F = Cur(w)
  OBVIOUS
<1>1. pc'[w] = l /\ \A v \in Worker \ {w} : pc'[v] = pc[v]
  BY DEF GoTo, CountInv, TypeInv
<1>2. Owns(w, F) /\ Cur(w)' = F
  BY DEF Cur, Owns
<1>3. \A v \in Worker \ {w} : ~Owns(v, F)
  BY <1>2 DEF FiberInv, DistinctInv
<1>4. Due(F)' => m_state'[F] \in Resting \cup {"EXEC"}
  BY <1>2 DEF Knows, InHand, OnStack, Resting
<1>5. Kept(w)' => Kept(w) /\ cbFiber[w] # F /\ cbFiber[w] \in Fiber
  BY <1>1 DEF Kept, InHand, OnStack, Cur, FiberInv, DistinctInv, CountInv, TypeInv
<1>6. WorkerInv(w)'
  <2>1. Kept(w)' => (m_state[cbFiber[w]] = "INIT" /\ ~Due(cbFiber[w]))'
    BY <1>5 DEF FiberInv, WorkerInv
  <2> QED BY <1>1, <1>2, <2>1 DEF WorkerInv, InHand, OnStack
<1>7. \A g \in Fiber : Owns(w, g)' => Owns(w, g)
  BY DEF Owns
<1>8. ft'[w].fiber # Null => ft'[w].fiber # cbFiber'[w]
  BY DEF FiberInv, DistinctInv
<1>9. \A g \in Fiber \ {F} : m_state'[g] = m_state[g] /\ (Due(g)' <=> Due(g))
  OBVIOUS
<1> QED BY <1>1, <1>3, <1>4, <1>6, <1>7, <1>8, <1>9, FiberStep
-----------------------------------------------------------------------------
\* A step that leaves the list and the wakers alone.
LEMMA ListUntouched ==
    ASSUME FiberInv, UNCHANGED <<m_fibers, armed>>
    PROVE  /\ ListInv' /\ ArmedInv'
           /\ \A g : (Queued(g)' <=> Queued(g)) /\ (Due(g)' <=> Due(g))
BY DEF FiberInv, ListInv, ArmedInv, Queued, Due

\* The steps of a worker that goes on with the fiber it has in hand.
LEMMA CarryOn ==
    ASSUME CountInv, FiberInv, NEW w \in Worker,
           \/ takeFiber(w) \/ swap(w) \/ hold(w) \/ swapOut(w) \/ decrement(w)
           \/ afterYield(w) \/ yield(w) \/ finish(w)
    PROVE  FiberInv'
<1> DEFINE F == Cur(w)
<1> USE DEF app
<1>1. /\ pc[w] \in InHand /\ UNCHANGED <<ft, cbFiber, m_fibers, armed>>
      /\ pc[w] = "check" => ft[w].fiber # Null
  BY DEF takeFiber, swap, hold, swapOut, decrement, afterYield, yield, finish,
     InHand, OnStack
<1>2. F \in Fiber /\ Knows(pc[w], m_state[F], Due(F))
  <2>1. ft[w].fiber \in Fiber \cup {Null}
    BY DEF CountInv, TypeInv, Entry
  <2>2. F \in Fiber
    BY <1>1, <2>1 DEF CountInv, HandInv, Cur
  <2> QED BY <1>1, <2>2 DEF FiberInv, WorkerInv
<1>3. m_state \in [Fiber -> State \cup {"none"}]
  BY DEF CountInv, TypeInv
<1>4. Cur(w)' = F
  BY <1>1 DEF Cur
<1>5. Due(F)' <=> Due(F)
  BY <1>1, <1>4 DEF Due, Queued
<1>6. ASSUME NEW l \in InHand \ {"check"}, GoTo(w, l),
             \A g \in Fiber \ {F} : m_state'[g] = m_state[g],
             Knows(l, m_state'[F], Due(F))
      PROVE  FiberInv'
  <2>1. \A g \in Fiber \ {Cur(w)} : m_state'[g] = m_state[g] /\ (Due(g)' <=> Due(g))
    BY <1>1, <1>6, ListUntouched
  <2>2. Knows(l, m_state'[Cur(w)], Due(Cur(w))')
    BY <1>4, <1>5, <1>6 DEF Knows
  <2> QED BY <1>1, <1>2, <1>6, <2>1, <2>2, ListUntouched, HandStep
<1> HIDE DEF F
<1>7. CASE takeFiber(w)
  BY <1>2, <1>6, <1>7 DEF takeFiber, Knows, InHand
<1>8. CASE swap(w)
  BY <1>2, <1>3, <1>6, <1>8 DEF swap, swapIn, Knows, InHand, OnStack, F
<1>9. CASE hold(w)
  BY <1>2, <1>6, <1>9 DEF hold, YieldToHold, Knows, InHand, OnStack
<1>10. CASE swapOut(w)
  BY <1>2, <1>6, <1>10 DEF swapOut, Knows, InHand, OnStack
<1>11. CASE decrement(w)
  BY <1>2, <1>6, <1>11 DEF decrement, Knows, InHand, OnStack
<1>12. CASE afterYield(w)
  BY <1>2, <1>6, <1>12 DEF afterYield, Knows, InHand, F
<1>13. CASE yield(w)
  BY <1>2, <1>3, <1>6, <1>13 DEF yield, YieldToReady, Knows, InHand, OnStack, F
<1>14. CASE finish(w)
  BY <1>2, <1>3, <1>6, <1>14 DEF finish, MainFunc, Knows, InHand, OnStack, F
<1> QED BY <1>7, <1>8, <1>9, <1>10, <1>11, <1>12, <1>13, <1>14

\* A fiber that makes itself due before it holds.
LEMMA Park ==
    ASSUME CountInv, FiberInv, NEW w \in Worker,
           arm(w) \/ \E t \in Pin : switchTo(w, t)
    PROVE  FiberInv'
<1> USE DEF app
<1> PICK F \in Fiber : F = Cur(w)
  BY DEF arm, switchTo, CountInv, HandInv, InHand, OnStack
<1>1. /\ pc[w] = "run" /\ GoTo(w, "park") /\ UNCHANGED <<ft, cbFiber, m_state>>
  BY DEF arm, switchTo
<1>2. Knows("run", m_state[F], Due(F))
  BY <1>1 DEF FiberInv, WorkerInv
<1>3. ~Queued(F) /\ F \notin armed /\ m_state[F] = "EXEC" /\ ~Due(F)
  BY <1>2 DEF Knows, Due
<1>4. /\ ListInv' /\ ArmedInv'
      /\ \A g \in Fiber \ {F} : Due(g)' <=> Due(g)
  <2>1. CASE arm(w)
    <3>1. UNCHANGED m_fibers /\ armed' = armed \cup {F}
      BY <2>1 DEF arm
    <3> QED BY <1>3, <3>1 DEF FiberInv, ListInv, ArmedInv, Queued, Due
  <2>2. CASE \E t \in Pin : switchTo(w, t)
    <3>1. UNCHANGED armed
      BY <2>2 DEF switchTo
    <3>2. PICK t \in Worker \cup {AnyThread} : scheduleNoLock(F, t)
      BY <2>2 DEF switchTo
    <3>3. (\A g : Queued(g)' <=> Queued(g) \/ g = F) /\ ListInv'
      BY <1>3, <3>2, Scheduled DEF CountInv, FiberInv
    <3> QED BY <1>3, <3>1, <3>3 DEF FiberInv, ArmedInv, Due
  <2> QED BY <2>1, <2>2
<1>5. Knows("park", m_state'[Cur(w)], Due(Cur(w))')
  BY <1>1, <1>3 DEF Knows
<1> QED BY <1>1, <1>4, <1>5, HandStep DEF InHand, OnStack

\* A worker takes an entry: nobody owns the fiber it finds there.
LEMMA PopFiber ==
    ASSUME CountInv, FiberInv, NEW w \in Worker, pop(w)
    PROVE  FiberInv'
<1> USE DEF mains, flags, app
<1>1. PICK i \in DOMAIN m_fibers :
          /\ Takable(w, m_fibers[i])
          /\ ft' = [ft EXCEPT ![w] = m_fibers[i]]
          /\ m_fibers' = SubSeq(m_fibers, 1, i - 1)
                         \o SubSeq(m_fibers, i + 1, Len(m_fibers))
  BY DEF pop
<1>2. /\ pc[w] = "pop" /\ GoTo(w, "check") /\ UNCHANGED <<m_state, cbFiber, armed>>
      /\ TypeInv
  BY DEF pop, CountInv
<1>3. m_fibers[i] \in Entry
  BY <1>2, LenProperties, ElementOfSeq DEF TypeInv
<1> PICK F \in Fiber \cup {Null} : F = m_fibers[i].fiber
  BY <1>3 DEF Entry
<1>4. /\ pc'[w] = "check" /\ ft'[w].fiber = F
      /\ \A v \in Worker \ {w} : pc'[v] = pc[v] /\ ft'[v] = ft[v]
  BY <1>1, <1>2 DEF GoTo, TypeInv
<1>5. ASSUME F \in Fiber
      PROVE  /\ m_state[F] \in Resting
             /\ \A v \in Worker : ~Owns(v, F)
  <2>1. Due(F)
    BY DEF Due, Queued
  <2>2. m_state[F] # "EXEC"
    BY <1>1, <1>5 DEF Takable
  <2> QED BY <1>5, <2>1, <2>2, Unowned
<1>6. /\ \A g \in Fiber : Queued(g)' <=> Queued(g) /\ g # F
      /\ ListInv'
  BY <1>1, <1>2, Unscheduled DEF FiberInv
<1>7. ArmedInv' /\ (F \in Fiber => ~Due(F)')
  <2>1. F \in Fiber => Queued(F) /\ F \notin armed
    BY DEF Queued, FiberInv, ArmedInv
  <2>2. armed \subseteq Fiber
    BY <1>2 DEF TypeInv
  <2> QED BY <1>2, <1>6, <2>1, <2>2 DEF FiberInv, ArmedInv, Due
<1>8. \A g \in Fiber \ {F} : m_state'[g] = m_state[g] /\ (Due(g)' <=> Due(g))
  BY <1>2, <1>6 DEF Due
<1>9. \A g \in Fiber : Owns(w, g)' => Owns(w, g) \/ g = F
  BY <1>2, <1>4 DEF Owns
<1>10. ft'[w].fiber # Null => ft'[w].fiber # cbFiber'[w]
  BY <1>2, <1>4, <1>5 DEF Owns
<1>11. WorkerInv(w)'
  <2>1. cbFiber[w] # Null =>
            /\ cbFiber[w] \in Fiber \ {F}
            /\ m_state[cbFiber[w]] = "INIT" /\ ~Due(cbFiber[w])
    BY <1>2, <1>4, <1>5, <1>10 DEF FiberInv, WorkerInv, Kept, TypeInv
  <2>2. Kept(w)' => (m_state[cbFiber[w]] = "INIT" /\ ~Due(cbFiber[w]))'
    BY <1>2, <1>8, <2>1 DEF Kept
  <2>3. ASSUME F # Null
        PROVE  Knows(pc'[w], m_state'[Cur(w)'], Due(Cur(w))')
    <3>1. Cur(w)' = F
      BY <1>4, <2>3 DEF Cur
    <3> QED BY <1>2, <1>4, <1>5, <1>7, <2>3, <3>1 DEF Knows
  <2> QED BY <1>4, <2>2, <2>3 DEF WorkerInv
<1>12. \A v \in Worker \ {w} : cbFiber'[v] = cbFiber[v]
  BY <1>2
<1>13. F \in Fiber => \A v \in Worker \ {w} : ~Owns(v, F)
  BY <1>5
<1> QED BY <1>4, <1>6, <1>7, <1>8, <1>9, <1>10, <1>11, <1>12, <1>13, FiberStep

\* The steps of a worker that has nothing in hand.
LEMMA NoneInHand ==
    ASSUME CountInv, FiberInv, NEW w \in Worker, popNothing(w) \/ idle(w)
    PROVE  FiberInv'
<1> USE DEF mains, flags, app
<1>1. /\ pc[w] \in {"pop", "idle"} /\ UNCHANGED <<m_state, m_fibers, armed, ft>>
      /\ TypeInv
  BY DEF popNothing, idle, CountInv
<1>2. /\ pc'[w] \in {"pop", "idle", "done"} /\ cbFiber'[w] \in {cbFiber[w], Null}
      /\ \A v \in Worker \ {w} : pc'[v] = pc[v] /\ cbFiber'[v] = cbFiber[v]
  BY <1>1 DEF popNothing, idle, GoTo, TypeInv
<1>3. /\ ListInv' /\ ArmedInv'
      /\ \A g : Due(g)' <=> Due(g)
  BY <1>1, ListUntouched
<1>4. ft[w].fiber = Null
  BY <1>1 DEF FiberInv, WorkerInv
<1>5. WorkerInv(w)'
  <2>1. Kept(w)' => (m_state[cbFiber[w]] = "INIT" /\ ~Due(cbFiber[w]))'
    <3>1. ASSUME cbFiber'[w] # Null
          PROVE  (m_state[cbFiber[w]] = "INIT" /\ ~Due(cbFiber[w]))'
      <4>1. cbFiber'[w] = cbFiber[w] /\ Kept(w)
        BY <1>1, <1>2, <3>1 DEF Kept
      <4>2. m_state[cbFiber[w]] = "INIT" /\ ~Due(cbFiber[w])
        BY <4>1 DEF FiberInv, WorkerInv
      <4>3. Due(cbFiber[w])' <=> Due(cbFiber[w])
        BY <1>1, <4>1 DEF Due, Queued
      <4> QED BY <1>1, <4>1, <4>2, <4>3
    <3> QED BY <3>1 DEF Kept
  <2> QED BY <1>1, <1>2, <1>4, <2>1 DEF WorkerInv, Knows
<1>6. \A g \in Fiber : Owns(w, g)' => Owns(w, g)
  BY <1>1, <1>2 DEF Owns
<1>7. \A v \in Worker : ft'[v] = ft[v]
  BY <1>1
<1>8. Null \notin Fiber
  OBVIOUS
<1>9. ft'[w].fiber # Null => ft'[w].fiber # cbFiber'[w]
  BY <1>1, <1>4
<1>10. \A g \in Fiber \ {Null} : m_state'[g] = m_state[g] /\ (Due(g)' <=> Due(g))
  BY <1>1, <1>3
<1> QED BY <1>2, <1>3, <1>5, <1>6, <1>7, <1>8, <1>9, <1>10, FiberStep

\* A worker resets its callback fiber, or makes one that nobody owns.
LEMMA CallbackFiber ==
    ASSUME CountInv, FiberInv, NEW w \in Worker, takeCallback(w)
    PROVE  FiberInv'
<1> USE DEF mains, flags, app
<1>1. /\ pc[w] = "check" /\ ft[w].fiber = Null /\ GoTo(w, "swap") /\ TypeInv
      /\ UNCHANGED <<m_fibers, armed>> /\ ft' = [ft EXCEPT ![w] = NoTask]
  BY DEF takeCallback, CountInv
<1>2. PICK F \in Fiber :
          /\ m_state' = [m_state EXCEPT ![F] = "INIT"]
          /\ cbFiber' = [cbFiber EXCEPT ![w] = F]
          /\ ~Due(F)
          /\ \A v \in Worker \ {w} : ~Owns(v, F)
  <2>1. CASE cbFiber[w] # Null /\ reset(cbFiber[w]) /\ UNCHANGED cbFiber
    <3>1. cbFiber[w] \in Fiber /\ Owns(w, cbFiber[w]) /\ ~Due(cbFiber[w])
      BY <1>1, <2>1 DEF TypeInv, Owns, Kept, FiberInv, WorkerInv
    <3>2. \A v \in Worker \ {w} : ~Owns(v, cbFiber[w])
      BY <3>1 DEF FiberInv, DistinctInv
    <3>3. cbFiber' = [cbFiber EXCEPT ![w] = cbFiber[w]]
      BY <1>1, <2>1 DEF TypeInv
    <3> QED BY <2>1, <3>1, <3>2, <3>3 DEF reset
  <2>2. CASE \E f \in Fiber : /\ Construct(f)
                              /\ cbFiber' = [cbFiber EXCEPT ![w] = f]
    <3>1. PICK f \in Fiber : /\ ~Built(f) /\ m_state' = [m_state EXCEPT ![f] = "INIT"]
                             /\ cbFiber' = [cbFiber EXCEPT ![w] = f]
      BY <2>2 DEF Construct
    <3> QED BY <3>1, Unowned
  <2> QED BY <2>1, <2>2 DEF takeCallback
<1>3. /\ pc'[w] = "swap" /\ ft'[w] = NoTask /\ cbFiber'[w] = F /\ m_state'[F] = "INIT"
      /\ \A v \in Worker \ {w} : /\ pc'[v] = pc[v] /\ ft'[v] = ft[v]
                                 /\ cbFiber'[v] = cbFiber[v]
      /\ \A g \in Fiber \ {F} : m_state'[g] = m_state[g]
  BY <1>1, <1>2 DEF GoTo, TypeInv
<1>4. /\ ListInv' /\ ArmedInv' /\ ~Due(F)'
      /\ \A g : Due(g)' <=> Due(g)
  BY <1>1, <1>2, ListUntouched
<1>5. WorkerInv(w)'
  <2>1. Cur(w)' = F /\ ~Kept(w)'
    BY <1>3 DEF Cur, Kept, NoTask
  <2> QED BY <1>3, <1>4, <2>1 DEF WorkerInv, Knows, Resting
<1>6. \A g \in Fiber : Owns(w, g)' => Owns(w, g) \/ g = F
  BY <1>3 DEF Owns, NoTask
<1>7. ft'[w].fiber = Null
  BY <1>3 DEF NoTask
<1>8. \A g \in Fiber \ {F} : m_state'[g] = m_state[g] /\ (Due(g)' <=> Due(g))
  BY <1>3, <1>4
<1> QED BY <1>2, <1>3, <1>4, <1>5, <1>6, <1>7, <1>8, FiberStep

\* A worker lets go of the fiber it had in hand.
LEMMA Release ==
    ASSUME CountInv, FiberInv, NEW w \in Worker,
           afterEnded(w) \/ requeue(w) \/ setHold(w)
    PROVE  FiberInv'
<1> USE DEF mains, flags, app
<1>1. /\ pc[w] \in {"after", "requeue", "hold"} /\ GoTo(w, "pop") /\ TypeInv
      /\ ft' = [ft EXCEPT ![w] = NoTask] /\ UNCHANGED armed
  BY DEF afterEnded, requeue, setHold, LetGo, CountInv
<1> PICK F \in Fiber : F = Cur(w)
  BY <1>1 DEF CountInv, HandInv, InHand, OnStack
<1>2. Owns(w, F) /\ \A v \in Worker \ {w} : ~Owns(v, F)
  <2>1. Owns(w, F)
    BY DEF Cur, Owns
  <2> QED BY <2>1 DEF FiberInv, DistinctInv
<1>3. Knows(pc[w], m_state[F], Due(F))
  BY <1>1 DEF FiberInv, WorkerInv
<1>4. m_state \in [Fiber -> State \cup {"none"}]
  BY <1>1 DEF TypeInv
<1>5. /\ cbFiber'[w] = (IF afterEnded(w) \/ ft[w].fiber # Null THEN cbFiber[w] ELSE Null)
      /\ pc'[w] = "pop" /\ ft'[w] = NoTask
      /\ \A v \in Worker \ {w} : /\ pc'[v] = pc[v] /\ ft'[v] = ft[v]
                                 /\ cbFiber'[v] = cbFiber[v]
  <2>1. pc'[w] = "pop" /\ ft'[w] = NoTask
        /\ \A v \in Worker \ {w} : pc'[v] = pc[v] /\ ft'[v] = ft[v]
    BY <1>1 DEF GoTo, TypeInv
  <2>2. CASE afterEnded(w)
    BY <2>1, <2>2 DEF afterEnded
  <2>3. CASE ~afterEnded(w)
    <3>1. cbFiber' = [cbFiber EXCEPT ![w] = IF ft[w].fiber = Null THEN Null ELSE @]
      BY <2>3 DEF requeue, setHold, LetGo
    <3> QED BY <1>1, <2>1, <2>3, <3>1 DEF TypeInv
  <2> QED BY <2>2, <2>3
<1>6. /\ \A g \in Fiber \ {F} : m_state'[g] = m_state[g]
      /\ afterEnded(w) => /\ m_state[F] \in Ended /\ UNCHANGED m_fibers
                          /\ ft[w].fiber = Null => m_state'[F] = "INIT"
      /\ setHold(w) => m_state'[F] = "HOLD" /\ UNCHANGED m_fibers
      /\ requeue(w) => m_state' = m_state /\ scheduleNoLock(F, AnyThread)
  BY <1>4 DEF afterEnded, reset, setHold, requeue
<1>7. afterEnded(w) => pc[w] = "after" /\ ~Due(F)
  BY <1>3, <1>6 DEF afterEnded, Knows, Ended
<1>8. requeue(w) => m_state[F] = "READY" /\ ~Due(F)
  BY <1>3 DEF requeue, Knows
<1>9. /\ ListInv' /\ ArmedInv'
      /\ \A g \in Fiber \ {F} : Due(g)' <=> Due(g)
      /\ afterEnded(w) => ~Due(F)'
  <2>1. CASE afterEnded(w) \/ setHold(w)
    <3>1. UNCHANGED <<m_fibers, armed>>
      BY <1>1, <1>6, <2>1
    <3> QED BY <1>7, <3>1, ListUntouched
  <2>2. CASE requeue(w)
    <3>1. (\A g : Queued(g)' <=> Queued(g) \/ g = F) /\ ListInv'
      BY <1>1, <1>6, <1>8, <2>2, Scheduled DEF FiberInv, Due
    <3>2. ArmedInv'
      BY <1>1, <1>8, <2>2, <3>1 DEF FiberInv, ArmedInv, Due
    <3>3. ~afterEnded(w)
      BY <2>2 DEF requeue, afterEnded
    <3> QED BY <1>1, <3>1, <3>2, <3>3 DEF Due
  <2> QED BY <2>1, <2>2
<1>10. Due(F)' => m_state'[F] \in Resting \cup {"EXEC"}
  BY <1>6, <1>8, <1>9 DEF Resting
<1>11. WorkerInv(w)'
  <2>1. Kept(w)' => (m_state[cbFiber[w]] = "INIT" /\ ~Due(cbFiber[w]))'
    <3>1. SUFFICES ASSUME cbFiber'[w] # Null
                   PROVE  (m_state[cbFiber[w]] = "INIT" /\ ~Due(cbFiber[w]))'
      BY DEF Kept
    <3>2. CASE ft[w].fiber = Null
      <4>1. afterEnded(w) /\ cbFiber'[w] = F
        BY <1>5, <3>1, <3>2 DEF Cur
      <4> QED BY <1>6, <1>9, <3>2, <4>1
    <3>3. CASE ft[w].fiber # Null
      <4>1. cbFiber'[w] = cbFiber[w] /\ Kept(w)
        BY <1>5, <3>1, <3>3 DEF Kept
      <4>2. cbFiber[w] \in Fiber \ {F}
        BY <1>1, <3>1, <3>3, <4>1 DEF Cur, FiberInv, DistinctInv, TypeInv
      <4>3. m_state[cbFiber[w]] = "INIT" /\ ~Due(cbFiber[w])
        BY <4>1 DEF FiberInv, WorkerInv
      <4>4. PICK C \in Fiber \ {F} : C = cbFiber[w]
        BY <4>2
      <4>5. m_state'[C] = m_state[C] /\ (Due(C)' <=> Due(C))
        BY <1>6, <1>9
      <4>6. Due(cbFiber[w])' <=> Due(C)'
        BY <4>1, <4>4
      <4> QED BY <4>1, <4>3, <4>4, <4>5, <4>6
    <3> QED BY <3>2, <3>3
  <2> QED BY <1>5, <2>1 DEF WorkerInv, Knows, NoTask
<1>12. \A g \in Fiber : Owns(w, g)' => Owns(w, g)
  BY <1>5 DEF Owns, NoTask
<1>13. ft'[w].fiber = Null
  BY <1>5 DEF NoTask
<1>14. \A g \in Fiber \ {F} : m_state'[g] = m_state[g] /\ (Due(g)' <=> Due(g))
  BY <1>6, <1>9
<1> QED BY <1>2, <1>5, <1>9, <1>10, <1>11, <1>12, <1>13, <1>14, FiberStep

\* A fiber on the list is never found ended: the `continue' of run() for such a
\* fiber is not reached.
LEMMA NeverDropped ==
    ASSUME CountInv, FiberInv, NEW w \in Worker
    PROVE  ~dropEnded(w)
<1> SUFFICES ASSUME dropEnded(w) PROVE FALSE
  OBVIOUS
<1>1. Knows("check", m_state[Cur(w)], Due(Cur(w))) /\ Cur(w) = ft[w].fiber
  BY DEF dropEnded, FiberInv, WorkerInv, Cur
<1> QED BY <1>1 DEF dropEnded, Knows, Resting, Ended

\* start, stop and join move only workers that have nothing in hand.
LEMMA MainFiber ==
    ASSUME CountInv, FiberInv, Main
    PROVE  FiberInv'
<1> USE DEF flags, locals, calls, mains, app
<1>1. UNCHANGED <<m_state, m_fibers, ft, cbFiber, armed>>
  BY DEF Main, start, stop, callRoot, rootReturns, join
<1>2. \A w \in Worker :
          \/ pc'[w] = pc[w]
          \/ pc[w] \in {"off", "done"} /\ pc'[w] \in {"off", "pop"}
  <2>1. pc \in [Worker -> Location] /\ MainInv
    BY DEF CountInv, TypeInv
  <2>2. CASE start
    BY <2>1, <2>2 DEF start, MainInv
  <2>3. CASE callRoot
    BY <2>1, <2>3 DEF callRoot, MainInv, GoTo
  <2>4. CASE stop \/ rootReturns
    BY <2>4 DEF stop, rootReturns
  <2>5. CASE join
    BY <2>1, <2>5 DEF join
  <2> QED BY <2>2, <2>3, <2>4, <2>5 DEF Main
<1>3. /\ ListInv' /\ ArmedInv'
      /\ \A g : Due(g)' <=> Due(g)
  BY <1>1, ListUntouched
<1>4. DueInv' /\ DistinctInv'
  BY <1>1, <1>3 DEF FiberInv, DueInv, DistinctInv, Owns
<1>5. ASSUME NEW w \in Worker
      PROVE  WorkerInv(w)'
  <2>1. WorkerInv(w)
    BY DEF FiberInv
  <2>2. CASE pc'[w] = pc[w]
    <3>1. Cur(w)' = Cur(w) /\ (Kept(w)' <=> Kept(w))
      BY <1>1, <2>2 DEF Cur, Kept
    <3>2. (Due(cbFiber[w])' <=> Due(cbFiber[w])) /\ (Due(Cur(w))' <=> Due(Cur(w)))
      BY <1>1, <3>1 DEF Due, Queued
    <3>3. Kept(w)' => (m_state[cbFiber[w]] = "INIT" /\ ~Due(cbFiber[w]))'
      BY <1>1, <2>1, <3>1, <3>2 DEF WorkerInv
    <3>4. (pc[w] = "check" => ft[w].fiber # Null)' =>
              Knows(pc[w], m_state[Cur(w)], Due(Cur(w)))'
      BY <1>1, <2>1, <2>2, <3>1, <3>2 DEF WorkerInv, Knows
    <3>5. (pc[w] \in {"off", "pop", "idle", "done"} => ft[w].fiber = Null)'
      BY <1>1, <2>1, <2>2 DEF WorkerInv
    <3> QED BY <3>3, <3>4, <3>5 DEF WorkerInv
  <2>3. CASE pc[w] \in {"off", "done"} /\ pc'[w] \in {"off", "pop"}
    <3>1. ft'[w].fiber = Null /\ (Kept(w)' <=> Kept(w))
      BY <1>1, <2>1, <2>3 DEF WorkerInv, Kept
    <3>2. Due(cbFiber[w])' <=> Due(cbFiber[w])
      BY <1>1 DEF Due, Queued
    <3> QED BY <1>1, <2>1, <2>3, <3>1, <3>2 DEF WorkerInv, Knows
  <2> QED BY <1>2, <2>2, <2>3
<1> QED BY <1>3, <1>4, <1>5 DEF FiberInv

\* The application's own calls of schedule, when nobody schedules a fiber that
\* has not asked for it.
LEMMA ApplicationFiber ==
    ASSUME CountInv, FiberInv, Application, "stray" \notin Careless
    PROVE  FiberInv'
<1> USE DEF mains, locals, flags, calls
<1>1. UNCHANGED locals /\ TypeInv
  BY DEF Application, Submit, Wake, CountInv
<1>2. PICK w \in Worker : TRUE
  OBVIOUS
<1>3. ASSUME NEW F \in Fiber \cup {Null},
             F \in Fiber => \A v \in Worker : ~Owns(v, F),
             \A g \in Fiber \ {F} : m_state'[g] = m_state[g] /\ (Due(g)' <=> Due(g)),
             ListInv', ArmedInv',
             F \in Fiber /\ Due(F)' => m_state'[F] \in Resting \cup {"EXEC"}
      PROVE  FiberInv'
  <2>1. \A v \in Worker : pc'[v] = pc[v] /\ ft'[v] = ft[v] /\ cbFiber'[v] = cbFiber[v]
    BY <1>1
  <2>2. ASSUME NEW f \in Fiber, Owns(w, f)
        PROVE  m_state'[f] = m_state[f] /\ (Due(f)' <=> Due(f))
    BY <1>3, <2>2
  <2>3. WorkerInv(w)'
    BY <1>1, <2>1, <2>2, Untouched DEF FiberInv, CountInv, HandInv
  <2>4. \A g \in Fiber : Owns(w, g)' => Owns(w, g)
    BY <2>1 DEF Owns
  <2>5. ft'[w].fiber # Null => ft'[w].fiber # cbFiber'[w]
    BY <2>1 DEF FiberInv, DistinctInv
  <2> QED BY <1>3, <2>1, <2>3, <2>4, <2>5, FiberStep
<1>4. ASSUME NEW f \in Fiber, NEW t \in Pin, Wake(f, t)
      PROVE  FiberInv'
  <2>1. /\ f \in armed /\ armed' = armed \ {f} /\ UNCHANGED m_state
        /\ ~Queued(f) /\ scheduleNoLock(f, t) /\ t \in Worker \cup {AnyThread}
    BY <1>4 DEF Wake, FiberInv, ArmedInv
  <2>2. (\A g : Queued(g)' <=> Queued(g) \/ g = f) /\ ListInv'
    BY <1>1, <2>1, Scheduled DEF FiberInv
  <2>3. ArmedInv' /\ \A g \in Fiber : Due(g)' <=> Due(g)
    BY <2>1, <2>2 DEF FiberInv, ArmedInv, Due
  <2> QED BY <1>3, <2>1, <2>2, <2>3
<1>5. ASSUME NEW t \in Pin, Submit(t), scheduleNoLock(Null, t), UNCHANGED m_state
      PROVE  FiberInv'
  <2>1. UNCHANGED armed /\ t \in Worker \cup {AnyThread} /\ Null \notin Fiber
    BY <1>5 DEF Submit
  <2>2. (\A g : Queued(g)' <=> Queued(g) \/ g = Null) /\ ListInv'
    BY <1>1, <1>5, <2>1, Scheduled DEF FiberInv
  <2>3. ArmedInv' /\ \A g \in Fiber : Due(g)' <=> Due(g)
    BY <1>1, <2>1, <2>2 DEF FiberInv, ArmedInv, Due, TypeInv
  <2> QED BY <1>3, <1>5, <2>1, <2>2, <2>3
<1>6. ASSUME NEW t \in Pin, NEW f \in Fiber,
             Submit(t), Construct(f), scheduleNoLock(f, t)
      PROVE  FiberInv'
  <2>1. UNCHANGED armed /\ t \in Worker \cup {AnyThread} /\ ~Built(f)
    BY <1>6 DEF Submit, Construct
  <2>2. ~Due(f) /\ \A v \in Worker : ~Owns(v, f)
    BY <2>1, Unowned
  <2>3. m_state'[f] = "INIT" /\ \A g \in Fiber \ {f} : m_state'[g] = m_state[g]
    BY <1>1, <1>6 DEF Construct, TypeInv
  <2>4. (\A g : Queued(g)' <=> Queued(g) \/ g = f) /\ ListInv'
    BY <1>1, <1>6, <2>1, <2>2, Scheduled DEF FiberInv, Due
  <2>5. ArmedInv' /\ \A g \in Fiber \ {f} : Due(g)' <=> Due(g)
    BY <2>1, <2>2, <2>4 DEF FiberInv, ArmedInv, Due
  <2> QED BY <1>3, <2>2, <2>3, <2>4, <2>5 DEF Resting
<1> QED BY <1>4, <1>5, <1>6 DEF Application, Submit

LEMMA InitFiber == Init => FiberInv
<1> SUFFICES ASSUME Init PROVE FiberInv
  OBVIOUS
<1>1. \A f : ~Due(f)
  BY DEF Init, Due, Queued
<1>2. ListInv /\ ArmedInv /\ DueInv
  BY <1>1 DEF Init, ListInv, ArmedInv, DueInv
<1>3. DistinctInv
  BY DEF Init, DistinctInv, Owns, NoTask
<1>4. \A w \in Worker : WorkerInv(w)
  BY DEF Init, WorkerInv, Kept, Knows, NoTask
<1> QED BY <1>2, <1>3, <1>4 DEF FiberInv

LEMMA NextFiber ==
    ASSUME "stray" \notin Careless
    PROVE  CountInv /\ FiberInv /\ [Next]_vars => FiberInv'
<1> SUFFICES ASSUME CountInv, FiberInv, [Next]_vars PROVE FiberInv'
  OBVIOUS
<1>1. CASE Main
  BY <1>1, MainFiber
<1>2. ASSUME NEW w \in Worker, Loop(w) \/ Choose(w)
      PROVE  FiberInv'
  BY <1>2, CarryOn, Park, PopFiber, NoneInHand, CallbackFiber, Release,
     NeverDropped DEF Loop, Choose
<1>3. CASE Application
  BY <1>3, ApplicationFiber
<1>4. CASE UNCHANGED vars
  BY <1>4 DEF vars, locals, app, FiberInv, ListInv, ArmedInv, DueInv, DistinctInv,
     Owns, Queued, Due, WorkerInv, Kept, Cur
<1> QED BY <1>1, <1>2, <1>3, <1>4 DEF Next, Terminated
-----------------------------------------------------------------------------
\* Without strays the two invariants hold in every reachable state.
THEOREM Inductive ==
    ASSUME "stray" \notin Careless
    PROVE  Spec => [](CountInv /\ FiberInv)
<1>1. Init => CountInv /\ FiberInv
  BY InitCount, InitFiber
<1>2. CountInv /\ FiberInv /\ [Next]_vars => (CountInv /\ FiberInv)'
  BY NextCount, NextFiber
<1> QED BY <1>1, <1>2, PTL DEF Spec

\* No assertion of Fiber.cc on the state of a fiber fails, in any interleaving
\* of workers, wakers, start and stop.
THEOREM NoAssertionFails ==
    ASSUME "stray" \notin Careless
    PROVE  Spec => []AssertionsHold
<1>1. ASSUME CountInv, FiberInv PROVE AssertionsHold
  <2> SUFFICES ASSUME NEW w \in Worker
               PROVE  /\ pc[w] = "check" /\ ft[w].fiber = Null /\ cbFiber[w] # Null =>
                             CanReset(cbFiber[w])
                      /\ pc[w] = "swap" => CanSwapIn(Cur(w))
                      /\ pc[w] \in {"run", "park"} => CanYield(Cur(w))
    BY DEF AssertionsHold
  <2>1. WorkerInv(w)
    BY <1>1 DEF FiberInv
  <2> QED BY <2>1 DEF WorkerInv, Kept, Knows, CanReset, CanSwapIn, CanYield, Resting
<1>2. CountInv /\ FiberInv => AssertionsHold
  BY <1>1
<1> QED BY <1>2, Inductive, PTL

\* No fiber is in the hands of two workers, and none that a worker has not let
\* go of can be taken off the list: a stack is never run twice at once, although
\* a waker may put the fiber back before it has left its stack.
THEOREM OneStackOnly ==
    ASSUME "stray" \notin Careless
    PROVE  Spec => []OneStack
<1>1. ASSUME CountInv, FiberInv, NEW f \in Fiber
      PROVE  /\ Cardinality(Holders(f)) <= 1
             /\ \A w \in Holders(f), v \in Worker, i \in Tickets(f) :
                   w # v => ~Takable(v, m_fibers[i])
  <2>1. \A w \in Holders(f) : w \in Worker /\ Owns(w, f) /\ pc[w] \in InHand /\ Cur(w) = f
    BY DEF Holders, Owns, Cur
  <2>2. Cardinality(Holders(f)) <= 1
    <3>1. CASE Holders(f) = {}
      BY <3>1, FS_EmptySet
    <3>2. CASE Holders(f) # {}
      <4>1. PICK w \in Holders(f) : TRUE
        BY <3>2
      <4>2. Holders(f) = {w}
        BY <1>1, <2>1, <4>1 DEF FiberInv, DistinctInv
      <4> QED BY <4>2, FS_Singleton
    <3> QED BY <3>1, <3>2
  <2>3. ASSUME NEW w \in Holders(f), NEW v \in Worker, NEW i \in Tickets(f)
        PROVE  ~Takable(v, m_fibers[i])
    <3>1. Due(f) /\ m_fibers[i].fiber = f /\ f # Null
      BY <1>1 DEF Due, Queued, Tickets
    <3>2. m_state[f] = "EXEC"
      BY <1>1, <2>1, <3>1, Unowned
    <3> QED BY <3>1, <3>2 DEF Takable
  <2> QED BY <2>2, <2>3
<1>2. CountInv /\ FiberInv => OneStack
  BY <1>1 DEF OneStack
<1> QED BY <1>2, Inductive, PTL

\* A fiber has one ticket at most, on the list or with a waker: no schedule is
\* for a fiber that is going to be run anyway.
THEOREM OneTicketOnly ==
    ASSUME "stray" \notin Careless
    PROVE  Spec => []OneTicket
<1>1. ASSUME CountInv, FiberInv, NEW f \in Fiber
      PROVE  Cardinality(Tickets(f)) + (IF f \in armed THEN 1 ELSE 0) <= 1
  <2>1. \A i, j \in Tickets(f) : i = j
    BY <1>1 DEF Tickets, FiberInv, ListInv
  <2>2. f \in armed => Tickets(f) = {}
    BY <1>1 DEF Tickets, FiberInv, ArmedInv, Queued
  <2>3. CASE Tickets(f) = {}
    BY <2>3, FS_EmptySet
  <2>4. CASE Tickets(f) # {}
    <3>1. PICK i \in Tickets(f) : TRUE
      BY <2>4
    <3>2. Tickets(f) = {i}
      BY <2>1, <3>1
    <3>3. Cardinality(Tickets(f)) = 1
      BY <3>2, FS_Singleton
    <3> QED BY <2>2, <2>4, <3>3
  <2> QED BY <2>3, <2>4
<1>2. CountInv /\ FiberInv => OneTicket
  BY <1>1 DEF OneTicket
<1> QED BY <1>2, Inductive, PTL
=============================================================================

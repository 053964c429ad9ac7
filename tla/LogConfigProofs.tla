---------------------------- MODULE LogConfigProofs ----------------------------
(***************************************************************************)
(* A program that configures its loggers, for every number of threads,     *)
(* variables, listeners and files.  First the locks of the variables and   *)
(* the calls that hold them, the listener of "logs" and the threads'       *)
(* start: the types, the start handshake, the formatters, what a read lock *)
(* keeps and, for one thread that loads files, what the listeners know.    *)
(* Then the loggers: that they become what the files ask, when one thread  *)
(* loads them, and that an event finds an appender meanwhile.  Last, that  *)
(* the casts of a define undo each other on what the files make.           *)
(***************************************************************************)
EXTENDS LogConfig, WellFoundedInduction, TLAPS

-----------------------------------------------------------------------------
(* The inductive invariant                                                  *)

\* The call a thread is in has its fields, and an id that was read from the
\* counter is one that can still be given out.
Counted ==
    /\ \A t \in Thread : call[t].pc = "count" =>
          /\ call[t].id < MaxId
          /\ TypeOf(call[t].var) = TypeOf(Logs) => call[t].id >= 1
    /\ \A t \in Thread : call[t].pc = "insert" =>
          /\ s_fun_id[TypeOf(call[t].var)] >= 1
          /\ TypeOf(call[t].var) = TypeOf(Logs) => s_fun_id[TypeOf(Logs)] >= 2
    /\ s_fun_id[TypeOf(Logs)] >= 1

\* "logs" only ever holds sets of defines.
Defines ==
    /\ IsDefines(m_val[Logs])
    /\ \A t \in Thread : call[t].pc \in {"notify", "write"} /\ call[t].var = Logs =>
          IsDefines(call[t].old) /\ IsDefines(call[t].new)

\* Who holds the lock of a variable, and what holding it for reading keeps.
Locks ==
    /\ \A t \in Thread : call[t].pc = "notify" =>
          /\ t \in readers[call[t].var]
          /\ m_val[call[t].var] = call[t].old
          /\ call[t].todo \subseteq DOMAIN m_cbs[call[t].var]
    /\ \A t \in Thread : call[t].pc \in {"count", "insert", "answer"} =>
          writer[call[t].var] = t
    /\ \A x \in Var : readers[x] # {} => writer[x] = NoThread

\* Values are set by the threads that load files, listeners added by workers.
Roles ==
    \A t \in Thread :
        /\ call[t].pc \in {"notify", "write"} => t \in Main
        /\ call[t].pc \in {"count", "insert", "answer"} =>
              t \in Worker /\ call[t].cb \notin Stepwise

\* LogIniter's listener is the first of "logs" and listens to nothing else.
Registry ==
    /\ 1 \in DOMAIN m_cbs[Logs] /\ m_cbs[Logs][1] = LogIniter
    /\ \A x \in Var : \A i \in DOMAIN m_cbs[x] :
          m_cbs[x][i] \in Stepwise => x = Logs /\ i = 1

CallInv == ConfigTypeOK /\ Counted /\ Defines /\ Locks /\ Roles /\ Registry

\* A job is that of a call which is at LogIniter's listener.
Jobs ==
    \A t \in Main : job[t] # NoJob =>
        /\ call[t].pc = "notify" /\ call[t].var = Logs /\ 1 \in call[t].todo
        /\ job[t].pc = "formatter" => Kept(t)

Handshake ==
    \A w \in Worker :
        /\ thread[w].pc = "born" => ctor = w
        /\ thread[w].pc = "set" => ctor = w /\ sem[w] = 0
        /\ thread[w].pc \in {"set", "running", "ended"} => thread[w].m_id /\ ~thread[w].m_cb
        /\ sem[w] > 0 => thread[w].pc \in {"running", "ended"}

-----------------------------------------------------------------------------
(* Lemmas                                                                   *)

\* A set of numbers that has an element has a least one.
LEMMA LeastOf ==
    ASSUME NEW S \in SUBSET Nat, S # {}
    PROVE  \E i \in S : \A j \in S : i <= j
<1> DEFINE R == {ss \in Nat \X Nat : ss[1] < ss[2]}
<1>1. IsWellFoundedOn(R, Nat)
  BY NatLessThanWellFounded DEF OpToRel
<1> HIDE DEF R
<1>2. PICK i \in S : \A j \in S : ~(<<j, i>> \in R)
  BY <1>1, WFMin
<1>3. \A j \in S : ~(j < i)
  BY <1>2 DEF R
<1> QED BY <1>3

LEMMA CallCases ==
    ASSUME NEW c \in Calls
    PROVE  /\ c.pc \in {"idle", "notify", "write", "count", "insert", "answer"}
           /\ c.pc = "idle" <=> c = Idle
           /\ c.pc \in {"notify", "write"} => c \in SetCalls
           /\ c.pc \in {"count", "insert", "answer"} => c \in AddCalls
  BY DEF Calls, Idle, SetCalls, AddCalls

LEMMA TurnIsLeast ==
    ASSUME ConfigTypeOK, NEW t \in Thread, call[t].pc = "notify", call[t].todo # {}
    PROVE  Turn(t) \in call[t].todo /\ \A j \in call[t].todo : Turn(t) <= j
<1>1. call[t] \in Calls
  BY DEF ConfigTypeOK
<1>2. call[t].todo \in SUBSET Nat
  BY <1>1, CallCases, ConfigVarAssumption DEF SetCalls, Ids
<1> QED BY <1>2, LeastOf DEF Turn

-----------------------------------------------------------------------------
(* The steps of ConfigVar                                                   *)

LEMMA SetValueKeeps ==
    ASSUME CallInv, NEW t \in Main, NEW x \in Var, NEW v \in Value,
           x = Logs => IsDefines(v), call[t] = Idle, setValue(t, x, v)
    PROVE  CallInv'
<1> USE LogConfigAssumption, ConfigVarAssumption
<1> DEFINE c == [pc |-> "notify", var |-> x, old |-> m_val[x], new |-> v, todo |-> DOMAIN m_cbs[x]]
<1>1. c \in SetCalls
  BY DEF CallInv, ConfigTypeOK, Maps, SetCalls
<1>2. call' = [call EXCEPT ![t] = c] /\ UNCHANGED <<m_val, m_cbs, s_fun_id, writer, knows>>
  BY DEF setValue
<1>3. readers' = [readers EXCEPT ![x] = @ \cup {t}] /\ writer[x] = NoThread
  BY DEF setValue, CanRead
<1>4. ConfigTypeOK'
  BY <1>1, <1>2, <1>3 DEF CallInv, ConfigTypeOK, Calls
<1>5. call \in [Thread -> Calls] /\ t \in Thread
  BY DEF CallInv, ConfigTypeOK
<1>6. Counted'
  BY <1>2, <1>5 DEF CallInv, Counted
<1>7. Defines'
  BY <1>2, <1>5 DEF CallInv, Defines
<1>8. Locks'
  BY <1>2, <1>3, <1>5 DEF CallInv, ConfigTypeOK, Locks
<1>9. Roles'
  BY <1>2, <1>5 DEF CallInv, Roles
<1>10. Registry'
  BY <1>2 DEF CallInv, Registry
<1> QED BY <1>4, <1>6, <1>7, <1>8, <1>9, <1>10 DEF CallInv

LEMMA ToldKeeps ==
    ASSUME CallInv, NEW t \in Thread, NEW cb \in Callback, Told(t, cb)
    PROVE  CallInv'
<1> USE LogConfigAssumption, ConfigVarAssumption
<1> DEFINE c == [call[t] EXCEPT !.todo = @ \ {Turn(t)}]
<1>1. call[t] \in SetCalls /\ call[t].pc = "notify"
  BY CallCases DEF CallInv, ConfigTypeOK, Told, Calling
<1>2. c \in SetCalls
  BY <1>1 DEF SetCalls
<1>3. /\ c.pc = "notify" /\ c.var = call[t].var /\ c.old = call[t].old /\ c.new = call[t].new
      /\ c.todo \subseteq call[t].todo
  BY <1>1 DEF SetCalls
<1>4. call' = [call EXCEPT ![t] = c] /\ UNCHANGED <<m_val, m_cbs, s_fun_id, readers, writer>>
  BY DEF Told
<1> HIDE DEF c
<1>5. knows' \in [Var -> [Callback -> [val : Value, late : BOOLEAN]]]
  BY <1>1 DEF Told, CallInv, ConfigTypeOK, SetCalls
<1>6. ConfigTypeOK'
  BY <1>2, <1>4, <1>5 DEF CallInv, ConfigTypeOK, Calls
<1>7. call \in [Thread -> Calls] /\ t \in Thread
  BY DEF CallInv, ConfigTypeOK
<1>8. Counted'
  BY <1>3, <1>4, <1>7 DEF CallInv, Counted
<1>9. Defines'
  BY <1>1, <1>3, <1>4, <1>7 DEF CallInv, Defines
<1>10. Locks'
  BY <1>1, <1>3, <1>4, <1>7 DEF CallInv, Locks
<1>11. Roles'
  BY <1>1, <1>3, <1>4, <1>7 DEF CallInv, Roles
<1>12. Registry'
  BY <1>4 DEF CallInv, Registry
<1> QED BY <1>6, <1>8, <1>9, <1>10, <1>11, <1>12 DEF CallInv

LEMMA EndNotifyKeeps ==
    ASSUME CallInv, NEW t \in Thread, endNotify(t)
    PROVE  CallInv'
<1> USE LogConfigAssumption, ConfigVarAssumption
<1> DEFINE c == [call[t] EXCEPT !.pc = "write"]
<1>1. call[t] \in SetCalls /\ call[t].pc = "notify"
  BY CallCases DEF CallInv, ConfigTypeOK, endNotify
<1>2. c \in SetCalls
  BY <1>1 DEF SetCalls
<1>3. /\ c.pc = "write" /\ c.var = call[t].var /\ c.old = call[t].old /\ c.new = call[t].new
  BY <1>1 DEF SetCalls
<1>4. /\ call' = [call EXCEPT ![t] = c] /\ UNCHANGED <<m_val, m_cbs, s_fun_id, writer, knows>>
      /\ readers' = [readers EXCEPT ![call[t].var] = @ \ {t}]
  BY DEF endNotify
<1> HIDE DEF c
<1>5. call \in [Thread -> Calls] /\ t \in Thread /\ call[t].var \in Var
  BY <1>1 DEF CallInv, ConfigTypeOK, SetCalls
<1>6. ConfigTypeOK'
  BY <1>2, <1>4, <1>5 DEF CallInv, ConfigTypeOK, Calls
<1>7. Counted'
  BY <1>3, <1>4, <1>5 DEF CallInv, Counted
<1>8. Defines'
  BY <1>1, <1>3, <1>4, <1>5 DEF CallInv, Defines
<1>9. Locks'
  BY <1>1, <1>3, <1>4, <1>5 DEF CallInv, ConfigTypeOK, Locks
<1>10. Roles'
  BY <1>1, <1>3, <1>4, <1>5 DEF CallInv, Roles
<1>11. Registry'
  BY <1>4 DEF CallInv, Registry
<1> QED BY <1>6, <1>7, <1>8, <1>9, <1>10, <1>11 DEF CallInv

LEMMA WriteKeeps ==
    ASSUME CallInv, NEW t \in Thread, write(t)
    PROVE  CallInv'
<1> USE LogConfigAssumption, ConfigVarAssumption
<1>1. call[t] \in SetCalls /\ call[t].pc = "write"
  BY CallCases DEF CallInv, ConfigTypeOK, write
<1>2. /\ call' = [call EXCEPT ![t] = Idle] /\ UNCHANGED <<m_cbs, s_fun_id, readers, writer, knows>>
      /\ m_val' = [m_val EXCEPT ![call[t].var] = call[t].new]
      /\ readers[call[t].var] = {} /\ writer[call[t].var] = NoThread
  BY DEF write, CanWrite
<1>3. call \in [Thread -> Calls] /\ t \in Thread /\ call[t].var \in Var /\ call[t].new \in Value
  BY <1>1 DEF CallInv, ConfigTypeOK, SetCalls
<1>4. ConfigTypeOK'
  BY <1>2, <1>3 DEF CallInv, ConfigTypeOK, Calls
<1>5. Idle.pc = "idle"
  BY DEF Idle
<1>6. Counted'
  BY <1>2, <1>3, <1>5 DEF CallInv, Counted
<1>7. Defines'
  BY <1>1, <1>2, <1>3, <1>5, LogsAssumption DEF CallInv, ConfigTypeOK, Defines
<1>8. Locks'
  BY <1>1, <1>2, <1>3, <1>5 DEF CallInv, ConfigTypeOK, Locks
<1>9. Roles'
  BY <1>2, <1>3, <1>5 DEF CallInv, Roles
<1>10. Registry'
  BY <1>2 DEF CallInv, Registry
<1> QED BY <1>4, <1>6, <1>7, <1>8, <1>9, <1>10 DEF CallInv

LEMMA AddListenerKeeps ==
    ASSUME CallInv, NEW t \in Worker, NEW x \in Var, NEW cb \in Callback \ Stepwise,
           addListener(t, x, cb)
    PROVE  CallInv'
<1> USE LogConfigAssumption, ConfigVarAssumption
<1> DEFINE c == [pc |-> "count", var |-> x, cb |-> cb, id |-> s_fun_id[TypeOf(x)]]
<1>1. /\ call' = [call EXCEPT ![t] = c] /\ UNCHANGED <<m_val, m_cbs, s_fun_id, readers, knows>>
      /\ writer' = [writer EXCEPT ![x] = t]
      /\ readers[x] = {} /\ writer[x] = NoThread
      /\ s_fun_id[TypeOf(x)] < MaxId /\ call[t] = Idle
  BY DEF addListener, CanWrite
<1>2. c \in AddCalls /\ c.pc = "count" /\ c.var = x /\ c.cb = cb /\ c.id = s_fun_id[TypeOf(x)]
  BY DEF CallInv, ConfigTypeOK, AddCalls
<1> HIDE DEF c
<1>3. call \in [Thread -> Calls] /\ t \in Thread /\ Idle.pc = "idle"
  BY DEF CallInv, ConfigTypeOK, Idle
<1>4. ConfigTypeOK'
  BY <1>1, <1>2, <1>3 DEF CallInv, ConfigTypeOK, Calls
<1>5. Counted'
  BY <1>1, <1>2, <1>3 DEF CallInv, Counted
<1>6. Defines'
  BY <1>1, <1>2, <1>3 DEF CallInv, Defines
<1>7. Locks'
  BY <1>1, <1>2, <1>3 DEF CallInv, ConfigTypeOK, Locks
<1>8. Roles'
  BY <1>1, <1>2, <1>3 DEF CallInv, Roles
<1>9. Registry'
  BY <1>1 DEF CallInv, Registry
<1> QED BY <1>4, <1>5, <1>6, <1>7, <1>8, <1>9 DEF CallInv

LEMMA CountKeeps ==
    ASSUME CallInv, NEW t \in Thread, count(t)
    PROVE  CallInv'
<1> USE LogConfigAssumption, ConfigVarAssumption
<1> DEFINE c == [call[t] EXCEPT !.pc = "insert"]
           T == TypeOf(call[t].var)
<1>1. call[t] \in AddCalls /\ call[t].pc = "count"
  BY CallCases DEF CallInv, ConfigTypeOK, count
<1>2. /\ c \in AddCalls /\ c.pc = "insert" /\ c.var = call[t].var /\ c.cb = call[t].cb
      /\ call[t].id \in 0 .. MaxId /\ call[t].var \in Var
  BY <1>1 DEF AddCalls
<1>3. /\ call' = [call EXCEPT ![t] = c] /\ UNCHANGED <<m_val, m_cbs, readers, writer, knows>>
      /\ s_fun_id' = [s_fun_id EXCEPT ![T] = call[t].id + 1]
  BY DEF count
<1> HIDE DEF c
<1>4. /\ call \in [Thread -> Calls] /\ call[t].id < MaxId
      /\ T = TypeOf(Logs) => call[t].id >= 1
  BY <1>1 DEF CallInv, ConfigTypeOK, Counted
<1>5. ConfigTypeOK'
  BY <1>2, <1>3, <1>4 DEF CallInv, ConfigTypeOK, Calls
<1>6. Counted'
  BY <1>1, <1>2, <1>3, <1>4, LogsAssumption DEF CallInv, ConfigTypeOK, Counted
<1>7. Defines'
  BY <1>2, <1>3, <1>4 DEF CallInv, Defines
<1>8. Locks'
  BY <1>1, <1>2, <1>3, <1>4 DEF CallInv, Locks
<1>9. Roles'
  BY <1>1, <1>2, <1>3, <1>4 DEF CallInv, Roles
<1>10. Registry'
  BY <1>3 DEF CallInv, Registry
<1> QED BY <1>5, <1>6, <1>7, <1>8, <1>9, <1>10 DEF CallInv

LEMMA MapsFields ==
    ASSUME NEW f \in Maps
    PROVE  DOMAIN f \subseteq Ids /\ \A i \in DOMAIN f : f[i] \in Callback
  BY DEF Maps

LEMMA InMaps ==
    ASSUME NEW I \in SUBSET Ids, NEW f \in [I -> Callback]
    PROVE  f \in Maps
  BY DEF Maps

LEMMA InsertKeeps ==
    ASSUME CallInv, NEW t \in Thread, insert(t)
    PROVE  CallInv'
<1> USE LogConfigAssumption, ConfigVarAssumption
<1> DEFINE x == call[t].var
           id == s_fun_id[TypeOf(x)]
           c == [call[t] EXCEPT !.pc = "answer", !.id = id]
           m == [i \in DOMAIN m_cbs[x] \cup {id} |-> IF i = id THEN call[t].cb ELSE m_cbs[x][i]]
<1>1. call[t] \in AddCalls /\ call[t].pc = "insert"
  BY CallCases DEF CallInv, ConfigTypeOK, insert
<1>2. x \in Var /\ call[t].cb \in Callback
  BY <1>1 DEF AddCalls
<1>3. id \in Ids /\ id \in 0 .. MaxId
  BY <1>1, <1>2 DEF CallInv, ConfigTypeOK, Counted, Ids
<1>4. c \in AddCalls /\ c.pc = "answer" /\ c.var = x /\ c.cb = call[t].cb
  <2> HIDE DEF id
  <2> QED BY <1>1, <1>3 DEF AddCalls
<1>5. /\ call' = [call EXCEPT ![t] = c] /\ UNCHANGED <<m_val, s_fun_id, readers, writer>>
      /\ m_cbs' = [m_cbs EXCEPT ![x] = m]
  BY DEF insert
<1>6. m \in Maps
  <2>1. m_cbs[x] \in Maps
    BY <1>2 DEF CallInv, ConfigTypeOK
  <2>2. m \in [DOMAIN m_cbs[x] \cup {id} -> Callback]
    BY <1>2, <2>1, MapsFields
  <2> QED BY <1>3, <2>1, <2>2, MapsFields, InMaps
<1>7. knows' \in [Var -> [Callback -> [val : Value, late : BOOLEAN]]]
  BY <1>2 DEF insert, CallInv, ConfigTypeOK, Pending
<1>8. call \in [Thread -> Calls] /\ m_cbs \in [Var -> Maps]
  BY DEF CallInv, ConfigTypeOK
<1>9. /\ \A i \in DOMAIN m_cbs[x] : i # id => m[i] = m_cbs[x][i]
      /\ m[id] = call[t].cb /\ DOMAIN m = DOMAIN m_cbs[x] \cup {id}
  OBVIOUS
<1>10. /\ writer[x] = t /\ call[t].cb \notin Stepwise
       /\ x = Logs => id # 1
  BY <1>1, <1>2, <1>3 DEF CallInv, Locks, Roles, Counted, Ids
<1> HIDE DEF c, m, x, id
<1>11. ConfigTypeOK'
  BY <1>2, <1>4, <1>5, <1>6, <1>7, <1>8 DEF CallInv, ConfigTypeOK, Calls
<1>12. Counted'
  BY <1>4, <1>5, <1>8 DEF CallInv, Counted
<1>13. Defines'
  BY <1>4, <1>5, <1>8 DEF CallInv, Defines
<1>14. Locks'
  <2>1. ASSUME NEW u \in Thread, call'[u].pc = "notify"
        PROVE  /\ u \in readers[call'[u].var] /\ m_val[call'[u].var] = call'[u].old
               /\ call'[u].todo \subseteq DOMAIN m_cbs'[call'[u].var]
    <3>1. u # t /\ call'[u] = call[u]
      BY <1>4, <1>5, <1>8, <2>1
    <3>2. call[u] \in SetCalls /\ call[u].var \in Var
      BY <1>8, <2>1, <3>1, CallCases DEF SetCalls
    <3>3. call[u].var # x
      BY <1>2, <1>10, <2>1, <3>1, <3>2 DEF CallInv, Locks
    <3> QED BY <1>5, <1>8, <2>1, <3>1, <3>2, <3>3 DEF CallInv, Locks
  <2>2. \A u \in Thread : call'[u].pc \in {"count", "insert", "answer"} => writer[call'[u].var] = u
    BY <1>1, <1>4, <1>5, <1>8, <1>10 DEF CallInv, Locks, x
  <2> QED BY <1>5, <2>1, <2>2 DEF CallInv, Locks
<1>15. Roles'
  BY <1>1, <1>4, <1>5, <1>8 DEF CallInv, Roles
<1>16. Registry'
  BY <1>2, <1>5, <1>8, <1>9, <1>10, LogsAssumption DEF CallInv, Registry
<1> QED BY <1>11, <1>12, <1>13, <1>14, <1>15, <1>16 DEF CallInv

LEMMA AnswerKeeps ==
    ASSUME CallInv, NEW t \in Thread, answer(t)
    PROVE  CallInv'
<1> USE LogConfigAssumption, ConfigVarAssumption
<1>1. call[t] \in AddCalls /\ call[t].pc = "answer"
  BY CallCases DEF CallInv, ConfigTypeOK, answer
<1>2. /\ call' = [call EXCEPT ![t] = Idle] /\ UNCHANGED <<m_val, m_cbs, s_fun_id, readers, knows>>
      /\ writer' = [writer EXCEPT ![call[t].var] = NoThread]
  BY DEF answer
<1>3. /\ call \in [Thread -> Calls] /\ call[t].var \in Var /\ Idle.pc = "idle"
      /\ writer[call[t].var] = t
  BY <1>1 DEF CallInv, ConfigTypeOK, Locks, Idle, AddCalls
<1>4. ConfigTypeOK'
  BY <1>2, <1>3 DEF CallInv, ConfigTypeOK, Calls
<1>5. Counted'
  BY <1>2, <1>3 DEF CallInv, Counted
<1>6. Defines'
  BY <1>2, <1>3 DEF CallInv, Defines
<1>7. Locks'
  BY <1>2, <1>3 DEF CallInv, ConfigTypeOK, Locks
<1>8. Roles'
  BY <1>2, <1>3 DEF CallInv, Roles
<1>9. Registry'
  BY <1>2 DEF CallInv, Registry
<1> QED BY <1>4, <1>5, <1>6, <1>7, <1>8, <1>9 DEF CallInv

LEMMA DelListenerKeeps ==
    ASSUME CallInv, NEW t \in Thread, NEW x \in Var, NEW key \in DOMAIN m_cbs[x],
           m_cbs[x][key] \notin Stepwise, delListener(t, x, key)
    PROVE  CallInv'
<1> USE LogConfigAssumption, ConfigVarAssumption
<1> DEFINE m == [i \in DOMAIN m_cbs[x] \ {key} |-> m_cbs[x][i]]
<1>1. /\ m_cbs' = [m_cbs EXCEPT ![x] = m] /\ UNCHANGED <<m_val, s_fun_id, readers, writer, call, knows>>
      /\ readers[x] = {}
  BY DEF delListener, CanWrite
<1>2. m \in Maps
  <2>1. m_cbs[x] \in Maps
    BY DEF CallInv, ConfigTypeOK
  <2>2. m \in [DOMAIN m_cbs[x] \ {key} -> Callback]
    BY <2>1, MapsFields
  <2> QED BY <2>1, <2>2, MapsFields, InMaps
<1>3. DOMAIN m = DOMAIN m_cbs[x] \ {key} /\ \A i \in DOMAIN m : m[i] = m_cbs[x][i]
  OBVIOUS
<1>4. m_cbs \in [Var -> Maps]
  BY DEF CallInv, ConfigTypeOK
<1> HIDE DEF m
<1>5. ConfigTypeOK'
  BY <1>1, <1>2 DEF CallInv, ConfigTypeOK
<1>6. Counted' /\ Defines' /\ Roles'
  BY <1>1 DEF CallInv, Counted, Defines, Roles
<1>7. Locks'
  <2>1. ASSUME NEW u \in Thread, call[u].pc = "notify"
        PROVE  call[u].todo \subseteq DOMAIN m_cbs'[call[u].var]
    BY <1>1, <1>4, <2>1 DEF CallInv, Locks
  <2> QED BY <1>1, <2>1 DEF CallInv, Locks
<1>8. Registry'
  BY <1>1, <1>3, <1>4, LogsAssumption DEF CallInv, Registry
<1> QED BY <1>5, <1>6, <1>7, <1>8 DEF CallInv

-----------------------------------------------------------------------------
(* The steps of the program, as the variables see them                      *)

\* A step of LogIniter's listener, which a call waits for.
ListenerStep(t) == startChange(t) \/ Change(t)

\* What a step does to the variables of ConfigVar and to the jobs.
CallStep ==
    \/ \E t \in Main, x \in Var, v \in Value :
          /\ x = Logs => IsDefines(v)
          /\ call[t] = Idle /\ setValue(t, x, v) /\ job' = job
    \/ \E t \in Thread : MethodStep(t) /\ job' = job
    \/ \E t \in Main : /\ Told(t, LogIniter) /\ job[t].pc = "get" /\ Left(t) = {}
                       /\ job' = [job EXCEPT ![t] = NoJob]
    \/ \E w \in Worker, x \in Var, c \in Callback \ Stepwise : addListener(w, x, c) /\ job' = job
    \/ \E w \in Worker, x \in Var : \E key \in DOMAIN m_cbs[x] :
          m_cbs[x][key] \notin Stepwise /\ delListener(w, x, key) /\ job' = job
    \/ UNCHANGED cvars /\ (job' = job \/ \E t \in Main : ListenerStep(t))

LEMMA ItemTyped ==
    ASSUME NEW t \in Main, loading \in [Main -> Seq(Item)], loading[t] # <<>>
    PROVE  LET i == Head(loading[t]) IN
           /\ i \in Item /\ i.path \in Var
           /\ Cast(i.path, i.value) \in Value \cup {Failed}
           /\ i.path = Logs => IsDefines(Cast(Logs, i.value))
<1>1. loading[t] \in Seq(Item)
  OBVIOUS
<1>2. Head(loading[t]) \in Item
  <2> HIDE DEF Item
  <2> QED BY <1>1
<1> QED BY <1>2, FilesAssumption

LEMMA LoadNextCall ==
    ASSUME LogConfigTypeOK, NEW t \in Main, LoadNext(t)
    PROVE  CallStep
<1> DEFINE x == Head(loading[t]).path
           v == Cast(x, Head(loading[t]).value)
<1>1. x \in Var /\ v \in Value \cup {Failed} /\ (x = Logs => IsDefines(v))
  BY ItemTyped DEF LogConfigTypeOK, LoadNext
<1>2. job' = job /\ call[t] = Idle
  BY DEF LoadNext
<1>3. UNCHANGED cvars \/ (v # Failed /\ setValue(t, x, v))
  BY DEF LoadNext
<1> HIDE DEF x, v
<1> QED BY <1>1, <1>2, <1>3 DEF CallStep

LEMMA StepsOfCalls ==
    ASSUME LogConfigTypeOK, [Next]_vars
    PROVE  CallStep
<1> USE LogConfigAssumption, ConfigVarAssumption
<1>1. ASSUME NEW t \in Main, Load(t) PROVE CallStep
  BY <1>1 DEF Load, CallStep
<1>2. ASSUME NEW t \in Main, MainStep(t) PROVE CallStep
  <2>1. CASE LoadNext(t)
    BY <2>1, LoadNextCall
  <2>2. CASE startChange(t)
    BY <2>2 DEF startChange, CallStep, ListenerStep
  <2>3. CASE Change(t)
    BY <2>3 DEF Change, CallStep, ListenerStep
  <2>4. CASE endChange(t)
    BY <2>4 DEF endChange, CallStep
  <2> QED BY <1>2, <2>1, <2>2, <2>3, <2>4 DEF MainStep
<1>3. ASSUME NEW w \in Worker, Listen(w) PROVE CallStep
  BY <1>3 DEF Listen, CallStep, LogConfigTypeOK
<1>4. ASSUME NEW w \in Worker, ThreadStep(w) \/ LogAppend(w) PROVE CallStep
  BY <1>4 DEF ThreadStep, LogAppend, CallStep
<1>5. ASSUME NEW w \in Worker, NEW x \in Var, Lookup(w, x) PROVE CallStep
  BY <1>5 DEF Lookup, CallStep
<1>6. ASSUME NEW w \in Worker, NEW n \in Name, NameLogger(w, n) PROVE CallStep
  BY <1>6 DEF NameLogger, CallStep
<1>7. ASSUME NEW w \in Worker, NEW n \in Name, NEW level \in Level, LogCheck(w, n, level)
      PROVE CallStep
  BY <1>7 DEF LogCheck, CallStep
<1>8. ASSUME NEW t \in Thread, VarStep(t) PROVE CallStep
  BY <1>8 DEF VarStep, CallStep
<1>9. CASE Done \/ UNCHANGED vars
  BY <1>9 DEF Done, vars, CallStep
<1> QED BY <1>1, <1>2, <1>3, <1>4, <1>5, <1>6, <1>7, <1>8, <1>9 DEF Next

LEMMA CallInvUnchanged ==
    ASSUME CallInv, UNCHANGED cvars
    PROVE  CallInv'
<1>1. ConfigTypeOK' /\ Counted' /\ Defines'
  BY DEF CallInv, cvars, ConfigTypeOK, Counted, Defines
<1>2. Locks' /\ Roles' /\ Registry'
  BY DEF CallInv, cvars, Locks, Roles, Registry
<1> QED BY <1>1, <1>2 DEF CallInv

LEMMA CallInvStep ==
    ASSUME CallInv, CallStep
    PROVE  CallInv'
<1> USE LogConfigAssumption, ConfigVarAssumption
<1>1. ASSUME NEW t \in Thread, MethodStep(t) PROVE CallInv'
  BY <1>1, ToldKeeps, EndNotifyKeeps, WriteKeeps, CountKeeps, InsertKeeps, AnswerKeeps
     DEF MethodStep, notify
<1>2. ASSUME NEW t \in Main, Told(t, LogIniter) PROVE CallInv'
  BY <1>2, ToldKeeps
<1>3. ASSUME NEW w \in Worker, NEW x \in Var, NEW key \in DOMAIN m_cbs[x],
             m_cbs[x][key] \notin Stepwise, delListener(w, x, key)
      PROVE CallInv'
  BY <1>3, DelListenerKeeps
<1> QED BY <1>1, <1>2, <1>3, SetValueKeeps, AddListenerKeeps, CallInvUnchanged DEF CallStep

\* While 1 is to come, LogIniter's listener is the one whose turn it is.
LEMMA LogIniterFirst ==
    ASSUME CallInv, NEW t \in Thread, call[t].pc = "notify", call[t].var = Logs, 1 \in call[t].todo
    PROVE  Turn(t) = 1 /\ m_cbs[Logs][Turn(t)] = LogIniter
<1>1. call[t].todo \in SUBSET Ids
  BY CallCases DEF CallInv, ConfigTypeOK, SetCalls
<1>2. Turn(t) \in call[t].todo /\ \A j \in call[t].todo : Turn(t) <= j
  BY TurnIsLeast DEF CallInv
<1>3. Turn(t) = 1
  BY <1>1, <1>2, ConfigVarAssumption DEF Ids
<1> QED BY <1>3 DEF CallInv, Registry

\* A thread in LogIniter's listener is at "logs", and 1 is to come.
LEMMA CallingLogIniter ==
    ASSUME CallInv, NEW t \in Thread, Calling(t, LogIniter)
    PROVE  call[t].pc = "notify" /\ call[t].var = Logs /\ Turn(t) = 1 /\ 1 \in call[t].todo
<1>1. call[t] \in SetCalls /\ call[t].pc = "notify" /\ call[t].todo # {}
  BY CallCases DEF CallInv, ConfigTypeOK, Calling
<1>2. Turn(t) \in call[t].todo
  BY <1>1, TurnIsLeast DEF CallInv
<1>3. call[t].var \in Var /\ Turn(t) \in DOMAIN m_cbs[call[t].var]
  BY <1>1, <1>2 DEF CallInv, Locks, SetCalls
<1>4. m_cbs[call[t].var][Turn(t)] \in Stepwise
  BY LogConfigAssumption DEF Calling
<1>5. call[t].var = Logs /\ Turn(t) = 1
  BY <1>3, <1>4 DEF CallInv, Registry
<1> QED BY <1>1, <1>2, <1>5

\* During a job the call does not move.
LEMMA JobHolds ==
    ASSUME CallInv, Jobs, NEW m \in Main, job[m] # NoJob, NEW t \in Thread, MethodStep(t)
    PROVE  call'[m] = call[m] /\ t # m
<1>1. call[m].pc = "notify" /\ call[m].var = Logs /\ 1 \in call[m].todo /\ m \in Thread
  BY LogConfigAssumption DEF Jobs
<1>2. m_cbs[Logs][Turn(m)] = LogIniter
  BY <1>1, LogIniterFirst
<1>3. ~MethodStep(m)
  BY <1>1, <1>2, LogConfigAssumption
     DEF MethodStep, notify, Told, Calling, endNotify, write, count, insert, answer
<1>4. t # m /\ call \in [Thread -> Calls]
  BY <1>3 DEF CallInv, ConfigTypeOK
<1> QED BY <1>1, <1>4 DEF MethodStep, notify, Told, endNotify, write, count, insert, answer

\* A job begins where its call is at LogIniter's listener, goes on by the steps
\* of the listener, and the call does not move until its end.
LEMMA JobMoves ==
    ASSUME LogConfigTypeOK, CallInv, Jobs, CallStep, NEW u \in Main, job'[u] # NoJob
    PROVE  /\ call'[u] = call[u]
           /\ \/ job[u] # NoJob /\ job'[u] = job[u]
              \/ job[u] # NoJob /\ Change(u)
              \/ job[u] = NoJob /\ startChange(u)
<1> USE LogConfigAssumption
<1>1. call \in [Thread -> Calls] /\ u \in Thread /\ job \in [Main -> {NoJob} \cup ActiveJob]
  BY DEF CallInv, ConfigTypeOK, LogConfigTypeOK
<1>2. job[u] # NoJob => call[u].pc = "notify" /\ call[u].var = Logs /\ 1 \in call[u].todo
  BY DEF Jobs
<1>3. ASSUME NEW t \in Thread, call[t] = Idle, job' = job, NEW c, call' = [call EXCEPT ![t] = c]
      PROVE  call'[u] = call[u]
  BY <1>1, <1>2, <1>3 DEF Idle
<1>4. CASE \E t \in Main, x \in Var, v \in Value :
              /\ x = Logs => IsDefines(v)
              /\ call[t] = Idle /\ setValue(t, x, v) /\ job' = job
  BY <1>3, <1>4 DEF setValue
<1>5. CASE \E t \in Thread : MethodStep(t) /\ job' = job
  BY <1>5, JobHolds
<1>6. CASE \E t \in Main : /\ Told(t, LogIniter) /\ job[t].pc = "get" /\ Left(t) = {}
                           /\ job' = [job EXCEPT ![t] = NoJob]
  BY <1>1, <1>6 DEF Told
<1>7. CASE \E w \in Worker, x \in Var, c \in Callback \ Stepwise : addListener(w, x, c) /\ job' = job
  BY <1>3, <1>7 DEF addListener
<1>8. CASE \E w \in Worker, x \in Var : \E key \in DOMAIN m_cbs[x] :
              m_cbs[x][key] \notin Stepwise /\ delListener(w, x, key) /\ job' = job
  BY <1>8 DEF delListener
<1>9. CASE UNCHANGED cvars /\ (job' = job \/ \E t \in Main : ListenerStep(t))
  <2>1. CASE job' = job
    BY <1>9, <2>1 DEF cvars
  <2>2. ASSUME NEW t \in Main, startChange(t)
        PROVE (job[u] # NoJob /\ job'[u] = job[u]) \/ (job[u] = NoJob /\ startChange(u))
    <3>1. u # t => job'[u] = job[u]
      BY <1>1, <2>2 DEF startChange
    <3> QED BY <2>2, <3>1 DEF startChange
  <2>3. ASSUME NEW t \in Main, Change(t)
        PROVE job[u] # NoJob /\ (job'[u] = job[u] \/ Change(u))
    <3>1. job[t] # NoJob
      BY <2>3 DEF Change, changeGet, changeLevel, changeFormatter, changeClear, changeAdd, JobAt, NoJob
    <3>2. u # t => job'[u] = job[u]
      BY <1>1, <2>3
         DEF Change, changeGet, changeLevel, changeFormatter, changeClear, changeAdd, Goto
    <3> QED BY <2>3, <3>1, <3>2
  <2> QED BY <1>9, <2>1, <2>2, <2>3 DEF ListenerStep, cvars
<1> QED BY <1>4, <1>5, <1>6, <1>7, <1>8, <1>9 DEF CallStep

LEMMA JobsStep ==
    ASSUME LogConfigTypeOK, CallInv, Jobs, CallStep
    PROVE  Jobs'
<1> SUFFICES ASSUME NEW u \in Main, job'[u] # NoJob
             PROVE  /\ call'[u].pc = "notify" /\ call'[u].var = Logs /\ 1 \in call'[u].todo
                    /\ job'[u].pc = "formatter" => Kept(u)'
  BY DEF Jobs
<1>1. call'[u] = call[u] /\ u \in Thread /\ job \in [Main -> {NoJob} \cup ActiveJob]
  BY JobMoves, LogConfigAssumption DEF LogConfigTypeOK
<1>2. CASE job[u] # NoJob /\ job'[u] = job[u]
  BY <1>1, <1>2 DEF Jobs, Kept, Current, Left
<1>3. CASE job[u] # NoJob /\ Change(u)
  <2>1. job'[u].pc = "formatter" => changeLevel(u) /\ Kept(u)
    BY <1>1, <1>3
       DEF Change, changeGet, changeLevel, changeFormatter, changeClear, changeAdd, Goto, ActiveJob, JobAt
  <2>2. changeLevel(u) => job'[u].changed = job[u].changed /\ job'[u].gone = job[u].gone
    BY <1>1, <1>3 DEF changeLevel, Goto, ActiveJob
  <2>3. job'[u].pc = "formatter" => Kept(u)'
    BY <1>1, <2>1, <2>2 DEF Kept, Current, Left
  <2> QED BY <1>1, <1>3, <2>3 DEF Jobs
<1>4. CASE job[u] = NoJob /\ startChange(u)
  <2>1. job'[u].pc = "get" /\ Calling(u, LogIniter)
    BY <1>1, <1>4 DEF startChange
  <2> QED BY <1>1, <2>1, CallingLogIniter
<1> QED BY <1>2, <1>3, <1>4, JobMoves

-----------------------------------------------------------------------------
(* Loggers                                                                  *)

LEMMA FirstNameIn ==
    ASSUME NEW S \in SUBSET Name, S # {}
    PROVE  FirstName(S) \in S
<1> DEFINE I == {i \in DOMAIN NameOrder : NameOrder[i] \in S}
<1>1. NameOrder \in Seq(STRING) /\ DOMAIN NameOrder = 1 .. Len(NameOrder)
  BY LoggerAssumption
<1>2. I \in SUBSET Nat /\ I # {}
  BY <1>1 DEF Name, Range
<1>3. PICK i \in I : \A j \in I : i <= j
  BY <1>2, LeastOf
<1>4. i \in DOMAIN NameOrder /\ NameOrder[i] \in S
      /\ \A j \in DOMAIN NameOrder : NameOrder[j] \in S => i <= j
  BY <1>3
<1> QED BY <1>4 DEF FirstName

\* What a formatter must be for the logger and its appenders.
Follows(l) ==
    /\ ~isError(l.m_formatter)
    /\ \A i \in DOMAIN l.m_appenders :
          IF l.m_appenders[i].m_hasFormatter
          THEN ~isError(l.m_appenders[i].m_formatter)
          ELSE l.m_appenders[i].m_formatter = l.m_formatter

LEMMA NewLoggerFollows ==
    NewLogger \in Logger /\ Follows(NewLogger)
  BY LoggerAssumption DEF NewLogger, Logger, Follows, UNKNOW, DEBUG, FATAL

LEMMA MadeFollows ==
    ASSUME NEW l \in Logger, Follows(l), NEW b \in BOOLEAN
    PROVE  [l EXCEPT !.made = b] \in Logger /\ Follows([l EXCEPT !.made = b])
  BY DEF Logger, Follows

LEMMA WithLevelFollows ==
    ASSUME NEW l \in Logger, Follows(l), NEW v \in UNKNOW .. FATAL
    PROVE  /\ WithLevel(l, v) \in Logger /\ Follows(WithLevel(l, v))
           /\ WithLevel(l, v) = [l EXCEPT !.m_level = v]
  BY DEF Logger, Follows, WithLevel

LEMMA ClearedFollows ==
    ASSUME NEW l \in Logger, Follows(l)
    PROVE  /\ Cleared(l) \in Logger /\ Follows(Cleared(l))
           /\ Cleared(l).made = l.made /\ Cleared(l).m_level = l.m_level
           /\ Cleared(l).m_formatter = l.m_formatter /\ Cleared(l).m_appenders = <<>>
<1>1. <<>> \in Seq(LogAppender) /\ DOMAIN <<>> = {}
  OBVIOUS
<1>2. Cleared(l) = [l EXCEPT !.m_appenders = <<>>]
  BY DEF Cleared
<1>3. /\ Cleared(l) \in Logger /\ Cleared(l).m_appenders = <<>>
      /\ Cleared(l).m_formatter = l.m_formatter
      /\ Cleared(l).made = l.made /\ Cleared(l).m_level = l.m_level
  BY <1>1, <1>2 DEF Logger
<1> QED BY <1>1, <1>3 DEF Follows

LEMMA WithFormatterFollows ==
    ASSUME NEW l \in Logger, Follows(l), NEW p \in Pattern
    PROVE  /\ WithFormatter(l, p) \in Logger /\ Follows(WithFormatter(l, p))
           /\ WithFormatter(l, p).made = l.made /\ WithFormatter(l, p).m_level = l.m_level
           /\ ~isError(p) => WithFormatter(l, p).m_formatter = p
           /\ DOMAIN WithFormatter(l, p).m_appenders = DOMAIN l.m_appenders
<1> DEFINE apps == [i \in DOMAIN l.m_appenders |->
                        IF l.m_appenders[i].m_hasFormatter THEN l.m_appenders[i]
                        ELSE [l.m_appenders[i] EXCEPT !.m_formatter = p]]
<1>1. CASE isError(p)
  BY <1>1 DEF WithFormatter
<1>2. CASE ~isError(p)
  <2>1. l.m_appenders \in Seq(LogAppender)
    BY DEF Logger
  <2>2. ASSUME NEW i \in DOMAIN l.m_appenders PROVE apps[i] \in LogAppender
    <3>1. l.m_appenders[i] \in LogAppender
      BY <2>1
    <3> QED BY <3>1 DEF LogAppender
  <2>3. apps \in Seq(LogAppender)
    <3>1. DOMAIN l.m_appenders = 1 .. Len(l.m_appenders) /\ Len(l.m_appenders) \in Nat
      BY <2>1
    <3>2. apps \in [1 .. Len(l.m_appenders) -> LogAppender]
      BY <2>2, <3>1
    <3> HIDE DEF apps
    <3> QED BY <3>1, <3>2
  <2>4. \A i \in DOMAIN apps :
            IF apps[i].m_hasFormatter THEN ~isError(apps[i].m_formatter)
            ELSE apps[i].m_formatter = p
    BY <2>1 DEF Follows, LogAppender
  <2>5. WithFormatter(l, p) = [l EXCEPT !.m_formatter = p, !.m_appenders = apps]
    BY <1>2 DEF WithFormatter
  <2> HIDE DEF apps
  <2>6. /\ WithFormatter(l, p) \in Logger
        /\ WithFormatter(l, p).m_formatter = p /\ WithFormatter(l, p).m_appenders = apps
        /\ WithFormatter(l, p).made = l.made /\ WithFormatter(l, p).m_level = l.m_level
    BY <2>3, <2>5 DEF Logger
  <2>7. DOMAIN apps = DOMAIN l.m_appenders
    BY DEF apps
  <2> QED BY <1>2, <2>4, <2>6, <2>7 DEF Follows
<1> QED BY <1>1, <1>2

\* An appender of a define has a formatter of its own only if it has no error.
LEMMA AppenderTyped ==
    ASSUME NEW a \in LogAppenderDefine
    PROVE  /\ Appender(a) \in LogAppender
           /\ IF Appender(a).m_hasFormatter
              THEN Appender(a).m_formatter # <<>> /\ ~isError(Appender(a).m_formatter)
              ELSE Appender(a).m_formatter = <<>>
<1> DEFINE na == NewAppender(a.type, a.file)
           ap == [na EXCEPT !.m_level = a.level]
<1>1. /\ a.type \in 1 .. 2 /\ a.file \in FileName /\ a.level \in UNKNOW .. FATAL
      /\ a.formatter \in Pattern
  BY DEF LogAppenderDefine
<1>2. <<>> \in Pattern
  BY DEF Pattern
<1>3. na \in LogAppender /\ na.m_hasFormatter = FALSE /\ na.m_formatter = <<>>
  BY <1>1, <1>2 DEF NewAppender, LogAppender, UNKNOW, DEBUG, FATAL
<1> HIDE DEF na
<1>4. ap \in LogAppender /\ ap.m_hasFormatter = FALSE /\ ap.m_formatter = <<>>
  BY <1>1, <1>3 DEF LogAppender
<1>5. Appender(a) = IF a.formatter = <<>> \/ isError(a.formatter) THEN ap
                    ELSE [ap EXCEPT !.m_formatter = a.formatter, !.m_hasFormatter = TRUE]
  BY DEF Appender, AppenderSetFormatter, na
<1>6. CASE a.formatter = <<>> \/ isError(a.formatter)
  <2>1. Appender(a) = ap
    BY <1>5, <1>6
  <2> HIDE DEF ap
  <2> QED BY <1>4, <2>1
<1>7. CASE ~(a.formatter = <<>> \/ isError(a.formatter))
  <2>1. Appender(a) = [ap EXCEPT !.m_formatter = a.formatter, !.m_hasFormatter = TRUE]
    BY <1>5, <1>7
  <2>2. /\ Appender(a) \in LogAppender /\ Appender(a).m_hasFormatter = TRUE
        /\ Appender(a).m_formatter = a.formatter
    BY <1>1, <1>4, <2>1 DEF LogAppender
  <2> QED BY <1>7, <2>2
<1> QED BY <1>6, <1>7

LEMMA EmptySeq ==
    ASSUME NEW S, NEW s \in Seq(S)
    PROVE  s = <<>> <=> DOMAIN s = {}
<1>1. DOMAIN s = 1 .. Len(s) /\ Len(s) \in Nat
  OBVIOUS
<1>2. DOMAIN s = {} => Len(s) = 0
  BY <1>1
<1> QED BY <1>2

\* The appender the root logger starts with.
LEMMA RootAppenderTyped ==
    /\ NewAppender(2, NoFile) \in LogAppender
    /\ NewAppender(2, NoFile).m_formatter = <<>> /\ NewAppender(2, NoFile).m_hasFormatter = FALSE
<1>1. <<>> \in Pattern
  BY DEF Pattern
<1>2. NoFile \in FileName /\ DEBUG \in UNKNOW .. FATAL
  BY LogDefineAssumption DEF UNKNOW, DEBUG, FATAL
<1> QED BY <1>1, <1>2 DEF NewAppender, LogAppender

LEMMA WithAppenderFollows ==
    ASSUME NEW l \in Logger, Follows(l), NEW a \in LogAppender,
           IF a.m_hasFormatter THEN a.m_formatter # <<>> /\ ~isError(a.m_formatter)
           ELSE a.m_formatter = <<>>
    PROVE  /\ WithAppender(l, a) \in Logger /\ Follows(WithAppender(l, a))
           /\ WithAppender(l, a).made = l.made /\ WithAppender(l, a).m_level = l.m_level
           /\ WithAppender(l, a).m_formatter = l.m_formatter
           /\ WithAppender(l, a).m_appenders # <<>>
<1> DEFINE b == IF a.m_formatter = <<>> THEN [a EXCEPT !.m_formatter = l.m_formatter] ELSE a
           apps == Append(l.m_appenders, b)
<1>1. l.m_appenders \in Seq(LogAppender) /\ l.m_formatter \in Pattern
  BY DEF Logger
<1>2. /\ b \in LogAppender /\ b.m_hasFormatter = a.m_hasFormatter
      /\ IF a.m_hasFormatter THEN b.m_formatter = a.m_formatter ELSE b.m_formatter = l.m_formatter
  BY <1>1 DEF LogAppender
<1> HIDE DEF b
<1>3. /\ apps \in Seq(LogAppender) /\ apps # <<>>
      /\ \A i \in DOMAIN apps : apps[i] = b \/ (i \in DOMAIN l.m_appenders /\ apps[i] = l.m_appenders[i])
  <2> DEFINE s == l.m_appenders
  <2>1. s \in Seq(LogAppender) /\ b \in LogAppender /\ apps = Append(s, b)
    BY <1>1, <1>2
  <2> HIDE DEF s, apps, LogAppender
  <2>2. apps \in Seq(LogAppender) /\ Len(apps) = Len(s) + 1
    BY <2>1
  <2>3. \A i \in DOMAIN apps : apps[i] = b \/ (i \in DOMAIN s /\ apps[i] = s[i])
    BY <2>1
  <2> QED BY <2>1, <2>2, <2>3 DEF s
<1>4. WithAppender(l, a) = [l EXCEPT !.m_appenders = apps]
  BY DEF WithAppender, b
<1> HIDE DEF apps
<1>5. /\ WithAppender(l, a) \in Logger /\ WithAppender(l, a).m_appenders = apps
      /\ WithAppender(l, a).made = l.made /\ WithAppender(l, a).m_level = l.m_level
      /\ WithAppender(l, a).m_formatter = l.m_formatter
  BY <1>3, <1>4 DEF Logger
<1> QED BY <1>2, <1>3, <1>5 DEF Follows

LEMMA LoggersTyped ==
    LoggerTypeOK /\ FormattersFollow <=>
        LoggerTypeOK /\ \A n \in Name : m_loggers[n] \in Logger /\ Follows(m_loggers[n])
  BY DEF FormattersFollow, Follows, LoggerTypeOK

\* Replacing one logger.
LEMMA OneLogger ==
    ASSUME LoggerTypeOK, FormattersFollow, NEW n \in Name, NEW l \in Logger, Follows(l),
           m_loggers' = [m_loggers EXCEPT ![n] = l]
    PROVE  LoggerTypeOK' /\ FormattersFollow'
<1>1. m_loggers' \in [Name -> Logger]
  BY DEF LoggerTypeOK
<1>2. \A k \in Name : Follows(m_loggers'[k])
  BY LoggersTyped DEF LoggerTypeOK
<1> QED BY <1>1, <1>2 DEF LoggerTypeOK, FormattersFollow, Follows

\* What the listener works on.
LEMMA JobTyped ==
    ASSUME LogConfigTypeOK, CallInv, Jobs, NEW t \in Main, job[t] # NoJob
    PROVE  /\ job[t] \in ActiveJob /\ call[t] \in SetCalls
           /\ call[t].pc = "notify" /\ call[t].var = Logs /\ 1 \in call[t].todo
           /\ IsDefines(call[t].new) /\ IsDefines(call[t].old)
           /\ Left(t) # {} => Current(t) \in Left(t) /\ Current(t) \in Name
           /\ Kept(t) => Define(t) \in LogDefine
<1>1. job[t] \in ActiveJob
  BY DEF LogConfigTypeOK
<1>2. call[t].pc = "notify" /\ call[t].var = Logs /\ 1 \in call[t].todo /\ t \in Thread
  BY LogConfigAssumption DEF Jobs
<1>3. IsDefines(call[t].new) /\ IsDefines(call[t].old)
  BY <1>2 DEF CallInv, Defines
<1>4. call[t] \in SetCalls
  BY <1>2, CallCases DEF CallInv, ConfigTypeOK
<1>5. Left(t) \in SUBSET Name
  BY <1>1 DEF Left, ActiveJob
<1>6. Left(t) # {} => Current(t) \in Left(t) /\ Current(t) \in Name
  BY <1>5, FirstNameIn DEF Current
<1> QED BY <1>1, <1>2, <1>3, <1>4, <1>6 DEF IsDefines, Kept, Define

LEMMA ChangeKeepsLoggers ==
    ASSUME LogConfigTypeOK, CallInv, Jobs, FormattersFollow, NEW t \in Main, Change(t)
    PROVE  LoggerTypeOK' /\ FormattersFollow'
<1> DEFINE n == Current(t)
           l == m_loggers[n]
<1>1. Left(t) # {} /\ job[t] # NoJob
  BY DEF Change, changeGet, changeLevel, changeFormatter, changeClear, changeAdd, JobAt, NoJob
<1>2. job[t] \in ActiveJob /\ n \in Name /\ (Kept(t) => Define(t) \in LogDefine)
  BY <1>1, JobTyped
<1>3. LoggerTypeOK /\ l \in Logger /\ Follows(l)
  BY <1>2, LoggersTyped DEF LogConfigTypeOK
<1> HIDE DEF n
<1>4. CASE changeGet(t)
  <2>1. m_loggers' = [m_loggers EXCEPT ![n] = [l EXCEPT !.made = TRUE]]
    BY <1>4 DEF changeGet, getLogger, n
  <2> QED BY <1>2, <1>3, <2>1, MadeFollows, OneLogger
<1>5. CASE changeLevel(t)
  <2>1. NewLevel(t) \in UNKNOW .. FATAL
    BY <1>2 DEF NewLevel, LogDefine, UNKNOW, FATAL
  <2>2. m_loggers' = [m_loggers EXCEPT ![n] = WithLevel(l, NewLevel(t))]
    BY <1>5 DEF changeLevel, n
  <2> QED BY <1>2, <1>3, <2>1, <2>2, WithLevelFollows, OneLogger
<1>6. CASE changeFormatter(t)
  <2>1. Define(t).formatter \in Pattern
    BY <1>1, <1>2, <1>6 DEF Jobs, changeFormatter, JobAt, LogDefine
  <2>2. m_loggers' = [m_loggers EXCEPT ![n] = WithFormatter(l, Define(t).formatter)]
    BY <1>6 DEF changeFormatter, n
  <2> QED BY <1>2, <1>3, <2>1, <2>2, WithFormatterFollows, OneLogger
<1>7. CASE changeClear(t)
  <2>1. m_loggers' = [m_loggers EXCEPT ![n] = Cleared(l)]
    BY <1>7 DEF changeClear, n
  <2> QED BY <1>2, <1>3, <2>1, ClearedFollows, OneLogger
<1>8. CASE changeAdd(t)
  <2>1. CASE job[t].apps = <<>>
    BY <1>3, <1>8, <2>1 DEF changeAdd, LoggerTypeOK, FormattersFollow
  <2>2. CASE job[t].apps # <<>>
    <3> DEFINE a == Head(job[t].apps)
    <3>1. a \in LogAppenderDefine
      <4>1. job[t].apps \in Seq(LogAppenderDefine)
        BY <1>2 DEF ActiveJob
      <4> HIDE DEF LogAppenderDefine
      <4> QED BY <2>2, <4>1
    <3>2. m_loggers' = [m_loggers EXCEPT ![n] = WithAppender(l, Appender(a))]
      BY <1>8, <2>2 DEF changeAdd, n
    <3> HIDE DEF a
    <3> QED BY <1>2, <1>3, <3>1, <3>2, AppenderTyped, WithAppenderFollows, OneLogger
  <2> QED BY <2>1, <2>2
<1> QED BY <1>4, <1>5, <1>6, <1>7, <1>8 DEF Change

LEMMA LoggersStep ==
    ASSUME LogConfigTypeOK, CallInv, Jobs, FormattersFollow, [Next]_vars
    PROVE  LoggerTypeOK' /\ FormattersFollow'
<1> USE LogConfigAssumption
<1>1. ASSUME UNCHANGED m_loggers PROVE LoggerTypeOK' /\ FormattersFollow'
  BY <1>1 DEF LogConfigTypeOK, LoggerTypeOK, FormattersFollow
<1>2. ASSUME NEW t \in Main, MainStep(t) PROVE LoggerTypeOK' /\ FormattersFollow'
  BY <1>1, <1>2, ChangeKeepsLoggers DEF MainStep, LoadNext, startChange, endChange
<1>3. ASSUME NEW w \in Worker, NEW n \in Name, NameLogger(w, n)
      PROVE LoggerTypeOK' /\ FormattersFollow'
  <2>1. m_loggers' = [m_loggers EXCEPT ![n] = [m_loggers[n] EXCEPT !.made = TRUE]]
    BY <1>3 DEF NameLogger, getLogger
  <2>2. LoggerTypeOK /\ m_loggers[n] \in Logger /\ Follows(m_loggers[n])
    BY LoggersTyped DEF LogConfigTypeOK
  <2> QED BY <2>1, <2>2, MadeFollows, OneLogger
<1>4. CASE \E t \in Main : Load(t)
  BY <1>1, <1>4 DEF Load
<1>5. CASE \E w \in Worker : \/ ThreadStep(w) \/ LogAppend(w) \/ Listen(w)
                             \/ \E x \in Var : Lookup(w, x)
                             \/ \E n \in Name, level \in Level : LogCheck(w, n, level)
  BY <1>1, <1>5 DEF ThreadStep, LogAppend, Listen, Lookup, LogCheck
<1>6. CASE (\E t \in Thread : VarStep(t)) \/ Done \/ UNCHANGED vars
  BY <1>1, <1>6 DEF VarStep, Done, vars
<1> QED BY <1>2, <1>3, <1>4, <1>5, <1>6 DEF Next

-----------------------------------------------------------------------------
(* Threads                                                                  *)

LEMMA HandshakeStep ==
    ASSUME ThreadTypeOK, Handshake, [Next]_vars
    PROVE  ThreadTypeOK' /\ Handshake'
<1> USE ThreadAssumption DEF ThreadTypeOK, Handshake
<1>1. CASE UNCHANGED tvars
  BY <1>1 DEF tvars
<1>2. ASSUME NEW w \in Worker, Construct(w) PROVE ThreadTypeOK' /\ Handshake'
  <2> DEFINE o == [pc |-> "born", m_id |-> FALSE, m_cb |-> TRUE, m_thread |-> TRUE]
  <2>1. o \in Object /\ o.pc = "born"
    BY DEF Object
  <2>2. CASE Opens
    <3>1. /\ thread' = [thread EXCEPT ![w] = o] /\ ctor' = w /\ UNCHANGED <<sem, failed>>
          /\ thread[w].pc = "none" /\ ctor = Nobody
      BY <1>2, <2>2 DEF Construct
    <3> HIDE DEF o
    <3> QED BY <2>1, <3>1
  <2>3. CASE ~Opens
    BY <1>2, <2>3 DEF Construct
  <2> QED BY <2>2, <2>3
<1>3. ASSUME NEW w \in Worker, Join(w) PROVE ThreadTypeOK' /\ Handshake'
  <2> DEFINE o == [thread[w] EXCEPT !.m_thread = FALSE]
  <2>1. o \in Object /\ o.pc = thread[w].pc /\ o.m_id = thread[w].m_id /\ o.m_cb = thread[w].m_cb
    BY DEF Object
  <2>2. thread' = [thread EXCEPT ![w] = o] /\ UNCHANGED <<sem, ctor, failed>>
    BY <1>3 DEF Join
  <2> HIDE DEF o
  <2> QED BY <2>1, <2>2
<1>4. ASSUME NEW w \in Worker, Wait(w) PROVE ThreadTypeOK' /\ Handshake'
  <2>1. /\ sem[w] > 0 /\ ctor = w
        /\ sem' = [sem EXCEPT ![w] = sem[w] - 1] /\ ctor' = Nobody /\ UNCHANGED <<thread, failed>>
    BY <1>4 DEF Wait
  <2>2. sem[w] \in 0 .. 1
    OBVIOUS
  <2>3. sem[w] - 1 = 0
    BY <2>1, <2>2
  <2>4. sem' = [sem EXCEPT ![w] = 0]
    BY <2>1, <2>3
  <2>5. ThreadTypeOK'
    BY <2>1, <2>4
  <2>6. thread[w].pc \in {"running", "ended"}
    BY <2>1
  <2>7. Handshake'
    BY <2>1, <2>4, <2>6
  <2> QED BY <2>5, <2>7
<1>5. ASSUME NEW w \in Worker, Prepare(w) PROVE ThreadTypeOK' /\ Handshake'
  <2> DEFINE o == [thread[w] EXCEPT !.pc = "set", !.m_id = TRUE, !.m_cb = FALSE]
  <2>1. o \in Object /\ o.pc = "set" /\ o.m_id = TRUE /\ o.m_cb = FALSE
    BY DEF Object
  <2>2. thread' = [thread EXCEPT ![w] = o] /\ UNCHANGED <<sem, ctor, failed>> /\ thread[w].pc = "born"
    BY <1>5 DEF Prepare
  <2> HIDE DEF o
  <2> QED BY <2>1, <2>2
<1>6. ASSUME NEW w \in Worker, Notify(w) PROVE ThreadTypeOK' /\ Handshake'
  <2> DEFINE o == [thread[w] EXCEPT !.pc = "running"]
  <2>1. o \in Object /\ o.pc = "running" /\ o.m_id = thread[w].m_id /\ o.m_cb = thread[w].m_cb
    BY DEF Object
  <2>2. /\ thread' = [thread EXCEPT ![w] = o] /\ UNCHANGED <<ctor, failed>>
        /\ thread[w].pc = "set" /\ sem' = [sem EXCEPT ![w] = sem[w] + 1]
    BY <1>6 DEF Notify
  <2> HIDE DEF o
  <2>3. sem[w] = 0 /\ thread[w].m_id /\ ~thread[w].m_cb
    BY <2>2
  <2>4. sem[w] + 1 = 1
    BY <2>3
  <2>5. sem' = [sem EXCEPT ![w] = 1]
    BY <2>2, <2>4
  <2>6. ThreadTypeOK'
    BY <2>1, <2>2, <2>5
  <2>7. thread'[w] = o /\ sem'[w] = 1 /\ ctor' = ctor
    BY <2>2, <2>5
  <2>8. ASSUME NEW v \in Worker, v # w
        PROVE  thread'[v] = thread[v] /\ sem'[v] = sem[v]
    BY <2>2, <2>5, <2>8
  <2>9. Handshake'
    <3> DEFINE Fine(v) == /\ thread[v].pc = "born" => ctor = v
                          /\ thread[v].pc = "set" => ctor = v /\ sem[v] = 0
                          /\ thread[v].pc \in {"set", "running", "ended"} =>
                                thread[v].m_id /\ ~thread[v].m_cb
                          /\ sem[v] > 0 => thread[v].pc \in {"running", "ended"}
    <3>1. Fine(w)'
      BY <2>1, <2>3, <2>7
    <3>2. ASSUME NEW v \in Worker, v # w PROVE Fine(v)'
      <4>1. Fine(v)
        OBVIOUS
      <4> QED BY <2>7, <2>8, <3>2, <4>1
    <3> QED BY <3>1, <3>2
  <2> QED BY <2>6, <2>9
<1>7. ASSUME NEW w \in Worker, Return(w) PROVE ThreadTypeOK' /\ Handshake'
  <2> DEFINE o == [thread[w] EXCEPT !.pc = "ended"]
  <2>1. o \in Object /\ o.pc = "ended" /\ o.m_id = thread[w].m_id /\ o.m_cb = thread[w].m_cb
    BY DEF Object
  <2>2. /\ thread' = [thread EXCEPT ![w] = o] /\ UNCHANGED <<sem, ctor, failed>>
        /\ thread[w].pc = "running"
    BY <1>7 DEF Return
  <2> HIDE DEF o
  <2> QED BY <2>1, <2>2
<1>8. ASSUME NEW w \in Worker, ThreadStep(w) PROVE ThreadTypeOK' /\ Handshake'
  BY <1>2, <1>3, <1>4, <1>5, <1>6, <1>7, <1>8 DEF ThreadStep
<1>9. ASSUME NEW t \in Main, Load(t) \/ MainStep(t) PROVE UNCHANGED tvars
  BY <1>9 DEF Load, MainStep, LoadNext, startChange, Change, endChange
<1>10. CASE \E w \in Worker : \/ LogAppend(w) \/ Listen(w)
                              \/ \E x \in Var : Lookup(w, x)
                              \/ \E n \in Name : NameLogger(w, n)
                              \/ \E n \in Name, level \in Level : LogCheck(w, n, level)
  BY <1>1, <1>10 DEF LogAppend, Listen, Lookup, NameLogger, LogCheck
<1>11. CASE (\E t \in Thread : VarStep(t)) \/ Done \/ UNCHANGED vars
  BY <1>1, <1>11 DEF VarStep, Done, vars
<1> QED BY <1>1, <1>8, <1>9, <1>10, <1>11 DEF Next

-----------------------------------------------------------------------------
(* Types                                                                    *)

LEMMA ChangeJobTyped ==
    ASSUME LogConfigTypeOK, CallInv, Jobs, NEW t \in Main, Change(t)
    PROVE  job' \in [Main -> {NoJob} \cup ActiveJob]
<1>1. Left(t) # {} /\ job[t] # NoJob
  BY DEF Change, changeGet, changeLevel, changeFormatter, changeClear, changeAdd, JobAt, NoJob
<1>2. job[t] \in ActiveJob /\ (Kept(t) => Define(t) \in LogDefine)
  BY <1>1, JobTyped
<1>3. job \in [Main -> {NoJob} \cup ActiveJob]
  BY DEF LogConfigTypeOK
<1>4. ASSUME NEW pc \in {"get", "level", "formatter", "clear", "add"}, Goto(t, pc)
      PROVE job' \in [Main -> {NoJob} \cup ActiveJob]
  <2>1. [job[t] EXCEPT !.pc = pc] \in ActiveJob
    BY <1>2 DEF ActiveJob
  <2> QED BY <1>3, <1>4, <2>1 DEF Goto
<1>5. CASE changeClear(t)
  <2> DEFINE apps == IF Kept(t) THEN Define(t).appenders ELSE <<>>
             j == [job[t] EXCEPT !.pc = "add", !.apps = apps]
  <2>1. apps \in Seq(LogAppenderDefine)
    BY <1>2 DEF LogDefine
  <2>2. j \in ActiveJob
    <3> HIDE DEF apps
    <3> QED BY <1>2, <2>1 DEF ActiveJob
  <2>3. job' = [job EXCEPT ![t] = j]
    BY <1>5 DEF changeClear
  <2> HIDE DEF j
  <2> QED BY <1>3, <2>2, <2>3
<1>6. CASE changeAdd(t)
  <2> DEFINE j1 == [job[t] EXCEPT !.pc = "get", !.changed = @ \ {Current(t)}, !.gone = @ \ {Current(t)}]
             j2 == [job[t] EXCEPT !.apps = Tail(@)]
  <2>1. j1 \in ActiveJob
    BY <1>2 DEF ActiveJob
  <2>2. job[t].apps # <<>> => j2 \in ActiveJob
    <3>1. job[t].apps # <<>> => Tail(job[t].apps) \in Seq(LogAppenderDefine)
      BY <1>2 DEF ActiveJob
    <3> QED BY <1>2, <3>1 DEF ActiveJob
  <2>3. \/ job' = [job EXCEPT ![t] = j1]
        \/ job[t].apps # <<>> /\ job' = [job EXCEPT ![t] = j2]
    BY <1>6 DEF changeAdd
  <2> HIDE DEF j1, j2
  <2> QED BY <1>3, <2>1, <2>2, <2>3
<1> QED BY <1>4, <1>5, <1>6 DEF Change, changeGet, changeLevel, changeFormatter

LEMMA JobTypeStep ==
    ASSUME LogConfigTypeOK, CallInv, Jobs, CallStep
    PROVE  job' \in [Main -> {NoJob} \cup ActiveJob]
<1> USE LogConfigAssumption
<1>1. job \in [Main -> {NoJob} \cup ActiveJob]
  BY DEF LogConfigTypeOK
<1>2. ASSUME NEW t \in Main, startChange(t) PROVE job' \in [Main -> {NoJob} \cup ActiveJob]
  <2> DEFINE old == call[t].old
             new == call[t].new
             j == [pc |-> "get", apps |-> <<>>, changed |-> Changed(old, new),
                   gone |-> DOMAIN old \ DOMAIN new]
  <2>1. call[t].pc = "notify" /\ call[t].var = Logs /\ t \in Thread
    BY <1>2, CallingLogIniter DEF startChange
  <2>2. IsDefines(old) /\ IsDefines(new)
    BY <2>1 DEF CallInv, Defines
  <2>3. Changed(old, new) \subseteq Name /\ DOMAIN old \ DOMAIN new \subseteq Name
    BY <2>2 DEF IsDefines, Changed
  <2>4. <<>> \in Seq(LogAppenderDefine)
    OBVIOUS
  <2>5. j \in ActiveJob
    BY <2>3, <2>4 DEF ActiveJob
  <2>6. job' = [job EXCEPT ![t] = j]
    BY <1>2 DEF startChange
  <2> HIDE DEF j
  <2> QED BY <1>1, <2>5, <2>6
<1> QED BY <1>1, <1>2, ChangeJobTyped DEF CallStep, ListenerStep

LEMMA LoadingStep ==
    ASSUME LogConfigTypeOK, [Next]_vars
    PROVE  loading' \in [Main -> Seq(Item)] /\ loaded' \in Seq(Files)
<1>1. loading \in [Main -> Seq(Item)] /\ loaded \in Seq(Files)
  BY DEF LogConfigTypeOK
<1>2. ASSUME NEW t \in Main, Load(t) PROVE loading' \in [Main -> Seq(Item)] /\ loaded' \in Seq(Files)
  <2>1. PICK root \in Files : loading' = [loading EXCEPT ![t] = Listed(root)] /\ loaded' = Append(loaded, root)
    BY <1>2 DEF Load
  <2>2. Listed(root) \in Seq(Item)
    BY FilesAssumption
  <2> HIDE DEF Item
  <2> QED BY <1>1, <2>1, <2>2
<1>3. ASSUME NEW t \in Main, LoadNext(t) PROVE loading' \in [Main -> Seq(Item)] /\ loaded' \in Seq(Files)
  <2>1. loading' = [loading EXCEPT ![t] = Tail(loading[t])] /\ loaded' = loaded /\ loading[t] # <<>>
    BY <1>3 DEF LoadNext
  <2>2. Tail(loading[t]) \in Seq(Item)
    <3>1. loading[t] \in Seq(Item)
      BY <1>1
    <3> HIDE DEF Item
    <3> QED BY <2>1, <3>1
  <2> QED BY <1>1, <2>1, <2>2
<1>4. ASSUME NEW t \in Main, startChange(t) \/ Change(t) \/ endChange(t) PROVE UNCHANGED <<loading, loaded>>
  BY <1>4 DEF startChange, Change, endChange
<1>5. ASSUME NEW w \in Worker, \/ ThreadStep(w) \/ LogAppend(w) \/ Listen(w)
                               \/ \E x \in Var : Lookup(w, x)
                               \/ \E n \in Name : NameLogger(w, n)
                               \/ \E n \in Name, level \in Level : LogCheck(w, n, level)
      PROVE UNCHANGED <<loading, loaded>>
  BY <1>5 DEF ThreadStep, LogAppend, Listen, Lookup, NameLogger, LogCheck
<1>6. CASE (\E t \in Thread : VarStep(t)) \/ Done \/ UNCHANGED vars
  BY <1>1, <1>6 DEF VarStep, Done, vars
<1> QED BY <1>1, <1>2, <1>3, <1>4, <1>5, <1>6 DEF Next, MainStep

LEMMA EventStep ==
    ASSUME LogConfigTypeOK, [Next]_vars
    PROVE  /\ event' \in [Worker -> {NoEvent} \cup [pc : {"append"}, name : Name, level : Level]]
           /\ events' \in 0 .. MaxEvents /\ datas' \subseteq Var
<1> DEFINE E == [pc : {"append"}, name : Name, level : Level]
<1>1. /\ event \in [Worker -> {NoEvent} \cup E]
      /\ events \in 0 .. MaxEvents /\ datas \subseteq Var /\ MaxEvents \in Nat
  BY LogConfigAssumption DEF LogConfigTypeOK
<1>2. ASSUME UNCHANGED <<event, events>>, datas' \subseteq Var
      PROVE /\ event' \in [Worker -> {NoEvent} \cup E]
            /\ events' \in 0 .. MaxEvents /\ datas' \subseteq Var
  BY <1>1, <1>2
<1>3. CASE \E t \in Main : Load(t) \/ MainStep(t)
  BY <1>1, <1>2, <1>3 DEF Load, MainStep, LoadNext, startChange, Change, endChange
<1>4. CASE \E w \in Worker : \/ ThreadStep(w) \/ Listen(w)
                             \/ \E x \in Var : Lookup(w, x)
                             \/ \E n \in Name : NameLogger(w, n)
  BY <1>1, <1>2, <1>4 DEF ThreadStep, Listen, Lookup, NameLogger
<1>5. ASSUME NEW w \in Worker, LogAppend(w)
      PROVE /\ event' \in [Worker -> {NoEvent} \cup E]
            /\ events' \in 0 .. MaxEvents /\ datas' \subseteq Var
  BY <1>1, <1>5 DEF LogAppend
<1>6. ASSUME NEW w \in Worker, NEW n \in Name, NEW level \in Level, LogCheck(w, n, level)
      PROVE /\ event' \in [Worker -> {NoEvent} \cup E]
            /\ events' \in 0 .. MaxEvents /\ datas' \subseteq Var
  <2>1. [pc |-> "append", name |-> n, level |-> level] \in E
    OBVIOUS
  <2> HIDE DEF E
  <2> QED BY <1>1, <1>6, <2>1 DEF LogCheck
<1>7. CASE (\E t \in Thread : VarStep(t)) \/ Done \/ UNCHANGED vars
  BY <1>1, <1>2, <1>7 DEF VarStep, Done, vars
<1> QED BY <1>3, <1>4, <1>5, <1>6, <1>7 DEF Next

-----------------------------------------------------------------------------
(* The invariant                                                            *)

IInv == LogConfigTypeOK /\ CallInv /\ Jobs /\ FormattersFollow /\ Handshake

LEMMA InitInv == Init => IInv
<1> SUFFICES ASSUME Init PROVE IInv
  OBVIOUS
<1> USE LogConfigAssumption, ConfigVarAssumption, LogsAssumption
<1>1. ThreadTypeOK /\ Handshake
  <2> DEFINE o == [pc |-> "none", m_id |-> FALSE, m_cb |-> FALSE, m_thread |-> FALSE]
  <2>1. o \in Object /\ o.pc = "none"
    BY DEF Object
  <2>2. /\ thread = [w \in Worker |-> o] /\ sem = [w \in Worker |-> 0] /\ ctor = Nobody
        /\ failed = FALSE
    BY DEF Init, ThreadInit
  <2> HIDE DEF o
  <2>3. \A w \in Worker : thread[w].pc = "none" /\ sem[w] = 0
    BY <2>1, <2>2
  <2>4. ThreadTypeOK
    <3>1. thread \in [Worker -> Object] /\ sem \in [Worker -> 0 .. 1]
      BY <2>1, <2>2
    <3>2. ctor \in Worker \cup {Nobody} /\ failed \in BOOLEAN
      BY <2>2
    <3> QED BY <3>1, <3>2 DEF ThreadTypeOK
  <2> QED BY <2>3, <2>4 DEF Handshake
<1>2. ConfigTypeOK
  <2>1. \A x \in Var : m_cbs[x] \in Maps
    <3>1. 1 \in Ids /\ LogIniter \in Callback
      BY DEF Ids
    <3>2. [i \in {1} |-> LogIniter] \in Maps /\ [i \in {} |-> LogIniter] \in Maps
      <4>1. [i \in {1} |-> LogIniter] \in [{1} -> Callback]
        BY <3>1
      <4>2. [i \in {} |-> LogIniter] \in [{} -> Callback]
        OBVIOUS
      <4> QED BY <3>1, <4>1, <4>2, InMaps
    <3> QED BY <3>2 DEF Init
  <2> QED BY <2>1 DEF Init, ConfigTypeOK, Calls
<1>3. CallInv
  <2>1. Idle.pc = "idle" /\ call = [t \in Thread |-> Idle]
    BY DEF Init, Idle
  <2>2. Counted
    BY <2>1 DEF Init, Counted
  <2>3. Defines
    BY <2>1 DEF Init, Defines, IsDefines
  <2>4. Locks /\ Roles
    BY <2>1 DEF Init, Locks, Roles
  <2>5. Registry
    BY DEF Init, Registry
  <2> QED BY <1>2, <2>2, <2>3, <2>4, <2>5 DEF CallInv
<1>4. LoggerTypeOK /\ FormattersFollow
  <2>1. NewAppender(2, NoFile) \in LogAppender /\ NewAppender(2, NoFile).m_formatter = <<>>
        /\ NewAppender(2, NoFile).m_hasFormatter = FALSE
    BY RootAppenderTyped
  <2>2. /\ WithAppender(NewLogger, NewAppender(2, NoFile)) \in Logger
        /\ Follows(WithAppender(NewLogger, NewAppender(2, NoFile)))
    BY <2>1, NewLoggerFollows, WithAppenderFollows
  <2>3. [NewLogger EXCEPT !.made = FALSE] \in Logger /\ Follows([NewLogger EXCEPT !.made = FALSE])
    BY NewLoggerFollows, MadeFollows
  <2>4. LoggerTypeOK /\ \A n \in Name : m_loggers[n] \in Logger /\ Follows(m_loggers[n])
    BY <2>2, <2>3 DEF Init, LoggerInit, LoggerTypeOK
  <2> QED BY <2>4, LoggersTyped
<1>5. LogConfigTypeOK
  BY <1>1, <1>2, <1>4 DEF Init, LogConfigTypeOK
<1>6. Jobs
  BY DEF Init, Jobs
<1> QED BY <1>1, <1>3, <1>4, <1>5, <1>6 DEF IInv

LEMMA NextInv == IInv /\ [Next]_vars => IInv'
<1> SUFFICES ASSUME IInv, [Next]_vars PROVE IInv'
  OBVIOUS
<1>1. CallStep
  BY StepsOfCalls DEF IInv
<1>2. CallInv' /\ Jobs'
  BY <1>1, CallInvStep, JobsStep DEF IInv
<1>3. LoggerTypeOK' /\ FormattersFollow'
  BY LoggersStep DEF IInv
<1>4. ThreadTypeOK' /\ Handshake'
  BY HandshakeStep DEF IInv, LogConfigTypeOK
<1>5. LogConfigTypeOK'
  BY <1>1, <1>2, <1>3, <1>4, JobTypeStep, LoadingStep, EventStep DEF IInv, LogConfigTypeOK, CallInv
<1> QED BY <1>2, <1>3, <1>4, <1>5 DEF IInv

LEMMA Invariant == Spec => []IInv
  BY InitInv, NextInv, PTL DEF Spec

\* The variables of the program, and with them those of its parts, keep their
\* types.
THEOREM TypeCorrect == Spec => []LogConfigTypeOK
  BY Invariant, PTL DEF IInv

\* Hazard Thread.h:64.  Once a thread's constructor has returned, the new thread
\* has set its id and is through with the object: until then the constructor
\* waits on the semaphore, which only the new thread raises.
THEOREM Started == Spec => []ConstructedIsReady
<1>1. IInv => ConstructedIsReady
  BY DEF IInv, LogConfigTypeOK, ThreadTypeOK, Object, Handshake, ConstructedIsReady, Constructed
<1> QED BY <1>1, Invariant, PTL

\* Hazard Logger.h:618.  An appender without a formatter of its own formats as
\* its logger does, and no formatter in use has an error.
THEOREM FormattersAgree == Spec => []FormattersFollow
  BY Invariant, PTL DEF IInv

\* Hazard Config.h:844.  The read lock that a setter holds while it calls the
\* listeners keeps the old value and the listeners as they are.
THEOREM OldValueHeld == Spec => []OldValueStays
<1>1. IInv => OldValueStays
  <2> SUFFICES ASSUME IInv, NEW t \in Thread, call[t].pc = "notify"
               PROVE  /\ m_val[call[t].var] = call[t].old
                      /\ call[t].todo \subseteq DOMAIN m_cbs[call[t].var]
                      /\ writer[call[t].var] = NoThread
    BY DEF OldValueStays
  <2>1. call[t].var \in Var
    BY CallCases DEF IInv, CallInv, ConfigTypeOK, SetCalls
  <2> QED BY <2>1 DEF IInv, CallInv, Locks
<1> QED BY <1>1, Invariant, PTL

-----------------------------------------------------------------------------
(* What listeners know                                                      *)

\* Whether the setter m has told callback c, of variable x, of its new value.
HasTold(m, x, c) ==
    /\ call[m].var = x
    /\ \/ call[m].pc = "write"
       \/ call[m].pc = "notify" /\ \E i \in DOMAIN m_cbs[x] \ call[m].todo : m_cbs[x][i] = c

\* The inductive invariant of the theorem: while a setter calls the listeners,
\* those whose turn has come know the new value and the others the old one.
Knows(m) ==
    \A x \in Var, c \in Callback : c \in Registered(x) /\ ~knows[x][c].late =>
        knows[x][c].val = IF HasTold(m, x, c) THEN call[m].new ELSE m_val[x]

LEMMA SetValueKnows ==
    ASSUME IInv, NEW m \in Main, Knows(m), NEW x \in Var, NEW v \in Value,
           call[m] = Idle, setValue(m, x, v)
    PROVE  Knows(m)'
<1>1. m \in Thread /\ call \in [Thread -> Calls] /\ call[m].pc = "idle"
  BY LogConfigAssumption DEF IInv, CallInv, ConfigTypeOK, Idle
<1>2. /\ call'[m].pc = "notify" /\ call'[m].var = x /\ call'[m].todo = DOMAIN m_cbs[x]
      /\ UNCHANGED <<m_val, m_cbs, knows>>
  BY <1>1 DEF setValue
<1> QED BY <1>1, <1>2 DEF Knows, HasTold, Registered

LEMMA ToldKnows ==
    ASSUME IInv, NEW m \in Main, Knows(m), NEW cb \in Callback, Told(m, cb)
    PROVE  Knows(m)'
<1> DEFINE x == call[m].var
<1>1. m \in Thread /\ call[m] \in SetCalls /\ call[m].pc = "notify" /\ call[m].todo # {}
      /\ call \in [Thread -> Calls]
  BY LogConfigAssumption, CallCases DEF IInv, CallInv, ConfigTypeOK, Told, Calling
<1>2. x \in Var /\ knows \in [Var -> [Callback -> [val : Value, late : BOOLEAN]]]
  BY <1>1 DEF SetCalls, IInv, CallInv, ConfigTypeOK
<1>3. Turn(m) \in call[m].todo /\ Turn(m) \in DOMAIN m_cbs[x] /\ m_cbs[x][Turn(m)] = cb
  BY <1>1, TurnIsLeast DEF IInv, CallInv, Locks, Told, Calling
<1>4. /\ call'[m].pc = "notify" /\ call'[m].var = x /\ call'[m].new = call[m].new
      /\ call'[m].todo = call[m].todo \ {Turn(m)} /\ UNCHANGED <<m_val, m_cbs>>
      /\ knows' = [knows EXCEPT ![x][cb] = [val |-> call[m].new, late |-> FALSE]]
  BY <1>1 DEF Told, SetCalls
<1> HIDE DEF x
<1> SUFFICES ASSUME NEW y \in Var, NEW c \in Callback, c \in Registered(y)', ~knows'[y][c].late
             PROVE  knows'[y][c].val = IF HasTold(m, y, c)' THEN call'[m].new ELSE m_val'[y]
  BY DEF Knows
<1>5. c \in Registered(y)
  BY <1>4 DEF Registered
<1>6. CASE y = x /\ c = cb
  <2>1. HasTold(m, y, c)'
    BY <1>3, <1>4, <1>6 DEF HasTold
  <2> QED BY <1>2, <1>4, <1>6, <2>1
<1>7. CASE ~(y = x /\ c = cb)
  <2>1. knows'[y][c] = knows[y][c]
    BY <1>2, <1>4, <1>7
  <2>2. HasTold(m, y, c)' <=> HasTold(m, y, c)
    BY <1>1, <1>3, <1>4, <1>7 DEF HasTold, x
  <2> QED BY <1>4, <1>5, <2>1, <2>2 DEF Knows
<1> QED BY <1>6, <1>7

LEMMA EndNotifyKnows ==
    ASSUME IInv, NEW m \in Main, Knows(m), endNotify(m)
    PROVE  Knows(m)'
<1>1. m \in Thread /\ call[m] \in SetCalls /\ call[m].pc = "notify" /\ call[m].todo = {}
      /\ call \in [Thread -> Calls]
  BY LogConfigAssumption, CallCases DEF IInv, CallInv, ConfigTypeOK, endNotify
<1>2. /\ call'[m].pc = "write" /\ call'[m].var = call[m].var /\ call'[m].new = call[m].new
      /\ UNCHANGED <<m_val, m_cbs, knows>>
  BY <1>1 DEF endNotify, SetCalls
<1> QED BY <1>1, <1>2 DEF Knows, HasTold, Registered

LEMMA WriteKnows ==
    ASSUME IInv, NEW m \in Main, Knows(m), write(m)
    PROVE  Knows(m)'
<1>1. m \in Thread /\ call[m].var \in Var /\ call[m].pc = "write" /\ call \in [Thread -> Calls]
      /\ m_val \in [Var -> Value]
  BY LogConfigAssumption, CallCases DEF IInv, CallInv, ConfigTypeOK, write, SetCalls
<1>2. /\ call'[m].pc = "idle" /\ m_val' = [m_val EXCEPT ![call[m].var] = call[m].new]
      /\ UNCHANGED <<m_cbs, knows>>
  BY <1>1 DEF write, Idle
<1> QED BY <1>1, <1>2 DEF Knows, HasTold, Registered

LEMMA InsertKnows ==
    ASSUME IInv, NEW m \in Main, Knows(m), NEW w \in Thread, w # m, insert(w)
    PROVE  Knows(m)'
<1> USE ConfigVarAssumption
<1> DEFINE x == call[w].var
           id == s_fun_id[TypeOf(x)]
           cb == call[w].cb
<1>1. m \in Thread /\ call \in [Thread -> Calls] /\ m_cbs \in [Var -> Maps]
      /\ knows \in [Var -> [Callback -> [val : Value, late : BOOLEAN]]]
  BY LogConfigAssumption DEF IInv, CallInv, ConfigTypeOK
<1>2. call[w] \in AddCalls /\ call[w].pc = "insert"
  BY <1>1, CallCases DEF insert
<1>3. x \in Var /\ cb \in Callback
  BY <1>2 DEF AddCalls
<1>4. /\ call'[m] = call[m] /\ UNCHANGED m_val
      /\ m_cbs' = [m_cbs EXCEPT ![x] =
            [i \in DOMAIN m_cbs[x] \cup {id} |-> IF i = id THEN cb ELSE m_cbs[x][i]]]
      /\ knows' = [knows EXCEPT ![x][cb] = [val |-> m_val[x], late |-> Pending(x)]]
  BY <1>1 DEF insert
<1>5. ~(call[m].pc = "notify" /\ call[m].var = x)
  BY <1>1, <1>2, <1>3 DEF IInv, CallInv, Locks
<1> HIDE DEF x, id, cb
<1> SUFFICES ASSUME NEW y \in Var, NEW c \in Callback, c \in Registered(y)', ~knows'[y][c].late
             PROVE  knows'[y][c].val = IF HasTold(m, y, c)' THEN call'[m].new ELSE m_val'[y]
  BY DEF Knows
<1>6. CASE y = x /\ c = cb
  <2>1. ~Pending(x)
    BY <1>1, <1>3, <1>4, <1>6
  <2>2. ~HasTold(m, y, c)'
    BY <1>1, <1>4, <1>5, <1>6, <2>1 DEF HasTold, Pending
  <2> QED BY <1>1, <1>3, <1>4, <1>6, <2>2
<1>7. CASE y = x /\ c # cb
  <2>1. knows'[y][c] = knows[y][c] /\ c \in Registered(y)
    BY <1>1, <1>3, <1>4, <1>7 DEF Registered
  <2>2. HasTold(m, y, c)' <=> HasTold(m, y, c)
    BY <1>4, <1>5, <1>7 DEF HasTold
  <2> QED BY <1>4, <2>1, <2>2 DEF Knows
<1>8. CASE y # x
  <2>1. knows'[y][c] = knows[y][c] /\ m_cbs'[y] = m_cbs[y] /\ c \in Registered(y)
    BY <1>1, <1>3, <1>4, <1>8 DEF Registered
  <2>2. HasTold(m, y, c)' <=> HasTold(m, y, c)
    BY <1>4, <2>1 DEF HasTold
  <2> QED BY <1>4, <2>1, <2>2 DEF Knows
<1> QED BY <1>6, <1>7, <1>8

\* Steps that leave values, listeners and what they know alone.
LEMMA OthersKnow ==
    ASSUME NEW m, Knows(m), UNCHANGED <<m_val, m_cbs, knows>>, call'[m] = call[m]
    PROVE  Knows(m)'
  BY DEF Knows, HasTold, Registered

LEMMA DelListenerKnows ==
    ASSUME IInv, NEW m \in Main, Knows(m), NEW w \in Thread, NEW x \in Var,
           NEW key \in DOMAIN m_cbs[x], delListener(w, x, key)
    PROVE  Knows(m)'
<1>1. m \in Thread /\ m_cbs \in [Var -> Maps]
  BY LogConfigAssumption DEF IInv, CallInv, ConfigTypeOK
<1>2. /\ m_cbs' = [m_cbs EXCEPT ![x] = [i \in DOMAIN m_cbs[x] \ {key} |-> m_cbs[x][i]]]
      /\ UNCHANGED <<m_val, call, knows>> /\ readers[x] = {}
  BY DEF delListener, CanWrite
<1>3. ~(call[m].pc = "notify" /\ call[m].var = x)
  BY <1>1, <1>2 DEF IInv, CallInv, Locks
<1> SUFFICES ASSUME NEW y \in Var, NEW c \in Callback, c \in Registered(y)', ~knows'[y][c].late
             PROVE  knows'[y][c].val = IF HasTold(m, y, c)' THEN call'[m].new ELSE m_val'[y]
  BY DEF Knows
<1>4. c \in Registered(y)
  BY <1>1, <1>2 DEF Registered
<1>5. HasTold(m, y, c)' <=> HasTold(m, y, c)
  BY <1>1, <1>2, <1>3 DEF HasTold
<1> QED BY <1>2, <1>4, <1>5 DEF Knows

LEMMA KnowsStep ==
    ASSUME IInv, NEW m, Main = {m}, Knows(m), CallStep
    PROVE  Knows(m)'
<1> USE LogConfigAssumption
<1>1. m \in Main /\ m \in Thread /\ call \in [Thread -> Calls]
  BY DEF IInv, CallInv, ConfigTypeOK
<1>2. ASSUME NEW t \in Thread, MethodStep(t) PROVE Knows(m)'
  <2>1. CASE notify(t) \/ endNotify(t) \/ write(t)
    <3>1. t = m
      BY <2>1 DEF IInv, CallInv, Roles, notify, Told, Calling, endNotify, write
    <3> QED BY <1>1, <2>1, <3>1, ToldKnows, EndNotifyKnows, WriteKnows DEF notify
  <2>2. CASE count(t) \/ insert(t) \/ answer(t)
    <3>1. t # m
      BY <1>1, <2>2 DEF IInv, CallInv, Roles, count, insert, answer
    <3>2. count(t) \/ answer(t) => UNCHANGED <<m_val, m_cbs, knows>> /\ call'[m] = call[m]
      BY <1>1, <3>1 DEF count, answer
    <3> QED BY <1>1, <2>2, <3>1, <3>2, InsertKnows, OthersKnow
  <2> QED BY <1>2, <2>1, <2>2 DEF MethodStep
<1>3. ASSUME NEW w \in Worker, NEW x \in Var, NEW c \in Callback \ Stepwise, addListener(w, x, c)
      PROVE Knows(m)'
  <2>1. UNCHANGED <<m_val, m_cbs, knows>> /\ call'[m] = call[m]
    BY <1>1, <1>3 DEF addListener
  <2> QED BY <2>1, OthersKnow
<1>4. ASSUME UNCHANGED cvars PROVE Knows(m)'
  BY <1>4, OthersKnow DEF cvars
<1>5. LogIniter \in Callback
  BY ConfigVarAssumption
<1> QED BY <1>1, <1>2, <1>3, <1>4, <1>5, SetValueKnows, ToldKnows, DelListenerKnows DEF CallStep

\* Config.h:833.  While one thread sets the variables, a registered listener that
\* did not come between the last call of a listener and the write knows the
\* value whenever nobody is setting the variable.
THEOREM ListenersAreTold ==
    ASSUME NEW m, Main = {m}
    PROVE  Spec => []PunctualListenerKnowsValue
<1>1. Init => Knows(m)
  BY LogConfigAssumption DEF Init, Knows, HasTold, Registered, Idle
<1>2. IInv /\ Knows(m) /\ [Next]_vars => Knows(m)'
  BY StepsOfCalls, KnowsStep DEF IInv
<1>3. IInv /\ Knows(m) => PunctualListenerKnowsValue
  <2> SUFFICES ASSUME IInv, Knows(m), NEW x \in Var, NEW c \in Callback,
                      ~Setting(x), c \in Registered(x), ~knows[x][c].late
               PROVE  knows[x][c].val = m_val[x]
    BY DEF PunctualListenerKnowsValue
  <2>1. ~HasTold(m, x, c)
    BY LogConfigAssumption DEF HasTold, Setting
  <2> QED BY <2>1 DEF Knows
<1> QED BY <1>1, <1>2, <1>3, Invariant, PTL DEF Spec

-----------------------------------------------------------------------------
(* The inductive invariant of ConfigApplied                                 *)

\* Logger l, of name n, is as the value v of "logs" asks.
Reflects(l, n, v) ==
    IF n \in DOMAIN v
    THEN /\ l.made /\ l.m_level = v[n].level
         /\ v[n].formatter # <<>> /\ ~isError(v[n].formatter) => l.m_formatter = v[n].formatter
    ELSE \/ l.m_level = UNKNOW /\ l.m_appenders = <<>>
         \/ l.m_level = DEBUG /\ (n = "root" \/ l.m_appenders = <<>>)

\* How far job j has come with the logger whose turn it is.
Halfway(l, n, j, new) ==
    IF n \in DOMAIN new
    THEN /\ j.pc # "get" => l.made
         /\ j.pc \in {"formatter", "clear", "add"} => l.m_level = new[n].level
         /\ j.pc = "clear" => new[n].formatter = <<>> \/ Reflects(l, n, new)
         /\ j.pc = "add" => Reflects(l, n, new)
    ELSE /\ j.pc \in {"clear", "add"} => l.m_level = UNKNOW
         /\ j.pc = "add" => j.apps = <<>> /\ l.m_appenders = <<>>

\* A change under way: what is neither changed nor gone, or is done, is as the
\* new value asks.
Changing(m) ==
    job[m] # NoJob =>
        /\ job[m].changed \subseteq DOMAIN call[m].new
        /\ job[m].gone \cap DOMAIN call[m].new = {}
        /\ \A n \in Name \ (job[m].changed \cup job[m].gone) : Reflects(m_loggers[n], n, call[m].new)
        /\ Left(m) # {} => Halfway(m_loggers[Current(m)], Current(m), job[m], call[m].new)

\* What the loggers are as asked while a call is not at LogIniter's listener.
Asked(m) == IF call[m].pc = "notify" /\ 1 \in call[m].todo THEN call[m].old ELSE call[m].new

SettingLogs(m) == call[m].pc \in {"notify", "write"} /\ call[m].var = Logs

Applied(m) ==
    /\ ~SettingLogs(m) => \A n \in Name : Reflects(m_loggers[n], n, m_val[Logs])
    /\ SettingLogs(m) /\ job[m] = NoJob => \A n \in Name : Reflects(m_loggers[n], n, Asked(m))
    /\ Changing(m)

\* With one thread that loads files, Setting is what that thread does.
LEMMA OneSetter ==
    ASSUME IInv, NEW m, Main = {m}
    PROVE  Setting(Logs) <=> SettingLogs(m)
<1>1. \A t \in Thread : call[t].pc \in {"notify", "write"} => t = m
  BY DEF IInv, CallInv, Roles
<1>2. m \in Thread
  BY LogConfigAssumption
<1> QED BY <1>1, <1>2 DEF Setting, SettingLogs

\* A step of the listener, one that names a logger, or one that leaves the
\* loggers alone.
LEMMA LoggersMove ==
    ASSUME LogConfigTypeOK, [Next]_vars
    PROVE  \/ \E t \in Main : Change(t)
           \/ \E n \in Name : getLogger(n) /\ UNCHANGED <<cvars, job>>
           \/ UNCHANGED m_loggers
<1>1. CASE \E t \in Main : Load(t) \/ MainStep(t)
  BY <1>1 DEF Load, MainStep, LoadNext, startChange, endChange
<1>2. CASE \E w \in Worker : \/ ThreadStep(w) \/ LogAppend(w) \/ Listen(w)
                             \/ \E x \in Var : Lookup(w, x)
                             \/ \E n \in Name : NameLogger(w, n)
                             \/ \E n \in Name, level \in Level : LogCheck(w, n, level)
  BY <1>2 DEF ThreadStep, LogAppend, Listen, Lookup, NameLogger, LogCheck
<1>3. CASE (\E t \in Thread : VarStep(t)) \/ Done \/ UNCHANGED vars
  BY <1>3 DEF VarStep, Done, vars
<1> QED BY <1>1, <1>2, <1>3 DEF Next

-----------------------------------------------------------------------------
(* Steps that leave the loggers alone                                       *)

\* Nothing of what Applied speaks of moves.
LEMMA AppliedStays ==
    ASSUME NEW m, Applied(m), UNCHANGED m_loggers, job'[m] = job[m], call'[m] = call[m],
           m_val'[Logs] = m_val[Logs]
    PROVE  Applied(m)'
  BY DEF Applied, SettingLogs, Asked, Changing, Left, Current

LEMMA SetValueApplied ==
    ASSUME IInv, NEW m \in Main, Applied(m), UNCHANGED m_loggers, job' = job,
           NEW x \in Var, NEW v \in Value, call[m] = Idle, setValue(m, x, v)
    PROVE  Applied(m)'
<1>1. m \in Thread /\ call \in [Thread -> Calls] /\ call[m].pc = "idle"
  BY LogConfigAssumption DEF IInv, CallInv, ConfigTypeOK, Idle
<1>2. /\ call'[m] = [pc |-> "notify", var |-> x, old |-> m_val[x], new |-> v, todo |-> DOMAIN m_cbs[x]]
      /\ m_val' = m_val
  BY <1>1 DEF setValue
<1>3. job'[m] = NoJob
  BY <1>1 DEF IInv, Jobs
<1>4. \A n \in Name : Reflects(m_loggers[n], n, m_val[Logs])
  BY <1>1 DEF Applied, SettingLogs
<1>5. CASE x = Logs
  <2>1. 1 \in DOMAIN m_cbs[Logs]
    BY DEF IInv, CallInv, Registry
  <2>2. SettingLogs(m)' /\ Asked(m)' = m_val[Logs]
    BY <1>2, <1>5, <2>1 DEF SettingLogs, Asked
  <2> QED BY <1>3, <1>4, <2>2 DEF Applied, Changing
<1>6. CASE x # Logs
  <2>1. ~SettingLogs(m)'
    BY <1>2, <1>6 DEF SettingLogs
  <2> QED BY <1>2, <1>3, <1>4, <2>1 DEF Applied, Changing
<1> QED BY <1>5, <1>6

LEMMA NotifyApplied ==
    ASSUME IInv, NEW m \in Main, Applied(m), UNCHANGED m_loggers, job' = job, notify(m)
    PROVE  Applied(m)'
<1>1. PICK c \in Callback \ Stepwise : Told(m, c)
  BY DEF notify
<1>2. m \in Thread /\ call[m] \in SetCalls /\ call[m].pc = "notify" /\ call \in [Thread -> Calls]
  BY <1>1, LogConfigAssumption, CallCases DEF IInv, CallInv, ConfigTypeOK, Told, Calling
<1>3. /\ call'[m].pc = "notify" /\ call'[m].var = call[m].var /\ call'[m].new = call[m].new
      /\ call'[m].old = call[m].old
      /\ call'[m].todo = call[m].todo \ {Turn(m)} /\ m_val' = m_val
  BY <1>1, <1>2 DEF Told, SetCalls
<1>4. call[m].var = Logs => 1 \notin call[m].todo
  BY <1>1, <1>2, LogIniterFirst, LogConfigAssumption DEF IInv, Told, Calling
<1>5. job'[m] = NoJob /\ job[m] = NoJob
  BY <1>2, <1>4 DEF IInv, Jobs
<1> QED BY <1>2, <1>3, <1>4, <1>5 DEF Applied, SettingLogs, Asked, Changing

LEMMA EndNotifyApplied ==
    ASSUME IInv, NEW m \in Main, Applied(m), UNCHANGED m_loggers, job' = job, endNotify(m)
    PROVE  Applied(m)'
<1>1. /\ m \in Thread /\ call[m] \in SetCalls /\ call[m].pc = "notify" /\ call[m].todo = {}
      /\ call \in [Thread -> Calls]
  BY LogConfigAssumption, CallCases DEF IInv, CallInv, ConfigTypeOK, endNotify
<1>2. /\ call'[m].pc = "write" /\ call'[m].var = call[m].var /\ call'[m].new = call[m].new
      /\ m_val' = m_val
  BY <1>1 DEF endNotify, SetCalls
<1>3. job'[m] = NoJob /\ job[m] = NoJob
  BY <1>1 DEF IInv, Jobs
<1> QED BY <1>1, <1>2, <1>3 DEF Applied, SettingLogs, Asked, Changing

LEMMA WriteApplied ==
    ASSUME IInv, NEW m \in Main, Applied(m), UNCHANGED m_loggers, job' = job, write(m)
    PROVE  Applied(m)'
<1>1. /\ m \in Thread /\ call[m] \in SetCalls /\ call[m].pc = "write"
      /\ call \in [Thread -> Calls] /\ m_val \in [Var -> Value]
  BY LogConfigAssumption, CallCases DEF IInv, CallInv, ConfigTypeOK, write
<1>2. /\ call'[m].pc = "idle" /\ m_val' = [m_val EXCEPT ![call[m].var] = call[m].new]
      /\ call[m].var \in Var
  BY <1>1 DEF write, Idle, SetCalls
<1>3. job'[m] = NoJob /\ job[m] = NoJob
  BY <1>1 DEF IInv, Jobs
<1>4. call[m].var = Logs => m_val'[Logs] = Asked(m)
  BY <1>1, <1>2 DEF Asked
<1>5. call[m].var # Logs => m_val'[Logs] = m_val[Logs]
  BY <1>1, <1>2, LogsAssumption
<1>6. ~SettingLogs(m)'
  BY <1>2 DEF SettingLogs
<1>7. \A n \in Name : Reflects(m_loggers[n], n, m_val'[Logs])
  BY <1>1, <1>3, <1>4, <1>5 DEF Applied, SettingLogs
<1> QED BY <1>3, <1>6, <1>7 DEF Applied, Changing

\* The listener returns: every name has had its turn.
LEMMA EndChangeApplied ==
    ASSUME IInv, NEW m \in Main, Applied(m), UNCHANGED m_loggers, Told(m, LogIniter),
           job[m].pc = "get", Left(m) = {}, job' = [job EXCEPT ![m] = NoJob]
    PROVE  Applied(m)'
<1>1. m \in Thread /\ call \in [Thread -> Calls] /\ job \in [Main -> {NoJob} \cup ActiveJob]
  BY LogConfigAssumption DEF IInv, CallInv, ConfigTypeOK, LogConfigTypeOK
<1>2. /\ call[m] \in SetCalls /\ call[m].pc = "notify" /\ call[m].var = Logs /\ Turn(m) = 1
      /\ job[m] # NoJob
  BY <1>1, CallingLogIniter, CallCases DEF IInv, Told, NoJob
<1>3. /\ call'[m].pc = "notify" /\ call'[m].var = Logs /\ call'[m].new = call[m].new
      /\ call'[m].todo = call[m].todo \ {1}
  BY <1>1, <1>2 DEF Told, SetCalls
<1>4. SettingLogs(m)' /\ Asked(m)' = call[m].new /\ job'[m] = NoJob
  BY <1>1, <1>3 DEF SettingLogs, Asked
<1>5. job[m].changed \cup job[m].gone = {}
  BY DEF Left
<1>6. \A n \in Name : Reflects(m_loggers[n], n, call[m].new)
  BY <1>2, <1>5 DEF Applied, Changing
<1> QED BY <1>4, <1>6 DEF Applied, Changing

\* Names that are in neither loop are as asked already: operator== compares the
\* level and the formatter, which is what Reflects speaks of.
LEMMA StartChangeApplied ==
    ASSUME IInv, NEW m \in Main, Applied(m), startChange(m)
    PROVE  Applied(m)'
<1> DEFINE old == call[m].old
           new == call[m].new
<1>1. m \in Thread /\ job \in [Main -> {NoJob} \cup ActiveJob] /\ UNCHANGED <<m_loggers, call, m_val>>
      /\ job[m] = NoJob
  BY LogConfigAssumption DEF IInv, LogConfigTypeOK, startChange, cvars
<1>2. call[m].pc = "notify" /\ call[m].var = Logs /\ 1 \in call[m].todo
  BY <1>1, CallingLogIniter DEF IInv, startChange
<1>3. \A n \in Name : Reflects(m_loggers[n], n, old)
  BY <1>1, <1>2 DEF Applied, SettingLogs, Asked
<1>4. /\ job'[m].pc = "get" /\ job'[m].changed = Changed(old, new)
      /\ job'[m].gone = DOMAIN old \ DOMAIN new /\ job'[m] # NoJob
  BY <1>1 DEF startChange, NoJob
<1> HIDE DEF old, new
<1>5. \A n \in Name \ (job'[m].changed \cup job'[m].gone) : Reflects(m_loggers[n], n, new)
  BY <1>3, <1>4 DEF Changed, DefineEqual, Reflects
<1>6. Changed(old, new) \subseteq DOMAIN new
  BY DEF Changed
<1>7. Changing(m)'
  BY <1>1, <1>4, <1>5, <1>6 DEF Changing, Halfway, old, new
<1>8. SettingLogs(m)'
  BY <1>1, <1>2 DEF SettingLogs
<1> QED BY <1>4, <1>7, <1>8 DEF Applied

-----------------------------------------------------------------------------
(* Steps of the listener                                                    *)

\* A step at the logger whose turn it is leaves the others alone.
LEMMA ChangeApplied ==
    ASSUME IInv, NEW m \in Main, Applied(m), Change(m)
    PROVE  Applied(m)'
<1> DEFINE n == Current(m)
           l == m_loggers[n]
           new == call[m].new
           j == job[m]
<1>1. Left(m) # {} /\ j # NoJob
  BY DEF Change, changeGet, changeLevel, changeFormatter, changeClear, changeAdd, JobAt, NoJob
<1>2. /\ j \in ActiveJob /\ call[m].pc = "notify" /\ call[m].var = Logs
      /\ n \in Left(m) /\ n \in Name /\ (Kept(m) => Define(m) \in LogDefine)
  BY <1>1, JobTyped DEF IInv
<1>3. /\ job \in [Main -> {NoJob} \cup ActiveJob] /\ m_loggers \in [Name -> Logger]
      /\ l \in Logger /\ Follows(l)
  BY <1>2, LoggersTyped DEF IInv, LogConfigTypeOK, LoggerTypeOK
<1>4. UNCHANGED <<call, m_val>>
  BY DEF Change, cvars
<1>5. /\ j.changed \subseteq DOMAIN new /\ j.gone \cap DOMAIN new = {}
      /\ \A k \in Name \ (j.changed \cup j.gone) : Reflects(m_loggers[k], k, new)
      /\ Halfway(l, n, j, new)
  BY <1>1 DEF Applied, Changing
<1>6. n \in j.changed \cup j.gone
  BY <1>2 DEF Left
<1>7. ASSUME NEW i \in Logger, m_loggers' = [m_loggers EXCEPT ![n] = i],
             job'[m] \in ActiveJob, job'[m].changed = j.changed, job'[m].gone = j.gone,
             Halfway(i, n, job'[m], new)
      PROVE  Applied(m)'
  <2>1. Left(m)' = Left(m) /\ Current(m)' = n
    BY <1>7 DEF Left, Current
  <2>2. m_loggers'[n] = i /\ \A k \in Name : k # n => m_loggers'[k] = m_loggers[k]
    BY <1>2, <1>3, <1>7
  <2>3. job'[m] # NoJob
    BY <1>7 DEF ActiveJob, NoJob
  <2>4. Changing(m)'
    BY <1>4, <1>5, <1>6, <1>7, <2>1, <2>2 DEF Changing
  <2> QED BY <1>2, <1>4, <2>3, <2>4 DEF Applied, SettingLogs
<1>8. Kept(m) <=> n \in DOMAIN new
  BY DEF Kept
<1> HIDE DEF n, l, j
<1>9. ASSUME NEW pc \in {"level", "formatter", "clear"}, Goto(m, pc)
      PROVE  /\ job'[m] \in ActiveJob /\ job'[m].pc = pc
             /\ job'[m].changed = j.changed /\ job'[m].gone = j.gone
  BY <1>2, <1>3, <1>9 DEF Goto, ActiveJob, j
<1>10. CASE changeGet(m)
  <2> DEFINE i == [l EXCEPT !.made = TRUE]
  <2>1. i \in Logger /\ i.made = TRUE
    BY <1>3 DEF Logger
  <2>2. m_loggers' = [m_loggers EXCEPT ![n] = i] /\ Goto(m, "level")
    BY <1>10 DEF changeGet, getLogger, n, l
  <2>3. Halfway(i, n, job'[m], new)
    BY <1>9, <2>1, <2>2 DEF Halfway
  <2> HIDE DEF i
  <2> QED BY <1>7, <1>9, <2>1, <2>2, <2>3
<1>11. CASE changeLevel(m)
  <2> DEFINE i == WithLevel(l, NewLevel(m))
             pc == IF Kept(m) /\ Define(m).formatter # <<>> THEN "formatter" ELSE "clear"
  <2>1. NewLevel(m) \in UNKNOW .. FATAL
    BY <1>2 DEF NewLevel, LogDefine, UNKNOW, FATAL
  <2>2. i \in Logger /\ i.m_level = NewLevel(m) /\ i.made = l.made
    BY <1>3, <2>1, WithLevelFollows DEF Logger
  <2>3. m_loggers' = [m_loggers EXCEPT ![n] = i] /\ Goto(m, pc) /\ j.pc = "level"
    BY <1>11 DEF changeLevel, JobAt, n, l, j
  <2>4. Halfway(i, n, job'[m], new)
    <3>1. job'[m].pc = pc
      BY <1>9, <2>3
    <3> HIDE DEF i
    <3>2. CASE Kept(m)
      <4>1. l.made /\ NewLevel(m) = new[n].level /\ Define(m) = new[n] /\ n \in DOMAIN new
        BY <1>5, <1>8, <2>3, <3>2 DEF Halfway, NewLevel, Define, n
      <4> QED BY <2>2, <3>1, <3>2, <4>1 DEF Halfway
    <3>3. CASE ~Kept(m)
      <4>1. NewLevel(m) = UNKNOW /\ pc = "clear" /\ n \notin DOMAIN new
        BY <1>8, <3>3 DEF NewLevel
      <4> QED BY <2>2, <3>1, <4>1 DEF Halfway
    <3> QED BY <3>2, <3>3
  <2> HIDE DEF i
  <2> QED BY <1>7, <1>9, <2>2, <2>3, <2>4
<1>12. CASE changeFormatter(m)
  <2> DEFINE p == Define(m).formatter
             i == WithFormatter(l, p)
  <2>1. Kept(m) /\ n \in DOMAIN new /\ p = new[n].formatter /\ p \in Pattern
    BY <1>1, <1>2, <1>8, <1>12 DEF IInv, Jobs, changeFormatter, JobAt, LogDefine, Define, n, j
  <2>2. /\ i \in Logger /\ i.made = l.made /\ i.m_level = l.m_level
        /\ ~isError(p) => i.m_formatter = p
    BY <1>3, <2>1, WithFormatterFollows
  <2>3. m_loggers' = [m_loggers EXCEPT ![n] = i] /\ Goto(m, "clear") /\ j.pc = "formatter"
    BY <1>12 DEF changeFormatter, JobAt, n, l, j
  <2> HIDE DEF i
  <2>4. Halfway(i, n, job'[m], new)
    <3>1. l.made /\ l.m_level = new[n].level
      BY <1>5, <2>1, <2>3 DEF Halfway
    <3> QED BY <1>9, <2>1, <2>2, <2>3, <3>1 DEF Halfway, Reflects
  <2> QED BY <1>7, <1>9, <2>2, <2>3, <2>4
<1>13. CASE changeClear(m)
  <2> DEFINE i == Cleared(l)
             apps == IF Kept(m) THEN Define(m).appenders ELSE <<>>
  <2>1. /\ i \in Logger /\ i.made = l.made /\ i.m_level = l.m_level
        /\ i.m_formatter = l.m_formatter /\ i.m_appenders = <<>>
    BY <1>3, ClearedFollows
  <2>2. /\ m_loggers' = [m_loggers EXCEPT ![n] = i] /\ j.pc = "clear"
        /\ job' = [job EXCEPT ![m] = [j EXCEPT !.pc = "add", !.apps = apps]]
    BY <1>13 DEF changeClear, JobAt, n, l, j
  <2>3. apps \in Seq(LogAppenderDefine)
    BY <1>2 DEF LogDefine
  <2> HIDE DEF i, apps
  <2>4. /\ job'[m] \in ActiveJob /\ job'[m].pc = "add" /\ job'[m].apps = apps
        /\ job'[m].changed = j.changed /\ job'[m].gone = j.gone
    BY <1>2, <1>3, <2>2, <2>3 DEF ActiveJob
  <2>5. Halfway(i, n, job'[m], new)
    <3>1. CASE n \in DOMAIN new
      <4>1. l.made /\ l.m_level = new[n].level /\ (new[n].formatter = <<>> \/ Reflects(l, n, new))
        BY <1>5, <2>2, <3>1 DEF Halfway
      <4> QED BY <2>1, <2>4, <3>1, <4>1 DEF Halfway, Reflects
    <3>2. CASE n \notin DOMAIN new
      <4>1. l.m_level = UNKNOW /\ apps = <<>>
        BY <1>5, <1>8, <2>2, <3>2 DEF Halfway, apps
      <4> QED BY <2>1, <2>4, <3>2, <4>1 DEF Halfway
    <3> QED BY <3>1, <3>2
  <2> QED BY <1>7, <2>1, <2>2, <2>4, <2>5
<1>14. CASE changeAdd(m) /\ j.apps # <<>>
  <2> DEFINE a == Head(j.apps)
             i == WithAppender(l, Appender(a))
  <2>1. j.apps \in Seq(LogAppenderDefine)
    BY <1>2 DEF ActiveJob
  <2>2. a \in LogAppenderDefine /\ Tail(j.apps) \in Seq(LogAppenderDefine)
    <3> HIDE DEF LogAppenderDefine
    <3> QED BY <1>14, <2>1
  <2>3. /\ m_loggers' = [m_loggers EXCEPT ![n] = i] /\ j.pc = "add"
        /\ job' = [job EXCEPT ![m] = [j EXCEPT !.apps = Tail(j.apps)]]
    BY <1>14 DEF changeAdd, JobAt, n, l, j
  <2> HIDE DEF a
  <2>4. /\ i \in Logger /\ i.made = l.made /\ i.m_level = l.m_level /\ i.m_formatter = l.m_formatter
    BY <1>3, <2>2, AppenderTyped, WithAppenderFollows
  <2> HIDE DEF i
  <2>5. /\ job'[m] \in ActiveJob /\ job'[m].pc = "add"
        /\ job'[m].changed = j.changed /\ job'[m].gone = j.gone
    BY <1>2, <1>3, <2>2, <2>3 DEF ActiveJob
  <2>6. n \in DOMAIN new /\ Reflects(l, n, new)
    BY <1>5, <1>14, <2>3 DEF Halfway
  <2>7. Halfway(i, n, job'[m], new)
    BY <2>4, <2>5, <2>6 DEF Halfway, Reflects
  <2> QED BY <1>7, <2>3, <2>4, <2>5, <2>7
<1>15. CASE changeAdd(m) /\ j.apps = <<>>
  <2>1. /\ m_loggers' = m_loggers /\ j.pc = "add"
        /\ job' = [job EXCEPT ![m] = [j EXCEPT !.pc = "get", !.changed = @ \ {n}, !.gone = @ \ {n}]]
    BY <1>15 DEF changeAdd, JobAt, n, l, j
  <2>2. /\ job'[m].pc = "get" /\ job'[m].changed = j.changed \ {n} /\ job'[m].gone = j.gone \ {n}
        /\ job'[m] # NoJob
    BY <1>2, <1>3, <2>1 DEF ActiveJob, NoJob
  <2>3. Reflects(l, n, new)
    BY <1>5, <2>1 DEF Halfway, Reflects
  <2>4. Changing(m)'
    BY <1>4, <1>5, <2>1, <2>2, <2>3 DEF Changing, Halfway, l
  <2> QED BY <1>2, <1>4, <2>2, <2>4 DEF Applied, SettingLogs
<1> QED BY <1>10, <1>11, <1>12, <1>13, <1>14, <1>15 DEF Change

\* Naming a logger creates it and changes nothing else.
LEMMA NamedApplied ==
    ASSUME IInv, NEW m \in Main, Applied(m), NEW n \in Name, getLogger(n), UNCHANGED <<cvars, job>>
    PROVE  Applied(m)'
<1>1. m_loggers \in [Name -> Logger]
  BY DEF IInv, LogConfigTypeOK, LoggerTypeOK
<1>2. ASSUME NEW k \in Name
      PROVE  /\ m_loggers'[k].m_level = m_loggers[k].m_level
             /\ m_loggers'[k].m_formatter = m_loggers[k].m_formatter
             /\ m_loggers'[k].m_appenders = m_loggers[k].m_appenders
             /\ m_loggers[k].made => m_loggers'[k].made
  BY <1>1 DEF getLogger, Logger
<1>3. ASSUME NEW k \in Name, NEW v, Reflects(m_loggers[k], k, v) PROVE Reflects(m_loggers'[k], k, v)
  BY <1>2, <1>3 DEF Reflects
<1>4. ASSUME NEW k \in Name, NEW j, NEW v, Halfway(m_loggers[k], k, j, v)
      PROVE  Halfway(m_loggers'[k], k, j, v)
  BY <1>2, <1>3, <1>4 DEF Halfway
<1>5. job[m] # NoJob /\ Left(m) # {} => Current(m) \in Name
  BY JobTyped DEF IInv
<1>6. UNCHANGED <<call, m_val, job>> /\ SettingLogs(m)' = SettingLogs(m) /\ Asked(m)' = Asked(m)
      /\ Left(m)' = Left(m) /\ Current(m)' = Current(m)
  BY DEF cvars, SettingLogs, Asked, Left, Current
<1>7. Changing(m)'
  BY <1>3, <1>4, <1>5, <1>6 DEF Applied, Changing
<1> QED BY <1>3, <1>6, <1>7 DEF Applied

-----------------------------------------------------------------------------
LEMMA AppliedStep ==
    ASSUME IInv, NEW m, Main = {m}, Applied(m), [Next]_vars
    PROVE  Applied(m)'
<1> USE LogConfigAssumption
<1>1. m \in Main /\ m \in Thread /\ call \in [Thread -> Calls]
  BY DEF IInv, CallInv, ConfigTypeOK
<1>2. CASE \E t \in Main : Change(t)
  BY <1>1, <1>2, ChangeApplied
<1>3. CASE \E n \in Name : getLogger(n) /\ UNCHANGED <<cvars, job>>
  BY <1>1, <1>3, NamedApplied
<1>4. CASE UNCHANGED m_loggers /\ ~\E t \in Main : Change(t)
  <2>1. ASSUME NEW t \in Thread, MethodStep(t), job' = job PROVE Applied(m)'
    <3>1. CASE notify(t) \/ endNotify(t) \/ write(t)
      <4>1. t = m
        BY <3>1 DEF IInv, CallInv, Roles, notify, Told, Calling, endNotify, write
      <4> QED BY <1>1, <1>4, <2>1, <3>1, <4>1, NotifyApplied, EndNotifyApplied, WriteApplied
    <3>2. CASE count(t) \/ insert(t) \/ answer(t)
      <4>1. t # m
        BY <1>1, <3>2 DEF IInv, CallInv, Roles, count, insert, answer
      <4>2. call'[m] = call[m] /\ m_val' = m_val
        BY <1>1, <3>2, <4>1 DEF count, insert, answer
      <4> QED BY <1>4, <2>1, <4>2, AppliedStays
    <3> QED BY <2>1, <3>1, <3>2 DEF MethodStep
  <2>2. ASSUME NEW w \in Worker, NEW x \in Var, NEW c \in Callback \ Stepwise,
               addListener(w, x, c), job' = job
        PROVE  Applied(m)'
    <3>1. call'[m] = call[m] /\ m_val' = m_val
      BY <1>1, <2>2 DEF addListener
    <3> QED BY <1>4, <2>2, <3>1, AppliedStays
  <2>3. ASSUME NEW w \in Worker, NEW x \in Var, NEW key \in DOMAIN m_cbs[x],
               delListener(w, x, key), job' = job
        PROVE  Applied(m)'
    <3>1. call'[m] = call[m] /\ m_val' = m_val
      BY <2>3 DEF delListener
    <3> QED BY <1>4, <2>3, <3>1, AppliedStays
  <2>4. CASE UNCHANGED cvars /\ job' = job
    BY <1>4, <2>4, AppliedStays DEF cvars
  <2>5. CASE \E t \in Main : ListenerStep(t)
    BY <1>1, <1>4, <2>5, StartChangeApplied DEF ListenerStep
  <2>6. CASE \E t \in Main : /\ Told(t, LogIniter) /\ job[t].pc = "get" /\ Left(t) = {}
                             /\ job' = [job EXCEPT ![t] = NoJob]
    BY <1>1, <1>4, <2>6, EndChangeApplied
  <2>7. CASE \E t \in Main, x \in Var, v \in Value :
                /\ x = Logs => IsDefines(v)
                /\ call[t] = Idle /\ setValue(t, x, v) /\ job' = job
    BY <1>1, <1>4, <2>7, SetValueApplied
  <2>8. CallStep
    BY StepsOfCalls DEF IInv
  <2> QED BY <2>1, <2>2, <2>3, <2>4, <2>5, <2>6, <2>7, <2>8 DEF CallStep
<1> QED BY <1>2, <1>3, <1>4, LoggersMove DEF IInv

\* When nobody is setting "logs", every logger is as its value asks: each has
\* its turn in the listener or is equal in all that operator== compares, which
\* is all that is asked of it, and what a worker does meanwhile only makes
\* loggers.
THEOREM ConfigReachesLoggers ==
    ASSUME NEW m, Main = {m}
    PROVE  Spec => []ConfigApplied
<1>1. Init => Applied(m)
  <2> SUFFICES ASSUME Init PROVE Applied(m)
    OBVIOUS
  <2>1. call[m].pc = "idle" /\ job[m] = NoJob /\ m_val[Logs] = First(Logs)
    BY LogConfigAssumption, LogsAssumption DEF Init, Idle
  <2>2. NewAppender(2, NoFile) \in LogAppender /\ NewAppender(2, NoFile).m_formatter = <<>>
        /\ NewAppender(2, NoFile).m_hasFormatter = FALSE
    BY RootAppenderTyped
  <2>3. WithAppender(NewLogger, NewAppender(2, NoFile)).m_level = DEBUG
    BY <2>2, NewLoggerFollows, WithAppenderFollows DEF NewLogger
  <2>4. [NewLogger EXCEPT !.made = FALSE].m_level = DEBUG
        /\ [NewLogger EXCEPT !.made = FALSE].m_appenders = <<>>
    BY DEF NewLogger
  <2>5. \A n \in Name : Reflects(m_loggers[n], n, First(Logs))
    BY <2>3, <2>4, LogsAssumption DEF Init, LoggerInit, Reflects
  <2> QED BY <2>1, <2>5 DEF Applied, Changing, SettingLogs
<1>2. IInv /\ Applied(m) /\ [Next]_vars => Applied(m)'
  BY AppliedStep
<1>3. IInv /\ Applied(m) => ConfigApplied
  BY OneSetter DEF Applied, ConfigApplied, Reflects
<1> QED BY <1>1, <1>2, <1>3, Invariant, PTL DEF Spec

-----------------------------------------------------------------------------
(* Events are delivered                                                     *)

\* The items still to come, and the value being set, give the root logger an
\* appender.
FedItems(t) ==
    \A k \in DOMAIN loading[t] :
        loading[t][k].path = Logs => Feeds(Cast(Logs, loading[t][k].value))

FedNew(t) == SettingLogs(t) => Feeds(call[t].new)

\* A thread that has yet to add an appender to the root logger.
Feeding(t) ==
    /\ Current(t) = "root"
    /\ job[t].pc = "clear" \/ (job[t].pc = "add" /\ job[t].apps # <<>>)

FedRoot == m_loggers["root"].m_appenders # <<>> \/ \E t \in Main : Feeding(t)

Fed == RootSilenced \/ (FedRoot /\ \A t \in Main : FedItems(t) /\ FedNew(t))

\* A file that silences the root logger stays loaded.
LEMMA SilenceStays ==
    ASSUME LogConfigTypeOK, [Next]_vars, RootSilenced
    PROVE  RootSilenced'
<1> DEFINE Silences(root) ==
        \E i \in Range(Listed(root)) : i.path = Logs /\ ~Feeds(Cast(Logs, i.value))
<1>1. PICK k \in DOMAIN loaded : Silences(loaded[k])
  BY DEF RootSilenced
<1>2. loaded \in Seq(Files)
  BY DEF LogConfigTypeOK
<1>3. loaded' = loaded \/ \E root \in Files : loaded' = Append(loaded, root)
  <2>1. CASE \E t \in Main : Load(t) \/ MainStep(t)
    BY <2>1 DEF Load, MainStep, LoadNext, startChange, Change, endChange
  <2>2. CASE \E w \in Worker : \/ ThreadStep(w) \/ LogAppend(w) \/ Listen(w)
                               \/ \E x \in Var : Lookup(w, x)
                               \/ \E n \in Name : NameLogger(w, n)
                               \/ \E n \in Name, level \in Level : LogCheck(w, n, level)
    BY <2>2 DEF ThreadStep, LogAppend, Listen, Lookup, NameLogger, LogCheck
  <2>3. CASE (\E t \in Thread : VarStep(t)) \/ Done \/ UNCHANGED vars
    BY <2>3 DEF VarStep, Done, vars
  <2> QED BY <2>1, <2>2, <2>3 DEF Next
<1>4. k \in DOMAIN loaded' /\ loaded'[k] = loaded[k]
  BY <1>2, <1>3
<1>5. Silences(loaded'[k])
  BY <1>1, <1>4
<1> QED BY <1>4, <1>5 DEF RootSilenced

LEMMA FedItemsStep ==
    ASSUME IInv, NEW m \in Main, FedItems(m), ~RootSilenced', [Next]_vars
    PROVE  FedItems(m)'
<1>1. loading \in [Main -> Seq(Item)] /\ loaded \in Seq(Files)
  BY DEF IInv, LogConfigTypeOK
<1>2. ASSUME Load(m) PROVE FedItems(m)'
  <2>1. PICK root \in Files :
            loading' = [loading EXCEPT ![m] = Listed(root)] /\ loaded' = Append(loaded, root)
    BY <1>2 DEF Load
  <2>2. /\ loaded'[Len(loaded) + 1] = root /\ Len(loaded) + 1 \in DOMAIN loaded'
        /\ loading'[m] = Listed(root)
    BY <1>1, <2>1
  <2>3. \A i \in Range(Listed(root)) : i.path = Logs => Feeds(Cast(Logs, i.value))
    BY <2>2 DEF RootSilenced
  <2>4. \A k \in DOMAIN Listed(root) : Listed(root)[k] \in Range(Listed(root))
    BY DEF Range
  <2> QED BY <2>2, <2>3, <2>4 DEF FedItems
<1>3. ASSUME LoadNext(m) PROVE FedItems(m)'
  <2> DEFINE s == loading[m]
  <2>1. loading'[m] = Tail(s) /\ s # <<>> /\ s \in Seq(Item)
    BY <1>1, <1>3 DEF LoadNext
  <2>2. \A k \in DOMAIN s : s[k].path = Logs => Feeds(Cast(Logs, s[k].value))
    BY DEF FedItems
  <2> HIDE DEF s
  <2>3. \A k \in DOMAIN Tail(s) : k + 1 \in DOMAIN s /\ Tail(s)[k] = s[k + 1]
    <3> HIDE DEF Item
    <3> QED BY <2>1
  <2> QED BY <2>1, <2>2, <2>3 DEF FedItems
<1>4. ASSUME loading'[m] = loading[m] PROVE FedItems(m)'
  BY <1>4 DEF FedItems
<1>5. ASSUME NEW t \in Main, Load(t) \/ LoadNext(t), t # m PROVE FedItems(m)'
  BY <1>1, <1>4, <1>5 DEF Load, LoadNext
<1>6. ASSUME NEW t \in Main, startChange(t) \/ Change(t) \/ endChange(t) PROVE FedItems(m)'
  BY <1>4, <1>6 DEF startChange, Change, endChange
<1>7. CASE \E w \in Worker : \/ ThreadStep(w) \/ LogAppend(w) \/ Listen(w)
                             \/ \E x \in Var : Lookup(w, x)
                             \/ \E n \in Name : NameLogger(w, n)
                             \/ \E n \in Name, level \in Level : LogCheck(w, n, level)
  BY <1>4, <1>7 DEF ThreadStep, LogAppend, Listen, Lookup, NameLogger, LogCheck
<1>8. CASE (\E t \in Thread : VarStep(t)) \/ Done \/ UNCHANGED vars
  BY <1>4, <1>8 DEF VarStep, Done, vars
<1> QED BY <1>2, <1>3, <1>5, <1>6, <1>7, <1>8 DEF Next, MainStep

\* What a thread sets "logs" to, or what the item at hand gives it.
NewKept(m) ==
    SettingLogs(m)' =>
        \/ SettingLogs(m) /\ call'[m].new = call[m].new
        \/ LET i == Head(loading[m])
           IN  loading[m] # <<>> /\ i.path = Logs /\ call'[m].new = Cast(Logs, i.value)

LEMMA NewKeptStep ==
    ASSUME IInv, NEW m \in Main, [Next]_vars
    PROVE  NewKept(m)
<1>1. /\ m \in Thread /\ call \in [Thread -> Calls] /\ call[m] \in Calls
      /\ loading \in [Main -> Seq(Item)]
  BY LogConfigAssumption DEF IInv, CallInv, ConfigTypeOK, LogConfigTypeOK
<1>2. ASSUME call'[m] = call[m] PROVE NewKept(m)
  BY <1>2 DEF NewKept, SettingLogs
<1>3. ASSUME LoadNext(m) PROVE NewKept(m)
  <2> DEFINE i == Head(loading[m])
             v == Cast(i.path, i.value)
  <2>1. (UNCHANGED call) \/ (call' = [call EXCEPT ![m] =
            [pc |-> "notify", var |-> i.path, old |-> m_val[i.path], new |-> v, todo |-> DOMAIN m_cbs[i.path]]])
    BY <1>3 DEF LoadNext, setValue, cvars
  <2>2. loading[m] # <<>>
    BY <1>3 DEF LoadNext
  <2>3. CASE UNCHANGED call
    BY <1>2, <2>3
  <2>4. CASE call' = [call EXCEPT ![m] =
            [pc |-> "notify", var |-> i.path, old |-> m_val[i.path], new |-> v, todo |-> DOMAIN m_cbs[i.path]]]
    <3>1. call'[m].var = i.path /\ call'[m].new = v
      BY <1>1, <2>4
    <3> QED BY <2>2, <3>1 DEF NewKept, SettingLogs
  <2> QED BY <2>1, <2>3, <2>4
<1>4. ASSUME NEW c \in Callback, Told(m, c) PROVE NewKept(m)
  <2>1. call[m] \in SetCalls /\ call[m].pc = "notify"
    BY <1>1, <1>4, CallCases DEF Told, Calling
  <2>2. call'[m].var = call[m].var /\ call'[m].new = call[m].new
    BY <1>1, <1>4, <2>1 DEF Told, SetCalls
  <2> QED BY <2>1, <2>2 DEF NewKept, SettingLogs
<1>5. ASSUME NEW t \in Thread, MethodStep(t) PROVE NewKept(m)
  <2>1. CASE t # m
    BY <1>1, <1>2, <1>5, <2>1 DEF MethodStep, notify, Told, endNotify, write, count, insert, answer
  <2>2. CASE t = m /\ notify(m)
    BY <1>4, <2>2 DEF notify
  <2>3. CASE t = m /\ endNotify(m)
    <3>1. call[m] \in SetCalls /\ call[m].pc = "notify"
      BY <1>1, <2>3, CallCases DEF endNotify
    <3>2. call'[m].var = call[m].var /\ call'[m].new = call[m].new
      BY <1>1, <2>3, <3>1 DEF endNotify, SetCalls
    <3> QED BY <3>1, <3>2 DEF NewKept, SettingLogs
  <2>4. CASE t = m /\ write(m)
    BY <1>1, <2>4 DEF write, Idle, NewKept, SettingLogs
  <2>5. CASE t = m /\ (count(m) \/ insert(m) \/ answer(m))
    BY <1>1, <2>5, LogConfigAssumption DEF IInv, CallInv, Roles, count, insert, answer
  <2> QED BY <1>5, <2>1, <2>2, <2>3, <2>4, <2>5 DEF MethodStep
<1>6. ASSUME NEW w \in Worker, Listen(w) PROVE NewKept(m)
  <2>1. w # m
    BY <1>1, LogConfigAssumption
  <2> QED BY <1>1, <1>2, <1>6, <2>1 DEF Listen, addListener, delListener
<1>7. ASSUME NEW t \in Main, LoadNext(t) \/ endChange(t), t # m PROVE NewKept(m)
  BY <1>1, <1>2, <1>7 DEF LoadNext, setValue, endChange, Told, cvars
<1>8. ASSUME NEW t \in Main, Load(t) \/ startChange(t) \/ Change(t) PROVE NewKept(m)
  BY <1>2, <1>8 DEF Load, startChange, Change, cvars
<1>9. CASE endChange(m)
  BY <1>4, <1>9, LogConfigAssumption, ConfigVarAssumption DEF endChange
<1>10. CASE \E w \in Worker : \/ ThreadStep(w) \/ LogAppend(w)
                              \/ \E x \in Var : Lookup(w, x)
                              \/ \E n \in Name : NameLogger(w, n)
                              \/ \E n \in Name, level \in Level : LogCheck(w, n, level)
  BY <1>2, <1>10 DEF ThreadStep, LogAppend, Lookup, NameLogger, LogCheck, cvars
<1>11. CASE (\E t \in Thread : VarStep(t)) \/ Done \/ UNCHANGED vars
  BY <1>2, <1>5, <1>11 DEF VarStep, Done, vars, cvars
<1> QED BY <1>3, <1>6, <1>7, <1>8, <1>9, <1>10, <1>11 DEF Next, MainStep

LEMMA FedNewStep ==
    ASSUME IInv, NEW m \in Main, FedItems(m), FedNew(m), [Next]_vars
    PROVE  FedNew(m)'
<1>1. NewKept(m)
  BY NewKeptStep
<1>2. ASSUME loading[m] # <<>>
      PROVE  LET i == Head(loading[m]) IN i.path = Logs => Feeds(Cast(Logs, i.value))
  <2>1. loading[m] \in Seq(Item)
    BY DEF IInv, LogConfigTypeOK
  <2>2. 1 \in DOMAIN loading[m] /\ Head(loading[m]) = loading[m][1]
    <3> HIDE DEF Item
    <3> QED BY <1>2, <2>1
  <2> QED BY <2>2 DEF FedItems
<1> QED BY <1>1, <1>2 DEF NewKept, FedNew

\* Where no logger is changed, a job only begins or ends, away from the clearing
\* and the adding.
LEMMA JobQuiet ==
    ASSUME IInv, [Next]_vars, ~(\E t \in Main : Change(t)), NEW m \in Main
    PROVE  \/ job'[m] = job[m]
           \/ job[m].pc \in {"none", "get"} /\ job'[m].pc \in {"none", "get"}
<1>1. job \in [Main -> {NoJob} \cup ActiveJob]
  BY DEF IInv, LogConfigTypeOK
<1>2. CallStep
  BY StepsOfCalls DEF IInv
<1>3. CASE \E t \in Main : /\ Told(t, LogIniter) /\ job[t].pc = "get" /\ Left(t) = {}
                           /\ job' = [job EXCEPT ![t] = NoJob]
  BY <1>1, <1>3 DEF NoJob
<1>4. CASE \E t \in Main : ListenerStep(t)
  BY <1>1, <1>4 DEF ListenerStep, startChange, NoJob
<1> QED BY <1>2, <1>3, <1>4 DEF CallStep

LEMMA ChangeFed ==
    ASSUME IInv, NEW m \in Main, FedNew(m), FedRoot, Change(m)
    PROVE  FedRoot'
<1> DEFINE n == Current(m)
           l == m_loggers[n]
           j == job[m]
           R == m_loggers["root"]
<1>1. Left(m) # {} /\ j # NoJob
  BY DEF Change, changeGet, changeLevel, changeFormatter, changeClear, changeAdd, JobAt, NoJob
<1>2. /\ j \in ActiveJob /\ call[m].pc = "notify" /\ call[m].var = Logs
      /\ n \in Name /\ (Kept(m) => Define(m) \in LogDefine)
  BY <1>1, JobTyped DEF IInv
<1>3. /\ job \in [Main -> {NoJob} \cup ActiveJob] /\ m_loggers \in [Name -> Logger]
      /\ l \in Logger /\ Follows(l) /\ "root" \in Name
  BY <1>2, LoggersTyped, LogsAssumption DEF IInv, LogConfigTypeOK, LoggerTypeOK
<1>4. ASSUME NEW t \in Main, t # m, Feeding(t) PROVE FedRoot'
  <2>1. job'[t] = job[t]
    BY <1>3, <1>4 DEF Change, changeGet, changeLevel, changeFormatter, changeClear, changeAdd, Goto
  <2> QED BY <1>4, <2>1 DEF FedRoot, Feeding, Current, Left
<1> SUFFICES ASSUME R.m_appenders # <<>> \/ Feeding(m)
             PROVE  FedRoot'
  BY <1>4 DEF FedRoot
<1>5. ASSUME m_loggers'["root"].m_appenders # <<>> PROVE FedRoot'
  BY <1>5 DEF FedRoot
<1>6. Feeding(m) <=> n = "root" /\ (j.pc = "clear" \/ (j.pc = "add" /\ j.apps # <<>>))
  BY DEF Feeding
<1> HIDE DEF n, l, j
<1>7. ASSUME NEW i \in Logger, m_loggers' = [m_loggers EXCEPT ![n] = i],
             n = "root" => i.m_appenders # <<>>, n # "root" => R.m_appenders # <<>>
      PROVE  FedRoot'
  BY <1>3, <1>5, <1>7
<1>8. CASE changeGet(m)
  <2> DEFINE i == [l EXCEPT !.made = TRUE]
  <2>1. i \in Logger /\ i.m_appenders = l.m_appenders
    BY <1>3 DEF Logger
  <2>2. m_loggers' = [m_loggers EXCEPT ![n] = i] /\ j.pc = "get"
    BY <1>8 DEF changeGet, getLogger, JobAt, n, l, j
  <2> HIDE DEF i
  <2> QED BY <1>6, <1>7, <2>1, <2>2 DEF l
<1>9. CASE changeLevel(m)
  <2> DEFINE i == WithLevel(l, NewLevel(m))
  <2>1. NewLevel(m) \in UNKNOW .. FATAL
    BY <1>2 DEF NewLevel, LogDefine, UNKNOW, FATAL
  <2>2. i \in Logger /\ i.m_appenders = l.m_appenders
    BY <1>3, <2>1, WithLevelFollows DEF Logger
  <2>3. m_loggers' = [m_loggers EXCEPT ![n] = i] /\ j.pc = "level"
    BY <1>9 DEF changeLevel, JobAt, n, l, j
  <2> HIDE DEF i
  <2> QED BY <1>6, <1>7, <2>2, <2>3 DEF l
<1>10. CASE changeFormatter(m)
  <2> DEFINE p == Define(m).formatter
             i == WithFormatter(l, p)
  <2>1. p \in Pattern
    BY <1>1, <1>2, <1>10 DEF IInv, Jobs, changeFormatter, JobAt, LogDefine, j
  <2>2. i \in Logger /\ DOMAIN i.m_appenders = DOMAIN l.m_appenders
    BY <1>3, <2>1, WithFormatterFollows
  <2>3. m_loggers' = [m_loggers EXCEPT ![n] = i] /\ j.pc = "formatter"
    BY <1>10 DEF changeFormatter, JobAt, n, l, j
  <2> HIDE DEF i
  <2>4. l.m_appenders # <<>> => i.m_appenders # <<>>
    <3>1. l.m_appenders \in Seq(LogAppender) /\ i.m_appenders \in Seq(LogAppender)
      BY <1>3, <2>2 DEF Logger
    <3> QED BY <2>2, <3>1, EmptySeq
  <2> QED BY <1>6, <1>7, <2>2, <2>3, <2>4 DEF l
<1>11. CASE changeClear(m)
  <2> DEFINE apps == IF Kept(m) THEN Define(m).appenders ELSE <<>>
  <2>1. /\ m_loggers' = [m_loggers EXCEPT ![n] = Cleared(l)] /\ j.pc = "clear"
        /\ job' = [job EXCEPT ![m] = [j EXCEPT !.pc = "add", !.apps = apps]]
    BY <1>11 DEF changeClear, JobAt, n, l, j
  <2>2. apps \in Seq(LogAppenderDefine)
    BY <1>2 DEF LogDefine
  <2>3. n = "root" => apps # <<>>
    BY <1>2 DEF FedNew, SettingLogs, Feeds, Kept, Define, n
  <2> HIDE DEF apps
  <2>4. /\ job'[m].pc = "add" /\ job'[m].apps = apps
        /\ job'[m].changed = j.changed /\ job'[m].gone = j.gone
    BY <1>1, <1>2, <1>3, <2>1, <2>2 DEF ActiveJob
  <2>5. Current(m)' = n
    BY <2>4 DEF Current, Left, n, j
  <2>6. CASE n = "root"
    BY <2>3, <2>4, <2>5, <2>6 DEF FedRoot, Feeding
  <2>7. CASE n # "root"
    <3>1. m_loggers'["root"] = R
      BY <1>3, <2>1, <2>7
    <3> QED BY <1>5, <1>6, <2>7, <3>1
  <2> QED BY <2>6, <2>7
<1>12. CASE changeAdd(m) /\ j.apps # <<>>
  <2> DEFINE a == Head(j.apps)
             i == WithAppender(l, Appender(a))
  <2>1. a \in LogAppenderDefine
    <3>1. j.apps \in Seq(LogAppenderDefine)
      BY <1>2 DEF ActiveJob
    <3> HIDE DEF LogAppenderDefine
    <3> QED BY <1>12, <3>1
  <2>2. m_loggers' = [m_loggers EXCEPT ![n] = i] /\ j.pc = "add"
    BY <1>12 DEF changeAdd, JobAt, n, l, j
  <2> HIDE DEF a
  <2>3. i \in Logger /\ i.m_appenders # <<>>
    BY <1>3, <2>1, AppenderTyped, WithAppenderFollows
  <2> HIDE DEF i
  <2> QED BY <1>6, <1>7, <2>2, <2>3
<1>13. CASE changeAdd(m) /\ j.apps = <<>>
  <2>1. m_loggers' = m_loggers /\ j.pc = "add"
    BY <1>13 DEF changeAdd, JobAt, j
  <2> QED BY <1>5, <1>6, <1>13, <2>1
<1> QED BY <1>8, <1>9, <1>10, <1>11, <1>12, <1>13 DEF Change

LEMMA FedStep ==
    ASSUME IInv, Fed, [Next]_vars
    PROVE  Fed'
<1> SUFFICES ASSUME ~RootSilenced'
             PROVE  FedRoot' /\ \A t \in Main : FedItems(t)' /\ FedNew(t)'
  BY DEF Fed
<1>1. FedRoot /\ \A t \in Main : FedItems(t) /\ FedNew(t)
  BY SilenceStays DEF Fed, IInv
<1>2. \A t \in Main : FedItems(t)' /\ FedNew(t)'
  BY <1>1, FedItemsStep, FedNewStep
<1>3. CASE \E t \in Main : Change(t)
  BY <1>1, <1>2, <1>3, ChangeFed
<1>4. CASE ~(\E t \in Main : Change(t))
  <2>1. m_loggers'["root"].m_appenders = m_loggers["root"].m_appenders
    <3>1. m_loggers \in [Name -> Logger]
      BY DEF IInv, LogConfigTypeOK, LoggerTypeOK
    <3>2. ASSUME NEW n \in Name, getLogger(n) PROVE m_loggers'["root"].m_appenders = m_loggers["root"].m_appenders
      BY <3>1, <3>2, LogsAssumption DEF getLogger, Logger
    <3> QED BY <1>4, <3>2, LoggersMove DEF IInv
  <2>2. ASSUME NEW t \in Main, Feeding(t) PROVE Feeding(t)'
    <3>1. job'[t] = job[t]
      BY <1>4, <2>2, JobQuiet DEF Feeding
    <3> QED BY <2>2, <3>1 DEF Feeding, Current, Left
  <2> QED BY <1>1, <1>2, <2>1, <2>2 DEF FedRoot
<1> QED BY <1>3, <1>4

\* Where the root logger has an appender, an event of the highest level has
\* somewhere to go.
LEMMA FatalSinks ==
    ASSUME LoggerTypeOK, m_loggers["root"].m_appenders # <<>>, NEW n \in Name
    PROVE  Sinks(n, FATAL) # {}
<1>1. m_loggers \in [Name -> Logger] /\ "root" \in Name
  BY LogsAssumption DEF LoggerTypeOK
<1>2. ASSUME NEW k \in Name, m_loggers[k].m_appenders # <<>> PROVE Listening(k, FATAL) # {}
  <2> DEFINE s == m_loggers[k].m_appenders
  <2>1. s \in Seq(LogAppender) /\ s # <<>>
    BY <1>1, <1>2 DEF Logger
  <2>2. 1 \in DOMAIN s /\ s[1] \in LogAppender
    <3> HIDE DEF s, LogAppender
    <3> QED BY <2>1
  <2>3. FATAL >= s[1].m_level
    BY <2>2 DEF LogAppender, UNKNOW, FATAL
  <2> QED BY <2>2, <2>3 DEF Listening
<1>3. FATAL >= m_loggers["root"].m_level
  <2>1. m_loggers["root"] \in Logger
    BY <1>1
  <2>2. m_loggers["root"].m_level \in UNKNOW .. FATAL
    BY <2>1 DEF Logger
  <2> QED BY <2>2 DEF UNKNOW, FATAL
<1> QED BY <1>1, <1>2, <1>3 DEF Sinks

\* Hazard Config.h:1173.  Whatever step of a change it meets, an event of the
\* highest level is delivered, but while the root logger is itself rebuilt or
\* after a file that leaves it no appender.
THEOREM FatalEventsArrive == Spec => EventsAreDelivered
<1>1. Init => Fed
  <2> SUFFICES ASSUME Init PROVE Fed
    OBVIOUS
  <2>1. m_loggers["root"].m_appenders # <<>>
    BY LogsAssumption, RootAppenderTyped, NewLoggerFollows, WithAppenderFollows DEF Init, LoggerInit
  <2>2. ASSUME NEW t \in Main PROVE FedItems(t) /\ FedNew(t)
    <3>1. call[t].pc = "idle" /\ loading[t] = <<>>
      BY LogConfigAssumption DEF Init, Idle
    <3> QED BY <3>1 DEF FedItems, FedNew, SettingLogs
  <2> QED BY <2>1, <2>2 DEF Fed, FedRoot
<1>2. IInv /\ Fed /\ [Next]_vars => Fed'
  BY FedStep
<1>3. ASSUME IInv, Fed, NEW w \in Worker, event[w].pc = "append", event[w].level = FATAL
      PROVE  Sinks(event[w].name, FATAL) # {} \/ RebuildingRoot \/ RootSilenced
  <2>1. event[w].name \in Name
    BY <1>3 DEF IInv, LogConfigTypeOK, NoEvent
  <2>2. (\E t \in Main : Feeding(t)) => RebuildingRoot
    BY DEF Feeding, RebuildingRoot
  <2> QED BY <1>3, <2>1, <2>2, FatalSinks DEF IInv, LogConfigTypeOK, Fed, FedRoot
<1>4. IInv /\ Fed /\ [Next]_vars =>
        [\A w \in Worker : event[w].pc = "append" /\ event[w].level = FATAL /\ event'[w] = NoEvent =>
            Sinks(event[w].name, FATAL) # {} \/ RebuildingRoot \/ RootSilenced]_vars
  BY <1>3
<1> QED BY <1>1, <1>2, <1>4, Invariant, PTL DEF Spec, EventsAreDelivered

-----------------------------------------------------------------------------
(* What the casts of a define give back                                     *)

\* The loop of Accepted over n casts, whose results are c.
IsLoop(up, n, c) ==
    up = [k \in 0 .. n |-> IF k = 0 THEN <<>>
                           ELSE IF c[k] = Undefined THEN up[k - 1] ELSE Append(up[k - 1], c[k])]

\* Induction up to n, and by it that the loop's function exists.
LEMMA CountUp ==
    ASSUME NEW n \in Nat, NEW S, 0 \in S, \A k \in 0 .. n - 1 : k \in S => k + 1 \in S
    PROVE  \A k \in 0 .. n : k \in S
<1> DEFINE B == {k \in 0 .. n : k \notin S}
<1> SUFFICES ASSUME B # {} PROVE FALSE
  OBVIOUS
<1>1. PICK k \in B : \A j \in B : k <= j
  <2>1. B \in SUBSET Nat
    OBVIOUS
  <2> HIDE DEF B
  <2> QED BY <2>1, LeastOf
<1>2. k \in 0 .. n /\ k \notin S /\ k # 0
  BY <1>1
<1>3. k - 1 \in 0 .. n - 1 /\ k - 1 \notin B
  BY <1>1, <1>2
<1>4. k - 1 \in S
  BY <1>2, <1>3
<1>5. (k - 1) + 1 \in S
  BY <1>3, <1>4
<1> QED BY <1>2, <1>5

LEMMA LoopExists ==
    ASSUME NEW n \in Nat, NEW c
    PROVE  \E up : IsLoop(up, n, c)
<1> DEFINE Next1(f, k) == IF c[k] = Undefined THEN f[k - 1] ELSE Append(f[k - 1], c[k])
           S == {k \in 0 .. n : \E f : /\ f = [j \in 0 .. n |-> f[j]] /\ f[0] = <<>>
                                       /\ \A j \in 1 .. k : f[j] = Next1(f, j)}
<1>1. 0 \in S
  <2> DEFINE f == [j \in 0 .. n |-> <<>>]
  <2>1. f = [j \in 0 .. n |-> f[j]] /\ f[0] = <<>> /\ \A j \in 1 .. 0 : f[j] = Next1(f, j)
    OBVIOUS
  <2> HIDE DEF f
  <2> QED BY <2>1
<1>2. ASSUME NEW k \in 0 .. n - 1, k \in S PROVE k + 1 \in S
  <2>1. PICK f : /\ f = [j \in 0 .. n |-> f[j]] /\ f[0] = <<>>
                 /\ \A j \in 1 .. k : f[j] = Next1(f, j)
    BY <1>2
  <2> DEFINE g == [j \in 0 .. n |-> IF j = k + 1 THEN Next1(f, j) ELSE f[j]]
  <2>2. \A j \in 0 .. n : g[j] = IF j = k + 1 THEN Next1(f, j) ELSE f[j]
    OBVIOUS
  <2>3. g = [j \in 0 .. n |-> g[j]]
    OBVIOUS
  <2> HIDE DEF g
  <2>4. g[0] = <<>>
    BY <2>1, <2>2
  <2>5. ASSUME NEW j \in 1 .. k + 1 PROVE g[j] = Next1(g, j)
    <3>1. j \in 0 .. n /\ j - 1 \in 0 .. n /\ j - 1 # k + 1
      OBVIOUS
    <3>2. g[j - 1] = f[j - 1]
      BY <2>2, <3>1
    <3>3. g[j] = Next1(f, j)
      <4>1. CASE j = k + 1
        BY <2>2, <3>1, <4>1
      <4>2. CASE j # k + 1
        <5>1. j \in 1 .. k
          BY <4>2
        <5> HIDE DEF Next1
        <5> QED BY <2>1, <2>2, <3>1, <4>2, <5>1
      <4> QED BY <4>1, <4>2
    <3> QED BY <3>2, <3>3
  <2> HIDE DEF Next1
  <2> QED BY <2>3, <2>4, <2>5
<1>3. n \in S
  <2> HIDE DEF S
  <2> QED BY <1>1, <1>2, CountUp
<1>4. PICK f : f = [j \in 0 .. n |-> f[j]] /\ f[0] = <<>> /\ \A j \in 1 .. n : f[j] = Next1(f, j)
  BY <1>3
<1>5. \A j \in 0 .. n : f[j] = IF j = 0 THEN <<>> ELSE Next1(f, j)
  BY <1>4
<1>6. [j \in 0 .. n |-> f[j]] = [j \in 0 .. n |-> IF j = 0 THEN <<>> ELSE Next1(f, j)]
  <2> HIDE DEF Next1
  <2> QED BY <1>5
<1>7. f = [j \in 0 .. n |-> IF j = 0 THEN <<>> ELSE Next1(f, j)]
  <2> HIDE DEF Next1
  <2> QED BY <1>4, <1>6
<1> QED BY <1>7 DEF IsLoop

LEMMA LoopSteps ==
    ASSUME NEW n \in Nat, NEW c, NEW up, IsLoop(up, n, c)
    PROVE  /\ up[0] = <<>>
           /\ \A k \in 0 .. n - 1 :
                 up[k + 1] = IF c[k + 1] = Undefined THEN up[k] ELSE Append(up[k], c[k + 1])
<1> DEFINE Val(k) == IF k = 0 THEN <<>>
                     ELSE IF c[k] = Undefined THEN up[k - 1] ELSE Append(up[k - 1], c[k])
<1>1. up = [k \in 0 .. n |-> Val(k)]
  BY DEF IsLoop
<1>2. \A k \in 0 .. n : up[k] = Val(k)
  <2> HIDE DEF Val
  <2> QED BY <1>1
<1>3. up[0] = <<>>
  BY <1>2
<1>4. ASSUME NEW k \in 0 .. n - 1
      PROVE  up[k + 1] = IF c[k + 1] = Undefined THEN up[k] ELSE Append(up[k], c[k + 1])
  <2>1. k + 1 \in 0 .. n /\ k + 1 # 0 /\ (k + 1) - 1 = k
    OBVIOUS
  <2>2. up[k + 1] = Val(k + 1)
    BY <1>2, <2>1
  <2> QED BY <2>1, <2>2
<1> QED BY <1>3, <1>4

\* What is accepted are results of casts, and all of them if none is left out.
LEMMA LoopGives ==
    ASSUME NEW n \in Nat, NEW c, NEW up, IsLoop(up, n, c), NEW S,
           \A k \in 1 .. n : c[k] \in S \cup {Undefined}
    PROVE  up[n] \in Seq(S)
<1> DEFINE T == {k \in 0 .. n : up[k] \in Seq(S)}
<1>1. 0 \in T
  <2>1. up[0] = <<>>
    BY LoopSteps
  <2>2. <<>> \in Seq(S)
    OBVIOUS
  <2>3. up[0] \in Seq(S)
    BY <2>1, <2>2
  <2> HIDE DEF IsLoop
  <2> QED BY <2>3
<1>2. ASSUME NEW k \in 0 .. n - 1, k \in T PROVE k + 1 \in T
  <2>1. up[k] \in Seq(S) /\ k + 1 \in 1 .. n
    BY <1>2
  <2>2. up[k + 1] = IF c[k + 1] = Undefined THEN up[k] ELSE Append(up[k], c[k + 1])
    BY LoopSteps
  <2>3. CASE c[k + 1] = Undefined
    BY <2>1, <2>2, <2>3
  <2>4. CASE c[k + 1] # Undefined
    <3>1. c[k + 1] \in S
      BY <2>1, <2>4
    <3>2. Append(up[k], c[k + 1]) \in Seq(S)
      BY <2>1, <3>1
    <3>3. up[k + 1] \in Seq(S)
      BY <2>2, <2>4, <3>2
    <3> QED BY <2>1, <3>3
  <2> QED BY <2>3, <2>4
<1> HIDE DEF T
<1>3. n \in T
  BY <1>1, <1>2, CountUp
<1> QED BY <1>3 DEF T

LEMMA LoopGivesAll ==
    ASSUME NEW n \in Nat, NEW S, NEW c \in [1 .. n -> S], NEW up, IsLoop(up, n, c),
           Undefined \notin S
    PROVE  up[n] = c
<1> DEFINE T == {k \in 0 .. n : up[k] = [i \in 1 .. k |-> c[i]]}
<1>1. 0 \in T
  BY LoopSteps
<1>2. ASSUME NEW k \in 0 .. n - 1, k \in T PROVE k + 1 \in T
  <2>1. up[k] = [i \in 1 .. k |-> c[i]] /\ k + 1 \in 1 .. n
    BY <1>2
  <2>2. up[k + 1] = Append(up[k], c[k + 1])
    <3>1. up[k + 1] = IF c[k + 1] = Undefined THEN up[k] ELSE Append(up[k], c[k + 1])
      BY LoopSteps
    <3>2. c[k + 1] # Undefined
      BY <2>1
    <3> QED BY <3>1, <3>2
  <2>3. [i \in 1 .. k |-> c[i]] \in Seq(S) /\ Len([i \in 1 .. k |-> c[i]]) = k
    OBVIOUS
  <2>4. Append([i \in 1 .. k |-> c[i]], c[k + 1]) = [i \in 1 .. k + 1 |-> c[i]]
    BY <2>1, <2>3
  <2> QED BY <2>1, <2>2, <2>4
<1> HIDE DEF T
<1>3. n \in T
  BY <1>1, <1>2, CountUp
<1> QED BY <1>3 DEF T

\* Accepted runs such a loop, with each of the two casts of an appender.
LEMMA AppenderLoop ==
    ASSUME NEW s, Len(s) \in Nat
    PROVE  \E up : /\ IsLoop(up, Len(s), [k \in 1 .. Len(s) |-> AppenderDefine(s[k])])
                   /\ Accepted(s, AppenderDefine) = up[Len(s)]
<1> DEFINE F(k) == AppenderDefine(s[k])
           c == [k \in 1 .. Len(s) |-> F(k)]
           Val(g, k) == IF k = 0 THEN <<>>
                        ELSE IF F(k) = Undefined THEN g[k - 1] ELSE Append(g[k - 1], F(k))
           upTo == CHOOSE g : g = [k \in 0 .. Len(s) |-> Val(g, k)]
<1>1. Accepted(s, AppenderDefine) = upTo[Len(s)]
  BY DEF Accepted
<1> HIDE DEF F
<1>2. ASSUME NEW g
      PROVE  [k \in 0 .. Len(s) |-> Val(g, k)] =
             [k \in 0 .. Len(s) |-> IF k = 0 THEN <<>>
                                    ELSE IF c[k] = Undefined THEN g[k - 1] ELSE Append(g[k - 1], c[k])]
  <2>1. ASSUME NEW k \in 0 .. Len(s), k # 0 PROVE c[k] = F(k)
    BY <2>1
  <2> HIDE DEF c
  <2> QED BY <2>1
<1>3. PICK u : IsLoop(u, Len(s), c)
  BY LoopExists
<1>4. u = [k \in 0 .. Len(s) |-> Val(u, k)]
  <2> HIDE DEF c, Val
  <2> QED BY <1>2, <1>3 DEF IsLoop
<1>5. upTo = [k \in 0 .. Len(s) |-> Val(upTo, k)]
  <2> HIDE DEF Val
  <2> QED BY <1>4
<1>6. IsLoop(upTo, Len(s), c)
  <2> HIDE DEF c, Val, upTo
  <2> QED BY <1>2, <1>5 DEF IsLoop
<1> QED BY <1>1, <1>6 DEF F

LEMMA SetAppenderLoop ==
    ASSUME NEW s, Len(s) \in Nat
    PROVE  \E up : /\ IsLoop(up, Len(s), [k \in 1 .. Len(s) |-> SetAppenderDefine(s[k])])
                   /\ Accepted(s, SetAppenderDefine) = up[Len(s)]
<1> DEFINE F(k) == SetAppenderDefine(s[k])
           c == [k \in 1 .. Len(s) |-> F(k)]
           Val(g, k) == IF k = 0 THEN <<>>
                        ELSE IF F(k) = Undefined THEN g[k - 1] ELSE Append(g[k - 1], F(k))
           upTo == CHOOSE g : g = [k \in 0 .. Len(s) |-> Val(g, k)]
<1>1. Accepted(s, SetAppenderDefine) = upTo[Len(s)]
  BY DEF Accepted
<1> HIDE DEF F
<1>2. ASSUME NEW g
      PROVE  [k \in 0 .. Len(s) |-> Val(g, k)] =
             [k \in 0 .. Len(s) |-> IF k = 0 THEN <<>>
                                    ELSE IF c[k] = Undefined THEN g[k - 1] ELSE Append(g[k - 1], c[k])]
  <2>1. ASSUME NEW k \in 0 .. Len(s), k # 0 PROVE c[k] = F(k)
    BY <2>1
  <2> HIDE DEF c
  <2> QED BY <2>1
<1>3. PICK u : IsLoop(u, Len(s), c)
  BY LoopExists
<1>4. u = [k \in 0 .. Len(s) |-> Val(u, k)]
  <2> HIDE DEF c, Val
  <2> QED BY <1>2, <1>3 DEF IsLoop
<1>5. upTo = [k \in 0 .. Len(s) |-> Val(upTo, k)]
  <2> HIDE DEF Val
  <2> QED BY <1>4
<1>6. IsLoop(upTo, Len(s), c)
  <2> HIDE DEF c, Val, upTo
  <2> QED BY <1>2, <1>5 DEF IsLoop
<1> QED BY <1>1, <1>6 DEF F

\* A define's appender as the casts of a file make it.
Loaded(a) == a \in LogAppenderDefine /\ a.level = UNKNOW /\ (a.type = 2 => a.file = NoFile)

AppenderToYaml(a) ==
    [type |-> <<"FileLogAppender", "StdoutLogAppender">>[a.type],
     file |-> IF a.type = 1 THEN a.file ELSE Undefined,
     level |-> LevelToYaml(a.level),
     formatter |-> FormatterToYaml(a.formatter)]

\* The casts of its parts.
LEMMA LevelReadsBack ==
    ASSUME NEW level \in UNKNOW .. FATAL
    PROVE  FromString(OrElse(LevelToYaml(level), "")) = level
<1>1. level \in {0, 1, 2, 3, 4, 5}
  BY DEF UNKNOW, FATAL
<1>2. DOMAIN LevelText = {1, 2, 3, 4, 5}
  BY DEF LevelText
<1>3. /\ LevelText[1] = "DEBUG" /\ LevelText[2] = "INFO" /\ LevelText[3] = "WARN"
      /\ LevelText[4] = "ERROR" /\ LevelText[5] = "FATAL"
  BY DEF LevelText
<1>4. /\ LevelTextLower[1] = "debug" /\ LevelTextLower[2] = "info" /\ LevelTextLower[3] = "warn"
      /\ LevelTextLower[4] = "error" /\ LevelTextLower[5] = "fatal"
  BY DEF LevelTextLower
<1>5. CASE level = 0
  <2>1. OrElse(LevelToYaml(level), "") = ""
    BY <1>5 DEF LevelToYaml, OrElse, UNKNOW
  <2>2. \A i \in DOMAIN LevelText : "" \notin {LevelText[i], LevelTextLower[i]}
    BY <1>2, <1>3, <1>4
  <2> QED BY <1>5, <2>1, <2>2 DEF FromString, UNKNOW
<1>6. CASE level # 0
  <2>1. level \in DOMAIN LevelText
    BY <1>1, <1>2, <1>6
  <2>2. LevelText[level] \in Range(LevelText)
    BY <2>1 DEF Range
  <2>3. OrElse(LevelToYaml(level), "") = LevelText[level]
    BY <1>6, <2>1, <2>2, LogDefineAssumption DEF LevelToYaml, LevelName, OrElse, UNKNOW
  <2>4. \A i \in DOMAIN LevelText : LevelText[level] \in {LevelText[i], LevelTextLower[i]} <=> i = level
    BY <1>2, <1>3, <1>4, <2>1
  <2>5. FromString(LevelText[level]) = CHOOSE i \in DOMAIN LevelText :
                                          LevelText[level] \in {LevelText[i], LevelTextLower[i]}
    BY <2>1, <2>4 DEF FromString
  <2>6. \A j : (j = CHOOSE i \in DOMAIN LevelText :
                       LevelText[level] \in {LevelText[i], LevelTextLower[i]}) => j = level
    BY <2>1, <2>4
  <2> QED BY <2>3, <2>5, <2>6
<1> QED BY <1>5, <1>6

LEMMA FormatterReadsBack ==
    ASSUME NEW f \in Pattern
    PROVE  OrElse(FormatterToYaml(f), <<>>) = f
  BY LogDefineAssumption DEF OrElse, FormatterToYaml

LEMMA AppenderReadsBack ==
    ASSUME NEW a, Loaded(a)
    PROVE  AppenderDefine(AppenderToYaml(a)) = a
<1>1. a \in LogAppenderDefine /\ a.type \in {1, 2} /\ a.formatter \in Pattern
  BY DEF Loaded, LogAppenderDefine
<1>2. a = [type |-> a.type, level |-> a.level, formatter |-> a.formatter, file |-> a.file]
  BY <1>1 DEF LogAppenderDefine
<1>3. OrElse(FormatterToYaml(a.formatter), <<>>) = a.formatter
  BY <1>1, FormatterReadsBack
<1> DEFINE y == AppenderToYaml(a)
<1>4. /\ y.type = <<"FileLogAppender", "StdoutLogAppender">>[a.type]
      /\ y.file = IF a.type = 1 THEN a.file ELSE Undefined
      /\ y.formatter = FormatterToYaml(a.formatter)
  BY DEF AppenderToYaml
<1> HIDE DEF y
<1>5. CASE a.type = 1
  <2>1. a.file \in FileName
    BY <1>1 DEF LogAppenderDefine
  <2>2. y.type = "FileLogAppender" /\ y.file = a.file /\ a.file # Undefined
    BY <1>4, <1>5, <2>1, LogDefineAssumption
  <2>3. AppenderDefine(y) = [type |-> 1, level |-> UNKNOW, formatter |-> OrElse(y.formatter, <<>>), file |-> y.file]
    BY <2>2 DEF AppenderDefine
  <2> QED BY <1>2, <1>3, <1>4, <1>5, <2>2, <2>3 DEF y, Loaded
<1>6. CASE a.type = 2
  <2>1. y.type = "StdoutLogAppender"
    BY <1>4, <1>6
  <2>2. AppenderDefine(y) = [type |-> 2, level |-> UNKNOW, formatter |-> OrElse(y.formatter, <<>>), file |-> NoFile]
    BY <2>1 DEF AppenderDefine
  <2> QED BY <1>2, <1>3, <1>4, <1>6, <2>2 DEF y, Loaded
<1> QED BY <1>1, <1>5, <1>6

\* A written appender is one, so that a list of them is no absent key.
LEMMA NodeTyped ==
    ASSUME NEW a, Loaded(a)
    PROVE  AppenderToYaml(a) \in AppenderNode
<1>1. a \in LogAppenderDefine /\ a.type \in {1, 2} /\ a.formatter \in Pattern /\ a.file \in FileName
      /\ a.level = UNKNOW
  BY DEF Loaded, LogAppenderDefine
<1>2. <<"FileLogAppender", "StdoutLogAppender">>[a.type] \in {"FileLogAppender", "StdoutLogAppender"}
  BY <1>1
<1>3. LevelToYaml(a.level) = Undefined /\ FormatterToYaml(a.formatter) \in Pattern \cup {Undefined}
  BY <1>1 DEF LevelToYaml, FormatterToYaml
<1> QED BY <1>1, <1>2, <1>3 DEF AppenderToYaml, AppenderNode

\* A define as the casts of a file make it.
LoadedDefine(d) ==
    /\ d \in LogDefine
    /\ \A k \in DOMAIN d.appenders : Loaded(d.appenders[k])

\* What a sequence is, and when a function is one.
LEMMA SeqIs ==
    ASSUME NEW S, NEW s \in Seq(S)
    PROVE  /\ Len(s) \in Nat /\ DOMAIN s = 1 .. Len(s)
           /\ s \in [1 .. Len(s) -> S] /\ s = [k \in 1 .. Len(s) |-> s[k]]
  OBVIOUS

LEMMA IsSeq ==
    ASSUME NEW S, NEW n \in Nat, NEW s \in [1 .. n -> S]
    PROVE  s \in Seq(S) /\ Len(s) = n
  OBVIOUS

\* The casts of one LogDefine undo each other on every define with such appenders.
LEMMA DefineReadsBack ==
    ASSUME NEW d, LoadedDefine(d)
    PROVE  ToDefine(DefineToYaml(d)) = d
<1> DEFINE aps == d.appenders
           y == DefineToYaml(d)
           nodes == [i \in DOMAIN aps |-> AppenderToYaml(aps[i])]
<1>1. /\ aps \in Seq(LogAppenderDefine) /\ d.level \in UNKNOW .. FATAL /\ d.formatter \in Pattern
      /\ d = [name |-> d.name, level |-> d.level, formatter |-> d.formatter, appenders |-> d.appenders]
  BY DEF LoadedDefine, LogDefine
<1>2. /\ y.name = d.name /\ y.level = LevelToYaml(d.level)
      /\ y.formatter = FormatterToYaml(d.formatter)
      /\ y.appenders = IF aps = <<>> THEN Undefined ELSE nodes
  BY DEF DefineToYaml, AppenderToYaml
<1> HIDE DEF y, aps
<1>3. ToDefine(y) = [name |-> d.name, level |-> d.level, formatter |-> d.formatter,
                     appenders |-> IF y.appenders = Undefined THEN <<>>
                                   ELSE Accepted(y.appenders, AppenderDefine)]
  <2>1. FromString(OrElse(LevelToYaml(d.level), "")) = d.level
    BY <1>1, LevelReadsBack, Zenon
  <2>2. OrElse(FormatterToYaml(d.formatter), <<>>) = d.formatter
    BY <1>1, FormatterReadsBack
  <2> QED BY <1>2, <2>1, <2>2, Zenon DEF ToDefine
<1>4. CASE aps = <<>>
  BY <1>1, <1>2, <1>3, <1>4 DEF y, aps
<1>5. CASE aps # <<>>
  <2>1. \A k \in DOMAIN aps : Loaded(aps[k])
    BY DEF LoadedDefine, aps
  <2>2. /\ Len(aps) \in Nat /\ DOMAIN aps = 1 .. Len(aps)
        /\ aps \in [1 .. Len(aps) -> LogAppenderDefine] /\ aps = [k \in 1 .. Len(aps) |-> aps[k]]
    BY <1>1, SeqIs
  <2>3. nodes \in Seq(AppenderNode) /\ Len(nodes) = Len(aps)
    <3>1. \A k \in 1 .. Len(aps) : AppenderToYaml(aps[k]) \in AppenderNode
      BY <2>1, <2>2, NodeTyped
    <3>2. nodes \in [1 .. Len(aps) -> AppenderNode]
      BY <2>2, <3>1
    <3> HIDE DEF nodes
    <3> QED BY <2>2, <3>2, IsSeq
  <2>4. y.appenders = nodes /\ nodes # Undefined
    BY <1>2, <1>5, <2>3, LogDefineAssumption
  <2> DEFINE c == [k \in 1 .. Len(nodes) |-> AppenderDefine(nodes[k])]
  <2>5. PICK up : IsLoop(up, Len(nodes), c) /\ Accepted(nodes, AppenderDefine) = up[Len(nodes)]
    BY <2>2, <2>3, AppenderLoop
  <2>6. \A k \in 1 .. Len(aps) : AppenderDefine(nodes[k]) = aps[k]
    <3> TAKE k \in 1 .. Len(aps)
    <3>1. nodes[k] = AppenderToYaml(aps[k]) /\ Loaded(aps[k])
      BY <2>1, <2>2
    <3> HIDE DEF nodes
    <3> QED BY <3>1, AppenderReadsBack
  <2> HIDE DEF nodes
  <2>7. c = [k \in 1 .. Len(aps) |-> aps[k]]
    BY <2>3, <2>6
  <2>8. c = aps /\ c \in [1 .. Len(nodes) -> LogAppenderDefine]
    <3>1. c = aps
      BY <2>2, <2>7
    <3> HIDE DEF c
    <3> QED BY <2>2, <2>3, <3>1
  <2>9. up[Len(nodes)] = c
    <3> HIDE DEF c
    <3> QED BY <2>2, <2>3, <2>5, <2>8, LoopGivesAll, LogDefineAssumption
  <2>10. Accepted(nodes, AppenderDefine) = aps
    BY <2>5, <2>8, <2>9
  <2>11. ToDefine(y) = [name |-> d.name, level |-> d.level, formatter |-> d.formatter, appenders |-> aps]
    BY <1>3, <2>4, <2>10
  <2> QED BY <1>1, <2>11 DEF y, aps
<1> QED BY <1>4, <1>5

\* The cast of a set of LogDefines gives its appenders no level, and a file to
\* those of type 1 only.
LEMMA SetAppendersLoaded ==
    ASSUME NEW node, node = Undefined \/ node \in Seq(Range(node)), NEW i,
           NEW k \in DOMAIN SetAppenders(node, i)
    PROVE  LET a == SetAppenders(node, i)[k]
           IN  a.level = UNKNOW /\ (a.type = 2 => a.file = NoFile)
<1>1. CASE node = Undefined
  <2>1. DOMAIN SetAppenders(node, i) = {}
    BY <1>1 DEF SetAppenders
  <2> QED BY <2>1
<1>2. CASE node # Undefined
  <2> DEFINE s == [j \in DOMAIN node |-> IF i \in DOMAIN node THEN node[i] ELSE Absent]
             c == [j \in 1 .. Len(s) |-> SetAppenderDefine(s[j])]
             S == {c[j] : j \in 1 .. Len(s)} \ {Undefined}
  <2>1. SetAppenders(node, i) = Accepted(s, SetAppenderDefine)
    BY <1>2, Zenon DEF SetAppenders
  <2>2. Len(s) \in Nat
    <3>1. Len(node) \in Nat /\ DOMAIN node = 1 .. Len(node)
      BY <1>2, SeqIs
    <3>2. s \in [1 .. Len(node) -> {IF i \in DOMAIN node THEN node[i] ELSE Absent}]
      BY <3>1
    <3> HIDE DEF s
    <3> QED BY <3>1, <3>2, IsSeq
  <2> HIDE DEF s
  <2>3. PICK up : IsLoop(up, Len(s), c) /\ Accepted(s, SetAppenderDefine) = up[Len(s)]
    BY <2>2, SetAppenderLoop
  <2>4. \A j \in 1 .. Len(s) : c[j] \in S \cup {Undefined}
    <3> HIDE DEF c
    <3> QED OBVIOUS
  <2>5. \A a \in S : a.level = UNKNOW /\ (a.type = 2 => a.file = NoFile)
    <3> SUFFICES ASSUME NEW a \in S PROVE a.level = UNKNOW /\ (a.type = 2 => a.file = NoFile)
      OBVIOUS
    <3>1. PICK j \in 1 .. Len(s) : a = SetAppenderDefine(s[j]) /\ a # Undefined
      OBVIOUS
    <3> HIDE DEF S, c
    <3> QED BY <3>1 DEF SetAppenderDefine
  <2>6. up[Len(s)] \in Seq(S)
    <3> HIDE DEF c, S
    <3> QED BY <2>2, <2>3, <2>4, LoopGives
  <2>7. SetAppenders(node, i)[k] \in S
    <3> HIDE DEF c, S
    <3>1. SetAppenders(node, i) \in Seq(S)
      BY <2>1, <2>3, <2>6
    <3> DEFINE r == SetAppenders(node, i)
    <3>2. r \in [1 .. Len(r) -> S] /\ DOMAIN r = 1 .. Len(r)
      BY <3>1, SeqIs
    <3> QED BY <3>2
  <2> QED BY <2>5, <2>7
<1> QED BY <1>1, <1>2

\* A set of defines as the casts of a file make it.
FromFile(v) == \A n \in DOMAIN v : LoadedDefine(v[n])

LEMMA ItemFromFile ==
    ASSUME NEW i \in Item, i.path = Logs
    PROVE  FromFile(Cast(Logs, i.value))
<1> DEFINE node == i.value.items
           named == {k \in DOMAIN node : node[k].name # Undefined}
           first == {k \in named : \A j \in named : j < k => node[j].name # node[k].name}
           v == Cast(Logs, i.value)
<1>1. IsDefines(v) /\ \A k \in DOMAIN node :
          node[k].appenders = Undefined \/ node[k].appenders \in Seq(Range(node[k].appenders))
  BY FilesAssumption
<1>2. v = ToDefines(node)
  BY DEF Cast
<1> HIDE DEF v
<1> SUFFICES ASSUME NEW n \in DOMAIN v PROVE LoadedDefine(v[n])
  BY DEF FromFile, v
<1> DEFINE k == CHOOSE k \in first : node[k].name = n
<1>3. n \in {node[j].name : j \in first} /\ v[n].appenders = SetAppenders(node[k].appenders, k)
  BY <1>2, Zenon DEF ToDefines
<1>4. k \in first
  <2>1. \E j \in first : node[j].name = n
    BY <1>3
  <2> HIDE DEF first
  <2> QED BY <2>1
<1>5. k \in DOMAIN node
  BY <1>4
<1> HIDE DEF k
<1>6. v[n] \in LogDefine
  BY <1>1 DEF IsDefines
<1>7. v[n].appenders \in Seq(LogAppenderDefine)
  BY <1>6 DEF LogDefine
<1> DEFINE aps == v[n].appenders
<1>8. \A j \in DOMAIN aps : aps[j] \in LogAppenderDefine
  <2>1. aps \in [1 .. Len(aps) -> LogAppenderDefine] /\ DOMAIN aps = 1 .. Len(aps)
    BY <1>7, SeqIs
  <2> HIDE DEF aps
  <2> QED BY <2>1
<1>9. \A j \in DOMAIN aps : aps[j].level = UNKNOW /\ (aps[j].type = 2 => aps[j].file = NoFile)
  BY <1>1, <1>3, <1>5, SetAppendersLoaded
<1> QED BY <1>6, <1>8, <1>9 DEF LoadedDefine, Loaded

\* The inductive invariant of DefinesRoundTrip: "logs" holds, and will hold,
\* what the casts of a file make.
FromFiles ==
    /\ FromFile(m_val[Logs])
    /\ \A t \in Main : SettingLogs(t) => FromFile(call[t].new)

LEMMA ValueFromSetter ==
    ASSUME CallInv, CallStep
    PROVE  \/ m_val'[Logs] = m_val[Logs]
           \/ \E t \in Main : SettingLogs(t) /\ m_val'[Logs] = call[t].new
<1>1. ASSUME NEW t \in Thread, write(t)
      PROVE  \/ m_val'[Logs] = m_val[Logs]
             \/ \E u \in Main : SettingLogs(u) /\ m_val'[Logs] = call[u].new
  <2>1. t \in Main /\ m_val \in [Var -> Value] /\ call[t].pc = "write"
        /\ m_val' = [m_val EXCEPT ![call[t].var] = call[t].new]
    BY <1>1 DEF CallInv, Roles, ConfigTypeOK, write
  <2>2. CASE call[t].var = Logs
    BY <2>1, <2>2, LogsAssumption DEF SettingLogs
  <2>3. CASE call[t].var # Logs
    BY <2>1, <2>3
  <2> QED BY <2>2, <2>3
<1>2. ASSUME NEW t \in Thread, MethodStep(t), ~write(t) PROVE m_val' = m_val
  BY <1>2 DEF MethodStep, notify, Told, endNotify, count, insert, answer
<1>3. ASSUME NEW t \in Thread, NEW x \in Var, NEW v, setValue(t, x, v) PROVE m_val' = m_val
  BY <1>3 DEF setValue
<1>4. ASSUME NEW t \in Thread, Told(t, LogIniter) PROVE m_val' = m_val
  BY <1>4 DEF Told
<1>5. ASSUME NEW w \in Worker, NEW x \in Var, NEW c, addListener(w, x, c) PROVE m_val' = m_val
  BY <1>5 DEF addListener
<1>6. ASSUME NEW w \in Worker, NEW x \in Var, NEW key, delListener(w, x, key) PROVE m_val' = m_val
  BY <1>6 DEF delListener
<1>7. UNCHANGED cvars => m_val' = m_val
  BY DEF cvars
<1> QED BY <1>1, <1>2, <1>3, <1>4, <1>5, <1>6, <1>7, LogConfigAssumption DEF CallStep

LEMMA FromFilesStep ==
    ASSUME IInv, FromFiles, [Next]_vars
    PROVE  FromFiles'
<1>1. FromFile(m_val[Logs])'
  <2>1. CallStep /\ CallInv
    BY StepsOfCalls DEF IInv
  <2> QED BY <2>1, ValueFromSetter DEF FromFiles, FromFile
<1>2. ASSUME NEW m \in Main, SettingLogs(m)' PROVE FromFile(call[m].new)'
  <2>1. CASE SettingLogs(m) /\ call'[m].new = call[m].new
    BY <2>1 DEF FromFiles, FromFile
  <2>2. CASE LET i == Head(loading[m])
             IN  loading[m] # <<>> /\ i.path = Logs /\ call'[m].new = Cast(Logs, i.value)
    <3>1. Head(loading[m]) \in Item
      BY <2>2, ItemTyped DEF IInv, LogConfigTypeOK
    <3>2. FromFile(Cast(Logs, Head(loading[m]).value))
      BY <2>2, <3>1, ItemFromFile
    <3> QED BY <2>2, <3>2 DEF FromFile
  <2> QED BY <1>2, <2>1, <2>2, NewKeptStep DEF NewKept
<1> QED BY <1>1, <1>2 DEF FromFiles

\* Config.h:559.  The casts of one LogDefine undo each other on every define that
\* "logs" comes to hold: the loop over the appenders leaves none of them out,
\* since each is written under a type the other cast knows.
THEOREM DefinesComeBack == Spec => []DefinesRoundTrip
<1>1. Init => FromFiles
  BY LogConfigAssumption, LogsAssumption DEF Init, FromFiles, FromFile, SettingLogs, Idle
<1>2. IInv /\ FromFiles /\ [Next]_vars => FromFiles'
  BY FromFilesStep
<1>3. FromFiles => DefinesRoundTrip
  BY DefineReadsBack DEF FromFiles, FromFile, DefinesRoundTrip
<1> QED BY <1>1, <1>2, <1>3, Invariant, PTL DEF Spec
=============================================================================

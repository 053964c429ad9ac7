------------------------------- MODULE ConfigVar -------------------------------
(***************************************************************************)
(* ConfigVar<T> (Config.h): variables, each with a value of its type, a    *)
(* map of change listeners and a read-write lock, and for each type the    *)
(* counter of listener ids, which is a static of the member function and   *)
(* so shared by all variables of the type.                                 *)
(*                                                                         *)
(* A section under the write lock that runs through is one step.  The      *)
(* sections that meet other threads are cut: setValue holds the read lock  *)
(* while it calls the listeners one by one, lets go, and takes the write   *)
(* lock for the assignment; addListener reads and writes the counter,      *)
(* which the lock of its own variable does not guard.                      *)
(***************************************************************************)
EXTENDS Naturals, FiniteSets

CONSTANTS
    Thread, Var, Value, Callback,
    LogIniter,      \* the listener that has steps of its own
    Stepwise,       \* the callbacks whose body is steps of another module
    TypeOf(_),      \* T of a variable
    Same(_, _, _),  \* operator== of a variable's type
    First(_),       \* the value a variable is looked up with
    NoThread,
    MaxId           \* bound: listener ids given out

ASSUME ConfigVarAssumption ==
    /\ NoThread \notin Thread
    /\ MaxId \in Nat
    /\ Stepwise \subseteq Callback
    /\ \A x \in Var : First(x) \in Value

VARIABLES
    m_val,
    m_cbs,          \* per variable, id to callback
    s_fun_id,
    readers, writer,\* m_mutex of each variable
    call,           \* what each thread is doing in a method
    knows           \* history: the value each callback was last told, or found
                    \* when it was registered, and whether it came late

cvars == <<m_val, m_cbs, s_fun_id, readers, writer, call, knows>>

Idle == [pc |-> "idle"]

Ids == 1 .. MaxId

Maps == UNION {[I -> Callback] : I \in SUBSET Ids}

SetCalls == [pc : {"notify", "write"}, var : Var, old : Value, new : Value, todo : SUBSET Ids]
AddCalls == [pc : {"count", "insert", "answer"}, var : Var, cb : Callback, id : 0 .. MaxId]
Calls == {Idle} \cup SetCalls \cup AddCalls

ConfigTypeOK ==
    /\ m_val \in [Var -> Value]
    /\ m_cbs \in [Var -> Maps]
    /\ s_fun_id \in [{TypeOf(x) : x \in Var} -> 0 .. MaxId]
    /\ readers \in [Var -> SUBSET Thread]
    /\ writer \in [Var -> Thread \cup {NoThread}]
    /\ call \in [Thread -> Calls]
    /\ knows \in [Var -> [Callback -> [val : Value, late : BOOLEAN]]]

CanRead(x) == writer[x] = NoThread
CanWrite(x) == writer[x] = NoThread /\ readers[x] = {}

ConfigInit ==
    /\ m_val = [x \in Var |-> First(x)]
    /\ m_cbs = [x \in Var |-> [i \in {} |-> CHOOSE c \in Callback : TRUE]]
    /\ s_fun_id = [T \in {TypeOf(x) : x \in Var} |-> 0]
    /\ readers = [x \in Var |-> {}]
    /\ writer = [x \in Var |-> NoThread]
    /\ call = [t \in Thread |-> Idle]
    /\ knows = [x \in Var |-> [c \in Callback |-> [val |-> First(x), late |-> FALSE]]]

-----------------------------------------------------------------------------
\* setValue up to its first listener.  When v == m_val it returns at once.
setValue(t, x, v) ==
    /\ CanRead(x)
    /\ ~Same(x, v, m_val[x])
    /\ readers' = [readers EXCEPT ![x] = @ \cup {t}]
    /\ call' = [call EXCEPT ![t] = [pc |-> "notify", var |-> x, old |-> m_val[x],
                                    new |-> v, todo |-> DOMAIN m_cbs[x]]]
    /\ UNCHANGED <<m_val, m_cbs, s_fun_id, writer, knows>>

\* The listener whose turn it is: m_cbs is ordered by id.
Turn(t) == CHOOSE i \in call[t].todo : \A j \in call[t].todo : i <= j

Calling(t, c) ==
    /\ call[t].pc = "notify" /\ call[t].todo # {}
    /\ m_cbs[call[t].var][Turn(t)] = c

\* Mutant of Told: the iterator stays where it is.
ToldAgain(t, c) ==
    /\ Calling(t, c)
    /\ knows' = [knows EXCEPT ![call[t].var][c] = [val |-> call[t].new, late |-> FALSE]]
    /\ UNCHANGED <<m_val, m_cbs, s_fun_id, readers, writer, call>>

\* i.second(m_val, v) returns.
Told(t, c) ==
    /\ Calling(t, c)
    /\ knows' = [knows EXCEPT ![call[t].var][c] = [val |-> call[t].new, late |-> FALSE]]
    /\ call' = [call EXCEPT ![t].todo = @ \ {Turn(t)}]
    /\ UNCHANGED <<m_val, m_cbs, s_fun_id, readers, writer>>

notify(t) == \E c \in Callback \ Stepwise : Told(t, c)

\* The end of the block that holds the read lock.
endNotify(t) ==
    /\ call[t].pc = "notify" /\ call[t].todo = {}
    /\ readers' = [readers EXCEPT ![call[t].var] = @ \ {t}]
    /\ call' = [call EXCEPT ![t].pc = "write"]
    /\ UNCHANGED <<m_val, m_cbs, s_fun_id, writer, knows>>

\* Mutant of write: the assignment of a value the listeners have not seen last.
writeOld(t) ==
    /\ call[t].pc = "write"
    /\ CanWrite(call[t].var)
    /\ m_val' = [m_val EXCEPT ![call[t].var] = call[t].old]
    /\ call' = [call EXCEPT ![t] = Idle]
    /\ UNCHANGED <<m_cbs, s_fun_id, readers, writer, knows>>

\* The rest of setValue: the write lock and the assignment.
write(t) ==
    /\ call[t].pc = "write"
    /\ CanWrite(call[t].var)
    /\ m_val' = [m_val EXCEPT ![call[t].var] = call[t].new]
    /\ call' = [call EXCEPT ![t] = Idle]
    /\ UNCHANGED <<m_cbs, s_fun_id, readers, writer, knows>>

-----------------------------------------------------------------------------
\* Whether a setter of x has told its listeners and not yet written.
Pending(x) == \E t \in Thread : call[t].pc = "write" /\ call[t].var = x

\* addListener up to the read of s_fun_id in ++s_fun_id.
addListener(t, x, c) ==
    /\ call[t] = Idle
    /\ CanWrite(x)
    /\ s_fun_id[TypeOf(x)] < MaxId
    /\ writer' = [writer EXCEPT ![x] = t]
    /\ call' = [call EXCEPT ![t] = [pc |-> "count", var |-> x, cb |-> c,
                                    id |-> s_fun_id[TypeOf(x)]]]
    /\ UNCHANGED <<m_val, m_cbs, s_fun_id, readers, knows>>

\* The write in ++s_fun_id.
count(t) ==
    /\ call[t].pc = "count"
    /\ s_fun_id' = [s_fun_id EXCEPT ![TypeOf(call[t].var)] = call[t].id + 1]
    /\ call' = [call EXCEPT ![t].pc = "insert"]
    /\ UNCHANGED <<m_val, m_cbs, readers, writer, knows>>

\* m_cbs[s_fun_id] = cb.
insert(t) ==
    /\ call[t].pc = "insert"
    /\ LET x == call[t].var
           c == call[t].cb
           id == s_fun_id[TypeOf(x)]
       IN  /\ m_cbs' = [m_cbs EXCEPT ![x] =
                  [i \in DOMAIN @ \cup {id} |-> IF i = id THEN c ELSE @[i]]]
           /\ knows' = [knows EXCEPT ![x][c] = [val |-> m_val[x], late |-> Pending(x)]]
           /\ call' = [call EXCEPT ![t].pc = "answer", ![t].id = id]
    /\ UNCHANGED <<m_val, s_fun_id, readers, writer>>

\* return s_fun_id, which is read once more, and the end of the write lock.
answer(t) ==
    /\ call[t].pc = "answer"
    /\ writer' = [writer EXCEPT ![call[t].var] = NoThread]
    /\ call' = [call EXCEPT ![t] = Idle]
    /\ UNCHANGED <<m_val, m_cbs, s_fun_id, readers, knows>>

delListener(t, x, key) ==
    /\ call[t] = Idle
    /\ CanWrite(x)
    /\ key \in DOMAIN m_cbs[x]
    /\ m_cbs' = [m_cbs EXCEPT ![x] = [i \in DOMAIN @ \ {key} |-> @[i]]]
    /\ UNCHANGED <<m_val, s_fun_id, readers, writer, call, knows>>

MethodStep(t) ==
    notify(t) \/ endNotify(t) \/ write(t) \/ count(t) \/ insert(t) \/ answer(t)

-----------------------------------------------------------------------------
(* Properties                                                               *)

\* Hazard Config.h:844.  While the listeners run, the old value they are given
\* by reference is still the variable's value: no other setter writes and no
\* listener is added or removed under them, by the one read lock.
OldValueStays ==
    \A t \in Thread : call[t].pc = "notify" =>
        /\ m_val[call[t].var] = call[t].old
        /\ call[t].todo \subseteq DOMAIN m_cbs[call[t].var]
        /\ writer[call[t].var] = NoThread

Registered(x) == {m_cbs[x][i] : i \in DOMAIN m_cbs[x]}

Setting(x) == \E t \in Thread : call[t].pc \in {"notify", "write"} /\ call[t].var = x

\* Config.h:833 says that a change of the value is told to the registered
\* callbacks: when nobody is in setValue, what a registered listener was told
\* last, or found when it came, is the value.
ListenerKnowsValue ==
    \A x \in Var, c \in Callback :
        ~Setting(x) /\ c \in Registered(x) => knows[x][c].val = m_val[x]

\* The same of the listeners that did not come between a setter's last call of
\* a listener and its write, or have been told of a later value since.  It holds
\* while one thread sets the variable.
PunctualListenerKnowsValue ==
    \A x \in Var, c \in Callback :
        ~Setting(x) /\ c \in Registered(x) /\ ~knows[x][c].late =>
            knows[x][c].val = m_val[x]

\* Config.h:860 calls the id of a listener unique: what addListener is about to
\* return leads to the callback it was given.
IdLeadsToListener ==
    \A t \in Thread : call[t].pc = "answer" =>
        LET x == call[t].var
            id == s_fun_id[TypeOf(x)]
        IN  id \in DOMAIN m_cbs[x] /\ m_cbs[x][id] = call[t].cb
=============================================================================

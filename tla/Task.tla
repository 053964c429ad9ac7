-------------------------------- MODULE Task --------------------------------
(***************************************************************************)
(* The kitchen-order style task of task.h / task.cc: a record with a life  *)
(* in seconds whose value falls as it ages, twice as fast (so its comment  *)
(* says) while the task waits on the cache buffer.                         *)
(*                                                                         *)
(* Times are whole seconds, as time(nullptr) and difftime give them.  The  *)
(* drop rate is a double in the code; here it is an integer, which keeps   *)
(* every product exact.  Name, id formatting and dump() are left out: an   *)
(* empty name only ever makes the constructor clear m_hasValue, and that   *)
(* is what a message of category NoCategory stands for as well.            *)
(***************************************************************************)
EXTENDS Integers

\* Task::Task: the object built from a parsed message m at time n.
NewTask(id, m, n, known) ==
    [id         |-> id,
     category   |-> m.category,
     life       |-> m.life,
     rate       |-> m.rate,
     created    |-> n,
     cacheTime  |-> n,
     factor     |-> 1,
     hasValue   |-> /\ m.category \in known
                    /\ m.life > 0
                    /\ m.rate > 0]

GetAge(t, n) == n - t.created

GetCacheAge(t) == t.cacheTime - t.created

\* Task::GetValue: the value of t at time n.
GetValue(t, n) ==
    IF ~t.hasValue \/ t.life <= 0
    THEN 0
    ELSE (t.life - GetAge(t, n))
         - t.rate * (2 - t.factor) * (GetAge(t, n) - GetCacheAge(t))
         - t.rate * 2 * GetCacheAge(t)

\* Task::HasValue and IsValid: they answer, and they store the answer in
\* m_hasValue, which never becomes true again.
IsValid(t, n) == t.hasValue /\ GetValue(t, n) > 0

Latched(t, n) == [t EXCEPT !.hasValue = IsValid(t, n)]

AddToCacheBuffer(t) == [t EXCEPT !.factor = 2]

\* Mutant of SetCacheTime: the time is not stored.
SetFactorOnly(t, n) == [t EXCEPT !.factor = 1]

SetCacheTime(t, n) == [t EXCEPT !.factor = 1, !.cacheTime = n]

\* Mutant of Drop: the task keeps its value.
DropNothing(t) == t

Drop(t) == [t EXCEPT !.hasValue = FALSE]

\* LeftTaskAgeStrategy::GetTaskValue(a), asked at time n, is less than that of b,
\* asked at time k: the quotients life / (1 + 2 * rate) are compared with their
\* denominators multiplied out.
LeftAgeLess(a, n, b, k) ==
    LET da == 1 + 2 * a.rate
        db == 1 + 2 * b.rate
    IN  a.life * db - GetAge(a, n) * da * db
            < b.life * da - GetAge(b, k) * da * db
=============================================================================

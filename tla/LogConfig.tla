------------------------------- MODULE LogConfig -------------------------------
(***************************************************************************)
(* A program that configures its loggers while it logs, as the tests       *)
(* test_config.cc and test_thread.cc do: the main thread installs          *)
(* LogIniter, starts threads that log and loads configuration files;       *)
(* the change listener of the variable "logs" rebuilds the loggers step by *)
(* step, and every one of its steps can fall between the level check and   *)
(* the delivery of an event.                                               *)
(*                                                                         *)
(* A configuration file is a tree: a node has a value, for fromString, and *)
(* the members of a map.  The name of a variable is its path.              *)
(***************************************************************************)
EXTENDS Thread, ConfigVar, Logger

CONSTANTS
    Main,           \* the threads that load files; the tests have one
    Files,          \* the root nodes they load
    Level,          \* levels events have
    Listened,       \* the variables a worker listens to
    Node,           \* the nodes of the files
    Failed,         \* what a cast that throws yields
    FromText(_, _), \* LexicalCast<std::string, T> and LexicalCast<T, std::string>
    ToText(_, _),   \* of a variable's type other than the set of LogDefines
    Segment,        \* the path segments of allowed characters only
    MaxLoads, MaxEvents     \* bounds

ASSUME LogConfigAssumption ==
    /\ Thread = Main \cup Worker /\ Main \cap Worker = {}
    /\ LogIniter \in Stepwise
    /\ MaxId >= 1 /\ MaxLoads \in Nat /\ MaxEvents \in Nat

VARIABLES
    datas,          \* Config::GetDatas: the variables looked up so far
    loading,        \* what LoadFromYaml has yet to go through, per main thread
    job,            \* where each main thread is in LogIniter's listener
    event,          \* the event each worker is about to deliver
    loaded,         \* history: the files loaded, in order
    events          \* history: how many events there have been

vars == <<cvars, tvars, m_loggers, datas, loading, job, event, loaded, events>>

Logs == <<"logs">>

\* getLogDefines looks "logs" up with the empty set.
ASSUME LogsAssumption ==
    /\ Logs \in Var /\ DOMAIN First(Logs) = {}
    /\ "root" \in Name

\* Config::ListAllMember: a node under its path, then its members; a path with
\* a character that is not allowed is dropped with all below it.
ListAllMember[path \in Seq(Segment), node \in Node] ==
    <<[path |-> path, value |-> node.value]>>
    \o FlattenSeq([i \in DOMAIN node.members |-> LET m == node.members[i] IN
            IF m.key \in Segment THEN ListAllMember[Append(path, m.key), m.node] ELSE <<>>])

\* What LoadFromYaml goes through.  A path that no variable of the program has
\* is passed over whenever its turn comes, and left out here.
Listed(root) == SelectSeq(ListAllMember[<<>>, root], LAMBDA i : i.path \in Var)

Item == UNION {Range(Listed(root)) : root \in Files}

Cast(x, value) == IF x = Logs THEN ToDefines(value.items) ELSE FromText(TypeOf(x), value)

\* A value of the type std::set<LogDefine>.
IsDefines(v) == DOMAIN v \subseteq Name /\ \A n \in DOMAIN v : v[n] \in LogDefine

\* What a file gives a variable is of the variable's type, if it casts, and the
\* appenders of a define are a sequence.
ASSUME FilesAssumption ==
    /\ \A root \in Files : Listed(root) \in Seq(Item)
    /\ \A i \in Item : i.path \in Var /\ Cast(i.path, i.value) \in Value \cup {Failed}
    /\ \A i \in Item : i.path = Logs =>
          /\ IsDefines(Cast(Logs, i.value))
          /\ \A k \in DOMAIN i.value.items :
                LET as == i.value.items[k].appenders
                IN  as = Undefined \/ as \in Seq(Range(as))

NoJob == [pc |-> "none"]
ActiveJob == [pc : {"get", "level", "formatter", "clear", "add"}, apps : Seq(LogAppenderDefine),
              changed : SUBSET Name, gone : SUBSET Name]
NoEvent == [pc |-> "none"]

LogConfigTypeOK ==
    /\ ConfigTypeOK /\ ThreadTypeOK /\ LoggerTypeOK
    /\ datas \subseteq Var
    /\ loading \in [Main -> Seq(Item)]
    /\ job \in [Main -> {NoJob} \cup ActiveJob]
    /\ event \in [Worker -> {NoEvent} \cup [pc : {"append"}, name : Name, level : Level]]
    /\ loaded \in Seq(Files) /\ events \in 0 .. MaxEvents

\* getLogInit has looked "logs" up and added LogIniter's listener.
Init ==
    /\ ThreadInit /\ LoggerInit
    /\ m_val = [x \in Var |-> First(x)]
    /\ m_cbs = [x \in Var |-> IF x = Logs THEN [i \in {1} |-> LogIniter]
                              ELSE [i \in {} |-> LogIniter]]
    /\ s_fun_id = [T \in {TypeOf(x) : x \in Var} |-> IF T = TypeOf(Logs) THEN 1 ELSE 0]
    /\ readers = [x \in Var |-> {}]
    /\ writer = [x \in Var |-> NoThread]
    /\ call = [t \in Thread |-> Idle]
    /\ knows = [x \in Var |-> [c \in Callback |-> [val |-> First(x), late |-> FALSE]]]
    /\ datas = {Logs}
    /\ loading = [t \in Main |-> <<>>]
    /\ job = [t \in Main |-> NoJob]
    /\ event = [w \in Worker |-> NoEvent]
    /\ loaded = <<>> /\ events = 0

-----------------------------------------------------------------------------
(* Config                                                                   *)

\* Config::Lookup with a default: the registry has the variable from now on.
Lookup(t, x) ==
    /\ call[t] = Idle
    /\ datas' = datas \cup {x}
    /\ UNCHANGED <<cvars, tvars, m_loggers, loading, job, event, loaded, events>>

\* Config::LoadFromYaml up to its loop.
Load(t) ==
    /\ call[t] = Idle /\ loading[t] = <<>> /\ ctor = Nobody
    /\ Len(loaded) < MaxLoads
    /\ \E root \in Files :
          /\ loading' = [loading EXCEPT ![t] = Listed(root)]
          /\ loaded' = Append(loaded, root)
    /\ UNCHANGED <<cvars, tvars, m_loggers, datas, job, event, events>>

\* One turn of the loop: nothing for the root, an unknown variable, a text that
\* does not cast or a value that is the same.
LoadNext(t) ==
    /\ call[t] = Idle /\ loading[t] # <<>>
    /\ LET x == Head(loading[t]).path
           v == Cast(x, Head(loading[t]).value)
       IN  IF x \in datas /\ v # Failed /\ ~Same(x, v, m_val[x])
           THEN setValue(t, x, v)
           ELSE /\ x \in datas => CanRead(x)
                /\ UNCHANGED cvars
    /\ loading' = [loading EXCEPT ![t] = Tail(@)]
    /\ UNCHANGED <<tvars, m_loggers, datas, job, event, loaded, events>>

-----------------------------------------------------------------------------
(* LogIniter                                                                *)

Changed(old, new) ==
    {n \in DOMAIN new : n \notin DOMAIN old \/ ~DefineEqual(new[n], old[n])}

\* The listener's two loops: the defines that are new or not equal to the old
\* ones, then the names that are gone.
startChange(t) ==
    /\ Calling(t, LogIniter) /\ job[t] = NoJob
    /\ LET old == call[t].old
           new == call[t].new
       IN  job' = [job EXCEPT ![t] =
               [pc |-> "get", apps |-> <<>>,
                changed |-> Changed(old, new), gone |-> DOMAIN old \ DOMAIN new]]
    /\ UNCHANGED <<cvars, tvars, m_loggers, datas, loading, event, loaded, events>>

\* The two loops go through their set in the order of the names.
FirstName(S) ==
    NameOrder[CHOOSE i \in DOMAIN NameOrder :
        NameOrder[i] \in S /\ \A j \in DOMAIN NameOrder : NameOrder[j] \in S => i <= j]

Left(t) == IF job[t].changed # {} THEN job[t].changed ELSE job[t].gone
Current(t) == FirstName(Left(t))
Kept(t) == Current(t) \in DOMAIN call[t].new
Define(t) == call[t].new[Current(t)]

Goto(t, pc) == job' = [job EXCEPT ![t].pc = pc]

JobAt(t, pc) == job[t].pc = pc /\ Left(t) # {}

\* LogLevel 0 for a logger that is gone.
NewLevel(t) == IF Kept(t) THEN Define(t).level ELSE UNKNOW

changeGet(t) ==
    /\ JobAt(t, "get")
    /\ getLogger(Current(t))
    /\ Goto(t, "level")

\* Mutant of changeLevel: a level that is not given is not set.
changeLevelKnown(t) ==
    /\ JobAt(t, "level")
    /\ m_loggers' = [m_loggers EXCEPT ![Current(t)] =
                        IF NewLevel(t) = UNKNOW THEN @ ELSE WithLevel(@, NewLevel(t))]
    /\ Goto(t, IF Kept(t) /\ Define(t).formatter # <<>> THEN "formatter" ELSE "clear")

changeLevel(t) ==
    /\ JobAt(t, "level")
    /\ m_loggers' = [m_loggers EXCEPT ![Current(t)] = WithLevel(@, NewLevel(t))]
    /\ Goto(t, IF Kept(t) /\ Define(t).formatter # <<>> THEN "formatter" ELSE "clear")

changeFormatter(t) ==
    /\ JobAt(t, "formatter")
    /\ m_loggers' = [m_loggers EXCEPT ![Current(t)] = WithFormatter(@, Define(t).formatter)]
    /\ Goto(t, "clear")

changeClear(t) ==
    /\ JobAt(t, "clear")
    /\ m_loggers' = [m_loggers EXCEPT ![Current(t)] = Cleared(@)]
    /\ job' = [job EXCEPT ![t].pc = "add",
                          ![t].apps = IF Kept(t) THEN Define(t).appenders ELSE <<>>]

\* A LogAppenderDefine made an appender, with its level and its formatter.
Appender(a) ==
    LET ap == [NewAppender(a.type, a.file) EXCEPT !.m_level = a.level]
    IN  IF a.formatter = <<>> \/ isError(a.formatter) THEN ap
        ELSE AppenderSetFormatter(ap, a.formatter)

changeAdd(t) ==
    /\ JobAt(t, "add")
    /\ IF job[t].apps = <<>>
       THEN /\ job' = [job EXCEPT ![t].pc = "get", ![t].changed = @ \ {Current(t)},
                                  ![t].gone = @ \ {Current(t)}]
            /\ UNCHANGED m_loggers
       ELSE /\ m_loggers' = [m_loggers EXCEPT ![Current(t)] =
                                WithAppender(@, Appender(Head(job[t].apps)))]
            /\ job' = [job EXCEPT ![t].apps = Tail(@)]

Change(t) ==
    /\ changeGet(t) \/ changeLevel(t) \/ changeFormatter(t) \/ changeClear(t) \/ changeAdd(t)
    /\ UNCHANGED <<cvars, tvars, datas, loading, event, loaded, events>>

\* The listener returns.
endChange(t) ==
    /\ job[t].pc = "get" /\ Left(t) = {}
    /\ Told(t, LogIniter)
    /\ job' = [job EXCEPT ![t] = NoJob]
    /\ UNCHANGED <<tvars, m_loggers, datas, loading, event, loaded, events>>

-----------------------------------------------------------------------------
(* Threads that log                                                         *)

Running(w) == thread[w].pc = "running" /\ call[w] = Idle /\ event[w] = NoEvent

\* JERRYFISH_LOG_NAME.
NameLogger(w, n) ==
    /\ Running(w) /\ ~m_loggers[n].made
    /\ getLogger(n)
    /\ UNCHANGED <<cvars, tvars, datas, loading, job, event, loaded, events>>

\* JERRYFISH_LOG_LEVEL and, when the wrapper is destroyed, the check in
\* Logger::log, up to its lock.
LogCheck(w, n, level) ==
    /\ Running(w) /\ m_loggers[n].made
    /\ events < MaxEvents
    /\ level >= m_loggers[n].m_level
    /\ event' = [event EXCEPT ![w] = [pc |-> "append", name |-> n, level |-> level]]
    /\ events' = events + 1
    /\ UNCHANGED <<cvars, tvars, m_loggers, datas, loading, job, loaded>>

\* Logger::log under its lock: the event goes to Sinks.
LogAppend(w) ==
    /\ event[w].pc = "append"
    /\ event' = [event EXCEPT ![w] = NoEvent]
    /\ UNCHANGED <<cvars, tvars, m_loggers, datas, loading, job, loaded, events>>

\* The start and the end of the threads.
ThreadStep(w) ==
    /\ \/ (\E t \in Main : call[t] = Idle /\ loading[t] = <<>>) /\ (Construct(w) \/ Join(w))
       \/ Wait(w)
       \/ Prepare(w)
       \/ Notify(w)
       \/ call[w] = Idle /\ event[w] = NoEvent /\ Return(w)
    /\ UNCHANGED <<cvars, m_loggers, datas, loading, job, event, loaded, events>>

-----------------------------------------------------------------------------
\* A method of ConfigVar that a thread is in, and the listeners a worker adds
\* and removes.
VarStep(t) ==
    /\ MethodStep(t)
    /\ UNCHANGED <<tvars, m_loggers, datas, loading, job, event, loaded, events>>

Listen(w) ==
    /\ Running(w)
    /\ \E x \in datas \cap Listened :
          \/ \E c \in Callback \ Stepwise : addListener(w, x, c)
          \/ \E key \in DOMAIN m_cbs[x] : /\ m_cbs[x][key] \notin Stepwise
                                          /\ delListener(w, x, key)
    /\ UNCHANGED <<tvars, m_loggers, datas, loading, job, event, loaded, events>>

MainStep(t) == LoadNext(t) \/ startChange(t) \/ Change(t) \/ endChange(t)

Done ==
    /\ \A t \in Thread : call[t] = Idle
    /\ \A t \in Main : loading[t] = <<>>
    /\ \A w \in Worker : event[w] = NoEvent /\ thread[w].pc \in {"none", "ended"}
    /\ UNCHANGED vars

Next ==
    \/ \E t \in Main : Load(t) \/ MainStep(t)
    \/ \E w \in Worker : \/ ThreadStep(w) \/ LogAppend(w) \/ Listen(w)
                         \/ \E x \in Var : Running(w) /\ Lookup(w, x)
                         \/ \E n \in Name : NameLogger(w, n)
                         \/ \E n \in Name, level \in Level : LogCheck(w, n, level)
    \/ \E t \in Thread : VarStep(t)
    \/ Done

Spec == Init /\ [][Next]_vars

\* Every thread runs.  Nobody has to load, to log or to add a listener.
FairSpec ==
    /\ Spec
    /\ \A t \in Main : WF_vars(MainStep(t)) /\ WF_vars(VarStep(t))
    /\ \A w \in Worker : WF_vars(VarStep(w)) /\ WF_vars(ThreadStep(w)) /\ WF_vars(LogAppend(w))

-----------------------------------------------------------------------------
(* Properties                                                               *)

\* toString then fromString gives the value back, for every value a variable
\* comes to have: the casts of nested containers undo each other.
CastsRoundTrip ==
    \A x \in Var \ {Logs} : FromText(TypeOf(x), ToText(TypeOf(x), m_val[x])) = m_val[x]

\* The casts of one LogDefine do so for every define that "logs" comes to hold.
\* (Those of the set of LogDefines do not: the text lacks the formatters, and
\* the level where there is none.)
DefinesRoundTrip ==
    \A n \in DOMAIN m_val[Logs] : ToDefine(DefineToYaml(m_val[Logs][n])) = m_val[Logs][n]

\* When nobody is setting "logs", every logger it names has the level asked for,
\* and the formatter if a good one was asked for; the others are as they were
\* made or, once configured and gone, without level and appenders.  This holds
\* across skipped defines because == compares just these fields.
ConfigApplied ==
    ~Setting(Logs) => \A n \in Name :
        LET l == m_loggers[n]
            d == m_val[Logs][n]
        IN  IF n \in DOMAIN m_val[Logs]
            THEN /\ l.made /\ l.m_level = d.level
                 /\ d.formatter # <<>> /\ ~isError(d.formatter) => l.m_formatter = d.formatter
            ELSE \/ l.m_level = UNKNOW /\ l.m_appenders = <<>>
                 \/ l.m_level = DEBUG /\ (n = "root" \/ l.m_appenders = <<>>)

\* Whether some thread is between the clearing and the last adding of root.
RebuildingRoot ==
    \E t \in Main : job[t].pc \in {"clear", "add"} /\ Current(t) = "root"

\* A file's list of loggers leaves the root logger without an appender when it
\* does not name it, or gives it none that the cast accepts.
Feeds(v) == "root" \in DOMAIN v /\ v["root"].appenders # <<>>

RootSilenced ==
    \E k \in DOMAIN loaded : \E i \in Range(Listed(loaded[k])) :
        i.path = Logs /\ ~Feeds(Cast(Logs, i.value))

\* Hazard Config.h:1173.  An event of the highest level is delivered somewhere,
\* whatever step of a change it meets: a logger without appenders falls back on
\* the root logger.  Only the root logger's own rebuilding loses events, or a
\* file that leaves it no appender.
EventsAreDelivered ==
    [][\A w \in Worker : event[w].pc = "append" /\ event[w].level = FATAL /\ event'[w] = NoEvent =>
            Sinks(event[w].name, FATAL) # {} \/ RebuildingRoot \/ RootSilenced]_vars

\* What a file says of the loggers.
LogsOf(root) ==
    LET all == {i \in DOMAIN root.members : root.members[i].key = "logs"}
    IN  IF all = {} THEN <<>> ELSE root.members[CHOOSE i \in all : TRUE].node.value.items

\* bin/conf/log.yml:9-12 gives the logger "system" an appender, and test_config.cc
\* logs to it after loading the file: when no change is under way, every logger
\* has as many appenders as the file loaded last gives it.
AppendersAsInFile ==
    LET node == LogsOf(Last(loaded))
    IN  ~Setting(Logs) /\ loaded # <<>> /\ (\A t \in Main : loading[t] = <<>>) =>
            \A i \in DOMAIN node :
                Len(m_loggers[node[i].name].m_appenders) = Len(ToDefine(node[i]).appenders)

\* A thread that sets the variable comes back, whoever registers, logs or reads
\* meanwhile, and an event is delivered.
CallsReturn ==
    /\ \A t \in Thread : call[t] # Idle ~> call[t] = Idle
    /\ \A w \in Worker : event[w] # NoEvent ~> event[w] = NoEvent
    /\ \A w \in Worker : ctor = w ~> ctor # w
=============================================================================

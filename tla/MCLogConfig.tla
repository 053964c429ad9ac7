------------------------------ MODULE MCLogConfig ------------------------------
(* LogConfig with one main thread, one thread that logs, the repository's     *)
(* bin/conf/log.yml and two files that change it.                             *)
EXTENDS LogConfig

CONSTANTS Watcher, main, other, w1, w2, v1, v2

MCCast(text) == text
Casts == INSTANCE LexicalCast WITH CastScalar <- MCCast
MCFromText(T, node) == Casts!FromYaml(T, node)
MCToText(T, v) == Casts!ToYaml(T, v)

Leaf(value) == [value |-> value, members |-> <<>>]
Root(members) == [value |-> Undefined, members |-> members]
Entry(key, node) == [key |-> key, node |-> node]
A(type, file, formatter) == [type |-> type, file |-> file, level |-> Undefined, formatter |-> formatter]
L(name, level, formatter, apps) ==
    [name |-> name, level |-> level, formatter |-> formatter, appenders |-> apps]

RootFile == A("FileLogAppender", "root.txt", Undefined)

\* bin/conf/log2.yml, and log.yml's part about loggers.
LogYml == Root(<<Entry("logs", Leaf(Casts!Sequence(<<
    L("root", "info", Undefined, <<RootFile>>),
    L("system", "info", Undefined, <<A("StdoutLogAppender", "system.txt", Undefined)>>)>>)))>>)

\* A map of vectors with a key that comes twice, which is a node with members.
Ports ==
    LET entries == <<Casts!Pair(v1, Casts!Sequence(<<Casts!Scalar(v1), Casts!Scalar(v2)>>)),
                     Casts!Pair(v1, Casts!Sequence(<<Casts!Scalar(v2)>>)),
                     Casts!Pair(v2, Casts!Sequence(<<>>))>>
    IN  [value |-> Casts!Map(entries),
         members |-> [i \in DOMAIN entries |-> Entry(entries[i].key, Leaf(entries[i].value))]]

\* Two appenders, a formatter, a level changed, a second variable, a path that
\* the registry refuses.
Rich == Root(<<
    Entry("logs", Leaf(Casts!Sequence(<<
        L("system", "error", <<"%", "m">>,
          <<A("FileLogAppender", "system.txt", <<"%", "p">>), A("StdoutAppender", Undefined, Undefined)>>),
        L("root", "info", <<"%", "{">>, <<RootFile, A("StdoutAppender", Undefined, Undefined)>>)>>))),
    Entry("system", Root(<<Entry("port", Ports), Entry("port9", Ports)>>))>>)

\* The root logger alone, with another level; the level of system is gone.
RootOnly == Root(<<Entry("logs", Leaf(Casts!Sequence(<<
    L("root", Undefined, <<"%", "%", "m">>, <<RootFile>>)>>)))>>)

MCFiles == {LogYml, Rich, RootOnly}

\* The nodes of the files, which are three deep.
WithMembers(S) == S \cup UNION {{n.members[i].node : i \in DOMAIN n.members} : n \in S}
MCNode == WithMembers(WithMembers(WithMembers(MCFiles)))

MCVar == {<<"logs">>, <<"system", "port">>}
PortType == <<"map", <<"vector", <<"scalar">>>>>>
MCTypeOf(x) == IF x = <<"logs">> THEN <<"defines">> ELSE PortType
MCListened == {<<"logs">>}
MCFirst(x) == IF x = <<"logs">> THEN [n \in {} |-> 0] ELSE [k \in {v1} |-> <<v1>>]
MCSame(x, a, b) == IF x = <<"logs">> THEN DefinesEqual(a, b) ELSE a = b
MCValue == {MCFirst(x) : x \in MCVar} \cup {ToDefines(LogsOf(f)) : f \in MCFiles}
           \cup {MCFromText(PortType, Ports.value)}
MCOrder == <<"root", "system">>
MCDefault == <<"%", "p", "%", "m">>
=============================================================================

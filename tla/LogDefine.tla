------------------------------- MODULE LogDefine -------------------------------
(***************************************************************************)
(* What a logger is configured to be (LogDefine, LogAppenderDefine), the   *)
(* casts between it and YAML (LexicalCast, Config.h), and the patterns of  *)
(* formatters (LogFormatter::init, Logger.cc).                             *)
(*                                                                         *)
(* A YAML map is a record whose absent keys hold Undefined.  A value of    *)
(* the variable "logs", std::set<LogDefine> ordered by name, is a function *)
(* from the names it holds to the defines.  A pattern is a sequence of     *)
(* characters.                                                             *)
(***************************************************************************)
EXTENDS Naturals, SequencesExt

CONSTANTS
    Undefined,      \* what an absent key holds
    Known, Letter,  \* the letters that name an item of a pattern, and all letters
    FileName        \* the names of files, which may be empty

NoFile == ""


\* LogLevel.
UNKNOW == 0
DEBUG == 1
FATAL == 5
LevelText == <<"DEBUG", "INFO", "WARN", "ERROR", "FATAL">>
LevelTextLower == <<"debug", "info", "warn", "error", "fatal">>

FromString(s) ==
    IF \E i \in DOMAIN LevelText : s \in {LevelText[i], LevelTextLower[i]}
    THEN CHOOSE i \in DOMAIN LevelText : s \in {LevelText[i], LevelTextLower[i]}
    ELSE UNKNOW

LevelName(level) == IF level \in DOMAIN LevelText THEN LevelText[level] ELSE "UNKNOW"

Pattern == Seq(Letter \cup {"%", "{", "}"})

LogAppenderDefine == [type : 1 .. 2, level : UNKNOW .. FATAL, formatter : Pattern, file : FileName]

LogDefine == [name : STRING, level : UNKNOW .. FATAL, formatter : Pattern,
              appenders : Seq(LogAppenderDefine)]

\* What is written for an appender.
AppenderNode == [type : {"FileLogAppender", "StdoutLogAppender"}, file : FileName \cup {Undefined},
                 level : Range(LevelText) \cup {Undefined}, formatter : Pattern \cup {Undefined}]

ASSUME LogDefineAssumption ==
    /\ NoFile \in FileName
    /\ Undefined \notin Range(LevelText) \cup FileName \cup Pattern \cup LogAppenderDefine
                        \cup Seq(AppenderNode)

OrElse(v, default) == IF v = Undefined THEN default ELSE v

\* The loop over a list that casts its elements, less those it `continue's at.
Accepted(s, Cast(_)) ==
    LET upTo[n \in 0 .. Len(s)] ==
            IF n = 0 THEN <<>>
            ELSE IF Cast(s[n]) = Undefined THEN upTo[n - 1]
            ELSE Append(upTo[n - 1], Cast(s[n]))
    IN  upTo[Len(s)]

Absent == [type |-> Undefined, file |-> Undefined, level |-> Undefined, formatter |-> Undefined]

-----------------------------------------------------------------------------
\* LexicalCast<std::string, LogDefine>.
AppenderDefine(a) ==
    CASE a.type = "FileLogAppender" /\ a.file # Undefined ->
            [type |-> 1, level |-> UNKNOW, formatter |-> OrElse(a.formatter, <<>>), file |-> a.file]
      [] a.type = "StdoutLogAppender" ->
            [type |-> 2, level |-> UNKNOW, formatter |-> OrElse(a.formatter, <<>>), file |-> NoFile]
      [] OTHER -> Undefined

ToDefine(n) ==
    [name |-> n.name,
     level |-> FromString(OrElse(n.level, "")),
     formatter |-> OrElse(n.formatter, <<>>),
     appenders |-> IF n.appenders = Undefined THEN <<>>
                   ELSE Accepted(n.appenders, AppenderDefine)]

\* LexicalCast<LogDefine, std::string>.
LevelToYaml(level) == IF level = UNKNOW THEN Undefined ELSE LevelName(level)
FormatterToYaml(f) == IF f = <<>> THEN Undefined ELSE f

\* Mutant of DefineToYaml: the type of an appender as the cast of the set reads it.
DefineToYamlOfSet(d) ==
    [name |-> d.name,
     level |-> LevelToYaml(d.level),
     formatter |-> FormatterToYaml(d.formatter),
     appenders |->
        IF d.appenders = <<>> THEN Undefined
        ELSE [i \in DOMAIN d.appenders |-> LET a == d.appenders[i] IN
                [type |-> <<"FileLogAppender", "StdoutAppender">>[a.type],
                 file |-> IF a.type = 1 THEN a.file ELSE Undefined,
                 level |-> LevelToYaml(a.level),
                 formatter |-> FormatterToYaml(a.formatter)]]]

DefineToYaml(d) ==
    [name |-> d.name,
     level |-> LevelToYaml(d.level),
     formatter |-> FormatterToYaml(d.formatter),
     appenders |->
        IF d.appenders = <<>> THEN Undefined
        ELSE [i \in DOMAIN d.appenders |-> LET a == d.appenders[i] IN
                [type |-> <<"FileLogAppender", "StdoutLogAppender">>[a.type],
                 file |-> IF a.type = 1 THEN a.file ELSE Undefined,
                 level |-> LevelToYaml(a.level),
                 formatter |-> FormatterToYaml(a.formatter)]]]

\* LexicalCast<std::string, std::set<LogDefine>>, which reads an appender of
\* its own: only a file has a formatter, the other type is "StdoutAppender", and
\* each turn of the inner loop looks at the i-th appender, i counting loggers.
SetAppenderDefine(a) ==
    CASE a.type = "FileLogAppender" /\ a.file # Undefined ->
            [type |-> 1, level |-> UNKNOW, formatter |-> OrElse(a.formatter, <<>>), file |-> a.file]
      [] a.type = "StdoutAppender" ->
            [type |-> 2, level |-> UNKNOW, formatter |-> <<>>, file |-> NoFile]
      [] OTHER -> Undefined

SetAppenders(as, i) ==
    IF as = Undefined THEN <<>>
    ELSE Accepted([j \in DOMAIN as |-> IF i \in DOMAIN as THEN as[i] ELSE Absent],
                  SetAppenderDefine)

ToDefines(node) ==
    LET named == {i \in DOMAIN node : node[i].name # Undefined}
        \* insert() keeps the first of two of one name
        first == {i \in named : \A j \in named : j < i => node[j].name # node[i].name}
        def(i) == [name |-> node[i].name,
                   level |-> FromString(OrElse(node[i].level, "")),
                   formatter |-> OrElse(node[i].formatter, <<>>),
                   appenders |-> SetAppenders(node[i].appenders, i)]
    IN  [n \in {node[i].name : i \in first} |->
            def(CHOOSE i \in first : node[i].name = n)]

\* LogAppenderDefine::operator== is equality of the records.
\* LogDefine::operator== compares appenders with themselves.
DefineEqual(a, b) ==
    a.name = b.name /\ a.level = b.level /\ a.formatter = b.formatter

\* std::set's ==: as many elements, and equal in order.
DefinesEqual(s, t) == DOMAIN s = DOMAIN t /\ \A n \in DOMAIN s : DefineEqual(s[n], t[n])

-----------------------------------------------------------------------------
\* LogFormatter::init.  A directive begins at a '%' that no '%' follows; its name
\* ends at the first character that is neither letter nor brace, or at a '{', and then
\* the next '}' ends the directive.
NextAt(p, i, Stop(_)) ==
    LET S == {n \in i + 1 .. Len(p) : Stop(p[n])}
    IN  IF S = {} THEN Len(p) + 1 ELSE CHOOSE n \in S : \A m \in S : n <= m

Directive(p, i) ==
    LET stop == NextAt(p, i, LAMBDA c : c \notin Letter \cup {"}"})
        close == NextAt(p, stop, LAMBDA c : c = "}")
        open == stop <= Len(p) /\ p[stop] = "{"
    IN  [str |-> SubSeq(p, i + 1, stop - 1),
         closed |-> open => close <= Len(p),
         next |-> IF ~open THEN stop ELSE IF close <= Len(p) THEN close + 1 ELSE i + 1]

Items(p) ==
    LET from[i \in 1 .. Len(p) + 1] ==
            IF i > Len(p) THEN <<>>
            ELSE IF p[i] # "%" \/ (i < Len(p) /\ p[i + 1] = "%")
            THEN <<"text">> \o from[i + 1]
            ELSE LET d == Directive(p, i)
                 IN  <<IF d.closed /\ Len(d.str) = 1 /\ d.str[1] \in Known
                       THEN d.str[1] ELSE "error">>
                     \o from[d.next]
    IN  from[1]

isError(p) == "error" \in Range(Items(p))
=============================================================================

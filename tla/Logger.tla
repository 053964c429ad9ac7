-------------------------------- MODULE Logger --------------------------------
(***************************************************************************)
(* The loggers of LoggerManager and their appenders (Logger.h).  Every     *)
(* method of a Logger that touches its appenders or its formatter does so  *)
(* under the logger's spinlock, and takes the appenders' and the root's    *)
(* inside it, so each is one step; m_level is read and written without a   *)
(* lock.  An appender belongs to one logger in this program and is part of *)
(* its record.  Formatting and output are left out: what matters is which  *)
(* appenders an event reaches.                                             *)
(***************************************************************************)
EXTENDS LogDefine

CONSTANTS
    NameOrder,      \* the loggers' names, in their order as strings
    DefaultPattern

\* The constructor of the formatter a logger starts with finds no error.
ASSUME LoggerAssumption ==
    /\ NameOrder \in Seq(STRING)
    /\ DefaultPattern \in Pattern /\ ~isError(DefaultPattern)

Name == Range(NameOrder)

VARIABLE m_loggers

LogAppender == [type : 1 .. 2, file : FileName, m_level : UNKNOW .. FATAL,
                m_hasFormatter : BOOLEAN, m_formatter : Pattern]

Logger == [made : BOOLEAN, m_level : UNKNOW .. FATAL, m_formatter : Pattern,
           m_appenders : Seq(LogAppender)]

LoggerTypeOK == m_loggers \in [Name -> Logger]

\* Logger::Logger.
NewLogger == [made |-> TRUE, m_level |-> DEBUG, m_formatter |-> DefaultPattern, m_appenders |-> <<>>]

\* StdoutLogAppender and FileLogAppender; a file is opened and cut to nothing.
NewAppender(type, file) ==
    [type |-> type, file |-> file, m_level |-> DEBUG, m_hasFormatter |-> FALSE, m_formatter |-> <<>>]

\* LogAppender::setFormatter.
AppenderSetFormatter(a, p) == [a EXCEPT !.m_formatter = p, !.m_hasFormatter = TRUE]

\* Logger::addAppender.
WithAppender(l, a) ==
    [l EXCEPT !.m_appenders =
        Append(@, IF a.m_formatter = <<>> THEN [a EXCEPT !.m_formatter = l.m_formatter] ELSE a)]

\* Logger::clearAppenders, Logger::setLevel.
Cleared(l) == [l EXCEPT !.m_appenders = <<>>]
WithLevel(l, v) == [l EXCEPT !.m_level = v]

\* Mutant of WithFormatter: the appenders are forgotten.
WithFormatterAlone(l, p) == IF isError(p) THEN l ELSE [l EXCEPT !.m_formatter = p]

\* Logger::setFormatter with a pattern: one with an error is refused.  The
\* appenders that have none of their own take the new one.
WithFormatter(l, p) ==
    IF isError(p) THEN l
    ELSE [l EXCEPT !.m_formatter = p,
                   !.m_appenders = [i \in DOMAIN @ |->
                        IF @[i].m_hasFormatter THEN @[i] ELSE [@[i] EXCEPT !.m_formatter = p]]]

\* LoggerManager::LoggerManager.
LoggerInit ==
    m_loggers = [n \in Name |->
        IF n = "root" THEN WithAppender(NewLogger, NewAppender(2, NoFile))
        ELSE [NewLogger EXCEPT !.made = FALSE]]

\* LoggerManager::getLogger.
getLogger(n) == m_loggers' = [m_loggers EXCEPT ![n].made = TRUE]

\* The appenders of logger n that take an event of this level.
Listening(n, level) ==
    {<<n, i>> : i \in {j \in DOMAIN m_loggers[n].m_appenders :
                          level >= m_loggers[n].m_appenders[j].m_level}}

\* Mutant of Sinks: a logger without appenders is silent.
SinksOwn(n, level) == Listening(n, level)

\* Logger::log once it has the lock: its own appenders, or the root logger,
\* which asks for its own level.
Sinks(n, level) ==
    IF m_loggers[n].m_appenders # <<>> THEN Listening(n, level)
    ELSE IF n # "root" /\ level >= m_loggers["root"].m_level THEN Listening("root", level)
    ELSE {}

-----------------------------------------------------------------------------
\* Hazard Logger.h:618.  An appender without a formatter of its own formats as its
\* logger does, in whatever order formatters were set, appenders added and
\* cleared, and no formatter in use has an error.
FormattersFollow ==
    \A n \in Name : LET l == m_loggers[n] IN
        /\ ~isError(l.m_formatter)
        /\ \A i \in DOMAIN l.m_appenders :
              IF l.m_appenders[i].m_hasFormatter
              THEN ~isError(l.m_appenders[i].m_formatter)
              ELSE l.m_appenders[i].m_formatter = l.m_formatter
=============================================================================

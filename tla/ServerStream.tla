----------------------------- MODULE ServerStream -----------------------------
(***************************************************************************)
(* Server::Run (server2.cc): one thread that selects over the listening    *)
(* socket and the clients, reads what has come and cuts it into tasks,     *)
(* until no client is left; then it joins the drivers and destroys the     *)
(* process.  What becomes of a task is the module TaskServer's matter.     *)
(*                                                                         *)
(* A client sends whole objects, one send each.  An object is two tokens   *)
(* of the stream, the half with its `{' and the half with its `}': token   *)
(* 2 * n - 1 and token 2 * n are object n's.  That is enough to tell a     *)
(* read that ends inside an object from one that joins several.            *)
(***************************************************************************)
EXTENDS Naturals, FiniteSets, SequencesExt

CONSTANTS
    Client,
    Malformed,      \* what json11 makes of a text that is not one object
    MaxObjects,     \* bound: objects a client sends
    MaxRead         \* server2.cc: size of a client's buffer, in tokens

ASSUME StreamAssumption ==
    /\ MaxObjects \in Nat /\ MaxRead \in Nat \ {0}
    /\ IsFiniteSet(Client)
    /\ Malformed \notin 1 .. MaxObjects

VARIABLES
    conn,           \* the server's end of each connection
    over,           \* the clients that have closed theirs, and how
    sent,           \* objects each client has sent
    got,            \* tokens read from each client
    loop,           \* where Run is
    incoming,       \* select has reported the listening socket
    ready,          \* clients that select reported and Run has yet to serve
    tasks           \* the tasks built of each client's stream, in order

net == <<conn, over, sent, got>>
vars == <<net, loop, incoming, ready, tasks>>

Object == 1 .. MaxObjects

TypeOK ==
    /\ conn \in [Client -> {"away", "pending", "open", "closed"}]
    /\ over \in [Client -> {"no", "shut", "reset"}]
    /\ sent \in [Client -> 0 .. MaxObjects]
    /\ got \in [Client -> 0 .. 2 * MaxObjects]
    /\ loop \in {"select", "accept", "serve", "join", "returned", "terminated"}
    /\ incoming \in BOOLEAN
    /\ ready \in SUBSET Client
    /\ tasks \in [Client -> Seq(Object \cup {Malformed})]

\* client_socket.
Open == {c \in Client : conn[c] = "open"}

Unread(c) == 2 * sent[c] - got[c]

\* Run at the head of its loop.  Nobody has connected.
Init ==
    /\ conn = [c \in Client |-> "away"]
    /\ over = [c \in Client |-> "no"]
    /\ sent = [c \in Client |-> 0]
    /\ got = [c \in Client |-> 0]
    /\ loop = "select"
    /\ incoming = FALSE
    /\ ready = {}
    /\ tasks = [c \in Client |-> <<>>]
-----------------------------------------------------------------------------
\* The clients.
Connect(c) ==
    /\ conn[c] = "away"
    /\ conn' = [conn EXCEPT ![c] = "pending"]
    /\ UNCHANGED <<over, sent, got, loop, incoming, ready, tasks>>

Send(c) ==
    /\ conn[c] \in {"pending", "open"} /\ over[c] = "no"
    /\ sent[c] < MaxObjects
    /\ sent' = [sent EXCEPT ![c] = @ + 1]
    /\ UNCHANGED <<conn, over, got, loop, incoming, ready, tasks>>

Close(c) ==
    /\ conn[c] \in {"pending", "open"} /\ over[c] = "no"
    /\ over' = [over EXCEPT ![c] = "shut"]
    /\ UNCHANGED <<conn, sent, got, loop, incoming, ready, tasks>>

\* A connection may break; what was not read is lost with it.
Reset(c) ==
    /\ conn[c] = "open" /\ over[c] = "no"
    /\ over' = [over EXCEPT ![c] = "reset"]
    /\ UNCHANGED <<conn, sent, got, loop, incoming, ready, tasks>>
-----------------------------------------------------------------------------
\* Where the text of tokens a + 1 .. b is cut, from left to right: every
\* str.find("}{") is a `}', an even token, with a `{' behind it.
Joins(a, b) == [i \in 1 .. (b - 1) \div 2 - a \div 2 |-> 2 * (a \div 2 + i)]

\* What json11 makes of tokens from .. to: the object they are, if they are one
\* and its `{' was not cut off.
Piece(from, to, torn) ==
    IF ~torn /\ from % 2 = 1 /\ to = from + 1 THEN to \div 2 ELSE Malformed

\* The pieces of tokens a + 1 .. that end at ends.  Every piece but the first
\* begins two characters after the last one ended.
Pieces(a, ends) ==
    LET begin == <<a>> \o ends
    IN  [i \in DOMAIN ends |-> Piece(begin[i] + 1, ends[i], i > 1)]

\* Mutant of Texts: what is left after the last join, and the whole again.
TextsTwice(a, b) == Pieces(a, Append(Joins(a, b), b)) \o <<Piece(a + 1, b, FALSE)>>

\* What the loop over one text parses: each piece up to a join, and in the end
\* the whole text again (`str', not `str2').
Texts(a, b) == Pieces(a, Joins(a, b)) \o <<Piece(a + 1, b, FALSE)>>
-----------------------------------------------------------------------------
Readable(c) == c \in Open /\ (Unread(c) > 0 \/ over[c] # "no")

\* select() returns.
select ==
    /\ loop = "select"
    /\ ready' = {c \in Client : Readable(c)}
    /\ incoming' = (\E c \in Client : conn[c] = "pending")
    /\ incoming' \/ ready' # {}
    /\ loop' = "accept"
    /\ UNCHANGED <<net, tasks>>

\* accept() takes one connection off the queue.  It is not in the fd_set yet
\* and is served from the next turn on.
accept ==
    /\ loop = "accept"
    /\ loop' = "serve"
    /\ \/ /\ ~incoming
          /\ UNCHANGED conn
       \/ /\ incoming
          /\ \E c \in Client : /\ conn[c] = "pending"
                              /\ conn' = [conn EXCEPT ![c] = "open"]
    /\ UNCHANGED <<over, sent, got, incoming, ready, tasks>>

\* read() returns some of what has come, and every text becomes a task with a
\* dispatcher and a driver.
serve(c) ==
    /\ loop = "serve" /\ c \in ready
    /\ over[c] # "reset"
    /\ \E n \in 1 .. MaxRead :
          /\ n <= Unread(c)
          /\ tasks' = [tasks EXCEPT ![c] = @ \o Texts(got[c], got[c] + n)]
          /\ got' = [got EXCEPT ![c] = @ + n]
    /\ ready' = ready \ {c}
    /\ UNCHANGED <<conn, over, sent, loop, incoming>>

\* Mutant of hangUp: the end of the stream is asked for first.
hangUpEarly(c) ==
    /\ loop = "serve" /\ c \in ready
    /\ over[c] = "shut"
    /\ conn' = [conn EXCEPT ![c] = "closed"]
    /\ ready' = ready \ {c}
    /\ UNCHANGED <<over, sent, got, loop, incoming, tasks>>

\* read() returns 0.
hangUp(c) ==
    /\ loop = "serve" /\ c \in ready
    /\ over[c] = "shut" /\ ~(Unread(c) > 0)
    /\ conn' = [conn EXCEPT ![c] = "closed"]
    /\ ready' = ready \ {c}
    /\ UNCHANGED <<over, sent, got, loop, incoming, tasks>>

\* read() returns -1: the string of -1 characters throws, and nobody catches.
readFails(c) ==
    /\ loop = "serve" /\ c \in ready
    /\ over[c] = "reset"
    /\ loop' = "terminated"
    /\ UNCHANGED <<net, incoming, ready, tasks>>

\* Mutant of endTurn: m_shutdown is read as its name says.
endTurnOnShutdown ==
    /\ loop = "serve" /\ ready = {}
    /\ loop' = "select"
    /\ UNCHANGED <<net, incoming, ready, tasks>>

\* The end of one turn: `!m_shutdown && client_socket.empty()', and nothing
\* calls Shutdown().
endTurn ==
    /\ loop = "serve" /\ ready = {}
    /\ loop' = IF Open = {} THEN "join" ELSE "select"
    /\ UNCHANGED <<net, incoming, ready, tasks>>

\* The drivers, which all end, are joined, and the process is destroyed.
join ==
    /\ loop = "join"
    /\ loop' = "returned"
    /\ UNCHANGED <<net, incoming, ready, tasks>>

Run ==
    \/ select \/ accept \/ endTurn \/ join
    \/ \E c \in Client : serve(c) \/ hangUp(c) \/ readFails(c)

Stopped == loop \in {"returned", "terminated"}

Clients ==
    /\ ~Stopped
    /\ \E c \in Client : Connect(c) \/ Send(c) \/ Close(c) \/ Reset(c)

\* Run waits in select for as long as nobody does anything, or is over.
Wait == (loop = "select" \/ Stopped) /\ UNCHANGED vars

Next == Run \/ Clients \/ Wait

Spec == Init /\ [][Next]_vars

\* The program runs.  Clients need not do anything.
FairSpec == Spec /\ WF_vars(Run)
-----------------------------------------------------------------------------
\* However reads cut and join the stream, a client's objects become tasks in
\* the order they were sent, none twice, and no task is made of something that
\* was not read.
ObjectsInOrder ==
    \A c \in Client : \A i \in DOMAIN tasks[c] : tasks[c][i] # Malformed =>
        /\ 2 * tasks[c][i] <= got[c]
        /\ \A j \in 1 .. i - 1 : tasks[c][j] # Malformed => tasks[c][j] < tasks[c][i]

\* Run does not leave its loop before it has read all that every client it ever
\* accepted has sent.
NothingUnreadAtEnd ==
    loop \in {"join", "returned"} =>
        /\ \A c \in Client : conn[c] = "closed" => Unread(c) = 0
        /\ Open = {}

\* When the clients that came have gone, Run returns, unless one of them broke
\* its connection or another comes.
RunReturns ==
    Open # {} /\ (\A c \in Client : conn[c] = "away" \/ over[c] # "no")
        ~> Stopped \/ (\E c \in Client : conn[c] # "away" /\ over[c] = "no")
-----------------------------------------------------------------------------
\* server2.h: "Server creates a child thread per task to add task to process":
\* every object that was read has become a task.
EveryObjectBecomesTask ==
    \A c \in Client, n \in Object :
        2 * n <= got[c] => n \in ToSet(tasks[c])
=============================================================================

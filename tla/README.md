# A TLA+ verification of jerryfish

jerryfish is a C++ code base of two halves and a library. The older half is a small *task
server*: a client sends JSON objects over TCP, the server makes a task of each,
keeps the tasks in bounded buffers while they lose value with age, delivers them
and throws away those whose value has run out. The newer half is the beginning of
a server framework: fibers, a scheduler that runs them on threads, a logger and a
configuration registry. The halves do not call each other. Both rest on rapidjson,
whose sources the repository carries and which is by far its largest part.

This directory holds TLA+ modules translated from the source, TLC configurations
that check them on small instances, and TLAPS proofs. Paths below are relative to
`src/src/` of the repository, those of the library to `src/rapidjson/`.

The repository was caught in the middle of a port (headers included as `.hpp` and
stored as `.h`; several `.cc` files commented out). The modules follow the code
as it is written; where the fragments differ by platform, the macOS branch is
the one the commit develops.

## 1. Inventory

| Component | State | Operations | Where |
|---|---|---|---|
| **Task** | id, category, life, drop rate, creation time, cache time, factor 1 or 2, latch `m_hasValue` | construction from JSON, `GetValue`, `IsValid` (latches), `Drop`, `AddToCacheBuffer`, `SetCacheTime` | `task.h`, `task.cc` |
| **Buffers, strategy** | ids on a buffer, capacity; the cache buffer's id-to-task map | `Add`, `Remove`, `IsFull`, `AvailableCacheSize`, `GetCacheTasks` | `buffer.h`, `cache_buffer.cc`, `task_strategy.h`, `task_type.cc` |
| **Process** | `m_tasks`, `m_invalidTasks`, the buffers, one mutex | `Add`, `Delete`, `Deliver`, `DeleteInvalidTask`, `ShiftCacheTask`, `GetInstance`, `Destroy` | `process.h`, `process.cc` |
| **Server threads** | detached dispatcher and timer threads, joined driver threads | `Dispatcher::Add`, `Driver`, `TaskTimer` | `dispatcher.h`, `driver.h`, `task_timer.h`, `server2.cc` |
| **Server stream** | open sockets, one 1024-byte buffer each | accept, read, split at `}{`, close, end of loop | `server2.cc` |
| **Client** | none | reads a file, writes each object to a socket | `client2.cc`, `customer.h` |
| **Fiber** | `m_state` (INIT HOLD EXEC TERM READY EXCEPT), context, stack | constructor, `reset`, `swapIn`, `call`, `YieldToHold`, `YieldToReady`, `MainFunc` | `Fiber.h`, `Fiber.cc` |
| **Scheduler** | list of fibers and callbacks, active count, `m_stopping`, `m_autoStop`, root fiber, threads | `schedule`, `start`, `stop`, `run`, `idle`, `switchTo` | `Scheduler.h`, `Scheduler.cc` |
| **Threads and locks** | semaphore, thread handle, lock wrappers | `Thread` start handshake, `join`, `Semaphore::wait/notify` | `Thread.h`, `Mutex.h` |
| **Logger** | loggers by name, their appenders, levels and formatters | `log`, `addAppender`, `clearAppenders`, `setFormatter`, `getLogger` | `Logger.h` |
| **Config** | registry by name, values, listeners with ids, a lock each | `Lookup`, `setValue`, `addListener`, `delListener`, `LoadFromYaml`, `LexicalCast`, `LogIniter` | `Config.h` |
| **rapidjson** | a stream position, a parser's stack, a value's memory, a validator's contexts | `Reader::Parse` in three forms, `Writer`, `Value`, `Pointer`, `SchemaDocument`, `SchemaValidator`, `Regex` | `reader.h`, `writer.h`, `document.h`, `pointer.h`, `schema.h`, `encodings.h`, `internal/` |
| **Utilities** | – | templates and macros; `Utils.cc` is commented out | `Utils.h`, `Singleton.h`, `macro.h`, `Debugger.h` |
| **Geometry** | – | header-only computational geometry that nothing in the programs uses | `../geometry` |
| **Tests** | – | test programs and their data, read for the claims they make | `../tests` |

How they interact. `Server::Run` allocates a task per JSON object and starts two
threads for it: a detached *dispatcher* that calls `Process::Add` and a *driver*
that sleeps 2 to 10 seconds and calls `Process::Deliver` with the bare address.
A detached *timer* calls `Process::DeleteInvalidTask` every 3 seconds. The three
meet only in `Process`, under `m_taskMutex`. In the framework half, worker
threads execute `Scheduler::run`, which takes entries off one list under
`m_mutex` and swaps fibers in; a fiber that yields returns to `run`, which reads
the fiber's state and reschedules or parks it. Fibers, other threads and timers
put entries on the list with `schedule`. A configuration file is a tree of YAML nodes;
`LoadFromYaml` sets every registered variable it names, and the listener of the variable
`logs` rebuilds the loggers while other threads log. Documents reach the task server through
rapidjson's `Document::Parse`; the other parts of the library are there for programs to come.

What is hard in it:

* *Task server.* `Add`, `Delete` and the sweep hold the mutex, but ask the wall
  clock several times, and the second may pass between two answers. Tasks leave
  in two stages (first to `m_invalidTasks`, then deleted), by three kinds of
  thread, in any order, and a driver's address can outlive its task.
* *Scheduler.* A fiber's state is plain memory, written by the fiber, by the
  worker that runs it and read by others under a mutex its writer does not
  hold. A waker may schedule a fiber before it is off its stack. `stopping()`
  must be true only when nothing can come any more, and `stop()` must return.
* *Stream.* TCP joins and splits messages as it likes.
* *Logger, Config.* `setValue` calls listeners under one lock and writes under another, taken later;
  the loggers are rebuilt step by step while events are on their way.
* *rapidjson.* One pass, no copies: a parser that is a table, numbers gathered at three widths, values moved
  bytewise, a validator that decides by hashes and nested validators what a schema says of whole documents.

What makes each component right is listed with its module below. The hazards,
each at its line, are in `PROJECT.json`.

## 2. Modules

| Module | Models | Kind |
|---|---|---|
| `Task` | one task's value over time | constant-level operators |
| `Process` | the singleton, its buffers and strategy | state machine |
| `ProcessProofs` | TLAPS proofs about `Process` | theorems |
| `TaskServer` | `Process` with dispatchers, drivers, timer | composition, EXTENDS `Process` |
| `TaskLifecycle` | what the server promises about one task | abstract specification |
| `Fiber` | `m_state` and its transitions | operators over one variable |
| `Scheduler` | workers, list, start/stop, use_caller | state machine, EXTENDS `Fiber` |
| `RunQueue` | what a scheduler of fibers promises | abstract specification |
| `ServerStream` | `Server::Run`: sockets, reads, the cutting into tasks | state machine |
| `Thread` | the start handshake over a semaphore | actions |
| `ConfigVar` | `ConfigVar<T>`: value, listeners, lock, id counter | actions |
| `LogDefine`, `LexicalCast` | casts between values, YAML nodes and log defines; patterns | operators |
| `Logger` | loggers, appenders, formatters, where an event goes | operators and a variable |
| `LogConfig` | a program that loads files while it logs | composition of `Thread`, `ConfigVar` and `Logger` |
| `SchedulerProofs` | TLAPS proofs about `Scheduler` | theorems |
| `SchedulerRefinement` | TLAPS proof that `Scheduler` implements `RunQueue` | theorem |
| `LifecycleProofs` | TLAPS proof that `TaskServer` implements `TaskLifecycle` | theorem |
| `ServerStreamProofs` | TLAPS proofs about `ServerStream` | theorems |
| `LogConfigProofs` | TLAPS proofs about `ConfigVar`, `Logger` and `Thread` as `LogConfig` composes them, that files reach the loggers and events the appenders | theorems |
| `JsonEncodingProofs` | TLAPS proofs about characters and texts in `JsonEncoding` | theorems |
| `JsonDomProofs` | TLAPS proofs that `JsonDom` keeps its blocks and does what `JsonTree` says | theorems |
| `JsonText`, `JsonNumber`, `JsonEncoding` | units, numbers read and printed, UTF-8/16/32 | operators |
| `JsonReader` | the recursive parser and its events | operators |
| `JsonValue` | values as trees, comparison, the handler that builds them | operators |
| `JsonWriter` | `Writer`, `PrettyWriter` | operators |
| `JsonIterative` | the table-driven parser, at once or token by token | state machine |
| `JsonParse` | properties of readers and writers | properties |
| `JsonTree` | what the interface of `GenericValue` promises | abstract specification |
| `JsonDom` | values in memory: cells, blocks, two allocators | state machine |
| `JsonPointer`, `JsonRegex` | pointers; regular expressions to automata | operators |
| `JsonSchema`, `JsonValidator` | schema documents compiled; the streaming validator | operators |
| `JsonConformance` | the validator fed event by event | state machine |
| `JsonQuery` | pointers and patterns put to use | state machine |
| `MC...` | constants for TLC; `MCJsonLookup` also sets `JsonConformance` and `JsonQuery` side by side | – |

Operators named "Mutant of X" are plausible bugs; `PROJECT.json` pairs each with
a property that must fail when X is replaced by it.

### Task, Process

A task is a record in a heap indexed by addresses; `m_tasks` and
`m_invalidTasks` hold addresses, the buffers hold ids, and `m_idToTaskMap` leads
from an id back to an address, as in the code. Addresses are reused after
`delete`.

The handlers are serialised by `m_taskMutex`, so the interleaving inside them is
not between threads but between a handler and the *clock*. Each handler is cut
at every call of `time(nullptr)`, and the second may pass between any two:

* `Add` is `AddCheck` (is it valid, which buffer), `AddPlace` (`Buffer::Add`,
  which asks again) and `AddRecord` (asks a third time and decides the set);
* `Delete` is `Invalidate`, `Free` or nothing; after `Invalidate` come one
  `GetCacheTask` for each cached task of the buffer's category (the strategy asks
  each for its age by itself) and, for each task that is shifted, `ShiftCacheTask`
  (`CacheBuffer::Remove`, which stores the time) and `ShiftAdd` (`Buffer::Add`, which
  asks for the value);
* `DeleteInvalidTask` is one `CheckTask` for each of `m_tasks`, followed by one
  `DeleteSwept` per task found.

The variables `adding`, `target`, `unread`, `pq`, `places`, `shifting`, `unchecked` and
`sweep` are the locals of these handlers, and the mutex is held while one is in use.

A second that passes inside `Add`, between `AddPlace` and `AddRecord`, leaves the task's id on a buffer
although the task goes to `m_invalidTasks` (`process.cc:92`; section 4). The history variable `overtaken` names
those ids, and the properties say what holds in spite of them: the other ids are in order, no valuable task
is lost, capacities are kept. If such an id is on the cache, it leads `GetTasks` to freed memory once the task is
deleted (`Dangling`). The model goes on from there: another task at that address is
taken for a cached one; where there is none, what is read is undefined, and the entry may be skipped or ranked anywhere. `SingleOwner`,
`ValuableIsPlaced`, `WithinCapacity`, `UrgentFirst`, `LeftAgeBrackets`, `WorkConserving` hold even then; `BuffersHoldTasks` and the second half of
`InvalidIsGone` do not, and end there. A crash, or a write through the dangling
pointer into the allocator's memory, is left out.

`UrgentFirst` and `LeftAgeBrackets` are stated with the second in which each question was asked, since the code's
answers are no more than that: what stays on the cache may be more urgent than what leaves by the seconds between
two questions, and a task whose time ends between the choice and `Buffer::Add` may be
saved or lost.

`IsValid`'s latch is a state change in a `const` method; `Latched` is applied
wherever the code calls it. The six strategies share one shape; the program only
ever constructs `MIN_LEFT_TASK_AGE`, which is what `LeftAgeLess` and
`Sooner` say. Life and rate are read from JSON without a check, so a
malformed message gives a task of no known category that is never valid.

### TaskServer, TaskLifecycle

`Receive` is one message; it starts a driver record (id, address, wake-up time)
in the same step, and the task waits for its dispatcher simply by being in
neither set. `Drive` delivers the *address*, so a late driver can hit a later
task. The sleep's upper end is left out (a driver may wake any time after the
lower one). `TaskLifecycle` is the abstract machine none → fresh → placed → (lost →)
dead → gone; `PhaseOf` is the refinement mapping.

### Fiber, Scheduler, RunQueue

Every section under `m_mutex` is one step, and every unguarded access that another
thread can tell apart is a step of its own; the worker's program counter names
them. The hand-over is modelled in full: `YieldToHold` leaves EXEC (the line that
would write HOLD is commented out in `Fiber.cc`), the waker may come before the swap,
`Takable` skips entries in EXEC, and the scheduler writes HOLD afterwards.

Choices made: start's two flags are one step, since the threads it creates cannot
run before the second. stop's two writes are one step, because `stopping()` is
false until both are made. `tickle()` only logs and `m_idleThreadCount` is never
read; both are left out. The batch form of `schedule`, and `switchTo` to another
scheduler, are left out. A callback has no identity; the fiber that runs it does.
`arm` stands for whatever code hands a fiber to a waker (an I/O manager, a timer)
before it holds. `Careless` switches on what the application should not do:
"stray" schedules a fiber that has not asked for it; "late" schedules after `stop()`.

`RunQueue` is the promise: a fiber runs once at a time, only after it was queued,
and a queued or yielded fiber is not forgotten. `StatusOf` and `Callbacks` are the
refinement mapping.

### ServerStream

`Server::Run` is one thread; every turn of its loop is `select`, `accept`, one `serve`, `hangUp` or
`readFails` per reported client, and `endTurn`. The stream of a client is a run of tokens, two per
object (the half with the opening brace, the half with the closing one), so that a read may
begin and end inside an object or join several. `Joins` are the places where `"}{"` is found,
`Texts` is what the loop parses of one read: the pieces, of which all but the first have lost their
opening brace, and at last the whole text. A piece that is not exactly one object is
`Malformed`; `TaskServer` takes it up as a message of no known category. Failures of the listening socket end
the program (`exit`) and are left out, as is a failing `select`. `Shutdown()` is called by nobody.

### Thread, ConfigVar, Logger, LogConfig

`Thread` is the constructor's handshake: create, wait for the semaphore; the new thread takes its
callback out of the object, sets the id and notifies. `Named` is the macOS branch of `Semaphore`,
where all semaphores of one count have one name and only the first can be opened.

`ConfigVar` cuts `setValue` where it lets other threads in: the comparison and every listener
under the read lock, then the write lock and the assignment. `addListener` reads and writes the
static counter of its type under the lock of its own variable only. `knows` is a history variable: what each
listener was last told, or found when it came, and whether it came between a setter's last call and
its write (`late`, until it is told a value). The listener of `logs` has steps of its own (`Stepwise`), which are those of `LogConfig`.

`Logger` keeps, per logger, level, formatter and appenders; a formatter is its pattern, of which
only the errors matter (`isError`). An event's text is left out; `Sinks` are the appenders it reaches.

`LogConfig` is a program like `test_config.cc`: one thread loads files, of which one is the
repository's `bin/conf/log.yml`, others log, name loggers and register listeners. Every step of the
listener (`get`, `level`, `formatter`, `clear`, `add`) may fall between a thread's level check and its delivery.
The listener's two loops are kept as the sets of names still to be changed and to be removed, and taken in the order of the
names, which is that of `std::set<LogDefine>`. A node of a file is a value and members; `ListAllMember` gives paths to
nodes, of which `Listed` keeps those that name a variable. The cast of `logs` is `ToDefines`; those of the other types are
parameters (`FromText`, `ToText`), for which `MCLogConfig` takes `LexicalCast`.

### The JSON modules

A text is a sequence of code units. The recursive parser, the writers, values, pointers,
schemas and patterns are operators, written after the functions they translate; what has steps of its
own is a state machine: `JsonIterative` (a token a step, with the parser's stack), `JsonDom` (an operation of the caller a
step), `JsonConformance` (an event a step), `JsonQuery` (a piece of text, a use of a pointer, a part of a pattern).
Integer widths are constants (`IntBits`, `Int64Bits`, `FastBits`, `SizeBits`), so that three-digit numerals
reach every limit the code compares with. A double is the decimal it was read from, which is what it means up to rounding: the
rounding to 53 bits is left out. The reader's default flags use `StrtodNormalPrecision`, which rounds more than once for long
or small numbers (`strtod.h:37`) and may miss the nearest double: 7205759403792796.0 is written and read back as 7205759403792797.0.
`RoundedOnce` says when it cannot (the digits, read as one integer, and the power of ten are both exact doubles), and
`WriteReadsBack` claims that a document reads back as it was for documents whose doubles are all so written. That Grisu prints a decimal
that is nearest to its double is taken for granted. `NumbersExact` is exact for integers; for doubles it says that the decimal is kept, up
to the rounding. The assertion that UTF-16 is given no surrogate (`encodings.h:279`) is compiled out in the
build type the repository sets (RelWithDebInfo), and left out. A UTF-8 text of the writers is its bytes. Where the code asks one question after another, so
does an IF; the arms of a CASE exclude each other.

`JsonDom` has memory: a value is a cell, arrays, objects and long strings own a block, known by its address. The
allocator frees blocks or never does (`pool`). What the destructor and the copy constructor do by recursion is said by the
blocks that are reached from a cell (`Reached`): they are freed, or copied to as many new ones. `JsonTree`, instantiated in it,
is what the interface promises about the trees, a function from paths to nodes, and `KeepsTrees` says that after every operation the
cells are those trees.

In `JsonValidator` a validator is a value: the stack of contexts of the open values, each with the
nested validators of its alternatives, dependencies and patterns, which are fed every event. `JsonConformance` feeds
it while the handler of `JsonValue` builds the document from the same events, and compares. `Holds` and `Obeys` say what a
schema means as this library has it: JSON Schema draft 4 with the exceptions listed in section 4.

## 3. Runs

Every run finishes in under four minutes with two TLC workers.

| Run | Instance | Shows |
|---|---|---|
| `process_safety` | 2 categories of one place, cache of 2, 4 tasks over 3 addresses, 2 s | `SingleOwner`, `BuffersHoldTasks`, `ValuableIsPlaced`, `InvalidIsGone`: sets, buffers and tasks agree under every order of handlers and ticks, those inside `Add` too |
| `process_wide` | 1 category of 2 places, cache of 3, 5 tasks, 1 s | capacity, urgency and expiry when one `Delete` asks three cached tasks, shifts two, and the clock ticks between any two questions; no task waits beside a free place of its own |
| `server_lifecycle` | 3 tasks, one place per buffer, 2 addresses, 7 s, messages in the first 3, fairness | the threads implement `TaskLifecycle`; every task is deleted in the end |
| `late_deliver` | the same, messages at any time | a violation: section 4 |
| `server_stream` | 2 clients, 3 objects each, reads of 1 to 6 half objects, fairness | objects become tasks in order and once; nothing is left unread; `Run` returns |
| `scheduler_safety` | 1 thread and the use_caller thread, 3 fibers, 3 submissions, pins to both, late scheduling | fiber assertions, one stack, one ticket |
| `scheduler_fair` | 2 threads, 2 fibers, no pins, late scheduling, fairness | the scheduler implements `RunQueue`; scheduled fibers run, `stop()` returns |
| `scheduler_stray` | 2 threads, 2 fibers, a pin, stray scheduling | the active count stays exact even then; the last worker to leave leaves nothing takable |
| `config_log` | 1 loading and 1 logging thread, 3 files of which 2 are loaded, 2 variables, 2 callbacks, 1 event, fairness | after a load the loggers are what the defines say; appenders follow formatters; values survive the casts; a listener knows the value; the handshake; events are delivered; every call returns |
| `json_parse` | eight themes of texts of four to six pieces, their flags, handlers that stop at an event | the table-driven parser agrees with the recursive one in events, error and offset; what is written reads back; numbers and encodings are exact |
| `json_dom` | 2 roots, 5 cells, 2 blocks of at most 3, depth 2, both allocators | every block has one owner; the cells are the trees the interface promises |
| `json_lookup` | 44 schemas with documents of up to 4 values, pointers of 4 pieces, documents of 4 nodes, patterns of 4 parts | the validator's verdict and errors; pointers read back, set and erase at their place only; a search finds what the pattern means |

Why the bounds suffice. Three addresses for four ids force reuse of an address.
One place per buffer and a cache of two reach every branch of `Add` (own buffer,
cache, both full); cache-to-buffer shifts of more than one task need the wide
instance. Two addresses for three tasks
do so in the server, where the branches of `Add` are not the question. A clock that ends after one second in `process_wide` and after two in `process_safety` puts a tick between any two questions
of a handler, and a second one later; the seven of the server cover a task that expires on its buffer, on the cache, during a shift and after it. Two workers suffice for every race on one
fiber, a third fiber lets callbacks keep theirs while others move; three
submissions give a fiber, a callback and a late one. In the scheduler each fiber
may yield and be woken without bound. Three objects in one read give the stream a
first, a middle and a last piece; two clients let one arrive, hang up or break while the other is served.
Two loads of three files change, add and remove loggers; one event meets every step of a rebuilding, since
events do not touch each other. For texts, each theme holds the units between which the code distinguishes in one
function, and the pieces at which its branches part: a container in a container with every separator (six pieces), an escape in
a surrogate pair, a numeral with sign, fraction and exponent around 2^4, 2^5, 2^7 and 2^8. A schema case has just the
keywords that meet in one function of the validator, and documents that satisfy and break each. Two blocks and five
cells let an array grow twice, hold another container and be copied, and an object lose one of two members, one of them a string.

Symmetry. Addresses are symmetric in `Process`, fibers in `Scheduler` and roots in `JsonDom`; no run with a liveness
property uses symmetry. Workers are not permuted where one is pinned or is the root.

Deadlock is checked everywhere but in `scheduler_stray`, where a failed
assertion ends the program and the model stops, and in `json_parse` and `json_lookup`, which end when the
text or the document is used up.

Fairness. `TaskServer` assumes weak fairness of the timer, of the thread that holds the mutex and of the
clock, and strong fairness of dispatchers and drivers: each asks for the mutex once, and it is not denied for ever to a
thread that keeps asking, although others take it again and again in between (the timer sleeps between two of its
turns, and every task has one dispatcher and one driver). Nobody has to send a message. Two rounds of sweeps or deliveries delete any task. `Scheduler` assumes weak fairness of every worker
and of the thread inside `stop()`, and strong fairness of a fiber's end: a fiber
run again and again does not yield for ever. Without that, `stop()` may rightly
wait for ever. `ServerStream` assumes that the program's one thread runs; clients owe nothing. `LogConfig` assumes that
every thread runs once it is inside a method, a listener, the handshake or a delivery. Calling `start`, `stop`,
`schedule`, `Load` or `addListener` is never assumed.

## 4. What the code does against its own words

The run `late_deliver` is expected to end in a violation: a driver that wakes after its task was freed deletes a later
task at the same address, where `process.cc:134` says a second deletion comes to the branch that does nothing.

More disagreements are stated as properties in the modules and have no run of their own. TLC refutes each when it is
put into the configuration named here:

| Property | Configuration | The code |
|---|---|---|
| `Process!DropRateDoublesOnCache` (`task.h:201`) | `process_safety` | `task.cc:49`: on the cache the drop rate is zero, and a jump when the task leaves it |
| `Process!InvalidTasksAreOnNoBuffer` (`process.h:106`) | `process_safety` | `process.cc:92`: a second that ends inside `Add` leaves the id on a buffer for good |
| `Process!MappingIsRemoved` | the same | a mapping written for a task the cache refused is never removed |
| `Process!SizeCountsTasksOnBuffers` | `process_safety` | `Size()` also counts tasks lost in a shift |
| `Scheduler!StopReturns` | `scheduler_fair` with a pin | `Scheduler.cc:248`: an entry for a thread that has left keeps the others from leaving |
| `Scheduler!RequeueKeepsThread` | `scheduler_stray` | a fiber that yields READY is put back for any thread |
| `Scheduler!RootNeverResumed` | `scheduler_safety`, 2 starts, 2 stops | a second `stop()` with work left calls the root fiber that has ended |
| `ServerStream!EveryObjectBecomesTask` (`server2.cc:146`) | `server_stream` | of several objects in one read only the first becomes a task |
| `ConfigVar!ListenerKnowsValue` (`Config.h:833`) | `config_log`; with two setters also `PunctualListenerKnowsValue` | a listener registered between the calls and the write learns neither value; two setters notify in one order and write in the other |
| `ConfigVar!IdLeadsToListener` (`Config.h:860`) | two threads registering at two variables of a type | the counter goes back: an id is given twice and a listener lost |
| `LogConfig!AppendersAsInFile` (`bin/conf/log.yml:9`) | `config_log` | `Config.h:647, 675`: the set's cast reads the i-th appender each time and knows only "StdoutAppender" |
| `JsonQuery!IndexInBounds` (`pointer.h:90`) | `json_lookup` | `pointer.h:969`: `m < n` misses a wrap that passes `n` |

Read off the code while modelling, and built into the models as they are:

* `LexicalCast<set<LogDefine>>` writes no formatters, and blanks the level where there is none; `fromString` answers false
  always; the JSON cast writes the empty document; the path check lacks the digit 9; "%%" is no escape; a
  second `Semaphore` cannot be opened on macOS; `Thread::GetThis()` is null, for the assignment is to a copy.
* Parsers: the two parsers name the error of a text without a value differently; the end offset of a refused event differs by
  one; "NaN.5" reads as 0.5; a lone low surrogate passes the validate flag; a RawNumber is written in quotes.
* Patterns: a search for what matches the empty text fails; `{2}` or `()a` asserts; nested stars recurse for ever.
* Schemas: a name only required, or only in dependencies, counts as declared; a required property with a string default
  counts as present; `patternProperties` and a schema for the rest are alternatives; `enum` and `uniqueItems` compare
  hashes that let equal members cancel; references through numbers, or in cycles without a value, do not
  resolve or do not end. `GetInvalidSchemaPointer` names the root when a member fails its `patternProperties`, however deep that schema
  lies: the member's context has `typeless_`, built with an empty pointer (`schema.h:1543`). `ErrorsAreReal`
  does not speak of the pointer there; the run has a nested case.

## 5. Proofs

### Process

`ProcessProofs` proves, for every set of addresses, number and capacity of buffers, set of messages and
bound on the clock, that `Process` keeps

* `TypeOK` (`TypeCorrect`), `SingleOwner` and unique ids (`OwnedOnce`), `BuffersHoldTasks`
  (`BuffersFollowTasks`), `ValuableIsPlaced` (`NoValuableTaskLost`), `InvalidIsGone` (`FreedWithoutTrace`),
  `WithinCapacity` (`CapacityKept`), and `WorkConserving` (`NoRoomWasted`);
* the action properties `UrgentFirst` (`MostUrgentLeaves`) and `LeftAgeBrackets` (`ShiftKeepsWhatLasts`).

Nothing is assumed of the clock: the second may pass between any two questions, in `Add` too. The only assumptions are those
the modules declare on their constants.

The inductive invariant is `Inv`, that is, `IInv` and (`Dangling` or `Clean`). `IInv` holds for ever: types, unique ids and owners,
that an id not yet given is nowhere (`IdsGiven`), that the cache's map knows the cached ids and leads to a live object's address or
nowhere (`MapInv`), what the locals of each handler may be together (`AddInv`, `LoopInv`), that a task of `m_tasks` with value is on a buffer or in
Delete's hands (`Placed`), that there is room for all that is to be shifted (`RoomInv`), that `GetTasks` asks every candidate (`AskedInv`), and
the order of the seconds at which it asks and shifts (`ShiftInv`). `Clean` holds until the cache is left with the id of a freed task: an id is on one buffer only (`OneBuffer`), it is that of a
held task unless it was overtaken (`Owned`), an overtaken task is one of `m_invalidTasks` (`OvertakenDead`), and
the queue holds each entry once, with the address its id had (`QueueClean`). An overtaken id on the cache may still be asked and shifted
before its task is freed, which is why `QueueClean` lets an entry be of `m_invalidTasks`. The two halves need each other: `Dangling`, once true, stays true
(`StaysDangling`, because the id of a freed task is given to nobody), so the step cases of `Clean` may assume that it is false
afterwards. Each action has a lemma for either half; `NextInv` collects them.

`UrgentFirst` follows from `AskedInv` and the order of the queue, `LeftAgeBrackets` from `ShiftInv` and `ValueOffCache`, which compares what
`GetValue` computes with the strategy's formula. `WorkConserving` needs `WorkInv`: every
task has the life and rate of a message (`OriginInv`), `Add` turns to the cache only when the own buffer is full (`CacheLastInv`), and while
nothing has expired (`Unspent`) every known task has its value and whoever waits on the cache waits for a buffer that is full once the tasks
being shifted are counted in (`Calm`); `ValuableWhileUnspent` shows that a shifted task is accepted, so that the place kept for it is filled.

### TaskServer

`LifecycleProofs` proves `LifecycleImplemented`: `ServerSpec` implies `ImplementsLifecycle`, with no more assumptions than
above. Ids are unique, so the phase of an id is that of the one object that carries it
(`PhaseOfLive`, `PhaseOfNobody`). A step that touches one object moves one phase (`OneMove`), a step that touches none is a
stutter (`NoMove`), and one lemma per action says which. A recorded task is placed while its id is on a buffer or it is carried from
the cache with its value, and lost otherwise (`Settled`). `Place` may happen only while the buffers have places:
`PlacesSuffice` maps the ids on the buffers one to one into the places, and the task that `AddRecord` records is on a buffer already
but not placed yet, so that one place is left for it. `AddInv` is used for that, and `RoomInv` for a shift, which
finds the place it was promised. A dangling entry moves no live task into a buffer that is not its own, which is why the theorem needs no `Clean`.

### Scheduler

`SchedulerProofs` and `SchedulerRefinement` prove, for every finite set of workers, every set of fibers, with or without
`use_caller`, any pins and any bounds on submissions, starts and stops:

* `ActiveIsCounted` (`ActiveCountExact`) and `TypeCorrect` (`TypeOK`), whatever the application schedules;
* `NoAssertionFails` (`AssertionsHold`), `OneStackOnly` (`OneStack`), `OneTicketOnly` (`OneTicket`), `NothingForgotten`
  (`NothingLeftBehind`) and `Implements` (`ImplementsRunQueue`), under the assumption `"stray" \notin Careless`: a fiber is scheduled by who made it, by its own
  `YieldToReady`, or by a waker it has asked. The assumption is needed: a stray `schedule` of a running fiber puts it on the
  list a second time, and a second worker then finds it in `EXEC` or, once it is parked, runs it beside the
  waker. A waker may be as early as it likes (`"late"`, and scheduling before the fiber is off its stack).

The invariant has two layers. `CountInv` needs no discipline of the application: the types, that `start` and the call of the root
fiber find their workers at rest (`MainInv`), that a worker between `pop` and `swapIn` has something in hand (`HandInv`), and
the count. `FiberInv` is about ownership. `ListInv` and `DistinctInv`: no two places (entries of the list, wakers, locals
of `run()`) hold one fiber. `DueInv` and `ArmedInv`: what state a fiber may be in while it waits on the list or
for its waker. `WorkerInv`: at each place of `run()`, what the locals `ft` and `cb_fiber` hold and in which state. The
early waker is why `DueInv` cannot say that a fiber on the list is parked: it may be in `EXEC` on another worker,
which then has left its turn but not its stack, and `pop` skips it. One lemma
treats the steps of the application (`ApplicationFiber`), and one each place of `run()`; `FiberStep` and `HandStep` do the
work common to them.

For the refinement, each fiber has a status in `RunQueue`, read from its state, the list and the
workers (`HeldStatus`, `FreeStatus`); `WakeInv` says that a fiber with a waker is
in HOLD or EXEC, and that a fiber in EXEC is in some worker's hands. Every step of a worker, a waker or the
application is shown to be a step of the queue or to leave it (`RunStep`), so that nothing that was
scheduled is dropped. `TicketsTaken` is the lemma on the list: to take
an entry out leaves the number of tickets of the other fibers. `NothingForgotten` (`NothingLeftBehind`)
follows from the same invariant: the last worker to return does so in `popNothing` (`LastReturns`), and an entry it passed over
because its fiber is in EXEC would need another worker that holds it.

### Server stream

`ServerStreamProofs` proves `ObjectsInOrder` and `NothingUnreadAtEnd` for every set of clients, any sizes and any limits on
reads. The inductive invariant is `StreamInv`: the types, the order, and `ConnInv` (nothing is
read that was not sent, what the server has closed was shut by the client and read to its end, nothing is open once the loop is left).
The step that matters is a read. `TextsOfRead`: of the texts the loop parses of one read at most one is exactly an object, and it
is among what was read; with `AppendInOrder` the objects taken stay in increasing order and below what was read.
No assumption is made on where a read begins and ends.

### Thread, ConfigVar, Logger, LogConfig

`LogConfigProofs` proves about `LogConfig`, for every set of threads, variables, listeners, loggers,
files and events:

* `TypeCorrect` (`LogConfigTypeOK`), `Started` (`ConstructedIsReady`), `FormattersAgree` (`FormattersFollow`), `OldValueHeld`
  (`OldValueStays`), `FatalEventsArrive` (`EventsAreDelivered`) and `DefinesComeBack` (`DefinesRoundTrip`), however many threads load
  files;
* `ListenersAreTold` (`PunctualListenerKnowsValue`) and `ConfigReachesLoggers` (`ConfigApplied`) when one thread loads files
  (`Main = {m}`), as in the repository's programs. The hypothesis is needed: two setters notify in one order and write in the
  other, and TLC then refutes both.

The inductive invariant `IInv` has five parts. `CallInv` is about the variables: who holds a lock and what the read lock keeps
(`Locks`), that ids come from a counter that stays in its range between `++` and the use of it (`Counted`), that only
loading threads set values (`Roles`), that LogIniter's listener stays the first of `logs` (`Registry`). `Jobs` ties a
loading thread's place in that listener to its call, so that old and new value stay put while the loggers are rebuilt.
`FormattersFollow` is inductive with the types, and `Handshake` is what the semaphore's count says of the new thread.

`ConfigApplied` says nothing while `logs` is being set, so that its invariant, `Applied`, must: a logger that is neither to be
changed nor to be removed any more is as the new value asks (`Reflects`), the one whose turn it is has come as far as the
step says (`Halfway`), and before and after the listener all are as the old or the new value asks. A define that is equal to
its old one is skipped; `Reflects` compares the fields that `==` compares, which is why skipping is sound for it and would not
be for the appenders. `EventsAreDelivered` is an action property; its invariant `Fed` says that, unless a file asked
for no appender, the root logger has one or some thread has yet to add one to it (`Feeding`). Threads may rebuild the root logger
at once and clear what another has added; whoever cleared last has still to add. The items to come and the value being set all
give root an appender, or this would not go on.

`DefinesRoundTrip` does not hold of every `LogDefine`: the casts drop an appender's level, and a file that is not of type 1. Its
invariant `FromFiles` says that `logs`, and what it is being set to, is what the cast of the set made of a file (`FromFile`), and that
cast gives no appender a level (`ItemFromFile`). `DefineReadsBack` then shows that the casts of one LogDefine undo each other, field
by field and appender by appender. The loops that skip what they do not accept (`Accepted`) are recursive functions:
`LoopExists` shows that there is such a function, `LoopGives` and `LoopGivesAll` what it collects, by counting up (`CountUp`).

Assumptions on the constants, which TLC evaluates: `FilesAssumption` (what a file gives a variable is of its type or does not
cast, and the appenders of a define are a sequence), `LogDefineAssumption` (an absent key is none of the values a key has), `LoggerAssumption` (the default pattern has no error), `LogsAssumption` (`logs` starts empty, as `getLogDefines`
looks it up; there is a logger "root"). The casts of other types are constants here, since no theorem depends on
them; `MCLogConfig` takes them from `LexicalCast`, and `CastsRoundTrip` checks those.

### Encodings

`JsonEncodingProofs` is about operators, not about a specification: `JsonEncoding` declares no constant, and the theorems
hold for every text and position. A *character* is a code point up to 0x10FFFF that is no surrogate; the
*strict* encodings are UTF-8 and UTF-16, since `UTF32::Decode` asks for the upper bound only.

* `DecodesWhatIsEncoded`: where a text has the units of a character, `Decode` gives that character and stands behind it.
* `AcceptsOnlyCharacters`: where a strict `Decode` accepts, the text has exactly the units `Encode` writes for a character. So
  `GetRange` and the masks of `UTF8::Decode` leave no gap: no overlong form, no encoded or lone surrogate, nothing too large.
* For whole texts, as `TranscodeAll` goes over them: `VerdictOfTheSource`, `ValidatedIsCopied`, `ThroughAnother` and
  `TextsComeBack`. They generalise the first part of `EncodingsExact`, which TLC checks on the texts of its run.

The bytes of a lead byte's class are taken case by case (`DecodeOne` to `DecodeFour`), `Digits64` turns shifts and masks into
digits to the base 64, and `SecondBytes` lists what may stand behind each lead byte. A text is gone over from its end (`Backwards`,
from the least counterexample): `Recursion` shows that the function `TranscodeAll` is defined by exists, because every step
goes ahead by one to four units (`NextAhead`), and `Inside` that an accepted character never reaches past the end, where the stream
only delivers zeros. `ThroughAnother` needs the claim for every text put in front (`Middle`).

### Values in memory

`JsonDomProofs` proves about `JsonDom`, for any roots, names, block addresses and capacities, with an allocator that frees and
with the pool, and whatever the bounds allow: `OneOwnerHolds` (`OneOwner`) and `TreesKept` (`KeepsTrees`). The only
assumption is `DomAssumption`: addresses are positive, and so is the default capacity.

Neither is inductive: `OneOwner` says nothing of what the cells are, and `KeepsTrees` lets a block lie in two trees that look right.
`IInv` says that there is a function `f` from paths to cells, shaped as the document is, with `Placed(mem, f)` (a cell's children
are the cells of its block, no two cells have one block), `doc = See(mem, f)`, and no blocks but those `f` uses. An operation is
then two changes, one of the memory and one of `f`, the latter by the operators of `JsonTree` that also change the document. The lemmas
between them:

* `FollowAddr`: the address the caller comes to by a path is where `f` has its cell; `Addr` names that place without the walk.
* `ReachedForest` and `UnderAddr`: the least set of blocks closed under ownership, by which `Destroy` is defined, is the set of
  blocks that the subtree of `f` uses. So what is destroyed is that subtree's blocks, all of them, and no others.
* `Place` and `Replace`: to write a cell and give its place a subtree that stands in the memory keeps the rest, if their blocks
  are different; `Frame`: a subtree stands where its blocks are unchanged. `Cut`, `UsedSplit` and `UsedPut` say whose blocks they are.
* `MoveApart` and `MoveUp`: a moved value is at its new place with the blocks it had, and its source is null; `MoveUp` is for a part of what
  it replaces, which only the pool allows. `CopyStands`: a copy is the same tree with its blocks renamed by an injection into free ones.
* `Chosen`, `Refilled` and `Appended`: the children of an array or object after a range was erased, the last member moved, or
  one pushed; `Growing` where the block is allocated or enlarged on the way.
* `Settled`: what is left is `IInv` again, with the pool after the blocks nothing leads to are forgotten.

Induction goes over the length of paths and is done with a least counterexample (`PathInduction`, `EmptyTree`), as elsewhere.

### What stays with TLC

Liveness (`EveryTaskDeleted`, `ScheduledRuns`, `StopReturns`, `RunReturns`, `CallsReturn`) is out of the prover's reach. So is
induction over data: `CastsRoundTrip`, and everything said of rapidjson but its encodings and its values in memory. Its reader,
writers, pointers, schemas and patterns are recursive in the data, and their modules declare RECURSIVE operators. The byte order marks and
`DetectType` of the encodings are TLC's too (`EncodingsExact`).

## 6. Not modelled

* Client and demo programs: they read a file and write a socket, without state.
* `Utils.cc` (commented out), macros, `Debugger.h`, `Singleton.h`: no state, or none used.
* Geometry: header-only floating-point computations, used by no program here.
* `Process::GetInstance` and `Destroy`: an unguarded test of a pointer and a delete while detached threads still run. What
  follows either is undefined; a model would only repeat that.
* Scheduler and Fiber: the batch form of `schedule`, switching between two schedulers, `dump()`, the assertions of `~Fiber`
  (`Fiber.cc:89`), which bite when the last pointer to a fiber is dropped: reference counts are not modelled.
* Logger: the text of a line, `toYamlString`, and the reopening of files every three seconds (`Logger.h:1048`, which cuts the
  file to nothing each time).
* rapidjson: the rounding of decimals to doubles and back (`strtod.h`, `diyfp.h`, `biginteger.h`, Grisu in `dtoa.h`): real
  arithmetic on 53 bits is beyond TLC, and properties about doubles are stated so that they do not depend on it; the SIMD scanners, which repeat the scalar ones; allocators, stack, string
  buffers, file and stream wrappers, which are pure storage; `en.h`'s texts; `SchemaValidatingReader`.
* The C++ memory model: a data race on a flag is modelled as a nondeterministic order of
  whole reads and writes, no more.
* The tests: programs and data, read for their claims.

## 7. Plan

Done: everything in section 2.


# A verification model of EveryOne-server

EveryOne-server is the gate of a chat system: an HTTP server (Boost.Beast) that hands
out verification codes, registers users, resets passwords and logs users in. It keeps
nothing itself. Codes live in Redis, users in MySQL, and two gRPC services (VerifyServer,
StatusServer) send the codes and name the chat server of a user. What the repository
contributes, and what can go wrong in it, is how many threads share four connection
pools, and what the route handlers make of the answers they get.

This directory holds TLA+ modules of the parts that carry that logic, TLC
configurations that check them on small instances, and proofs, checked by TLAPS, of the
properties that hold for every instance. Paths below are relative to `src/`.

## 1. Inventory

| Component | State | Operations | What is hard | What makes it correct |
| --- | --- | --- | --- | --- |
| gRPC stub pools, `verifygrpcclient.cc`, `status_grpc_client.cc` | queue of stubs, `m_isStop`, mutex, condition variable | `getConnection`, `releaseConnection`, `close`, destructor; `GetVerifyCode`, `GetChatServer` | waiting, waking, overtaking; destruction while in use; null stub | a stub is in one place; none is lost; no wakeup is lost; FIFO pool |
| MySQL pool and DAO, `mysql.cc`, `mysql_dao.cc` | queue of connections, `m_stop`, mutex, condition variable, check thread | the same, `checkConnection`; `registerUser`, `checkEmail`, `updatePassword`, `checkPassword` | double and missing releases, `close` without the mutex, a detached thread | as above, and what each function may do to the pool |
| Redis pool, `redismgr.cc` | queue of contexts, `m_isStop` | the same | broken connections replaced or not, `close` without the mutex | as above; the pool may only shrink when reconnecting fails |
| Redis commands, `redismgr.cc` | none; the contexts are the pool's | `execCommand`, fourteen commands, `ExecuteCmd` | a connection that breaks after the command was carried out; arguments that are empty or contain blanks; `BRPop`, which keeps its context while it waits | what `true` and `false` mean; every call returns |
| Protocol messages, `message.pb.*`, `message.grpc.pb.*` (generated) | fields, has-bits, unknown fields | setters, `Clear`, `MergeFrom`, `CopyFrom`, serialising, parsing; the stubs | has-bits that skip fields in four functions; default and negative values | the other side reads what was set |
| Route handlers, `logicsystem.cc` | routing tables (constant after construction) | `get_test`, `get_verify`, `user_register`, `reset_pwd`, `user_login` | several calls to the outside per request, interleaved with other handlers, each of which can fail half way | who may register, whose password changes, what an answer says |
| HTTP connection, `httpconnection.cc` | socket, request, response, deadline timer | read, handle, write, deadline callbacks; `urlDecode`, `PreParseGetParam` | timer against write, no answer on some paths; parameters cut off, empty, encoded or without `=` | each request is answered once or its socket is closed; parameters with an `=` arrive |
| Acceptor and threads, `cserver.cc`, `iocontext_pool.cc` | one `io_context` and thread per core, round robin counter | `start`, `GetIOService`, `Stop` | failed accepts, exceptions caught in the accept handler; stopping while connections are idle or a handler sleeps | an accept is pending, until an exception ends the accepting; every request read ends; `Stop` returns |
| Singletons, `singleton.h`, `EveryOne.cc` | function-local statics, the list of those to destroy at exit | construction on first use by any thread, destruction at exit | constructors that need other statics, throw, or run during exit; threads that wait for them; destruction order | nobody waits for ever; the logger and the configuration outlive their users; exit joins the threads and destroys everything |
| Configuration, logger, `config_manager.cc`, `logger.h` | maps read once; a mutex | construction, reading, writing a line | everybody relies on them, also during exit | they are there when they are used |

Interaction: the acceptor (main thread) creates an `HttpConnection` on an `io_context`
of the pool; that context's only thread runs the read callback, which calls
`LogicSystem`, whose handler calls Redis, MySQL and the RPC clients synchronously. So
each `io_context` thread is inside at most one handler, and a handler that sleeps in
`getConnection` stops everything else on its `io_context`, timers included. A handler
holds at most one pool resource at a time. At exit main destroys the statics in reverse
order of their completion; `IOContextPool`, first used in `CServer::start`, was completed
before the pools, which handlers construct on first use, and so is destroyed, and its
threads joined, after them. `Logger` is completed first of all, because main's first line
constructs `ConfigManager`, whose constructor logs.

## 2. Modules

| Module | Models |
| --- | --- |
| `ConPool` | what a pool promises: connections are lent oldest first, to one thread at a time, none after closing |
| `RenewingPool` | `ConPool` for connections that break: a borrower's may be replaced by one nobody else has, or be lost |
| `EntryPool` | what `MySqlPool` is to the DAO's calls: a queue to which a connection may come back twice, the second time as a null entry, or not at all |
| `RpcConPool` | `RPCConPool`/`StatusConPool` and the calls through them, at the grain of mutex and condition variable |
| `MysqlDao` | `MySqlPool`, its check thread, its end, and the four DAO functions |
| `RedisConPool` | `RedisConPool` and `RedisMgr::execCommand`, with the renewal of broken contexts and both calls of `close` |
| `LogicSystem` | the POST routes over Redis, the user table and the queue of `MySqlPool` |
| `HttpServer` | `CServer`, `IOContextPool` and the callbacks of `HttpConnection`, from the accept to the response |
| `UrlCodec` | `urlDecode` and `PreParseGetParam` as functions on bytes; `MCHttpServer` extends it |
| `Messages` | the six message classes and the wire format; `MCRpcConPool` extends it |
| `RedisMgr` | the commands of `RedisMgr` over one key of a Redis that several threads use |
| `Singletons` | all function-local statics, from first use to exit, with main and the io threads |
| `MC*` | the instances TLC checks; `*_proof`: the theorems |

**Threads and steps.** In the pool modules `pc[t]` is where an io thread stands, and a
step is what it does between two points where another thread can interfere. `wait` is
three steps: the predicate under the mutex (`TestPredicate`), releasing the mutex and
blocking at once (`Block`), and waking, by a notify or spuriously, to take the mutex again
(`LockGet`). `mutex` names the holder of `m_mutex`. The queue is a sequence, the local
`unique_ptr` of a call is `stub[t]` or `conn[t]`; 0 is the null pointer. The rest of
`getConnection` (`Take`) and of `releaseConnection` (`Push`) run under the mutex and are
one step each; `m_stop`, which `MySqlPool::close` writes without the mutex, is read
separately by the predicate and by `Take`, as in the code.

**RpcConPool** has the two clients in one module, told apart by the constant variable
`client`: `GetVerifyCode` tests for a null stub, `GetChatServer` does not; only the
former has a deadline. The destructor takes the mutex, calls `close`, empties the queue,
unlocks and destroys the members. A thread that touches a destroyed member, or calls
through a null stub, is "undefined".

**MysqlDao** adds what is peculiar to MySQL. `Releases` says how often each function
gives its connection back: `checkPassword` once or twice (an explicit release besides its
`Defer`), `checkEmail` not at all without a row. The second release moves from a pointer
that the first left null, so that `Push` appends a null entry. The check thread
(`CheckStop` to `CheckSleep`) turns the queue round entry by entry, crashes on a null
entry and ends the process when reconnecting throws. The constructor may stop early,
with fewer connections and no check thread. `m_last_active_time` is abstracted: any entry
may or may not have been active lately.

**RedisConPool** treats a context as its address, which `redisFree` gives back and a later
`redisConnect` may get again; `live` is the set of allocated ones. `Replace` is the path of
`releaseConnection` for a context with `err` set: free, connect again, and, if that
succeeds, queue the new one under the mutex (`LockRelease`, `Push`). Whether Redis can be
reached is `redis`, which may change at any time. `m_isStop` is atomic and set without the
mutex, and `close` runs twice, from `~RedisMgr` and from `~RedisConPool`; `closes` counts.
The plain bool `RedisMgr::m_isStop`, which `execCommand` reads while `~RedisMgr` writes it,
stops nothing in the model: the race lets a thread miss it.

**HttpServer** has one record per `HttpConnection` alive: which operation is pending or
waits for its callback (`phase`), the state of the timer's wait (`deadline`) and whether its
60 seconds are over (`minute`). `Becomes` destroys a connection as soon as no callback
refers to it. An `io_context` runs one callback at a time, in any order, and none while its
thread is in a route handler, in which the thread may sleep. A handler returns or throws; all
else about it is `LogicSystem`'s. `Accept` and `AcceptFails` are the accept callback of main's
thread, with the next `CServer::start` in it (`Continue`); in `AcceptThrows` it catches what
`conn->start()` or that `start` throws, a want of descriptors or memory, logs it and returns:
the server goes on, "deaf", with the connections it has. The comment at EveryOne/cserver.cc:27,
"继续监听" (go on listening), stands before the call that is not reached then.
`ListeningUntilCaught` says that nothing else ends the accepting. A request over the limits of
the parser ends as one that cannot be read (`ReadCompletes`): it is dropped unanswered, and
`NoSilentDrop` does not count it as read. The read callback catches every `std::exception`, so the
threads' own catch is not reached and threads end only with `Stop`. One thing could reach it,
and is not modelled: the deadline's `close()` and the write's `cancel()` are the overloads that
throw (httpconnection.cc:117, 127), outside of any `try`; here they succeed. `m_nextIOService` is kept
modulo the size of the pool.

**LogicSystem** leaves out what of an answer nothing depends on: when `get_verify` cannot
parse its body, error 1001 goes into a `root` that is never written, and the body is the text
of the parser (the other routes write `root`); a reply of VerifyServer with a nonzero `error`
is passed on as it is (`RPCFailed` stands for every error of `get_verify`); and a field that is no string, at which `asString` throws, is met when
the request is parsed (`ParseThrows`), though for `verifycode` the code does it after the `GET`
in Redis, which changes nothing. It takes pools as `ConPool` describes them: borrowing and releasing are
single steps. An entry of the MySQL queue is "live" or "null". A request is a record;
whether its body parses, and whether `confirm` differs, are choices. `codes` is Redis,
`users` the user table; `issued`, `unknown` and `wrote` are history variables, used by
properties only. External parts, modelled from their use: VerifyServer stores a code and
replies, or the call fails before or after it did; codes expire; `reg_user` refuses a
taken name or address; any statement can throw, an update also after MySQL carried it out.

**UrlCodec** writes the two functions as recursive functions on sequences of bytes. Two
traits of the code are kept: a `%` among the last two characters ends the string, and
`fromHex` takes every letter for a digit. A form encoding, in three variants, is the
reference: `FormsRead` says that every key and value of up to two bytes comes back;
`SegmentsApart` that no segment with an `=`, however malformed its key and value, changes what
the ones beside it mean; and `FlagsMisread` what becomes of a segment without one. The last of
a query is dropped; any other is read as part of the next key, so that of `flag&a=1` the
handler gets a parameter `flag&a`, and `a` is lost. docs/logicsystem-interfaces.md:22 says of
`get_test` "接口会返回请求路径和所有 query 参数" (returns the path and all query parameters):
for such targets it does not.
The parameters decide nothing in `HttpServer`, so they are not part of its state:
`HandlersGetParameters` says of the step from the read callback to the handler that the
functions do this for all bounded inputs.

**Messages** has one program for the six classes, which protoc has generated from one
template: a class is the sequence of the types of its fields, and an object has values,
has-bits and unknown fields. `libprotobuf`'s wire format is modelled down to the bytes,
varints of negative numbers included, because the sizes and the skipped defaults are what
can be wrong. `MessagesCarry` says that what was set arrives (`Arrives`), that merging and
copying objects is what the wire does to messages (`Merges`), and that a field only a later
version knows passes through (`PassesOn`). It is checked at the step where an RPC returns.

**RedisMgr** counts the free contexts only; which context, and how a thread waits, is
`RedisConPool`'s. A function of `RedisMgr` writes its arguments into one line, and
`redisCommand` cuts that line into words at blanks; the comment "使用引号确保特殊字符安全"
(quotes make special characters safe, EveryOne/redismgr.cc:241) notwithstanding, no quotes are
written. So a command is the words that follow the key. If every argument is one word the line
is `Plain`, and Redis does what the header says. An empty argument or one with blanks makes
Redis read something else (`BlankCommands`): further options (`SET k v EX 10` expires,
`SET k v GET` answers with the old value, so that `Set` returns false), further values or
fields (`LPUSH k v w` inserts two, `HSET k f v g w` sets two), a count (`LPOP k 2`), further
keys (`DEL`, `EXISTS`, `BRPOP`), or an error. All of these are in the model, with the replies
Redis gives and what the functions make of them; but what true and false mean is stated for
plain commands only, for only they say what the caller means. `Execute` is Redis carrying out a
command; the connection may break before it (`Break`) or between the effect and the reply
(`Carry`). `BRPop` on an empty list is queued in Redis and served, first come first, before the
next command; one whose line names a second key may be served from there
(`ExecuteElsewhere`). `Converted` is what each function makes of the reply. `runs` and `effect`
are history variables, of how often and with what effect Redis carried out the command. Left
out are keys without any word, which shift the whole line, options beyond `NX`, `GET` and `EX`
and mixtures of them, and `%` in an argument, which `redisCommand` would take for a conversion
and read an argument that is not there: no behaviour is defined for it.

**Singletons** has one step per call of `GetInstance`, per end of a constructor and per
destructor. `ctor[p]` is the stack of constructors that thread `p` is in, `todo[p]` the calls
it will make next. `bad` is what config.ini makes throw, chosen at the start: a missing file
(`ConfigManager`), numbers `stoi` and `stoul` refuse (`VerifyGrpcClient`, `RedisMgr`), or a
pool of no threads. A static being constructed by one thread is waited for by the others; if
the constructor throws, the next of them tries. `order` is the list of the statics to destroy,
to which threads still add during exit. `EndThread` stands for `run()` returning after
`Stop`.

## 3. What the runs check

| Run | Instance | Shows |
| --- | --- | --- |
| `rpc_pool` | 3 threads, 2 stubs, both clients | `NothingLost`, `NoLostWakeup`, `CloseWakesAll`, refinement of `ConPool`, that every `GetVerifyCode` ends, and `CallsCarryMessages` |
| `rpc_pool_destroyed` | 2 threads, 1 stub | a counterexample to `NeverUndefined`: use of the destroyed pool |
| `mysql_pool` | 2 threads, 2 connections | `NoSharing` in spite of the double release; `ConnectionsKept`: only `checkEmail` without a row loses a connection; `NoLostWakeup`; `CloseMissesOneAtMost`; refinement of `EntryPool`; every DAO call returns while a connection is left |
| `mysql_register_null` | 2 threads, 1 connection | a counterexample: after a login, a registration that ran no statement is a success |
| `redis_pool` | 3 threads, 2 contexts, Redis up or down | `NothingLeaks`: each context is freed once, whichever of release and `close` comes first; `ShrinksOnlyWhenDown`; `SecondCloseWakesAll`; refinement of `RenewingPool`; every `Get` ends while a context is left |
| `redis_commands` | 2 threads, 2 contexts, 1 key, 1 word, ten kinds of commands with blanks or empty arguments | `AnswersTruthful`: Redis carries out no command twice; if every argument is one word, after `true` it has carried out the command and did what redismgr.h says, after `false` with a reply it has changed nothing, and without a reply it did it once or not at all. `CallsEnd`: as long as one context is left that is not with a `BRPop` without timeout, every call ends, such `BRPop`s excepted, unless others take contexts in front of it for ever |
| `routes` | 2 handlers, 2 addresses, 1 name, 2 passwords, 1 code | `RegisteredWithIssuedCode`, `ResetsAreChecked`, `RefusalsChangeNothing`; the handlers use the pool as `EntryPool` has it |
| `routes_reset_race` | the same, 2 connections | a counterexample: a reset changes the password of a user with another address |
| `routes_register_refused` | the same, 2 connections | a counterexample: 1005 for a registration that was made |
| `http` | 3 connections, 2 `io_context`s | `ListeningUntilCaught`, `NoSilentDrop`, every request that was read ends, `Stop` returns; `HandlersGetParameters` |
| `http_status` | 2 connections, 1 `io_context` | a counterexample: the 400 a handler set goes out as 200 |
| `singletons` | 2 io threads, at most one constructor that throws | `FoundationsOutlive`; `WaitsAreShort`: whoever waits in `GetInstance` waits for a thread that does not; nobody stays in `GetInstance` for ever (`InitsEnd`); once main returns the process ends with every static destroyed and the threads joined (`ExitEnds`) |

**Bounds.** Three threads on two stubs are the least with which a thread sleeps, is
notified and is overtaken by a third while another holds a stub; the proofs cover every
number. `MaxPooled` bounds the queue of `MySqlPool`, which each login lengthens by a null
entry: calls (logins in `LogicSystem`) start only while the queue is no longer than that,
so it can still exceed it by the releases under way, and null entries do occur. One
code is enough because `None` stands for a wrong one and codes differ by address. One
name is enough for the properties of one row; the second address gives it another owner.
`Conns` bounds the connections alive at a time: with three, two are served, on
the same or on different `io_context`s, while the third is being accepted; destroyed ones
come back as new ones. A context of Redis has one address more to choose from than the pool
has contexts, so a new one may or may not take the address just freed.
`MysqlDao` has two threads, because its check thread, `close` and the destructor compete
for the mutex as well: with two connections one thread can sleep while the other and the
check thread hold or release one. `MaxBad` is one: a second constructor that throws adds a
thread that gives up, not a new way of waiting for it. `MaxLen` bounds the list in Redis:
no `LPush` starts on a list that long, or beside another one, so lists of one word and, by a
value with a blank, of two occur; and `BRPop`s wait on empty ones. One word is enough since
a value is told from the key, from a second word and from the empty string. `Blanks` takes
from `BlankCommands` at least one of each kind (options, fields, further keys, an array for
`LPop`, an empty value), and while one of these is called only `LPush`, plain or not, is called
beside it: what such a command does depends on the entry it finds, and that is made by plain
ones; the proof has neither bound. Two
contexts for two threads let a `BRPop` wait while another command runs; lost contexts leave
one, then none. The inputs of `UrlCodec` are all strings of up to two of the eight bytes that
matter to it, those of `Messages` the boundary values of an `int32` and strings whose length
takes one byte and two. Everything else is finite by itself. `routes` uses symmetry of the
threads, of the addresses and of the passwords; no formula in it names a member of
these sets and the run has no liveness property.

**Deadlock** is checked except for `LogicSystem`: once `checkEmail` has dropped the last
connection, every thread waits in `getConnection`, and the server does stop; and for `HttpServer`, which
is terminated. In `RedisConPool` Redis can always change, so that no state is a deadlock
there; `NoLostWakeup` and `EveryGetEnds` say what matters. `Singletons` ends when the process
does, with a step that says so (`Terminating`).

**Fairness.** `WF` of a thread's own steps: the operating system runs runnable threads.
In `RpcConPool` the RPC of the verify client is fair because of its deadline, that of the
status client is not. In `MysqlDao` the steps that take `m_mutex` are strongly fair: the
check thread, which would take it again and again, sleeps 60 seconds between two passes.
That MySQL answers is not guaranteed by the code (no timeout is set), nor is an end of
spurious wakeups or of new calls: these are hypotheses inside `CallsReturn` and
`EveryCallEnds`, not fairness of the specification; so it is in `EveryGetEnds`, because no
timeout is set on commands of Redis, on connecting to it or on `AUTH` either (`Talk`). In `HttpServer` time passes, and the thread of an
`io_context` serves each connection's timer and callbacks sooner or later unless it stays in
a handler (strong fairness, for handlers of other connections come between; asio serves
ready callbacks in turn). That handlers return is a hypothesis of `RequestsEnd` and
`StopEnds`. In `Singletons` the io threads are strongly fair, because a thread that waits in
`GetInstance` is enabled only between two constructors of other threads, which may go on
throwing; the standard library wakes all that wait. What a handler or a connecting
constructor waits for is not bounded by this code: that they end is a hypothesis of
`InitsEnd` and `ExitEnds`. In `RedisMgr` threads run and Redis serves the first `BRPOP` that waits (weak fairness). A
context that comes back wakes a waiter, but a newcomer may be faster: nothing is fair about
that, and `CallsEnd` says for each thread that its calls end or that others pass it infinitely
often. Its hypotheses are that commands sent get a reply or break, `BRPop`s excepted, and that
some context is free or in a call other than a `BRPop` without timeout, which is the default:
if every context is in one of those, nothing moves any more, and no property could say
otherwise.
Clients are never fair: they need not send or take anything. Starting a call,
a termination and starting a destructor are never fair.

**Findings.** The five counterexamples are described, with the lines of documents and
comments they contradict, under `findings` in `PROJECT.json`. More disagreements are visible in the text of the code and have no run of their own: those
about EveryOne/redismgr.cc:241, EveryOne/cserver.cc:27 and docs/logicsystem-interfaces.md:22,
described above with `RedisMgr`, `HttpServer` and `UrlCodec`; EveryOne/redismgr.h:115, which says that `LPush`
inserts "元素" (an element), where a value with blanks inserts one for each word; and the first `close` of the Redis pool, which EveryOne/redismgr.h:34 lets notify all
waiting threads, may miss one, since it does not take the mutex: `SecondCloseWakesAll` says
that the second makes up for it.

## 4. What is proved

All constants are arbitrary up to the modules' `ConstantsAssumption`: finitely many
threads, pool sizes in `Nat`, distinct names. TLC evaluates the assumptions in each run.

*RpcConPool_proof.* `ControlInv` is the inductive invariant: whoever is in a critical
section owns the mutex; a call has a stub from `Take` to `Push`; what the predicate said
still holds when the thread acts on it; `m_isStop` follows the destructor's progress.
It is inductive together with `TypeOK`, and gives `CloseWakesAll` at once. The other
invariants use it through `StubMoves`: a step borrows the head of the queue, appends a
thread's stub, drops one of a stopped pool, empties the queue, or moves nothing. Hence
`NoSharing` and `NothingLost`. `NoLostWakeup` compares the length of the queue with the
number of threads on their way to it, using cardinalities of finite sets: every push
wakes a sleeper, if there is one, and every pop takes one thread away from both sides.
`PoolImplemented` maps each step to one of `ConPool` or to a stutter.

*MysqlDao_proof* goes the same way with a weaker `PredicateInv`, since `m_stop` may be set
at any time, and with `LateInv`, which says that after `close()` has notified two different
threads cannot both be about to sleep or asleep: only the owner of the mutex can have
tested the predicate before `m_stop` was set. It gives `CloseMissesOneAtMost`.
`ConnMoves` adds the rotation by the check thread and the leak of `checkEmail`, from
which `NoSharing` and the action property `ConnectionsKept` follow. `PoolImplemented` is the
refinement of `EntryPool`. Its queue is `Settled`, the queue as the check thread found it,
whose entries it takes from the front and puts at the back one by one; so a turn changes
nothing (`CheckUnseen`), and a reconnect neither, since entries are told apart as live or null
only. `Owed` is what a call has still to give back: its connection, the null pointer of a
second release, or nothing.

*RedisConPool_proof* has the same control invariant and, in `SettledInv`, the reason why two
unlocked `close()` are enough: the first sets `m_isStop` and then takes the mutex, so when it
has returned nobody is between a test that saw the old value and the wait; whoever it missed
is asleep, and the second `notify_all` reaches it. `HeapInv` carries `NothingLeaks` and
`NoSharing` together, since that a new address is nobody's follows from `live`. From it
`PoolImplemented` maps `Replace` to `Renew` of the abstract pool, or to a stutter when the
old address comes back.

*HttpServer_proof* rests on `CallbackInv`, about one connection: the wait is armed from the
read callback on, is over only when cancelled by a finished write or when the minute has
passed, and a connection nobody refers to is gone. Completions, timers and callbacks are
`Local` steps, which are treated alike; main's are treated one by one. `Listening` proves
`ListeningUntilCaught`: each accept, failed or not, is followed by exactly one, but for the
exception caught by the accept handler, after which nothing is accepted any more. Two theorems are what
`RequestsEnd` rests on, for any number of connections: a request that was read always has a
handler, a ready callback or the deadline to come, never its client alone
(`RequestsDontHang`); and every step of it takes it nearer to its end, which is at most
sixteen steps away (`RequestsApproachTheirEnd`, by the measure `Distance`). What is left to
TLC is that fair threads take these steps.

*LogicSystem_proof* rests on `HandlerInv`, about each handler at each point: the code it goes
on with has been issued (codes in Redis always are, `CodesInv`, and issued ones stay
issued, whatever happens to Redis meanwhile); a handler about to update either saw no row or
the row still matches, because rows are never removed and never get another address
(`NothingRemoved`, `RowChanges`); a handler has written only if its last statement was made.
`RefusalsChangeNothing` is part of it; `RegisteredWithIssuedCode` and `ResetsAreChecked`
follow step by step, from the only two steps that change the table. `PoolImplemented` says
that the handlers, which take an entry in one step and return it in another, do with the
pool only what `EntryPool` allows, as the functions of `MysqlDao` do with the mutex, the
condition variable and the check thread: both modules are held to one contract. It bounds
what either may do; that `LogicSystem` leaves out nothing the pool does is a matter of
reading it.

*RedisMgr_proof* shows `AnswersTruthful`, for any choice of `Blanks`. Its heart is `Carried`, about one plain command on one
entry: what Redis does, what it replies, and what the function of `RedisMgr` makes of the
reply fit together, for each of the fourteen commands. Around it are `QueueInv` (a client
waits in Redis once, and only in a `BRPop` without a reply), without which the same `BRPop`
could be served twice; `HistoryInv` (nothing has come of a command before Redis carried it
out, and it is carried out once); and `ContextInv` (no more contexts are free or lent than
the pool began with), which the type of `free` needs.

*Singletons_proof* shows why `FoundationsOutlive` holds although only main's first line sees
to it. `MainInv` follows main through that line (`Boot`: the stack of constructors, stage by
stage), through `IOContextPool` (`Pooling`), and says that from then on (`Started`) the
two foundations are complete. `OrderInv` says that the list of destructors has no static
twice, holds exactly the complete ones, and starts with `Logger` and `ConfigManager`: since it
is taken from the end, whatever else is there goes first, and `IOContextPool`'s destructor
has joined the threads by then. `BuildInv` says that one thread constructs a static at a
time, `ThreadInv` what an io thread can be inside of. From these, `NoCycle` proves
`WaitsAreShort`: the constructors that io threads run ask only for the two foundations, which
are complete (`ThreadConstructorsGoOn`), and main asks for nothing another thread constructs
(`MainGoesOn`), so whoever is waited for does not wait. `EndsClean` is the safety part of
`ExitEnds`: when `exit()` finds its list empty, `IOContextPool` is neither in it nor being
destroyed, so no thread runs, so nothing is under construction that could still be added
(`AtRest`); and nothing moves after that (`GoneStays`). Any number of threads may construct,
throw and be served while exit is under way.

*Messages_proof* is about message classes with any number of fields and all values of the
fields, negative numbers, zero, the empty string and strings of nearly 2 GB included.
`FieldArrives`: a field is read back with its number (up to 15, whose tags are one byte),
type and value, whatever bytes come after it, and has the length that `ByteSizeLong` counted.
An int32 is cut into groups of seven bits (`Digits` says that they make it up again) and read
back (`VarintRead`); the end of a varint is found because only its last byte is below 128
(`LeadingEnds`). `ObjectsStayValid` is the
invariant of an object that is used again, with the generated code's own assertion
(`CheckHasBitConsistency`) in it, and `CopiesAreEqual` what it gives: `CopyFrom` leaves
nothing behind of what the object held before, not even in strings that `Clear` skips.

Only model-checked:

- liveness, which the prover cannot do: `EveryCallEnds`, `CallsReturn`, `EveryGetEnds`,
  `RequestsEnd`, `StopEnds`, `InitsEnd`, `ExitEnds`, `CallsEnd`. Their safety part is proved
  where there is one: `NoLostWakeup`, `CloseWakesAll`, `WaitsAreShort`, `EndsClean`, and the
  two theorems on requests;
- `CallsCarryMessages`: a message is written and parsed field by field, by recursion over
  the fields, and facts about recursion need an induction that the installed provers cannot
  do; the theorem is about one field among others;
- `HandlersGetParameters`, recursive functions on bytes, for the same reason. It holds for
  the bounded inputs TLC goes through.

## 5. Not modelled, and the plan

Still to do: what a pool's clients rely on between two pools, that a thread holds an entry
of at most one of them, is stated in section 1 and not composed into one module.

Left out for good:

- `urlEncode`, `toHex`, `StatusGrpcClient::Login` (an empty function), `ExecuteCmd` and
  the asynchronous stubs and the service side of `message.grpc.pb`: nothing calls them. What
  `ExecuteCmd` does depends on a format its caller would choose.
- The library's parser (`TcParser`) beyond what `_table_` makes it do, swapping and
  descriptors of messages: not this repository's, or reflection no code uses.
- The maps of the configuration and the layout of log lines: read once, or output only.
- `get_test` beyond its parameters: it echoes them in the order of an unordered map, not in
  the order of the request that docs/logicsystem-interfaces.md:49 shows.
- `test/testRedis.cc`, which constructs a pool and exits without an assertion, and the
  wording of answers.

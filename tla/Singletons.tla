----------------------------- MODULE Singletons -----------------------------
(***************************************************************************)
(* The function-local statics of the server from first use to exit:        *)
(* singleton.h, Logger and ConfigManager, main() of EveryOne.cc, and what   *)
(* the constructors and destructors use of one another.                    *)
(*                                                                         *)
(* GetInstance constructs the static if this is its first call; a thread   *)
(* that finds another one constructing it waits.  If the constructor       *)
(* throws, the next call tries again.  A complete static is registered for *)
(* destruction: exit() destroys in reverse order of completion, those      *)
(* included that an io thread completes meanwhile, and GetInstance does    *)
(* not notice that the object it returns is destroyed.                     *)
(***************************************************************************)
EXTENDS Naturals, Sequences, FiniteSets

CONSTANTS Threads,   \* the threads that IOContextPool drives its io_contexts with
          Main,      \* main's thread
          MaxBad     \* bound: how many constructors config.ini can make throw

ASSUME ConstantsAssumption == Threads # {} /\ Main \notin Threads

VARIABLES life,      \* life[s]: how far the static s is
          order,     \* the statics complete and to be destroyed, latest last
          ctor,      \* ctor[p]: the constructors thread p is in, innermost last
          todo,      \* todo[p]: the GetInstance calls that p's own code will make next
          inside,    \* inside[t]: the statics with a member function running in t
          io,        \* io[t]: "none", "running", or "ended" before it is joined
          stopped,   \* IOContextPool::Stop has stopped the io_contexts
          phase,     \* main: "init", "run", "exit", "gone", or "aborted" by terminate()
          bad        \* the statics whose constructor throws, as config.ini is

vars == <<life, order, ctor, todo, inside, io, stopped, phase, bad>>

Foundations == {"Logger", "ConfigManager"}
\* The statics that io threads use first, while they handle a request.
Lazy == {"LogicSystem", "VerifyGrpcClient", "StatusGrpcClient", "RedisMgr", "MysqlMgr"}
Statics == Foundations \cup {"IOContextPool"} \cup Lazy
Procs == Threads \cup {Main}

\* Mutants of Needs: the configuration is read without a line of log; the logger asks the
\* configuration for its level.
QuietNeeds(s) ==
    CASE s \in {"VerifyGrpcClient", "RedisMgr"} -> <<"ConfigManager", "Logger">>
      [] s \in {"StatusGrpcClient", "MysqlMgr"} -> <<"ConfigManager">>
      [] OTHER -> <<>>
ConfiguredNeeds(s) ==
    CASE s = "ConfigManager" -> <<"Logger">>
      [] s \in {"VerifyGrpcClient", "RedisMgr"} -> <<"ConfigManager", "Logger">>
      [] s \in {"Logger", "StatusGrpcClient", "MysqlMgr"} -> <<"ConfigManager">>
      [] OTHER -> <<>>

\* The GetInstance calls of a constructor, in order.  Left out: the line that MysqlMgr's logs
\* if a connect to MySQL fails (the Logger is long complete then, FoundationsOutlive), and the
\* check thread that it detaches and exit() does not join (MysqlDao has that thread).
Needs(s) ==
    CASE s = "ConfigManager" -> <<"Logger">>
      [] s \in {"VerifyGrpcClient", "RedisMgr"} -> <<"ConfigManager", "Logger">>
      [] s \in {"StatusGrpcClient", "MysqlMgr"} -> <<"ConfigManager">>
      [] OTHER -> <<>>

\* No config.ini, no core, a number that stoi or stoul refuses; the constructors of
\* MySqlPool and StatusGrpcClient let nothing out.
Throwing == {"ConfigManager", "IOContextPool", "VerifyGrpcClient", "RedisMgr"}
\* What is left of Needs when that happens: the numbers are converted before they are logged.
LeftAtThrow(s) == IF s \in Lazy THEN <<"Logger">> ELSE <<>>

\* Mutant of Routes: get_test hands its work to the pool that runs it.
RoutesPosting == {<<"IOContextPool">>, <<"VerifyGrpcClient">>, <<"RedisMgr", "MysqlMgr">>,
                  <<"MysqlMgr", "StatusGrpcClient">>}

\* What the handlers of the routes use, in order: get_test, get_verify, user_register and
\* reset_pwd, user_login.
Routes == {<<>>, <<"VerifyGrpcClient">>, <<"RedisMgr", "MysqlMgr">>,
           <<"MysqlMgr", "StatusGrpcClient">>}

-----------------------------------------------------------------------------
Init == /\ life = [s \in Statics |-> "none"]
        /\ order = <<>>
        /\ ctor = [p \in Procs |-> <<>>]
        /\ todo = [p \in Procs |-> IF p = Main THEN <<"ConfigManager", "IOContextPool">>
                                              ELSE <<>>]
        /\ inside = [t \in Threads |-> {}]
        /\ io = [t \in Threads |-> "none"]
        /\ stopped = FALSE
        /\ phase = "init"
        /\ bad \in {b \in SUBSET Throwing : Cardinality(b) <= MaxBad}

Top(p) == ctor[p][Len(ctor[p])]
Pop(q) == SubSeq(q, 1, Len(q) - 1)
Constructing(p) == ctor[p] # <<>>
Throws(p) == /\ Constructing(p)
             /\ Top(p).static \in bad
             /\ Top(p).needs = LeftAtThrow(Top(p).static)

\* The code that p runs: of the innermost constructor, or its own unless it is inside a
\* member function other than LogicSystem's, which calls the handler.
Code(p) == IF Constructing(p) THEN Top(p).needs
           ELSE IF p \in Threads /\ ~(inside[p] \subseteq {"LogicSystem"}) THEN <<>>
           ELSE todo[p]
Wants(p, s) == Code(p) # <<>> /\ Head(Code(p)) = s /\ ~Throws(p)

\* The first call of GetInstance starts the constructor.
Construct(p, s) ==
    /\ Wants(p, s)
    /\ life[s] = "none"
    /\ life' = [life EXCEPT ![s] = "building"]
    /\ ctor' = [ctor EXCEPT ![p] = Append(@, [static |-> s, needs |-> Needs(s)])]
    /\ UNCHANGED <<order, todo, inside, io, stopped, phase, bad>>

\* GetInstance returns, also when the static is destroyed.  Constructors use what they get
\* at once, and so does main; a request thread stays in the member function it calls.
Obtain(p, s) ==
    /\ Wants(p, s)
    /\ life[s] \notin {"none", "building"}
    /\ IF Constructing(p)
       THEN /\ ctor' = [ctor EXCEPT ![p] = Append(Pop(@), [Top(p) EXCEPT !.needs = Tail(@)])]
            /\ UNCHANGED <<todo, inside>>
       ELSE /\ todo' = [todo EXCEPT ![p] = Tail(@)]
            /\ inside' = IF p = Main THEN inside ELSE [inside EXCEPT ![p] = @ \cup {s}]
            /\ UNCHANGED ctor
    /\ UNCHANGED <<life, order, io, stopped, phase, bad>>

\* A constructor is through; IOContextPool's has started the threads.
Complete(p) ==
    /\ Constructing(p)
    /\ Top(p).needs = <<>>
    /\ ~Throws(p)
    /\ life' = [life EXCEPT ![Top(p).static] = "alive"]
    /\ order' = Append(order, Top(p).static)
    /\ ctor' = [ctor EXCEPT ![p] = Pop(@)]
    /\ io' = IF Top(p).static = "IOContextPool" THEN [t \in Threads |-> "running"] ELSE io
    /\ UNCHANGED <<todo, inside, stopped, phase, bad>>

\* A constructor throws and the static is as before.  The catch of the read callback ends
\* the request; main's try does not cover the configuration.
Throw(p) ==
    /\ Throws(p)
    /\ life' = [life EXCEPT ![Top(p).static] = "none"]
    /\ ctor' = [ctor EXCEPT ![p] = <<>>]
    /\ todo' = [todo EXCEPT ![p] = <<>>]
    /\ inside' = IF p = Main THEN inside ELSE [inside EXCEPT ![p] = {}]
    /\ phase' = CASE p # Main -> phase
                  [] p = Main /\ Top(p).static = "ConfigManager" -> "aborted"
                  [] OTHER -> "exit"
    /\ UNCHANGED <<order, io, stopped, bad>>

-----------------------------------------------------------------------------
(* The io threads.                                                         *)

Idle(t) == todo[t] = <<>> /\ inside[t] = {} /\ ~Constructing(t)

\* A request has been read; handleReq calls LogicSystem.
Receive(t) ==
    /\ io[t] = "running"
    /\ ~stopped
    /\ Idle(t)
    /\ \E r \in Routes : todo' = [todo EXCEPT ![t] = <<"LogicSystem">> \o r]
    /\ UNCHANGED <<life, order, ctor, inside, io, stopped, phase, bad>>

\* A member function returns to the handler, which goes on or answers early.
Leave(t) ==
    /\ inside[t] \cap (Lazy \ {"LogicSystem"}) # {}
    /\ inside' = [inside EXCEPT ![t] = {"LogicSystem"}]
    /\ \/ UNCHANGED todo
       \/ todo' = [todo EXCEPT ![t] = <<>>]
    /\ UNCHANGED <<life, order, ctor, io, stopped, phase, bad>>

\* LogicSystem returns to handleReq.
Return(t) ==
    /\ inside[t] = {"LogicSystem"}
    /\ todo[t] = <<>>
    /\ inside' = [inside EXCEPT ![t] = {}]
    /\ UNCHANGED <<life, order, ctor, todo, io, stopped, phase, bad>>

\* run() returns once its io_context is stopped.
EndThread(t) ==
    /\ io[t] = "running"
    /\ stopped
    /\ Idle(t)
    /\ io' = [io EXCEPT ![t] = "ended"]
    /\ UNCHANGED <<life, order, ctor, todo, inside, stopped, phase, bad>>

-----------------------------------------------------------------------------
(* main.                                                                   *)

\* The port does not parse, before the try; or the acceptor cannot bind it, inside.
StartFails ==
    /\ phase = "init"
    /\ todo[Main] = <<"IOContextPool">>
    /\ ~Constructing(Main)
    /\ phase' \in {"aborted", "exit"}
    /\ todo' = [todo EXCEPT ![Main] = <<>>]
    /\ UNCHANGED <<life, order, ctor, inside, io, stopped, bad>>

Run == /\ phase = "init"
       /\ todo[Main] = <<>>
       /\ phase' = "run"
       /\ UNCHANGED <<life, order, ctor, todo, inside, io, stopped, bad>>

\* SIGINT or SIGTERM: ioc.run() and main return.
Signal == /\ phase = "run"
          /\ phase' = "exit"
          /\ UNCHANGED <<life, order, ctor, todo, inside, io, stopped, bad>>

Destroying == \E s \in Statics : life[s] = "destroying"

\* Mutant of Destroy: Stop does not stop the io_contexts.
DestroyRunning ==
    /\ phase = "exit"
    /\ ~Destroying
    /\ order # <<>>
    /\ life' = [life EXCEPT ![order[Len(order)]] = "destroying"]
    /\ order' = Pop(order)
    /\ UNCHANGED <<ctor, todo, inside, io, stopped, phase, bad>>

\* exit() calls the destructor of the static completed last; IOContextPool's calls Stop.
Destroy ==
    /\ phase = "exit"
    /\ ~Destroying
    /\ order # <<>>
    /\ life' = [life EXCEPT ![order[Len(order)]] = "destroying"]
    /\ order' = Pop(order)
    /\ stopped' = (stopped \/ order[Len(order)] = "IOContextPool")
    /\ UNCHANGED <<ctor, todo, inside, io, phase, bad>>

\* The destructor returns, IOContextPool's after it has joined the threads.
Destroyed(s) ==
    /\ life[s] = "destroying"
    /\ s = "IOContextPool" => \A t \in Threads : io[t] = "ended"
    /\ life' = [life EXCEPT ![s] = "destroyed"]
    /\ UNCHANGED <<order, ctor, todo, inside, io, stopped, phase, bad>>

Exit == /\ phase = "exit"
        /\ ~Destroying
        /\ order = <<>>
        /\ phase' = "gone"
        /\ UNCHANGED <<life, order, ctor, todo, inside, io, stopped, bad>>

\* The process has ended.
Terminating == phase \in {"gone", "aborted"} /\ UNCHANGED vars

-----------------------------------------------------------------------------
Initialise(p) == \/ \E s \in Statics : Construct(p, s) \/ Obtain(p, s)
                 \/ Complete(p)
                 \/ Throw(p)
Serve(t) == Receive(t) \/ Leave(t) \/ Return(t) \/ EndThread(t)
ExitStep == Destroy \/ Exit \/ \E s \in Statics : Destroyed(s)

Next == \/ \E p \in Procs : Initialise(p)
        \/ \E t \in Threads : Serve(t)
        \/ StartFails \/ Run \/ Signal \/ ExitStep \/ Terminating

Spec == Init /\ [][Next]_vars

\* A constructor that connects to Redis or MySQL.
Connecting(p) == /\ Constructing(p)
                 /\ Top(p).static \in {"RedisMgr", "MysqlMgr"}
                 /\ Top(p).needs = <<>>

\* Threads run, and one that is woken when a constructor has thrown gets its turn before
\* others have thrown for ever (strong fairness).  Requests and signals need not come, and
\* nothing in the code bounds how long a handler stays in a member function or a
\* constructor waits for Redis or MySQL.
Prompt(p) == \/ Code(p) # <<>> /\ (Construct(p, Head(Code(p))) \/ Obtain(p, Head(Code(p))))
             \/ Throw(p)
             \/ ~Connecting(p) /\ Complete(p)
Fairness == /\ \A t \in Threads : SF_vars(Prompt(t) \/ Return(t) \/ EndThread(t))
            /\ WF_vars(Prompt(Main) \/ Run \/ ExitStep)
FairSpec == Spec /\ Fairness

-----------------------------------------------------------------------------
(* Properties.                                                             *)

Frames == [static : Statics, needs : {Needs(s) : s \in Statics} \cup {<<"Logger">>, <<>>}]
TypeOK ==
    /\ life \in [Statics -> {"none", "building", "alive", "destroying", "destroyed"}]
    /\ order \in Seq(Statics)
    /\ ctor \in [Procs -> Seq(Frames)]
    /\ todo \in [Procs -> Seq(Statics)]
    /\ inside \in [Threads -> SUBSET Lazy]
    /\ io \in [Threads -> {"none", "running", "ended"}]
    /\ stopped \in BOOLEAN
    /\ phase \in {"init", "run", "exit", "gone", "aborted"}
    /\ bad \subseteq Throwing

Available(s) == life[s] = "alive"
InUse(s) == life[s] \in {"building", "alive", "destroying"}

\* The comment at singleton.h:5 as far as it holds: whatever an io thread runs may log and
\* read the configuration, to the end of the last destructor but theirs, although no io
\* thread makes sure of it: main's first line does.  (No destructor logs, but io threads do
\* while IOContextPool's joins them.)  And io threads do not outlive the io_contexts they run.
FoundationsOutlive ==
    /\ InUse("ConfigManager") /\ life["ConfigManager"] # "building" => Available("Logger")
    /\ \A s \in Statics \ Foundations : InUse(s) => \A f \in Foundations : Available(f)
    /\ \A t \in Threads : io[t] = "running" =>
          /\ \A f \in Foundations : Available(f)
          /\ life["IOContextPool"] \in {"alive", "destroying"}

\* Waiting in GetInstance (for a static that is being constructed) ends with the constructor
\* waited for: no thread waits for a constructor of its own, which the standard leaves
\* undefined and the build never ends, nor for one that waits in its turn.
Awaits(p, s) == Wants(p, s) /\ life[s] = "building"
Within(p, s) == \E i \in DOMAIN ctor[p] : ctor[p][i].static = s
WaitsAreShort ==
    \A p \in Procs, s \in Statics : Awaits(p, s) =>
        \E q \in Procs \ {p} : Within(q, s) /\ ~\E r \in Statics : Awaits(q, r)

\* What Redis, MySQL and the handlers depend on is not down to this code.
ConnectsEnd == \A t \in Threads : []<>~Connecting(t)
HandlersReturn == \A t \in Threads : []<>(inside[t] \subseteq {"LogicSystem"})

\* No thread stays in GetInstance for ever, waiting for another thread's constructor or,
\* round a cycle of constructors, for its own.
InitsEnd == ConnectsEnd => \A p \in Procs : []<>(Code(p) = <<>> \/ Throws(p))

\* Once main has returned the process ends, with the threads joined and every static that
\* was ever complete destroyed, those too that io threads complete during exit.
CleanEnd == /\ phase = "gone"
            /\ \A s \in Statics : life[s] \in {"none", "destroyed"}
            /\ \A t \in Threads : io[t] # "running"
ExitEnds == ConnectsEnd /\ HandlersReturn => (phase = "exit" ~> CleanEnd)
=============================================================================

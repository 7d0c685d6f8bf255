----------------------------- MODULE HttpServer -----------------------------
(***************************************************************************)
(* From the accepted socket to the response: CServer, which main's thread  *)
(* runs, the IOContextPool, and the callbacks of each HttpConnection, which *)
(* the one thread of its io_context runs one at a time.                    *)
(*                                                                         *)
(* A connection has at most one accept, read or write pending, and beside  *)
(* it the wait of m_deadline.  Their callbacks hold a shared_ptr to the    *)
(* connection, so it lives as long as one of them is still to run.  What   *)
(* the route handlers do is the subject of LogicSystem; here they take     *)
(* their time, and nothing else on their io_context runs meanwhile.        *)
(***************************************************************************)
EXTENDS Naturals

CONSTANTS Conns,    \* the bound on the HttpConnections alive at a time
          PoolSize  \* the number of io_contexts, and of their threads

ASSUME ConstantsAssumption ==
    /\ Conns # {}
    /\ PoolSize \in Nat \ {0}  \* the constructor throws if it is 0

Services == 0..(PoolSize - 1)

VARIABLES m_nextIOService, \* modulo the number of io_contexts
          conn,    \* the HttpConnections
          server,  \* main: "serving", the same but "deaf", when the accept callback has caught
                   \* an exception, "exiting", or in ~IOContextPool "stopping", then "joined"
          work     \* the work guards of the io_contexts are there

vars == <<m_nextIOService, conn, server, work>>

(* phase     the accept, read or write that is pending, or has completed and waits for its *)
(*           callback, or "handling" when the read callback is in a route handler          *)
(* deadline  the wait of m_deadline: pending, or its callback is to run with or without ec *)
(* minute    the 60 seconds since the construction are over                                *)
(* status    the status the handler has given m_response                                   *)
(* answered  the response was written, or could not be because the client went away        *)
Connections ==
    [service  : Services,
     phase    : {"accepting", "reading", "readDone", "readFailed", "handling", "writing",
                 "written", "over"},
     deadline : {"off", "waiting", "expired", "cancelled"},
     minute   : BOOLEAN,
     status   : {"ok", "bad_request"},
     answered : BOOLEAN]

HttpConnection(i) == [service |-> i, phase |-> "accepting", deadline |-> "off",
                      minute |-> FALSE, status |-> "ok", answered |-> FALSE]

\* A connection no callback refers to any more: it has been destroyed.
Gone == [HttpConnection(0) EXCEPT !.phase = "over"]

Unreferenced(r) == r.phase = "over" /\ r.deadline = "off"

Becomes(c, r) == conn' = [conn EXCEPT ![c] = IF Unreferenced(r) THEN Gone ELSE r]

Busy(i) == \E c \in Conns : conn[c].phase = "handling" /\ conn[c].service = i

\* The thread of i is in run() and between two callbacks.
Polls(i) == server \in {"serving", "deaf", "exiting"} /\ ~Busy(i)

-----------------------------------------------------------------------------
\* main constructs the pool and calls CServer::start.
Init == /\ m_nextIOService = 1 % PoolSize
        /\ \E c \in Conns : conn = [d \in Conns |-> IF d = c THEN HttpConnection(0) ELSE Gone]
        /\ server = "serving"
        /\ work = TRUE

\* Mutant of GetIOService: the counter is not reduced to an index.
GetIOServiceUnwrapped == m_nextIOService' = m_nextIOService + 1

GetIOService == m_nextIOService' = (m_nextIOService + 1) % PoolSize

\* What main's thread does once the accept of c is over: c becomes r, and CServer::start
\* accepts another connection, on the next io_context, whose m_deadline starts to run.
Continue(c, r) ==
    /\ server = "serving"
    /\ conn[c].phase = "accepting"
    /\ LET rest == [conn EXCEPT ![c] = r]
       IN  \E d \in Conns : /\ rest[d] = Gone
                            /\ conn' = [rest EXCEPT ![d] = HttpConnection(m_nextIOService)]
    /\ GetIOService
    /\ UNCHANGED <<server, work>>

\* A client connects: conn->start() begins to read.
Accept(c) == Continue(c, [conn[c] EXCEPT !.phase = "reading"])

\* Mutant of AcceptFails: the error ends the accept loop.
AcceptStops(c) == /\ server = "serving"
                  /\ conn[c].phase = "accepting"
                  /\ conn' = [conn EXCEPT ![c] = Gone]
                  /\ UNCHANGED <<m_nextIOService, server, work>>

AcceptFails(c) == Continue(c, Gone)

\* The callback catches an exception, of descriptors or memory that have run out, and only
\* logs it: nothing is accepted any more.  conn->start() throws, and c is destroyed; or the
\* next CServer::start does, which wants a socket (and a place in Conns), whether c was
\* accepted or not.
AcceptThrows(c) ==
    /\ server = "serving"
    /\ conn[c].phase = "accepting"
    /\ \/ conn' = [conn EXCEPT ![c] = Gone] /\ UNCHANGED m_nextIOService
       \/ /\ \E r \in {[conn[c] EXCEPT !.phase = "reading"], Gone} :
                /\ conn' = [conn EXCEPT ![c] = r]
                /\ \E d \in Conns : conn'[d] = Gone
          /\ GetIOService
    /\ server' = "deaf"
    /\ UNCHANGED work

\* The read completes: a request was received, or it ends with an error, because the client
\* went away or because the header or the body is over the limit of the parser.
ReadCompletes(c) == /\ conn[c].phase = "reading"
                    /\ \E p \in {"readDone", "readFailed"} :
                          Becomes(c, [conn[c] EXCEPT !.phase = p])
                    /\ UNCHANGED <<m_nextIOService, server, work>>

\* The write completes, or fails because the client went away.
WriteCompletes(c) ==
    /\ conn[c].phase = "writing"
    /\ Becomes(c, [conn[c] EXCEPT !.phase = "written", !.answered = TRUE])
    /\ UNCHANGED <<m_nextIOService, server, work>>

MinutePasses(c) == /\ conn[c] # Gone
                   /\ ~conn[c].minute
                   /\ Becomes(c, [conn[c] EXCEPT !.minute = TRUE])
                   /\ UNCHANGED <<m_nextIOService, server, work>>

\* The thread looks at its timers between two callbacks.
TimerExpires(c) == /\ Polls(conn[c].service)
                   /\ conn[c].deadline = "waiting"
                   /\ conn[c].minute
                   /\ Becomes(c, [conn[c] EXCEPT !.deadline = "expired"])
                   /\ UNCHANGED <<m_nextIOService, server, work>>

-----------------------------------------------------------------------------
(* The callbacks of HttpConnection.                                        *)

\* Mutant of CheckDeadline: the wait is forgotten.
NoDeadline(r) == r

CheckDeadline(r) == [r EXCEPT !.deadline = "waiting"]

\* The read callback, handleReq in it, up to the call of the handler: a url that no handler
\* has is answered, and for a method other than GET and POST nothing is done.
OnRead(c) == /\ Polls(conn[c].service)
             /\ conn[c].phase = "readDone"
             /\ \E p \in {"handling", "writing", "over"} :
                   Becomes(c, [CheckDeadline(conn[c]) EXCEPT !.phase = p])
             /\ UNCHANGED <<m_nextIOService, server, work>>

OnReadError(c) == /\ Polls(conn[c].service)
                  /\ conn[c].phase = "readFailed"
                  /\ Becomes(c, [conn[c] EXCEPT !.phase = "over"])
                  /\ UNCHANGED <<m_nextIOService, server, work>>

\* A handler that cannot use the request sets the status.
SetStatusCode(c) == /\ conn[c].phase = "handling"
                    /\ conn[c].status = "ok"
                    /\ Becomes(c, [conn[c] EXCEPT !.status = "bad_request"])
                    /\ UNCHANGED <<m_nextIOService, server, work>>

\* The handler returns; handleReq sets the status to ok, whatever it was, and writes.
HandlerReturns(c) == /\ conn[c].phase = "handling"
                     /\ Becomes(c, [conn[c] EXCEPT !.phase = "writing", !.status = "ok"])
                     /\ UNCHANGED <<m_nextIOService, server, work>>

\* The handler throws: the read callback logs it, and nothing is written.
HandlerThrows(c) == /\ conn[c].phase = "handling"
                    /\ Becomes(c, [conn[c] EXCEPT !.phase = "over"])
                    /\ UNCHANGED <<m_nextIOService, server, work>>

\* The callback of WriteResponse cancels the wait, unless it has expired already.
OnWrite(c) ==
    /\ Polls(conn[c].service)
    /\ conn[c].phase = "written"
    /\ Becomes(c, [conn[c] EXCEPT !.phase = "over",
                                  !.deadline = IF @ = "waiting" THEN "cancelled" ELSE @])
    /\ UNCHANGED <<m_nextIOService, server, work>>

\* Mutant of OnDeadline: the socket is left open.
OnDeadlineIgnored(c) == /\ Polls(conn[c].service)
                        /\ conn[c].deadline \in {"expired", "cancelled"}
                        /\ Becomes(c, [conn[c] EXCEPT !.deadline = "off"])
                        /\ UNCHANGED <<m_nextIOService, server, work>>

\* The callback of CheckDeadline closes the socket, which aborts a pending write.  If the
\* wait was cancelled it does nothing.  That close() succeeds is assumed: an error would be
\* thrown out of run() and end the thread of the io_context.
OnDeadline(c) ==
    /\ Polls(conn[c].service)
    /\ \/ /\ conn[c].deadline = "expired"
          /\ Becomes(c, [conn[c] EXCEPT !.deadline = "off",
                                        !.phase = IF @ = "writing" THEN "written" ELSE @])
       \/ /\ conn[c].deadline = "cancelled"
          /\ Becomes(c, [conn[c] EXCEPT !.deadline = "off"])
    /\ UNCHANGED <<m_nextIOService, server, work>>

-----------------------------------------------------------------------------
(* The end.                                                                *)

\* SIGINT or SIGTERM: run() of main's io_context returns, and main destroys it, and with it
\* the pending accept, and then the statics.
Terminate == /\ server \in {"serving", "deaf"}
             /\ server' = "exiting"
             /\ conn' = [c \in Conns |-> IF conn[c].phase = "accepting" THEN Gone ELSE conn[c]]
             /\ UNCHANGED <<m_nextIOService, work>>

\* Mutant of Stop: the io_contexts are not stopped, only deprived of their work guards.
StopWork == /\ server = "exiting"
            /\ work
            /\ work' = FALSE
            /\ UNCHANGED <<m_nextIOService, conn, server>>

\* ~IOContextPool: the io_contexts are stopped, and then the work guards are destroyed.
Stop == /\ server = "exiting"
        /\ server' = "stopping"
        /\ work' = FALSE
        /\ UNCHANGED <<m_nextIOService, conn>>

\* run() of i returns once i is stopped, or has no guard and nothing left to wait for.
Returned(i) ==
    /\ ~Busy(i)
    /\ \/ server = "stopping"
       \/ ~work /\ \A c \in Conns : conn[c].service = i => conn[c] = Gone

\* All threads are joined, and the io_contexts destroyed with the callbacks left in them.
Join == /\ server \in {"exiting", "stopping"}
        /\ \A i \in Services : Returned(i)
        /\ server' = "joined"
        /\ conn' = [c \in Conns |-> Gone]
        /\ UNCHANGED <<m_nextIOService, work>>

-----------------------------------------------------------------------------
Callback(c) == OnRead(c) \/ OnReadError(c) \/ OnWrite(c) \/ OnDeadline(c)

HandlerEnds(c) == HandlerReturns(c) \/ HandlerThrows(c)

Next == \/ \E c \in Conns : \/ Accept(c) \/ AcceptFails(c) \/ AcceptThrows(c) \/ ReadCompletes(c)
                            \/ WriteCompletes(c) \/ MinutePasses(c) \/ TimerExpires(c)
                            \/ Callback(c) \/ SetStatusCode(c) \/ HandlerEnds(c)
        \/ Terminate
        \/ Stop
        \/ Join

Spec == Init /\ [][Next]_vars

\* Time passes, and the io_contexts serve the timers and callbacks of all their connections
\* in turn, whenever no handler is in the way; main goes through the destructor.
Fairness == /\ \A c \in Conns : /\ WF_vars(MinutePasses(c))
                                /\ SF_vars(TimerExpires(c) \/ Callback(c))
            /\ WF_vars(Stop)
            /\ WF_vars(Join)

FairSpec == Spec /\ Fairness

-----------------------------------------------------------------------------
(* Properties.                                                             *)

TypeOK == /\ m_nextIOService \in Services
          /\ conn \in [Conns -> Connections]
          /\ server \in {"serving", "deaf", "exiting", "stopping", "joined"}
          /\ work \in BOOLEAN

\* CServer goes on listening (cserver.cc:27) after every accept and every failed accept:
\* until the server is terminated exactly one accept is pending.  The one exception is an
\* exception: once the callback has caught one (cserver.cc:30) none is, and never again,
\* while the server lives on with the connections it has.
ListeningUntilCaught ==
    /\ server = "serving" =>
          \E c \in Conns : \A d \in Conns : conn[d].phase = "accepting" <=> d = c
    /\ server = "deaf" => \A c \in Conns : conn[c].phase # "accepting"

\* The request of c has been read; one that is over the limits of the parser never is.
Asked(c) == conn[c].phase \notin {"accepting", "reading", "readFailed"}

\* While the server runs, a request that was read is not dropped without an answer before
\* the minute that m_deadline allows is over: not by a handler that throws, not by a method
\* nobody handles, not by the order of the callbacks.
NoSilentDrop ==
    [][\A c \in Conns :
          /\ conn[c] # Gone
          /\ conn'[c] = Gone
          /\ Asked(c)
          /\ server' # "joined"
          => conn[c].answered \/ conn[c].minute]_vars

\* Every connection whose request was read ends if the handlers return, also when its
\* client does not take the response: the deadline sees to it.
RequestsEnd ==
    (\A c \in Conns : WF_vars(HandlerEnds(c)))
    => \A c \in Conns : (conn[c].phase = "readDone") ~> (conn[c] = Gone)

\* ~IOContextPool returns (iocontext_pool.cc:41-60) if the handlers do, though clients that
\* send nothing keep their connections open for ever.
StopEnds ==
    (\A c \in Conns : WF_vars(HandlerEnds(c)))
    => (server = "exiting") ~> (server = "joined")

\* A request that the handler answers with status 400 (docs/logicsystem-interfaces.md:89-90)
\* is answered with that status.
StatusAsSet ==
    [][\A c \in Conns :
          conn[c].phase = "handling" /\ conn[c].status = "bad_request"
             /\ conn'[c].phase = "writing"
          => conn'[c].status = "bad_request"]_vars
=============================================================================

-------------------------- MODULE HttpServer_proof --------------------------
(***************************************************************************)
(* Proofs about HttpServer, for any set of connections and any number of   *)
(* io_contexts.  CallbackInv says, of one connection, which waits and      *)
(* which results can be found together; it is what keeps a request from    *)
(* being dropped, and from resting for ever.                               *)
(***************************************************************************)
EXTENDS HttpServer, TLAPS

\* The wait is armed when the request has been read, and is over only for a reason.
Consistent(r) ==
    /\ r.phase \in {"accepting", "reading", "readDone", "readFailed"} => r.deadline = "off"
    /\ r.phase = "handling" => r.deadline = "waiting"
    /\ r.phase = "writing" => r.deadline \in {"waiting", "expired"}
    /\ r.phase = "written" \/ r.deadline = "cancelled" => r.answered \/ r.minute
    /\ r.deadline = "expired" => r.minute

CallbackInv == \A c \in Conns :
    /\ Consistent(conn[c])
    /\ Unreferenced(conn[c]) => conn[c] = Gone

-----------------------------------------------------------------------------
(* Connections and what becomes of them.                                   *)

LEMMA NewConnection ==
  ASSUME NEW i \in Services
  PROVE  /\ HttpConnection(i) \in Connections
         /\ HttpConnection(i).phase = "accepting"
         /\ Consistent(HttpConnection(i))
BY DEF HttpConnection, Connections, Consistent

LEMMA GoneConnection == /\ Gone \in Connections
                        /\ Gone.phase = "over"
                        /\ Consistent(Gone)
<1>1. 0 \in Services
  BY ConstantsAssumption DEF Services
<1>2. HttpConnection(0) \in Connections
  BY <1>1, NewConnection
<1>3. QED
  BY <1>1, <1>2 DEF Gone, HttpConnection, Connections, Consistent

\* What a completion, a timer or a callback does: the connection c gets the state r.
Local(c) == \E r \in Connections :
    /\ Becomes(c, r)
    /\ Consistent(r)
    /\ r.phase = "accepting" <=> conn[c].phase = "accepting"
    /\ Unreferenced(r) /\ Asked(c) => conn[c].answered \/ conn[c].minute
    /\ UNCHANGED <<m_nextIOService, server, work>>

LEMMA LocalSafe ==
  ASSUME TypeOK, CallbackInv, NEW c \in Conns, Local(c)
  PROVE  TypeOK' /\ CallbackInv'
BY GoneConnection DEF TypeOK, CallbackInv, Local, Becomes

LEMMA LocalListening ==
  ASSUME TypeOK, ListeningUntilCaught, NEW c \in Conns, Local(c)
  PROVE  ListeningUntilCaught'
<1>1. PICK r \in Connections : /\ Becomes(c, r)
                               /\ r.phase = "accepting" <=> conn[c].phase = "accepting"
                               /\ server' = server
  BY DEF Local
<1>2. \A d \in Conns : conn'[d].phase = "accepting" <=> conn[d].phase = "accepting"
  BY <1>1, GoneConnection DEF TypeOK, Becomes, Unreferenced
<1>3. QED
  BY <1>1, <1>2 DEF ListeningUntilCaught

\* What NoSilentDrop says of a step.
NoDrop == \A c \in Conns : /\ conn[c] # Gone
                           /\ conn'[c] = Gone
                           /\ Asked(c)
                           /\ server' # "joined"
                           => conn[c].answered \/ conn[c].minute

LEMMA LocalNoDrop ==
  ASSUME TypeOK, NEW c \in Conns, Local(c)
  PROVE  NoDrop
<1>1. PICK r \in Connections :
         /\ Becomes(c, r)
         /\ Unreferenced(r) /\ Asked(c) => conn[c].answered \/ conn[c].minute
  BY DEF Local
<1> SUFFICES ASSUME NEW d \in Conns, conn[d] # Gone, conn'[d] = Gone, Asked(d)
             PROVE  conn[d].answered \/ conn[d].minute
  BY DEF NoDrop
<1>2. d = c
  BY <1>1 DEF TypeOK, Becomes
<1>3. Unreferenced(r)
  BY <1>1, <1>2 DEF TypeOK, Becomes, Unreferenced, Gone, HttpConnection
<1>4. QED
  BY <1>1, <1>2, <1>3

-----------------------------------------------------------------------------
(* The steps of a connection are local.                                    *)

LocalStep(c) == \/ ReadCompletes(c) \/ WriteCompletes(c) \/ MinutePasses(c) \/ TimerExpires(c)
                \/ Callback(c) \/ SetStatusCode(c) \/ HandlerEnds(c)

\* A thread that polls is not in a handler.
LEMMA PollsNotHandling ==
  ASSUME NEW c \in Conns, Polls(conn[c].service)
  PROVE  conn[c].phase # "handling"
BY DEF Polls, Busy

LEMMA StepsAreLocal ==
  ASSUME TypeOK, CallbackInv, NEW c \in Conns, LocalStep(c)
  PROVE  Local(c)
<1>0. /\ conn[c] \in Connections /\ Consistent(conn[c])
      /\ conn[c] # Gone => ~Unreferenced(conn[c])
  BY DEF TypeOK, CallbackInv
<1> USE <1>0 DEF Local, Connections, Consistent, Unreferenced, Asked
<1>1. CASE ReadCompletes(c)
  <2>1. PICK p \in {"readDone", "readFailed"} : Becomes(c, [conn[c] EXCEPT !.phase = p])
    BY <1>1 DEF ReadCompletes
  <2>2. QED
    BY <1>1, <2>1 DEF ReadCompletes
<1>2. CASE WriteCompletes(c)
  BY <1>2 DEF WriteCompletes
<1>3. CASE MinutePasses(c)
  BY <1>3 DEF MinutePasses
<1>4. CASE TimerExpires(c)
  BY <1>4, PollsNotHandling DEF TimerExpires
<1>5. CASE OnRead(c)
  <2>1. PICK p \in {"handling", "writing", "over"} :
           Becomes(c, [[conn[c] EXCEPT !.deadline = "waiting"] EXCEPT !.phase = p])
    BY <1>5 DEF OnRead, CheckDeadline
  <2>2. QED
    BY <1>5, <2>1 DEF OnRead
<1>6. CASE OnReadError(c)
  BY <1>6 DEF OnReadError
<1>7. CASE OnWrite(c)
  BY <1>7 DEF OnWrite
<1>8. CASE OnDeadline(c)
  BY <1>8, PollsNotHandling DEF OnDeadline
<1>9. CASE SetStatusCode(c)
  BY <1>9 DEF SetStatusCode
<1>10. CASE HandlerReturns(c)
  BY <1>10 DEF HandlerReturns
<1>11. CASE HandlerThrows(c)
  BY <1>11 DEF HandlerThrows
<1>12. QED
  BY <1>1, <1>2, <1>3, <1>4, <1>5, <1>6, <1>7, <1>8, <1>9, <1>10, <1>11
     DEF LocalStep, Callback, HandlerEnds

-----------------------------------------------------------------------------
(* The steps of main.                                                      *)

\* What is assumed of the state given to the connection whose accept is over.
LEMMA ContinueSafe ==
  ASSUME TypeOK, CallbackInv, ListeningUntilCaught, NEW c \in Conns,
         NEW r \in Connections, Consistent(r), r.phase # "accepting", r = Gone \/ r.phase = "reading",
         Continue(c, r)
  PROVE  TypeOK' /\ CallbackInv' /\ ListeningUntilCaught' /\ NoDrop
<1> DEFINE rest == [conn EXCEPT ![c] = r]
<1>1. PICK d \in Conns : /\ rest[d] = Gone
                         /\ conn' = [rest EXCEPT ![d] = HttpConnection(m_nextIOService)]
  BY DEF Continue
<1>2. m_nextIOService \in Services /\ conn \in [Conns -> Connections]
  BY DEF TypeOK
<1>3. rest \in [Conns -> Connections]
  BY <1>2
<1>4. HttpConnection(m_nextIOService) \in Connections
      /\ HttpConnection(m_nextIOService).phase = "accepting"
      /\ Consistent(HttpConnection(m_nextIOService))
  BY <1>2, NewConnection
<1>5. TypeOK'
  <2>1. m_nextIOService' \in Services
    BY ConstantsAssumption DEF TypeOK, Services, Continue, GetIOService
  <2>2. conn' \in [Conns -> Connections]
    BY <1>1, <1>3, <1>4
  <2>3. QED
    BY <2>1, <2>2 DEF TypeOK, Continue
<1>6. CallbackInv'
  BY <1>1, <1>2, <1>3, <1>4 DEF CallbackInv, Unreferenced
<1>7. server = "serving" /\ conn[c].phase = "accepting" /\ server' = server
  BY DEF Continue
<1>8. \A e \in Conns : conn[e].phase = "accepting" <=> e = c
  BY <1>7 DEF ListeningUntilCaught
<1>9. \A e \in Conns : conn'[e].phase = "accepting" <=> e = d
  BY <1>1, <1>2, <1>3, <1>4, <1>8, GoneConnection
<1>10. NoDrop
  <2> SUFFICES ASSUME NEW e \in Conns, conn[e] # Gone, conn'[e] = Gone, Asked(e)
               PROVE  FALSE
    BY DEF NoDrop
  <2>1. e # c
    BY <1>7 DEF Asked
  <2>2. e # d
    BY <1>1, <1>3, <1>4, GoneConnection
  <2>3. QED
    BY <1>1, <1>2, <1>3, <2>1, <2>2
<1>11. QED
  BY <1>5, <1>6, <1>7, <1>9, <1>10 DEF ListeningUntilCaught

\* The accept callback that catches an exception.
LEMMA ThrowSafe ==
  ASSUME TypeOK, CallbackInv, ListeningUntilCaught, NEW c \in Conns, AcceptThrows(c)
  PROVE  TypeOK' /\ CallbackInv' /\ ListeningUntilCaught' /\ NoDrop
<1>1. /\ server = "serving" /\ server' = "deaf" /\ work' = work
      /\ conn[c].phase = "accepting" /\ conn[c] \in Connections /\ Consistent(conn[c])
  BY DEF AcceptThrows, TypeOK, CallbackInv
<1>2. PICK r \in {[conn[c] EXCEPT !.phase = "reading"], Gone} : conn' = [conn EXCEPT ![c] = r]
  BY DEF AcceptThrows
<1>3. /\ r \in Connections /\ Consistent(r) /\ r.phase # "accepting"
      /\ Unreferenced(r) => r = Gone
  BY <1>1, GoneConnection DEF Connections, Consistent, Unreferenced
<1>4. \A d \in Conns : conn[d].phase = "accepting" <=> d = c
  BY <1>1 DEF ListeningUntilCaught
<1>5. TypeOK'
  <2>1. m_nextIOService' \in Services
    BY ConstantsAssumption DEF TypeOK, Services, AcceptThrows, GetIOService
  <2>2. QED
    BY <1>1, <1>2, <1>3, <2>1 DEF TypeOK
<1>6. CallbackInv'
  BY <1>2, <1>3 DEF TypeOK, CallbackInv, Unreferenced
<1>7. ListeningUntilCaught'
  BY <1>1, <1>2, <1>3, <1>4 DEF TypeOK, ListeningUntilCaught
<1>8. NoDrop
  BY <1>1, <1>2 DEF TypeOK, NoDrop, Asked
<1>9. QED
  BY <1>5, <1>6, <1>7, <1>8

\* A step of main keeps the invariants and drops no request.
LEMMA MainSafe ==
  ASSUME TypeOK, CallbackInv, ListeningUntilCaught,
         \/ \E c \in Conns : Accept(c) \/ AcceptFails(c) \/ AcceptThrows(c)
         \/ Terminate \/ Stop \/ Join
  PROVE  TypeOK' /\ CallbackInv' /\ ListeningUntilCaught' /\ NoDrop
<1>1. ASSUME NEW c \in Conns, Accept(c)
      PROVE  TypeOK' /\ CallbackInv' /\ ListeningUntilCaught' /\ NoDrop
  <2> DEFINE r == [conn[c] EXCEPT !.phase = "reading"]
  <2>1. conn[c] \in Connections /\ Consistent(conn[c]) /\ conn[c].phase = "accepting"
    BY <1>1 DEF TypeOK, CallbackInv, Accept, Continue
  <2>2. r \in Connections /\ Consistent(r) /\ r.phase = "reading"
    BY <2>1 DEF Connections, Consistent
  <2>3. Continue(c, r)
    BY <1>1 DEF Accept
  <2> HIDE DEF r
  <2>4. QED
    BY <2>2, <2>3, ContinueSafe
<1>2. ASSUME NEW c \in Conns, AcceptFails(c)
      PROVE  TypeOK' /\ CallbackInv' /\ ListeningUntilCaught' /\ NoDrop
  BY <1>2, GoneConnection, ContinueSafe DEF AcceptFails
<1>3. CASE Terminate
  <2>1. \A c \in Conns : conn'[c] = IF conn[c].phase = "accepting" THEN Gone ELSE conn[c]
    BY <1>3 DEF Terminate
  <2>2. TypeOK' /\ CallbackInv'
    BY <1>3, GoneConnection DEF Terminate, TypeOK, CallbackInv
  <2>3. QED
    BY <1>3, <2>1, <2>2 DEF Terminate, ListeningUntilCaught, NoDrop, Asked
<1>4. CASE Stop
  BY <1>4 DEF Stop, TypeOK, CallbackInv, ListeningUntilCaught, NoDrop
<1>5. CASE Join
  BY <1>5, GoneConnection DEF Join, TypeOK, CallbackInv, ListeningUntilCaught, NoDrop
<1>6. QED
  BY <1>1, <1>2, <1>3, <1>4, <1>5, ThrowSafe

-----------------------------------------------------------------------------
Inv == TypeOK /\ CallbackInv /\ ListeningUntilCaught

LEMMA InitInv == Init => Inv
<1> SUFFICES ASSUME Init PROVE Inv
  OBVIOUS
<1>1. PICK c \in Conns : conn = [d \in Conns |-> IF d = c THEN HttpConnection(0) ELSE Gone]
  BY DEF Init
<1>2. 0 \in Services /\ 1 % PoolSize \in Services
  BY ConstantsAssumption DEF Services
<1>3. TypeOK
  BY <1>1, <1>2, NewConnection, GoneConnection DEF Init, TypeOK
<1>4. CallbackInv
  BY <1>1, <1>2, NewConnection, GoneConnection DEF CallbackInv, Unreferenced
<1>5. ListeningUntilCaught
  BY <1>1, <1>2, NewConnection, GoneConnection DEF Init, ListeningUntilCaught
<1>6. QED
  BY <1>3, <1>4, <1>5 DEF Inv

LEMMA NextInv == Inv /\ [Next]_vars => Inv' /\ NoDrop
<1> SUFFICES ASSUME Inv, [Next]_vars PROVE Inv' /\ NoDrop
  OBVIOUS
<1>1. ASSUME NEW c \in Conns, LocalStep(c) PROVE Inv' /\ NoDrop
  <2>1. Local(c)
    BY <1>1, StepsAreLocal DEF Inv
  <2>2. QED
    BY <2>1, LocalSafe, LocalListening, LocalNoDrop DEF Inv
<1>2. CASE \/ \E c \in Conns : Accept(c) \/ AcceptFails(c) \/ AcceptThrows(c)
           \/ Terminate \/ Stop \/ Join
  BY <1>2, MainSafe DEF Inv
<1>3. CASE UNCHANGED vars
  BY <1>3 DEF vars, Inv, TypeOK, CallbackInv, ListeningUntilCaught, NoDrop
<1>4. QED
  BY <1>1, <1>2, <1>3 DEF Next, LocalStep

LEMMA Invariance == Spec => []Inv
BY InitInv, NextInv, PTL DEF Spec

\* The connections keep their types, and the next io_context is always one of the pool.
THEOREM TypeCorrect == Spec => []TypeOK
<1>1. Inv => TypeOK
  BY DEF Inv
<1>2. QED
  BY <1>1, Invariance, PTL

\* Until the server is terminated exactly one accept is pending, unless the accept callback
\* has caught an exception: then none is, for good.
THEOREM Listening == Spec => []ListeningUntilCaught
<1>1. Inv => ListeningUntilCaught
  BY DEF Inv
<1>2. QED
  BY <1>1, Invariance, PTL

\* No request is dropped without an answer within the minute of its connection.
THEOREM RequestsNotDropped == Spec => NoSilentDrop
<1>1. Inv /\ [Next]_vars => [NoDrop]_vars
  BY NextInv
<1>2. Spec => [][NoDrop]_vars
  BY <1>1, Invariance, PTL DEF Spec
<1>3. QED
  BY <1>2 DEF NoSilentDrop, NoDrop
-----------------------------------------------------------------------------
(* How far a request is from its end.                                      *)

\* What is still to happen to a connection whose request was read.
PhasesLeft(p) == CASE p = "readDone" -> 12
                   [] p = "handling" -> 6
                   [] p = "writing"  -> 3
                   [] p = "written"  -> 1
                   [] OTHER          -> 0

WaitLeft(d) == CASE d = "waiting" -> 2
                 [] d \in {"expired", "cancelled"} -> 1
                 [] OTHER -> 0

MinuteLeft(minute) == IF minute THEN 0 ELSE 1

StatusLeft(status) == IF status = "ok" THEN 1 ELSE 0

Distance(r) == PhasesLeft(r.phase) + WaitLeft(r.deadline)
               + MinuteLeft(r.minute) + StatusLeft(r.status)

\* Something other than the client is going to move the connection: its handler, a callback
\* that is ready, or the deadline.
Moves(r) == r.phase \in {"handling", "readDone", "written"} \/ r.deadline # "off"

\* A request whose connection is still there either rests or comes nearer to its end.
Approaches == \A c \in Conns :
    Asked(c) /\ conn[c] # Gone =>
        \/ conn'[c] \in {conn[c], Gone}
        \/ Distance(conn'[c]) \in 0..(Distance(conn[c]) - 1)

LEMMA PhaseValues == /\ PhasesLeft("readDone") = 12 /\ PhasesLeft("handling") = 6
                     /\ PhasesLeft("writing") = 3 /\ PhasesLeft("written") = 1
                     /\ PhasesLeft("over") = 0
BY DEF PhasesLeft

LEMMA WaitValues == /\ WaitLeft("waiting") = 2 /\ WaitLeft("off") = 0
                    /\ WaitLeft("expired") = 1 /\ WaitLeft("cancelled") = 1
BY DEF WaitLeft

LEMMA Terms == \A r \in Connections : /\ PhasesLeft(r.phase) \in 0..12
                                      /\ WaitLeft(r.deadline) \in 0..2
                                      /\ MinuteLeft(r.minute) \in 0..1
                                      /\ StatusLeft(r.status) \in 0..1
<1> SUFFICES ASSUME NEW r \in Connections
             PROVE  /\ PhasesLeft(r.phase) \in 0..12
                    /\ WaitLeft(r.deadline) \in 0..2
                    /\ MinuteLeft(r.minute) \in 0..1
                    /\ StatusLeft(r.status) \in 0..1
  OBVIOUS
<1>1. PhasesLeft(r.phase) \in 0..12
  BY DEF PhasesLeft
<1>2. WaitLeft(r.deadline) \in 0..2
  BY DEF WaitLeft
<1>3. MinuteLeft(r.minute) \in 0..1 /\ StatusLeft(r.status) \in 0..1
  BY DEF MinuteLeft, StatusLeft
<1>4. QED
  BY <1>1, <1>2, <1>3

LEMMA DistanceBound == \A r \in Connections : Distance(r) \in 0..16
BY Terms DEF Distance

\* The terms of the distance that a step changes.
LEMMA Nearer ==
  ASSUME NEW r \in Connections, NEW s \in Connections,
         \/ /\ PhasesLeft(s.phase) + WaitLeft(s.deadline)
                 < PhasesLeft(r.phase) + WaitLeft(r.deadline)
            /\ s.minute = r.minute /\ s.status = r.status
         \/ /\ PhasesLeft(s.phase) + 1 < PhasesLeft(r.phase)
            /\ s.minute = r.minute /\ s.deadline = r.deadline
         \/ /\ s.phase = r.phase /\ s.deadline = r.deadline
            /\ MinuteLeft(s.minute) + StatusLeft(s.status)
                 < MinuteLeft(r.minute) + StatusLeft(r.status)
  PROVE  Distance(s) \in 0..(Distance(r) - 1)
<1>1. /\ PhasesLeft(r.phase) \in 0..12 /\ WaitLeft(r.deadline) \in 0..2
      /\ MinuteLeft(r.minute) \in 0..1 /\ StatusLeft(r.status) \in 0..1
      /\ PhasesLeft(s.phase) \in 0..12 /\ WaitLeft(s.deadline) \in 0..2
      /\ MinuteLeft(s.minute) \in 0..1 /\ StatusLeft(s.status) \in 0..1
  BY Terms
<1>2. QED
  BY <1>1 DEF Distance

\* A step of a connection after its request was read.
LEMMA LocalApproaches ==
  ASSUME TypeOK, CallbackInv, NEW c \in Conns, LocalStep(c), Asked(c), conn[c] # Gone
  PROVE  conn'[c] = Gone \/ Distance(conn'[c]) \in 0..(Distance(conn[c]) - 1)
<1> DEFINE r == conn[c]
           NearerTo(s) == s \in Connections /\ Distance(s) \in 0..(Distance(r) - 1)
<1>1. /\ r \in Connections /\ Consistent(r)
      /\ r.phase \notin {"accepting", "reading", "readFailed"}
  BY DEF TypeOK, CallbackInv, Asked
<1>2. ASSUME NEW s, Becomes(c, s), NearerTo(s)
      PROVE  conn'[c] = Gone \/ Distance(conn'[c]) \in 0..(Distance(conn[c]) - 1)
  BY <1>2 DEF TypeOK, Becomes
<1> HIDE DEF r, NearerTo
<1>3. CASE ReadCompletes(c) \/ OnReadError(c)
  BY <1>1, <1>3 DEF r, ReadCompletes, OnReadError
<1>4. CASE WriteCompletes(c)
  <2> DEFINE s == [conn[c] EXCEPT !.phase = "written", !.answered = TRUE]
  <2>1. /\ s \in Connections /\ Becomes(c, s) /\ r.phase = "writing" /\ s.phase = "written"
        /\ s.minute = r.minute /\ s.deadline = r.deadline
    BY <1>1, <1>4 DEF r, WriteCompletes, Connections
  <2> HIDE DEF s
  <2>2. NearerTo(s)
    BY <1>1, <2>1, PhaseValues, Nearer DEF NearerTo
  <2>3. QED
    BY <1>2, <2>1, <2>2
<1>5. CASE MinutePasses(c)
  <2> DEFINE s == [conn[c] EXCEPT !.minute = TRUE]
  <2>1. /\ s \in Connections /\ Becomes(c, s) /\ r.minute = FALSE /\ s.minute = TRUE
        /\ s.phase = r.phase /\ s.deadline = r.deadline /\ s.status = r.status
    BY <1>1, <1>5 DEF r, MinutePasses, Connections
  <2>2. StatusLeft(r.status) \in 0..1 /\ MinuteLeft(s.minute) = 0 /\ MinuteLeft(r.minute) = 1
    BY <1>1, <2>1, Terms DEF MinuteLeft
  <2> HIDE DEF s
  <2>3. NearerTo(s)
    BY <1>1, <2>1, <2>2, Nearer DEF NearerTo
  <2>4. QED
    BY <1>2, <2>1, <2>3
<1>6. CASE TimerExpires(c)
  <2> DEFINE s == [conn[c] EXCEPT !.deadline = "expired"]
  <2>1. /\ s \in Connections /\ Becomes(c, s) /\ r.deadline = "waiting" /\ s.deadline = "expired"
        /\ s.phase = r.phase /\ s.minute = r.minute /\ s.status = r.status
    BY <1>1, <1>6 DEF r, TimerExpires, Connections
  <2>2. PhasesLeft(r.phase) \in 0..12
    BY <1>1, Terms
  <2> HIDE DEF s
  <2>3. NearerTo(s)
    BY <1>1, <2>1, <2>2, WaitValues, Nearer DEF NearerTo
  <2>4. QED
    BY <1>2, <2>1, <2>3
<1>7. CASE OnRead(c)
  <2>1. PICK p \in {"handling", "writing", "over"} :
           Becomes(c, [[conn[c] EXCEPT !.deadline = "waiting"] EXCEPT !.phase = p])
    BY <1>7 DEF OnRead, CheckDeadline
  <2> DEFINE s == [[conn[c] EXCEPT !.deadline = "waiting"] EXCEPT !.phase = p]
  <2>2. /\ Becomes(c, s) /\ s \in Connections /\ r.phase = "readDone" /\ r.deadline = "off"
        /\ s.phase = p /\ s.deadline = "waiting" /\ s.minute = r.minute /\ s.status = r.status
    BY <1>1, <1>7, <2>1 DEF r, OnRead, Connections, Consistent
  <2> HIDE DEF s
  <2>3. NearerTo(s)
    BY <1>1, <2>2, PhaseValues, WaitValues, Nearer DEF NearerTo
  <2>4. QED
    BY <1>2, <2>2, <2>3
<1>8. CASE OnWrite(c)
  <2> DEFINE s == [conn[c] EXCEPT !.phase = "over",
                                  !.deadline = IF @ = "waiting" THEN "cancelled" ELSE @]
  <2>1. /\ s \in Connections /\ Becomes(c, s) /\ r.phase = "written" /\ s.phase = "over"
        /\ s.minute = r.minute /\ s.status = r.status
        /\ s.deadline = IF r.deadline = "waiting" THEN "cancelled" ELSE r.deadline
    BY <1>1, <1>8 DEF r, OnWrite, Connections
  <2>2. WaitLeft(s.deadline) <= WaitLeft(r.deadline) /\ WaitLeft(r.deadline) \in 0..2
        /\ WaitLeft(s.deadline) \in 0..2
    BY <1>1, <2>1, WaitValues, Terms
  <2> HIDE DEF s
  <2>3. NearerTo(s)
    BY <1>1, <2>1, <2>2, PhaseValues, Nearer DEF NearerTo
  <2>4. QED
    BY <1>2, <2>1, <2>3
<1>9. CASE OnDeadline(c)
  <2>1. PICK q \in {r.phase, "written"} :
           /\ q = "written" => r.phase \in {"writing", "written"}
           /\ r.deadline \in {"expired", "cancelled"}
           /\ Becomes(c, [conn[c] EXCEPT !.deadline = "off", !.phase = q])
    <3>1. CASE r.deadline = "expired"
      BY <1>1, <1>9, <3>1 DEF r, OnDeadline
    <3>2. CASE r.deadline = "cancelled"
      <4>1. [conn[c] EXCEPT !.deadline = "off"]
              = [conn[c] EXCEPT !.deadline = "off", !.phase = r.phase]
        BY <1>1 DEF r, Connections
      <4>2. QED
        BY <1>1, <1>9, <3>2, <4>1 DEF r, OnDeadline
    <3>3. QED
      BY <1>9, <3>1, <3>2 DEF r, OnDeadline
  <2> DEFINE s == [conn[c] EXCEPT !.deadline = "off", !.phase = q]
  <2>2. /\ Becomes(c, s) /\ s \in Connections /\ s.phase = q /\ s.deadline = "off"
        /\ s.minute = r.minute /\ s.status = r.status
    BY <1>1, <2>1 DEF r, Connections
  <2>3. /\ PhasesLeft(q) <= PhasesLeft(r.phase)
        /\ PhasesLeft(q) \in 0..12 /\ PhasesLeft(r.phase) \in 0..12
    BY <1>1, <2>1, <2>2, PhaseValues, Terms
  <2> HIDE DEF s
  <2>4. NearerTo(s)
    BY <1>1, <2>1, <2>2, <2>3, WaitValues, Nearer DEF NearerTo
  <2>5. QED
    BY <1>2, <2>2, <2>4
<1>10. CASE SetStatusCode(c)
  <2> DEFINE s == [conn[c] EXCEPT !.status = "bad_request"]
  <2>1. /\ s \in Connections /\ Becomes(c, s) /\ r.status = "ok" /\ s.status = "bad_request"
        /\ s.phase = r.phase /\ s.deadline = r.deadline /\ s.minute = r.minute
    BY <1>1, <1>10 DEF r, SetStatusCode, Connections
  <2>2. MinuteLeft(r.minute) \in 0..1 /\ StatusLeft(s.status) = 0 /\ StatusLeft(r.status) = 1
    BY <1>1, <2>1, Terms DEF StatusLeft
  <2> HIDE DEF s
  <2>3. NearerTo(s)
    BY <1>1, <2>1, <2>2, Nearer DEF NearerTo
  <2>4. QED
    BY <1>2, <2>1, <2>3
<1>11. CASE HandlerReturns(c)
  <2> DEFINE s == [conn[c] EXCEPT !.phase = "writing", !.status = "ok"]
  <2>1. /\ s \in Connections /\ Becomes(c, s) /\ r.phase = "handling" /\ s.phase = "writing"
        /\ s.minute = r.minute /\ s.deadline = r.deadline
    BY <1>1, <1>11 DEF r, HandlerReturns, Connections
  <2> HIDE DEF s
  <2>2. NearerTo(s)
    BY <1>1, <2>1, PhaseValues, Nearer DEF NearerTo
  <2>3. QED
    BY <1>2, <2>1, <2>2
<1>12. CASE HandlerThrows(c)
  <2> DEFINE s == [conn[c] EXCEPT !.phase = "over"]
  <2>1. /\ s \in Connections /\ Becomes(c, s) /\ r.phase = "handling" /\ s.phase = "over"
        /\ s.minute = r.minute /\ s.deadline = r.deadline
    BY <1>1, <1>12 DEF r, HandlerThrows, Connections
  <2> HIDE DEF s
  <2>2. NearerTo(s)
    BY <1>1, <2>1, PhaseValues, Nearer DEF NearerTo
  <2>3. QED
    BY <1>2, <2>1, <2>2
<1>13. QED
  BY <1>3, <1>4, <1>5, <1>6, <1>7, <1>8, <1>9, <1>10, <1>11, <1>12
     DEF LocalStep, Callback, HandlerEnds

LEMMA StepApproaches ==
  ASSUME Inv, [Next]_vars
  PROVE  Approaches
<1> SUFFICES ASSUME NEW c \in Conns, Asked(c), conn[c] # Gone
             PROVE  \/ conn'[c] \in {conn[c], Gone}
                    \/ Distance(conn'[c]) \in 0..(Distance(conn[c]) - 1)
  BY DEF Approaches
<1>1. conn \in [Conns -> Connections] /\ conn[c].phase # "accepting"
  BY DEF Inv, TypeOK, Asked
<1>2. ASSUME NEW e \in Conns, LocalStep(e) PROVE conn'[c] = conn[c] \/ e = c
  BY <1>1, <1>2, StepsAreLocal DEF Inv, Local, Becomes
<1>3. ASSUME NEW e \in Conns, Accept(e) \/ AcceptFails(e) PROVE conn'[c] = conn[c]
  <2>1. PICK r : Continue(e, r)
    BY <1>3 DEF Accept, AcceptFails
  <2>2. c # e
    BY <1>1, <2>1 DEF Continue
  <2>3. QED
    BY <1>1, <2>1, <2>2 DEF Continue
<1>4. CASE Terminate \/ Stop \/ Join \/ UNCHANGED vars
  BY <1>1, <1>4 DEF Terminate, Stop, Join, vars
<1>7. ASSUME NEW e \in Conns, AcceptThrows(e) PROVE conn'[c] = conn[c]
  BY <1>1, <1>7 DEF AcceptThrows
<1>5. CASE LocalStep(c)
  BY <1>5, LocalApproaches DEF Inv
<1>6. QED
  BY <1>2, <1>3, <1>4, <1>5, <1>7 DEF Next, LocalStep

\* However many connections and io_contexts there are, a request that has been read never
\* depends on its client alone, which may not take the response: a handler, a callback or the
\* deadline of CheckDeadline is still to come.
THEOREM RequestsDontHang ==
  Spec => [](\A c \in Conns : Asked(c) /\ conn[c] # Gone => Moves(conn[c]))
<1>1. Inv => \A c \in Conns : Asked(c) /\ conn[c] # Gone => Moves(conn[c])
  BY DEF Inv, TypeOK, CallbackInv, Consistent, Unreferenced, Moves, Asked, Connections
<1>2. QED
  BY <1>1, Invariance, PTL

\* And it takes at most sixteen steps of its own: no order of timer, callbacks and handler
\* sends a connection back.
THEOREM RequestsApproachTheirEnd ==
  Spec => [](\A c \in Conns : Distance(conn[c]) \in 0..16) /\ [][Approaches]_vars
<1>1. Inv => \A c \in Conns : Distance(conn[c]) \in 0..16
  BY DistanceBound DEF Inv, TypeOK
<1>2. Inv /\ [Next]_vars => [Approaches]_vars
  BY StepApproaches
<1>3. QED
  BY <1>1, <1>2, Invariance, PTL DEF Spec
=============================================================================

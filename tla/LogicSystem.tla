---------------------------- MODULE LogicSystem ----------------------------
(***************************************************************************)
(* The POST routes of LogicSystem (logicsystem.cc) over what they share:   *)
(* the verification codes that VerifyServer leaves in Redis, the user      *)
(* table of MySQL and the queue of MySqlPool.  Redis, the two RPC servers  *)
(* and reg_user are not part of the repository: they are modelled from how *)
(* the handlers use them.                                                  *)
(*                                                                         *)
(* A step ends at a call to the outside, where handlers of other threads   *)
(* can interfere.  Borrowing and releasing a connection are single steps:  *)
(* both this module and MysqlDao, which has the mutex, the waiting and the *)
(* check thread, implement EntryPool.  An entry of the queue is live or,   *)
(* after a second release, null.                                           *)
(***************************************************************************)
EXTENDS Naturals, Sequences

CONSTANTS Threads,      \* the IOContextPool threads
          Emails, Names, Passwords, Codes,
          Connections,  \* how many connections MySqlPool has
          MaxPooled,    \* bound: no login starts while the queue is longer than this
          None          \* no code, no user, no answer

VARIABLES codes,    \* Redis: the code stored under code_{email}, or None
          users,    \* MySQL: users[name], the row of the user table, or None
          pool,     \* the queue of MySqlPool
          pc,       \* where each thread is
          req,      \* req[t]: the request t handles
          op,       \* op[t]: the DAO function t is in
          ok,       \* ok[t]: what that function will return
          due,      \* due[t]: what t has still to push to release its connection
          answer,   \* answer[t]: "Success" or the error that t answers
          issued,   \* history: the pairs of an address and a code VerifyServer issued
          unknown,  \* history: t's checkEmail found no user of that name
          wrote     \* history: t's request has changed the user table

world    == <<codes, users, pool>>
handling == <<req, op, ok, due>>
history  == <<issued, unknown, wrote>>
vars     == <<world, pc, handling, answer, history>>

Users == [email : Emails, pwd : Passwords]
\* A request that parses; None stands for a field the route ignores, and for an empty code.
Requests ==
    [route : {"get_verify"}, email : Emails, name : {None}, pwd : {None}, code : {None}]
    \cup [route : {"user_register", "reset_pwd"},
          email : Emails, name : Names, pwd : Passwords, code : Codes \cup {None}]
    \cup [route : {"user_login"},
          email : Emails, name : {None}, pwd : Passwords, code : {None}]

Ops == {"registerUser", "checkEmail", "updatePassword", "checkPassword"}
Errors == {"Error_Json", "RPCFailed", "VarifyExpired", "VarifyCodeErr", "UserExist",
           "PasswdErr", "EmailNotMatch", "PasswdUpFailed"}
Answers == Errors \cup {"Success", "nothing"}
PCs == {"idle", "parse", "verify", "redis", "borrow", "run", "release", "status", "answered"}

ASSUME ConstantsAssumption == /\ Connections \in Nat
                              /\ None \notin Users
                              /\ None \notin Requests
                              /\ None \notin Codes
                              /\ None \notin Answers

-----------------------------------------------------------------------------
Init == /\ codes = [e \in Emails |-> None]
        /\ users = [n \in Names |-> None]
        /\ pool = [i \in 1..Connections |-> "live"]
        /\ pc = [t \in Threads |-> "idle"]
        /\ req = [t \in Threads |-> None]
        /\ op = [t \in Threads |-> "registerUser"]
        /\ ok = [t \in Threads |-> FALSE]
        /\ due = [t \in Threads |-> <<>>]
        /\ answer = [t \in Threads |-> None]
        /\ issued = {}
        /\ unknown = [t \in Threads |-> FALSE]
        /\ wrote = [t \in Threads |-> FALSE]

At(t, place) == pc[t] = place
Goto(t, place) == pc' = [pc EXCEPT ![t] = place] /\ UNCHANGED answer
Answer(t, a) == /\ pc' = [pc EXCEPT ![t] = "answered"]
                /\ answer' = [answer EXCEPT ![t] = a]

\* HandlePost has found the handler of the route and calls it.
Receive(t) == /\ At(t, "idle")
              /\ \E r \in Requests :
                    /\ r.route = "user_login" => Len(pool) <= MaxPooled
                    /\ req' = [req EXCEPT ![t] = r]
              /\ Goto(t, "parse")
              /\ UNCHANGED <<world, op, ok, due, history>>

\* The body is not JSON, or for get_verify has no email.  (get_verify then answers with the
\* text of the error; the root that it puts the code into is never written.)
ParseFails(t) == /\ At(t, "parse")
                 /\ Answer(t, "Error_Json")
                 /\ UNCHANGED <<world, handling, history>>

\* JSON that is not an object makes src_root["email"] throw: HttpConnection::start catches
\* it and no response is written.  So does a field that is an array or an object.  (For
\* verifycode that shows only after the GET in Redis, which changes nothing.)
ParseThrows(t) == /\ At(t, "parse")
                  /\ Answer(t, "nothing")
                  /\ UNCHANGED <<world, handling, history>>

\* Mutant of ConfirmDiffers: the code of another password error.
ConfirmInvalid(t) == /\ At(t, "parse")
                     /\ req[t].route = "user_register"
                     /\ Answer(t, "PasswdInvalid")
                     /\ UNCHANGED <<world, handling, history>>

ConfirmDiffers(t) == /\ At(t, "parse")
                     /\ req[t].route = "user_register"
                     /\ Answer(t, "PasswdErr")
                     /\ UNCHANGED <<world, handling, history>>

Parsed(t) ==
    /\ At(t, "parse")
    /\ CASE req[t].route = "get_verify" -> Goto(t, "verify") /\ UNCHANGED op
         [] req[t].route \in {"user_register", "reset_pwd"} -> Goto(t, "redis") /\ UNCHANGED op
         [] req[t].route = "user_login" ->
                Goto(t, "borrow") /\ op' = [op EXCEPT ![t] = "checkPassword"]
    /\ UNCHANGED <<world, req, ok, due, history>>

\* VerifyServer stores a code and mails it.
Store(t, c) == /\ codes' = [codes EXCEPT ![req[t].email] = c]
               /\ issued' = issued \cup {<<req[t].email, c>>}

\* GetVerifyCode returns VerifyServer's reply, or RPCFailed: the call may have failed, or
\* its deadline have passed, before VerifyServer stored a code or after.  RPCFailed also stands
\* for the errors in a reply of VerifyServer, which the route passes on.
GetVerifyCode(t) ==
    /\ At(t, "verify")
    /\ \/ \E c \in Codes : Store(t, c) /\ Answer(t, "Success")
       \/ \E c \in Codes : Store(t, c) /\ Answer(t, "RPCFailed")
       \/ UNCHANGED <<codes, issued>> /\ Answer(t, "RPCFailed")
    /\ UNCHANGED <<users, pool, handling, unknown, wrote>>

\* Redis drops a code whose time is over.
Expire(e) == /\ codes[e] # None
             /\ codes' = [codes EXCEPT ![e] = None]
             /\ UNCHANGED <<users, pool, pc, handling, answer, history>>

\* The DAO function that follows the code of a route.
FirstOp(route) == IF route = "user_register" THEN "registerUser" ELSE "checkEmail"

\* Mutant of CheckCode: any code will do that Redis has an entry for.
CheckCodeExists(t) ==
    /\ At(t, "redis")
    /\ \/ Answer(t, "VarifyExpired") /\ UNCHANGED op
       \/ /\ codes[req[t].email] # None
          /\ Goto(t, "borrow")
          /\ op' = [op EXCEPT ![t] = FirstOp(req[t].route)]
    /\ UNCHANGED <<world, req, ok, due, history>>

\* RedisMgr::Get returns the code, or fails: there is none, or Redis is in trouble.
CheckCode(t) ==
    /\ At(t, "redis")
    /\ \/ Answer(t, "VarifyExpired") /\ UNCHANGED op
       \/ /\ codes[req[t].email] \notin {None, req[t].code}
          /\ Answer(t, "VarifyCodeErr")
          /\ UNCHANGED op
       \/ /\ codes[req[t].email] # None
          /\ codes[req[t].email] = req[t].code
          /\ Goto(t, "borrow")
          /\ op' = [op EXCEPT ![t] = FirstOp(req[t].route)]
    /\ UNCHANGED <<world, req, ok, due, history>>

\* Mutant of Continue: a failed updatePassword is tried again, from the check on.
ContinueRetrying(t, result) ==
    CASE op[t] = "registerUser" ->
            Answer(t, IF result THEN "Success" ELSE "UserExist") /\ UNCHANGED op
      [] op[t] = "checkEmail" ->
            IF result THEN Goto(t, "borrow") /\ op' = [op EXCEPT ![t] = "updatePassword"]
                      ELSE Answer(t, "EmailNotMatch") /\ UNCHANGED op
      [] op[t] = "updatePassword" ->
            IF result THEN Answer(t, "Success") /\ UNCHANGED op
                      ELSE Goto(t, "borrow") /\ op' = [op EXCEPT ![t] = "checkEmail"]
      [] op[t] = "checkPassword" ->
            /\ IF result THEN Goto(t, "status") ELSE Answer(t, "PasswdErr")
            /\ UNCHANGED op

\* What a handler does with the result of a DAO function.
Continue(t, result) ==
    CASE op[t] = "registerUser" ->
            Answer(t, IF result THEN "Success" ELSE "UserExist") /\ UNCHANGED op
      [] op[t] = "checkEmail" ->
            IF result THEN Goto(t, "borrow") /\ op' = [op EXCEPT ![t] = "updatePassword"]
                      ELSE Answer(t, "EmailNotMatch") /\ UNCHANGED op
      [] op[t] = "updatePassword" ->
            Answer(t, IF result THEN "Success" ELSE "PasswdUpFailed") /\ UNCHANGED op
      [] op[t] = "checkPassword" ->
            /\ IF result THEN Goto(t, "status") ELSE Answer(t, "PasswdErr")
            /\ UNCHANGED op

\* getConnection.  With a null entry registerUser returns 1, the others false.
Borrow(t) ==
    /\ At(t, "borrow")
    /\ pool # <<>>
    /\ pool' = Tail(pool)
    /\ IF Head(pool) = "live" THEN Goto(t, "run") /\ UNCHANGED op
                              ELSE Continue(t, op[t] = "registerUser")
    /\ UNCHANGED <<codes, users, req, ok, due, history>>

\* The statement of a DAO function has returned or thrown: the function will return result,
\* after the releases of its connection, if it makes any.
Ran(t, result, releases) ==
    /\ IF releases = <<>> THEN Continue(t, result) ELSE Goto(t, "release") /\ UNCHANGED op
    /\ ok' = [ok EXCEPT ![t] = result]
    /\ due' = [due EXCEPT ![t] = releases]

\* Mutant of twice: the first release leaves the pointer as it was.
LiveTwice == <<"live", "live">>

once  == <<"live">>
twice == <<"live", "null">>   \* the second release finds conn moved from
never == <<>>

Running(t, f) == At(t, "run") /\ op[t] = f

Write(t, row) == /\ users' = [users EXCEPT ![req[t].name] = row]
                 /\ wrote' = [wrote EXCEPT ![t] = TRUE]

\* reg_user refuses a name or an address that is taken.
Taken(t) == \/ users[req[t].name] # None
            \/ \E n \in Names : users[n] # None /\ users[n].email = req[t].email

\* registerUser: CALL reg_user, then SELECT @result.  If either throws, or there is no
\* result, it returns 0; by then the user may have been inserted.
RegisterUser(t) ==
    /\ Running(t, "registerUser")
    /\ \/ Ran(t, FALSE, once) /\ UNCHANGED <<users, wrote>>
       \/ /\ ~Taken(t)
          /\ Write(t, [email |-> req[t].email, pwd |-> req[t].pwd])
          /\ \/ Ran(t, TRUE, once)
             \/ Ran(t, FALSE, once)
    /\ UNCHANGED <<codes, pool, req, issued, unknown>>

\* Mutant of CheckEmail: a user's name is enough.
CheckName(t) ==
    /\ Running(t, "checkEmail")
    /\ \/ Ran(t, users[req[t].name] # None, once)
       \/ Ran(t, FALSE, once)
    /\ UNCHANGED <<codes, users, pool, req, history>>

\* checkEmail: true and no release if no user has the name; false on an exception.
CheckEmail(t) ==
    /\ Running(t, "checkEmail")
    /\ \/ /\ users[req[t].name] = None
          /\ Ran(t, TRUE, never)
          /\ unknown' = [unknown EXCEPT ![t] = TRUE]
       \/ /\ users[req[t].name] # None
          /\ Ran(t, users[req[t].name].email = req[t].email, once)
          /\ UNCHANGED unknown
       \/ Ran(t, FALSE, once) /\ UNCHANGED unknown
    /\ UNCHANGED <<codes, users, pool, req, issued, wrote>>

\* updatePassword: true however many rows the UPDATE changed; false on an exception, before
\* MySQL carried it out or after.
UpdatePassword(t) ==
    /\ Running(t, "updatePassword")
    /\ \/ Ran(t, FALSE, once) /\ UNCHANGED <<users, wrote>>
       \/ /\ users[req[t].name] = None
          /\ Ran(t, TRUE, once)
          /\ UNCHANGED <<users, wrote>>
       \/ /\ users[req[t].name] # None
          /\ Write(t, [users[req[t].name] EXCEPT !.pwd = req[t].pwd])
          /\ \/ Ran(t, TRUE, once)
             \/ Ran(t, FALSE, once)
    /\ UNCHANGED <<codes, pool, req, issued, unknown>>

\* checkPassword: the row of the address, and its password.  A match and an exception
\* release the connection twice.
CheckPassword(t) ==
    LET right == \E n \in Names : users[n] = [email |-> req[t].email, pwd |-> req[t].pwd]
    IN  /\ Running(t, "checkPassword")
        /\ \/ right /\ Ran(t, TRUE, twice)
           \/ ~right /\ Ran(t, FALSE, once)
           \/ Ran(t, FALSE, twice)
        /\ UNCHANGED <<codes, users, pool, req, history>>

\* One releaseConnection; after the last one the function returns.
Release(t) ==
    /\ At(t, "release")
    /\ pool' = Append(pool, Head(due[t]))
    /\ due' = [due EXCEPT ![t] = Tail(@)]
    /\ IF Len(due[t]) = 1 THEN Continue(t, ok[t]) ELSE UNCHANGED <<pc, op, answer>>
    /\ UNCHANGED <<codes, users, req, ok, history>>

\* GetChatServer returns StatusServer's reply or an error; it sets no deadline.
GetChatServer(t) == /\ At(t, "status")
                    /\ \/ Answer(t, "Success")
                       \/ Answer(t, "RPCFailed")
                    /\ UNCHANGED <<world, handling, history>>

\* The handler has returned; the thread is free for the next request.
Done(t) == /\ At(t, "answered")
           /\ pc' = [pc EXCEPT ![t] = "idle"]
           /\ req' = [req EXCEPT ![t] = None]
           /\ op' = [op EXCEPT ![t] = "registerUser"]
           /\ ok' = [ok EXCEPT ![t] = FALSE]
           /\ answer' = [answer EXCEPT ![t] = None]
           /\ unknown' = [unknown EXCEPT ![t] = FALSE]
           /\ wrote' = [wrote EXCEPT ![t] = FALSE]
           /\ UNCHANGED <<world, due, issued>>

-----------------------------------------------------------------------------
Parse(t) == ParseFails(t) \/ ParseThrows(t) \/ ConfirmDiffers(t) \/ Parsed(t)
Statement(t) == RegisterUser(t) \/ CheckEmail(t) \/ UpdatePassword(t) \/ CheckPassword(t)
Handle(t) == \/ Parse(t) \/ GetVerifyCode(t) \/ CheckCode(t) \/ Borrow(t) \/ Release(t)
             \/ Done(t)

Next == \/ \E t \in Threads : Receive(t) \/ Handle(t) \/ Statement(t) \/ GetChatServer(t)
        \/ \E e \in Emails : Expire(e)

Spec == Init /\ [][Next]_vars

-----------------------------------------------------------------------------
\* What t has still to give back: the connection its statement runs on, or what is due.
Owed(t) == IF At(t, "run") \/ due[t] \in {once, twice} THEN "live"
           ELSE IF due[t] = never THEN "nothing" ELSE "null"

Pool == INSTANCE EntryPool WITH
            idle   <- pool,
            held   <- [t \in Threads |-> Owed(t)],
            closed <- FALSE

\* The handlers use the queue as MysqlDao lets its callers use it: each takes an entry only
\* with nothing in hand, and gives back what it was lent, once, twice or not at all.
ImplementsPool == Pool!Spec

-----------------------------------------------------------------------------
(* Properties.                                                             *)

TypeOK == /\ codes \in [Emails -> Codes \cup {None}]
          /\ users \in [Names -> Users \cup {None}]
          /\ pool \in Seq({"live", "null"})
          /\ pc \in [Threads -> PCs]
          /\ req \in [Threads -> Requests \cup {None}]
          /\ op \in [Threads -> Ops]
          /\ ok \in [Threads -> BOOLEAN]
          /\ due \in [Threads -> {once, twice, <<"null">>, never}]
          /\ answer \in [Threads -> Answers \cup {None}]
          /\ issued \subseteq Emails \X Codes
          /\ unknown \in [Threads -> BOOLEAN]
          /\ wrote \in [Threads -> BOOLEAN]

Presented(t) == <<req[t].email, req[t].code>>

\* Nobody is registered under an address who did not present a code that was issued for
\* that address, however codes expire and are replaced while the request is under way.
RegisteredWithIssuedCode ==
    [][\A n \in Names : users[n] = None /\ users'[n] # None =>
          \E t \in Threads : /\ Running(t, "registerUser")
                             /\ users'[n].email = req[t].email
                             /\ Presented(t) \in issued]_vars

\* A user's row is never removed or given another address, and its password changes only
\* to what a reset sent that presented an issued code; the code is for the address of the
\* row unless checkEmail saw no row of that name, which a registration has added since.
ChangesNow(t, n) == /\ Running(t, "updatePassword")
                    /\ req[t].name = n
                    /\ users'[n] = [users[n] EXCEPT !.pwd = req[t].pwd]
                    /\ Presented(t) \in issued
ResetsAreChecked ==
    [][\A n \in Names : users[n] # None /\ users'[n] # users[n] =>
          \E t \in Threads : /\ ChangesNow(t, n)
                             /\ unknown[t] \/ req[t].email = users[n].email]_vars

\* A request that is refused before its last statement has changed no user: of the errors
\* only 1005 and 1008 can hide a change that MySQL carried out.
RefusalsChangeNothing ==
    \A t \in Threads : answer[t] \in Errors \ {"UserExist", "PasswdUpFailed"} => ~wrote[t]

\* reset_pwd changes the password of a user whose name and address match in MySQL
\* (the comment at logicsystem.cc:184), as the user is when it is changed.
ResetsMatchUser ==
    [][\A n \in Names : users[n] # None /\ users'[n] # users[n] =>
          \E t \in Threads : ChangesNow(t, n) /\ req[t].email = users[n].email]_vars

\* user_register answers 1005 when the registration failed in MySQL, because the name or
\* the address is taken for instance (logicsystem-interfaces.md:162), not when it is made.
RefusedNotRegistered ==
    \A t \in Threads : answer[t] = "UserExist" => ~wrote[t]
=============================================================================

-------------------------- MODULE LogicSystem_proof --------------------------
(***************************************************************************)
(* Proofs about LogicSystem, for any sets of threads, addresses, names,    *)
(* passwords and codes, any number of connections and any bound on the     *)
(* queue.  HandlerInv says what a handler has established by the point     *)
(* where it is: that the code it goes on with was issued, that checkEmail  *)
(* has seen the user it will change, and where a change can already have   *)
(* been made.                                                              *)
(***************************************************************************)
EXTENDS LogicSystem, SequenceTheorems, TLAPS

\* The code that Redis has for an address was issued for it.
CodesInv == \A e \in Emails : codes[e] # None => <<e, codes[e]>> \in issued

InDao == {"borrow", "run", "release"}

\* The user that reset_pwd is about to change is there and has the address of the request.
Matches(t) == /\ users[req[t].name] \in Users
              /\ users[req[t].name].email = req[t].email

RequestInv(t) ==
    /\ pc[t] # "idle" => req[t] \in Requests
    /\ pc[t] = "redis" => req[t].route \in {"user_register", "reset_pwd"}
    /\ pc[t] = "release" <=> due[t] # never
    /\ pc[t] # "answered" => answer[t] = None

\* Whoever calls a DAO function that writes, or is to be followed by one, has presented an
\* issued code.
PresentedInv(t) == pc[t] \in InDao /\ op[t] # "checkPassword" =>
    /\ req[t].route \in {"user_register", "reset_pwd"}
    /\ Presented(t) \in issued

MatchInv(t) ==
    \/ op[t] = "updatePassword" /\ pc[t] \in {"borrow", "run"}
    \/ op[t] = "checkEmail" /\ pc[t] = "release" /\ ok[t]
    => unknown[t] \/ Matches(t)

\* A request has changed the table only if its last statement has been made.
WroteInv(t) == wrote[t] =>
    /\ pc[t] \in {"release", "answered"}
    /\ pc[t] = "release" => op[t] \in {"registerUser", "updatePassword"}
    /\ pc[t] = "answered" => answer[t] \in {"Success", "UserExist", "PasswdUpFailed"}

HandlerInv == \A t \in Threads : RequestInv(t) /\ PresentedInv(t) /\ MatchInv(t) /\ WroteInv(t)

IInv == TypeOK /\ CodesInv /\ HandlerInv

-----------------------------------------------------------------------------
\* The constructors' state is typed, and nobody has a request yet.
LEMMA InitIInv == Init => IInv
<1> SUFFICES ASSUME Init PROVE IInv
  OBVIOUS
<1>1. [i \in 1..Connections |-> "live"] \in Seq({"live", "null"})
  <2>1. [i \in 1..Connections |-> "live"] \in [1..Connections -> {"live", "null"}]
    OBVIOUS
  <2>2. QED
    BY <2>1, ConstantsAssumption, SeqDef
<1>2. TypeOK
  BY <1>1 DEF Init, TypeOK, PCs, Ops, never
<1>3. CodesInv /\ HandlerInv
  BY DEF Init, CodesInv, HandlerInv, RequestInv, PresentedInv, MatchInv, WroteInv, InDao,
         never
<1>4. QED
  BY <1>2, <1>3 DEF IInv

-----------------------------------------------------------------------------
\* Where a handler goes on after a DAO function has returned result.
LEMMA ContinueCases ==
  ASSUME TypeOK, NEW t \in Threads, NEW result \in BOOLEAN, Continue(t, result)
  PROVE  \/ /\ op[t] = "checkEmail" /\ result
            /\ pc' = [pc EXCEPT ![t] = "borrow"]
            /\ op' = [op EXCEPT ![t] = "updatePassword"]
            /\ answer' = answer
         \/ /\ op[t] = "checkPassword"
            /\ pc' = [pc EXCEPT ![t] = "status"]
            /\ op' = op
            /\ answer' = answer
         \/ \E a \in Errors \cup {"Success"} :
               /\ pc' = [pc EXCEPT ![t] = "answered"]
               /\ op' = op
               /\ answer' = [answer EXCEPT ![t] = a]
               /\ op[t] \in {"registerUser", "updatePassword"} =>
                     a \in {"Success", "UserExist", "PasswdUpFailed"}
<1>1. op[t] \in Ops
  BY DEF TypeOK
<1>2. CASE op[t] = "registerUser"
  BY <1>2 DEF Continue, Answer, Goto, Errors
<1>3. CASE op[t] = "checkEmail"
  BY <1>3 DEF Continue, Answer, Goto, Errors
<1>4. CASE op[t] = "updatePassword"
  BY <1>4 DEF Continue, Answer, Goto, Errors
<1>5. CASE op[t] = "checkPassword"
  BY <1>5 DEF Continue, Answer, Goto, Errors
<1>6. QED
  BY <1>1, <1>2, <1>3, <1>4, <1>5 DEF Ops

\* Types only.
LEMMA ContinueTyped ==
  ASSUME TypeOK, NEW t \in Threads, NEW result \in BOOLEAN, Continue(t, result)
  PROVE  /\ pc' \in [Threads -> PCs]
         /\ op' \in [Threads -> Ops]
         /\ answer' \in [Threads -> Answers \cup {None}]
<1>1. pc \in [Threads -> PCs] /\ op \in [Threads -> Ops]
      /\ answer \in [Threads -> Answers \cup {None}]
  BY DEF TypeOK
<1>2. QED
  BY <1>1, ContinueCases DEF PCs, Ops, Answers

LEMMA RequestTyped ==
  ASSUME NEW r \in Requests
  PROVE  /\ r.email \in Emails
         /\ r.route \in {"get_verify", "user_register", "reset_pwd", "user_login"}
         /\ r.route \in {"user_register", "reset_pwd"} =>
               r.name \in Names /\ r.pwd \in Passwords
  BY DEF Requests

\* After a statement the function that made it either has returned or has releases to make.
LEMMA RanTyped ==
  ASSUME TypeOK, NEW t \in Threads, NEW result \in BOOLEAN,
         NEW releases \in {once, twice, never}, Ran(t, result, releases)
  PROVE  /\ pc' \in [Threads -> PCs]
         /\ op' \in [Threads -> Ops]
         /\ answer' \in [Threads -> Answers \cup {None}]
         /\ ok' \in [Threads -> BOOLEAN]
         /\ due' \in [Threads -> {once, twice, <<"null">>, never}]
<1>1. /\ ok' \in [Threads -> BOOLEAN]
      /\ due' \in [Threads -> {once, twice, <<"null">>, never}]
  BY DEF Ran, TypeOK
<1>2. CASE Continue(t, result)
  BY <1>1, <1>2, ContinueTyped
<1>3. CASE Goto(t, "release") /\ UNCHANGED op
  BY <1>1, <1>3 DEF Goto, TypeOK, PCs
<1>4. QED
  BY <1>2, <1>3 DEF Ran

LEMMA ReleaseTyped ==
  ASSUME TypeOK, NEW t \in Threads, due[t] # never
  PROVE  /\ Append(pool, Head(due[t])) \in Seq({"live", "null"})
         /\ Tail(due[t]) \in {<<"null">>, never}
         /\ Len(due[t]) = 1 <=> Tail(due[t]) = never
<1>1. /\ Head(once) = "live" /\ Tail(once) = never /\ Len(once) = 1
      /\ Head(twice) = "live" /\ Tail(twice) = <<"null">> /\ Len(twice) = 2
      /\ Head(<<"null">>) = "null" /\ Tail(<<"null">>) = never /\ Len(<<"null">>) = 1
      /\ <<"null">> # never
  BY DEF once, twice, never
<1>2. due[t] \in {once, twice, <<"null">>}
  BY DEF TypeOK
<1>3. pool \in Seq({"live", "null"}) /\ Head(due[t]) \in {"live", "null"}
  BY <1>1, <1>2 DEF TypeOK
<1>4. Append(pool, Head(due[t])) \in Seq({"live", "null"})
  BY <1>3, AppendProperties
<1>5. CASE due[t] = once
  BY <1>1, <1>4, <1>5
<1>6. CASE due[t] = twice
  BY <1>1, <1>4, <1>6
<1>7. CASE due[t] = <<"null">>
  BY <1>1, <1>4, <1>7
<1>8. QED
  BY <1>2, <1>5, <1>6, <1>7

\* Every step keeps the types.
LEMMA NextTypeOK == IInv /\ [Next]_vars => TypeOK'
<1> SUFFICES ASSUME IInv, [Next]_vars PROVE TypeOK'
  OBVIOUS
<1>1. TypeOK
  BY DEF IInv
<1> USE DEF world, handling, history, At
<1>2. CASE UNCHANGED vars
  BY <1>1, <1>2 DEF vars, TypeOK
<1>3. ASSUME NEW t \in Threads, Receive(t) PROVE TypeOK'
  BY <1>1, <1>3 DEF Receive, Goto, TypeOK, PCs
<1>4. ASSUME NEW t \in Threads, Parse(t) PROVE TypeOK'
  <2>1. CASE Parsed(t)
    <3>1. pc' \in [Threads -> PCs] /\ op' \in [Threads -> Ops] /\ answer' = answer
      <4>1. req[t] \in Requests
        BY <1>1, <2>1 DEF Parsed, IInv, HandlerInv, RequestInv
      <4>2. CASE req[t].route = "get_verify"
        BY <1>1, <2>1, <4>2 DEF Parsed, Goto, TypeOK, PCs
      <4>3. CASE req[t].route \in {"user_register", "reset_pwd"}
        BY <1>1, <2>1, <4>3 DEF Parsed, Goto, TypeOK, PCs
      <4>4. CASE req[t].route = "user_login"
        BY <1>1, <2>1, <4>4 DEF Parsed, Goto, TypeOK, PCs, Ops
      <4>5. QED
        BY <4>1, <4>2, <4>3, <4>4, RequestTyped
    <3>2. QED
      BY <1>1, <2>1, <3>1 DEF Parsed, TypeOK
  <2>2. QED
    BY <1>1, <1>4, <2>1
       DEF Parse, ParseFails, ParseThrows, ConfirmDiffers, Answer, TypeOK, PCs, Answers, Errors
<1>5. ASSUME NEW t \in Threads, GetVerifyCode(t) PROVE TypeOK'
  <2>1. req[t].email \in Emails
    BY <1>5, RequestTyped DEF GetVerifyCode, IInv, HandlerInv, RequestInv
  <2>2. pc' \in [Threads -> PCs] /\ answer' \in [Threads -> Answers \cup {None}]
    BY <1>1, <1>5 DEF GetVerifyCode, Answer, TypeOK, PCs, Answers, Errors
  <2>3. codes' \in [Emails -> Codes \cup {None}] /\ issued' \subseteq Emails \X Codes
    BY <1>1, <1>5, <2>1 DEF GetVerifyCode, Store, TypeOK
  <2>4. QED
    BY <1>1, <1>5, <2>2, <2>3 DEF GetVerifyCode, TypeOK
<1>6. ASSUME NEW t \in Threads, CheckCode(t) PROVE TypeOK'
  BY <1>1, <1>6 DEF CheckCode, Answer, Goto, FirstOp, TypeOK, PCs, Answers, Errors, Ops
<1>7. ASSUME NEW t \in Threads, Borrow(t) PROVE TypeOK'
  <2>1. /\ pc' \in [Threads -> PCs]
        /\ op' \in [Threads -> Ops]
        /\ answer' \in [Threads -> Answers \cup {None}]
    <3>1. CASE Head(pool) = "live"
      BY <1>1, <1>7, <3>1 DEF Borrow, Goto, TypeOK, PCs
    <3>2. CASE Head(pool) # "live"
      <4>1. (op[t] = "registerUser") \in BOOLEAN
        OBVIOUS
      <4>2. QED
        BY <1>1, <1>7, <3>2, <4>1, ContinueTyped DEF Borrow
    <3>3. QED
      BY <3>1, <3>2
  <2>2. Tail(pool) \in Seq({"live", "null"})
    BY <1>1, <1>7, HeadTailProperties DEF Borrow, TypeOK
  <2>3. QED
    BY <1>1, <1>7, <2>1, <2>2 DEF Borrow, TypeOK
<1>8. ASSUME NEW t \in Threads, Statement(t) PROVE TypeOK'
  <2>1. /\ pc' \in [Threads -> PCs]
        /\ op' \in [Threads -> Ops]
        /\ answer' \in [Threads -> Answers \cup {None}]
        /\ ok' \in [Threads -> BOOLEAN]
        /\ due' \in [Threads -> {once, twice, <<"null">>, never}]
    <3>1. CASE RegisterUser(t)
      BY <1>1, <3>1, RanTyped DEF RegisterUser
    <3>2. CASE CheckEmail(t)
      <4>1. (users[req[t].name].email = req[t].email) \in BOOLEAN
        OBVIOUS
      <4>2. QED
        BY <1>1, <3>2, <4>1, RanTyped DEF CheckEmail
    <3>3. CASE UpdatePassword(t)
      BY <1>1, <3>3, RanTyped DEF UpdatePassword
    <3>4. CASE CheckPassword(t)
      BY <1>1, <3>4, RanTyped DEF CheckPassword
    <3>5. QED
      BY <1>8, <3>1, <3>2, <3>3, <3>4 DEF Statement
  <2>2. CASE RegisterUser(t) \/ UpdatePassword(t)
    <3>1. req[t] \in Requests /\ req[t].route \in {"user_register", "reset_pwd"}
      BY <2>2 DEF RegisterUser, UpdatePassword, Running, IInv, HandlerInv, RequestInv,
                  PresentedInv, InDao
    <3>2. req[t].name \in Names /\ req[t].email \in Emails /\ req[t].pwd \in Passwords
      BY <3>1, RequestTyped
    <3>3. users' \in [Names -> Users \cup {None}] /\ wrote' \in [Threads -> BOOLEAN]
      <4>1. ASSUME NEW row \in Users, Write(t, row)
            PROVE  users' \in [Names -> Users \cup {None}] /\ wrote' \in [Threads -> BOOLEAN]
        BY <1>1, <3>2, <4>1 DEF Write, TypeOK
      <4>2. [email |-> req[t].email, pwd |-> req[t].pwd] \in Users
        BY <3>2 DEF Users
      <4>3. CASE RegisterUser(t)
        BY <1>1, <4>1, <4>2, <4>3 DEF RegisterUser, TypeOK
      <4>4. CASE UpdatePassword(t)
        <5>1. CASE UNCHANGED <<users, wrote>>
          BY <1>1, <5>1 DEF TypeOK
        <5>2. CASE users[req[t].name] # None
          <6>1. users[req[t].name] \in Users
            BY <1>1, <3>2, <5>2 DEF TypeOK
          <6>2. [users[req[t].name] EXCEPT !.pwd = req[t].pwd] \in Users
            BY <3>2, <6>1 DEF Users
          <6>3. QED
            BY <1>1, <4>1, <4>4, <6>2 DEF UpdatePassword, TypeOK
        <5>3. QED
          BY <4>4, <5>1, <5>2 DEF UpdatePassword
      <4>5. QED
        BY <2>2, <4>3, <4>4
    <3>4. QED
      BY <1>1, <2>1, <2>2, <3>3 DEF RegisterUser, UpdatePassword, TypeOK
  <2>3. QED
    BY <1>1, <1>8, <2>1, <2>2 DEF Statement, CheckEmail, CheckPassword, TypeOK
<1>9. ASSUME NEW t \in Threads, Release(t) PROVE TypeOK'
  <2>1. due[t] # never
    BY <1>9 DEF Release, IInv, HandlerInv, RequestInv
  <2>2. /\ pc' \in [Threads -> PCs]
        /\ op' \in [Threads -> Ops]
        /\ answer' \in [Threads -> Answers \cup {None}]
    <3>1. ok[t] \in BOOLEAN
      BY <1>1 DEF TypeOK
    <3>2. QED
      BY <1>1, <1>9, <3>1, ContinueTyped DEF Release, TypeOK
  <2>3. QED
    BY <1>1, <1>9, <2>1, <2>2, ReleaseTyped DEF Release, TypeOK
<1>10. ASSUME NEW t \in Threads, GetChatServer(t) PROVE TypeOK'
  BY <1>1, <1>10 DEF GetChatServer, Answer, TypeOK, PCs, Answers, Errors
<1>11. ASSUME NEW t \in Threads, Done(t) PROVE TypeOK'
  BY <1>1, <1>11 DEF Done, TypeOK, PCs, Ops
<1>12. ASSUME NEW e \in Emails, Expire(e) PROVE TypeOK'
  BY <1>1, <1>12 DEF Expire, TypeOK
<1>13. QED
  BY <1>2, <1>3, <1>4, <1>5, <1>6, <1>7, <1>8, <1>9, <1>10, <1>11, <1>12 DEF Next, Handle

-----------------------------------------------------------------------------
\* The two ways in which a row of the user table changes.
Registers(t, n) == /\ Running(t, "registerUser")
                   /\ req[t].name = n
                   /\ users[n] = None
                   /\ users'[n] = [email |-> req[t].email, pwd |-> req[t].pwd]
Updates(t, n) == /\ Running(t, "updatePassword")
                 /\ req[t].name = n
                 /\ users[n] # None
                 /\ users'[n] = [users[n] EXCEPT !.pwd = req[t].pwd]

LEMMA RowChanges ==
  ASSUME IInv, [Next]_vars, NEW n \in Names, users'[n] # users[n]
  PROVE  \E t \in Threads : Registers(t, n) \/ Updates(t, n)
<1>1. PICK t \in Threads : RegisterUser(t) \/ UpdatePassword(t)
  <2> USE DEF world, handling, history
  <2>1. ~UNCHANGED users
    OBVIOUS
  <2>2. QED
    BY <2>1 DEF vars, Next, Handle, Parse, Statement, Receive, ParseFails, ParseThrows,
       ConfirmDiffers, Parsed, GetVerifyCode, CheckCode, Borrow, CheckEmail, CheckPassword,
       Release, GetChatServer, Done, Expire
<1>2. req[t].name \in Names
  BY <1>1, RequestTyped DEF RegisterUser, UpdatePassword, Running, At, IInv, HandlerInv,
     RequestInv, PresentedInv, InDao
<1>3. users \in [Names -> Users \cup {None}]
  BY DEF IInv, TypeOK
<1>4. CASE RegisterUser(t)
  <2>1. ~Taken(t) /\ Write(t, [email |-> req[t].email, pwd |-> req[t].pwd])
    BY <1>4 DEF RegisterUser
  <2>2. req[t].name = n /\ users'[n] = [email |-> req[t].email, pwd |-> req[t].pwd]
    BY <1>2, <1>3, <2>1 DEF Write
  <2>3. QED
    BY <1>4, <2>1, <2>2 DEF RegisterUser, Registers, Taken
<1>5. CASE UpdatePassword(t)
  <2>1. /\ users[req[t].name] # None
        /\ Write(t, [users[req[t].name] EXCEPT !.pwd = req[t].pwd])
    BY <1>5 DEF UpdatePassword
  <2>2. req[t].name = n /\ users'[n] = [users[n] EXCEPT !.pwd = req[t].pwd]
    BY <1>2, <1>3, <2>1 DEF Write
  <2>3. QED
    BY <1>5, <2>1, <2>2 DEF UpdatePassword, Updates
<1>6. QED
  BY <1>1, <1>4, <1>5

\* A row stays, with its address, and a code once issued remains issued.
LEMMA NothingRemoved ==
  ASSUME IInv, [Next]_vars
  PROVE  /\ issued \subseteq issued'
         /\ \A n \in Names : users[n] \in Users =>
               users'[n] \in Users /\ users'[n].email = users[n].email
<1>1. issued \subseteq issued'
  BY DEF vars, world, handling, history, Next, Handle, Parse, Statement, Receive, ParseFails,
     ParseThrows, ConfirmDiffers, Parsed, GetVerifyCode, Store, CheckCode, Borrow, RegisterUser,
     CheckEmail, UpdatePassword, CheckPassword, Release, GetChatServer, Done, Expire
<1>2. ASSUME NEW n \in Names, users[n] \in Users
      PROVE  users'[n] \in Users /\ users'[n].email = users[n].email
  <2>1. CASE users'[n] = users[n]
    BY <1>2, <2>1
  <2>2. CASE users'[n] # users[n]
    <3>1. PICK t \in Threads : Registers(t, n) \/ Updates(t, n)
      BY <2>2, RowChanges
    <3>2. Updates(t, n)
      BY <1>2, <3>1, ConstantsAssumption DEF Registers
    <3>3. users'[n] \in Users \cup {None}
      BY NextTypeOK DEF TypeOK
    <3>4. users'[n] = [users[n] EXCEPT !.pwd = req[t].pwd]
      BY <3>2 DEF Updates
    <3>5. req[t].pwd \in Passwords
      BY <3>2, RequestTyped DEF Updates, Running, At, IInv, HandlerInv, RequestInv,
         PresentedInv, InDao
    <3>6. QED
      BY <1>2, <3>4, <3>5 DEF Users
  <2>3. QED
    BY <2>1, <2>2
<1>3. QED
  BY <1>1, <1>2

\* The handlers of the other threads lose nothing by a step of t.
ThreadInv(t) == RequestInv(t) /\ PresentedInv(t) /\ MatchInv(t) /\ WroteInv(t)

Untouched(u) == /\ pc'[u] = pc[u] /\ req'[u] = req[u] /\ op'[u] = op[u] /\ ok'[u] = ok[u]
                /\ due'[u] = due[u] /\ answer'[u] = answer[u]
                /\ unknown'[u] = unknown[u] /\ wrote'[u] = wrote[u]

LEMMA OthersKeep ==
  ASSUME IInv, [Next]_vars, NEW u \in Threads, Untouched(u)
  PROVE  ThreadInv(u)'
<1>1. RequestInv(u) /\ PresentedInv(u) /\ MatchInv(u) /\ WroteInv(u)
  BY DEF IInv, HandlerInv
<1>2. RequestInv(u)' /\ WroteInv(u)'
  BY <1>1 DEF RequestInv, WroteInv, Untouched
<1>3. PresentedInv(u)'
  BY <1>1, NothingRemoved DEF PresentedInv, Presented, Untouched
<1>4. MatchInv(u)'
  <2>1. SUFFICES ASSUME Matches(u), pc[u] \in InDao, op[u] # "checkPassword" PROVE Matches(u)'
    BY <1>1 DEF MatchInv, Untouched, InDao
  <2>2. req[u].name \in Names
    BY <1>1, <2>1, RequestTyped DEF RequestInv, PresentedInv, InDao
  <2>3. QED
    BY <2>1, <2>2, NothingRemoved DEF Matches, Untouched
<1>5. QED
  BY <1>2, <1>3, <1>4 DEF ThreadInv

\* A handler that goes on after a DAO function has what HandlerInv asks of it there.
LEMMA ContinueKeeps ==
  ASSUME IInv, [Next]_vars, NEW t \in Threads, NEW result \in BOOLEAN, Continue(t, result),
         req' = req, due'[t] = never, pc[t] \in InDao,
         op[t] = "checkEmail" /\ result => unknown'[t] \/ Matches(t)',
         wrote'[t] => op[t] \in {"registerUser", "updatePassword"}
  PROVE  /\ ThreadInv(t)'
         /\ \A u \in Threads \ {t} :
               pc'[u] = pc[u] /\ op'[u] = op[u] /\ answer'[u] = answer[u]
<1>1. /\ TypeOK /\ RequestInv(t) /\ PresentedInv(t)
      /\ pc \in [Threads -> PCs] /\ op \in [Threads -> Ops]
      /\ answer \in [Threads -> Answers \cup {None}]
  BY DEF IInv, HandlerInv, TypeOK
<1>2. req'[t] \in Requests /\ answer[t] = None
  BY <1>1 DEF RequestInv, InDao
<1>3. CASE /\ op[t] = "checkEmail" /\ result
           /\ pc' = [pc EXCEPT ![t] = "borrow"]
           /\ op' = [op EXCEPT ![t] = "updatePassword"]
           /\ answer' = answer
  <2>1. pc'[t] = "borrow" /\ op'[t] = "updatePassword"
    BY <1>1, <1>3
  <2>2. PresentedInv(t)'
    BY <1>1, <1>3, NothingRemoved DEF PresentedInv, Presented
  <2>3. QED
    BY <1>1, <1>2, <1>3, <2>1, <2>2 DEF ThreadInv, RequestInv, MatchInv, WroteInv
<1>4. CASE /\ op[t] = "checkPassword"
           /\ pc' = [pc EXCEPT ![t] = "status"]
           /\ op' = op
           /\ answer' = answer
  BY <1>1, <1>2, <1>4 DEF ThreadInv, RequestInv, PresentedInv, MatchInv, WroteInv, InDao
<1>5. ASSUME NEW a \in Errors \cup {"Success"},
             pc' = [pc EXCEPT ![t] = "answered"],
             op' = op,
             answer' = [answer EXCEPT ![t] = a],
             op[t] \in {"registerUser", "updatePassword"} =>
                a \in {"Success", "UserExist", "PasswdUpFailed"}
      PROVE  /\ ThreadInv(t)'
             /\ \A u \in Threads \ {t} :
                   pc'[u] = pc[u] /\ op'[u] = op[u] /\ answer'[u] = answer[u]
  BY <1>1, <1>2, <1>5 DEF ThreadInv, RequestInv, PresentedInv, MatchInv, WroteInv, InDao
<1>6. QED
  BY <1>1, <1>3, <1>4, <1>5, ContinueCases

\* So does one that has made a statement, and has a connection to release or none.
LEMMA RanKeeps ==
  ASSUME IInv, [Next]_vars, NEW t \in Threads, NEW result \in BOOLEAN,
         NEW releases \in {once, twice, never}, Ran(t, result, releases),
         req' = req, pc[t] = "run",
         op[t] = "checkEmail" /\ result => unknown'[t] \/ Matches(t)',
         wrote'[t] => op[t] \in {"registerUser", "updatePassword"},
         \A u \in Threads \ {t} : wrote'[u] = wrote[u] /\ unknown'[u] = unknown[u]
  PROVE  ThreadInv(t)' /\ \A u \in Threads \ {t} : Untouched(u)
<1>1. /\ TypeOK /\ RequestInv(t) /\ PresentedInv(t)
      /\ pc \in [Threads -> PCs] /\ ok \in [Threads -> BOOLEAN]
      /\ due \in [Threads -> {once, twice, <<"null">>, never}]
  BY DEF IInv, HandlerInv, TypeOK
<1>2. /\ ok' = [ok EXCEPT ![t] = result] /\ due' = [due EXCEPT ![t] = releases]
      /\ IF releases = <<>> THEN Continue(t, result) ELSE Goto(t, "release") /\ UNCHANGED op
  BY DEF Ran
<1>3. CASE releases = <<>>
  BY <1>1, <1>2, <1>3, ContinueKeeps DEF Untouched, InDao, never
<1>4. CASE releases # <<>>
  <2>1. /\ pc' = [pc EXCEPT ![t] = "release"] /\ op' = op /\ answer' = answer
    BY <1>2, <1>4 DEF Goto
  <2>2. \A u \in Threads \ {t} : Untouched(u)
    BY <1>1, <1>2, <2>1 DEF Untouched
  <2>3. RequestInv(t)'
    BY <1>1, <1>2, <1>4, <2>1 DEF RequestInv, never
  <2>4. PresentedInv(t)'
    BY <1>1, <2>1, NothingRemoved DEF PresentedInv, Presented, InDao
  <2>5. MatchInv(t)' /\ WroteInv(t)'
    BY <1>1, <1>2, <2>1 DEF MatchInv, WroteInv
  <2>6. QED
    BY <2>2, <2>3, <2>4, <2>5 DEF ThreadInv
<1>5. QED
  BY <1>3, <1>4

-----------------------------------------------------------------------------
\* Every code in Redis was issued for its address.
LEMMA NextCodes == IInv /\ [Next]_vars => CodesInv'
<1> SUFFICES ASSUME IInv, [Next]_vars PROVE CodesInv'
  OBVIOUS
<1>1. CodesInv /\ TypeOK /\ issued \subseteq issued'
  BY NothingRemoved DEF IInv
<1>2. CASE UNCHANGED codes
  BY <1>1, <1>2 DEF CodesInv
<1>3. ASSUME NEW t \in Threads, GetVerifyCode(t) PROVE CodesInv'
  <2>1. ASSUME NEW c \in Codes, Store(t, c) PROVE CodesInv'
    BY <1>1, <2>1 DEF CodesInv, Store, TypeOK
  <2>2. QED
    BY <1>2, <1>3, <2>1 DEF GetVerifyCode
<1>4. ASSUME NEW e \in Emails, Expire(e) PROVE CodesInv'
  BY <1>1, <1>4 DEF CodesInv, Expire, TypeOK
<1>5. QED
  BY <1>2, <1>3, <1>4 DEF vars, world, handling, Next, Handle, Parse, Statement, Receive,
     ParseFails, ParseThrows, ConfirmDiffers, Parsed, CheckCode, Borrow, RegisterUser,
     CheckEmail, UpdatePassword, CheckPassword, Release, GetChatServer, Done

\* A step of t keeps what HandlerInv says of t, and touches no other handler.
LEMMA StepKeeps ==
  ASSUME IInv, [Next]_vars, NEW t \in Threads,
         Receive(t) \/ Handle(t) \/ Statement(t) \/ GetChatServer(t)
  PROVE  ThreadInv(t)' /\ \A u \in Threads \ {t} : Untouched(u)
<1>1. TypeOK /\ CodesInv /\ RequestInv(t) /\ PresentedInv(t) /\ MatchInv(t) /\ WroteInv(t)
  BY DEF IInv, HandlerInv
<1>2. /\ pc \in [Threads -> PCs] /\ op \in [Threads -> Ops]
      /\ req \in [Threads -> Requests \cup {None}]
      /\ ok \in [Threads -> BOOLEAN]
      /\ due \in [Threads -> {once, twice, <<"null">>, never}]
      /\ answer \in [Threads -> Answers \cup {None}]
      /\ unknown \in [Threads -> BOOLEAN] /\ wrote \in [Threads -> BOOLEAN]
  BY <1>1 DEF TypeOK
<1>3. pc[t] \notin {"release", "answered"} => ~wrote[t]
  BY <1>1 DEF WroteInv
<1> USE DEF world, handling, history, At
<1>4. CASE Receive(t)
  <2>1. /\ pc' = [pc EXCEPT ![t] = "parse"] /\ pc[t] = "idle" /\ answer' = answer
        /\ \E r \in Requests : req' = [req EXCEPT ![t] = r]
        /\ UNCHANGED <<op, ok, due, unknown, wrote>>
    BY <1>4 DEF Receive, Goto
  <2>2. ThreadInv(t)'
    BY <1>1, <1>2, <1>3, <2>1
       DEF ThreadInv, RequestInv, PresentedInv, MatchInv, WroteInv, InDao
  <2>3. QED
    BY <1>2, <2>1, <2>2 DEF Untouched
<1>5. CASE ParseFails(t) \/ ParseThrows(t) \/ ConfirmDiffers(t) \/ GetChatServer(t)
  <2>1. /\ pc' = [pc EXCEPT ![t] = "answered"] /\ pc[t] \in {"parse", "status"}
        /\ \E a \in Answers : answer' = [answer EXCEPT ![t] = a]
        /\ UNCHANGED <<req, op, ok, due, unknown, wrote>>
    BY <1>5 DEF ParseFails, ParseThrows, ConfirmDiffers, GetChatServer, Answer, Answers, Errors
  <2>2. ThreadInv(t)'
    BY <1>1, <1>2, <1>3, <2>1
       DEF ThreadInv, RequestInv, PresentedInv, MatchInv, WroteInv, InDao
  <2>3. QED
    BY <1>2, <2>1, <2>2 DEF Untouched
<1>6. CASE Parsed(t)
  <2>1. req[t] \in Requests /\ pc[t] = "parse"
    BY <1>1, <1>6 DEF Parsed, RequestInv
  <2>2. \/ /\ pc' = [pc EXCEPT ![t] = "verify"] /\ op' = op
        \/ /\ pc' = [pc EXCEPT ![t] = "redis"] /\ op' = op
           /\ req[t].route \in {"user_register", "reset_pwd"}
        \/ /\ pc' = [pc EXCEPT ![t] = "borrow"] /\ op' = [op EXCEPT ![t] = "checkPassword"]
    <3>1. CASE req[t].route = "get_verify"
      BY <1>6, <3>1 DEF Parsed, Goto
    <3>2. CASE req[t].route \in {"user_register", "reset_pwd"}
      BY <1>6, <3>2 DEF Parsed, Goto
    <3>3. CASE req[t].route = "user_login"
      BY <1>6, <3>3 DEF Parsed, Goto
    <3>4. QED
      BY <2>1, <3>1, <3>2, <3>3, RequestTyped
  <2>3. answer' = answer /\ UNCHANGED <<req, ok, due, unknown, wrote>>
    <3>1. CASE req[t].route = "get_verify"
      BY <1>6, <3>1 DEF Parsed, Goto
    <3>2. CASE req[t].route \in {"user_register", "reset_pwd"}
      BY <1>6, <3>2 DEF Parsed, Goto
    <3>3. CASE req[t].route = "user_login"
      BY <1>6, <3>3 DEF Parsed, Goto
    <3>4. QED
      BY <2>1, <3>1, <3>2, <3>3, RequestTyped
  <2>4. ThreadInv(t)'
    BY <1>1, <1>2, <1>3, <2>1, <2>2, <2>3
       DEF ThreadInv, RequestInv, PresentedInv, MatchInv, WroteInv, InDao
  <2>5. QED
    BY <1>2, <2>2, <2>3, <2>4 DEF Untouched
<1>7. CASE GetVerifyCode(t)
  <2>1. /\ pc' = [pc EXCEPT ![t] = "answered"] /\ pc[t] = "verify"
        /\ \E a \in Answers : answer' = [answer EXCEPT ![t] = a]
        /\ UNCHANGED <<req, op, ok, due, unknown, wrote>>
    BY <1>7 DEF GetVerifyCode, Answer, Answers, Errors
  <2>2. ThreadInv(t)'
    BY <1>1, <1>2, <1>3, <2>1
       DEF ThreadInv, RequestInv, PresentedInv, MatchInv, WroteInv, InDao
  <2>3. QED
    BY <1>2, <2>1, <2>2 DEF Untouched
<1>8. CASE CheckCode(t)
  <2>1. pc[t] = "redis" /\ req[t] \in Requests /\ req[t].email \in Emails
        /\ req[t].route \in {"user_register", "reset_pwd"}
        /\ UNCHANGED <<req, ok, due, issued, unknown, wrote>>
    BY <1>1, <1>8, RequestTyped DEF CheckCode, RequestInv
  <2>2. CASE /\ pc' = [pc EXCEPT ![t] = "answered"] /\ op' = op
             /\ \E a \in Errors : answer' = [answer EXCEPT ![t] = a]
    <3>1. ThreadInv(t)'
      BY <1>1, <1>2, <1>3, <2>1, <2>2
         DEF ThreadInv, RequestInv, PresentedInv, MatchInv, WroteInv, InDao
    <3>2. QED
      BY <1>2, <2>1, <2>2, <3>1 DEF Untouched
  <2>3. CASE /\ codes[req[t].email] # None /\ codes[req[t].email] = req[t].code
             /\ Goto(t, "borrow") /\ op' = [op EXCEPT ![t] = FirstOp(req[t].route)]
    <3>1. Presented(t) \in issued
      BY <1>1, <2>1, <2>3 DEF CodesInv, Presented
    <3>2. pc'[t] = "borrow" /\ op'[t] \in {"registerUser", "checkEmail"} /\ answer' = answer
      BY <1>2, <2>3 DEF Goto, FirstOp
    <3>3. PresentedInv(t)'
      BY <2>1, <3>1 DEF PresentedInv, Presented
    <3>4. ThreadInv(t)'
      BY <1>1, <1>3, <2>1, <3>2, <3>3 DEF ThreadInv, RequestInv, MatchInv, WroteInv
    <3>5. QED
      BY <1>2, <2>1, <2>3, <3>2, <3>4 DEF Untouched, Goto
  <2>4. QED
    BY <1>8, <2>2, <2>3 DEF CheckCode, Answer, Errors
<1>9. CASE Borrow(t)
  <2>1. pc[t] = "borrow" /\ UNCHANGED <<users, req, ok, due, issued, unknown, wrote>>
    BY <1>9 DEF Borrow
  <2>2. CASE Goto(t, "run") /\ UNCHANGED op
    <3>1. pc' = [pc EXCEPT ![t] = "run"] /\ op' = op /\ answer' = answer
      BY <2>2 DEF Goto
    <3>2. RequestInv(t)' /\ WroteInv(t)'
      BY <1>1, <1>2, <1>3, <2>1, <3>1 DEF RequestInv, WroteInv
    <3>3. PresentedInv(t)' /\ MatchInv(t)'
      BY <1>1, <1>2, <2>1, <3>1 DEF PresentedInv, MatchInv, Presented, Matches, InDao
    <3>4. QED
      BY <1>2, <2>1, <3>1, <3>2, <3>3 DEF ThreadInv, Untouched
  <2>3. CASE Continue(t, op[t] = "registerUser")
    <3>1. (op[t] = "registerUser") \in BOOLEAN
      OBVIOUS
    <3>2. ~wrote'[t] /\ pc[t] \in InDao /\ req' = req /\ due'[t] = never
      BY <1>1, <1>3, <2>1 DEF InDao, RequestInv
    <3>3. ~(op[t] = "checkEmail" /\ op[t] = "registerUser")
      OBVIOUS
    <3>4. /\ ThreadInv(t)'
          /\ \A u \in Threads \ {t} :
                pc'[u] = pc[u] /\ op'[u] = op[u] /\ answer'[u] = answer[u]
      BY <2>3, <3>1, <3>2, <3>3, ContinueKeeps
    <3>5. QED
      BY <2>1, <3>4 DEF Untouched
  <2>4. QED
    BY <1>9, <2>2, <2>3 DEF Borrow
<1>10. CASE Statement(t)
  <2>1. pc[t] = "run" /\ req' = req
    BY <1>10 DEF Statement, RegisterUser, CheckEmail, UpdatePassword, CheckPassword, Running
  <2>2. once \in {once, twice, never} /\ twice \in {once, twice, never}
        /\ never \in {once, twice, never}
    OBVIOUS
  <2>3. CASE RegisterUser(t) \/ UpdatePassword(t)
    <3>1. /\ op[t] \in {"registerUser", "updatePassword"}
          /\ \A u \in Threads \ {t} : wrote'[u] = wrote[u] /\ unknown'[u] = unknown[u]
          /\ \E result \in BOOLEAN : Ran(t, result, once)
      BY <1>2, <2>3 DEF RegisterUser, UpdatePassword, Running, Write
    <3>2. QED
      BY <2>1, <2>2, <3>1, RanKeeps
  <2>4. CASE CheckPassword(t)
    <3>1. /\ op[t] = "checkPassword" /\ UNCHANGED <<unknown, wrote>>
          /\ \E result \in BOOLEAN, releases \in {once, twice} : Ran(t, result, releases)
      BY <2>4 DEF CheckPassword, Running
    <3>2. QED
      BY <1>3, <2>1, <2>2, <3>1, RanKeeps
  <2>5. CASE CheckEmail(t)
    <3>1. op[t] = "checkEmail" /\ UNCHANGED <<users, wrote>>
          /\ \A u \in Threads \ {t} : unknown'[u] = unknown[u]
      BY <1>2, <2>5 DEF CheckEmail, Running
    <3>2. ~wrote'[t]
      BY <1>3, <2>1, <3>1
    <3>3. CASE Ran(t, TRUE, never) /\ unknown' = [unknown EXCEPT ![t] = TRUE]
      BY <1>2, <2>1, <2>2, <3>1, <3>2, <3>3, RanKeeps
    <3>4. CASE /\ users[req[t].name] # None
               /\ Ran(t, users[req[t].name].email = req[t].email, once)
      <4>1. req[t].name \in Names
        BY <1>1, <2>1, <3>1, RequestTyped DEF RequestInv, PresentedInv, InDao
      <4>2. users[req[t].name] \in Users
        BY <1>1, <3>4, <4>1 DEF TypeOK
      <4>3. users[req[t].name].email = req[t].email => Matches(t)'
        BY <2>1, <3>1, <4>2 DEF Matches
      <4>4. (users[req[t].name].email = req[t].email) \in BOOLEAN
        OBVIOUS
      <4>5. QED
        BY <2>1, <2>2, <3>1, <3>2, <3>4, <4>3, <4>4, RanKeeps
    <3>5. CASE Ran(t, FALSE, once)
      BY <2>1, <2>2, <3>1, <3>2, <3>5, RanKeeps
    <3>6. QED
      BY <2>5, <3>3, <3>4, <3>5 DEF CheckEmail
  <2>6. QED
    BY <1>10, <2>3, <2>4, <2>5 DEF Statement
<1>11. CASE Release(t)
  <2>1. /\ pc[t] = "release" /\ due[t] # never
        /\ due' = [due EXCEPT ![t] = Tail(@)]
        /\ UNCHANGED <<users, req, ok, issued, unknown, wrote>>
    BY <1>1, <1>11 DEF Release, RequestInv
  <2>2. CASE Len(due[t]) = 1
    <3>1. ok[t] \in BOOLEAN /\ Continue(t, ok[t])
      BY <1>2, <1>11, <2>2 DEF Release
    <3>2. wrote'[t] => op[t] \in {"registerUser", "updatePassword"}
      BY <1>1, <2>1 DEF WroteInv
    <3>3. op[t] = "checkEmail" /\ ok[t] => unknown'[t] \/ Matches(t)'
      BY <1>1, <2>1 DEF MatchInv, Matches
    <3>4. due'[t] = never
      BY <1>1, <1>2, <2>1, <2>2, ReleaseTyped
    <3>5. /\ ThreadInv(t)'
          /\ \A u \in Threads \ {t} :
                pc'[u] = pc[u] /\ op'[u] = op[u] /\ answer'[u] = answer[u]
      BY <2>1, <3>1, <3>2, <3>3, <3>4, ContinueKeeps DEF InDao
    <3>6. QED
      BY <1>2, <2>1, <3>5 DEF Untouched
  <2>3. CASE Len(due[t]) # 1
    <3>1. UNCHANGED <<pc, op, answer>> /\ due'[t] # never
      <4>1. UNCHANGED <<pc, op, answer>>
        BY <1>11, <2>3 DEF Release
      <4>2. QED
        BY <1>1, <1>2, <2>1, <2>3, <4>1, ReleaseTyped
    <3>2. ThreadInv(t)'
      BY <1>1, <2>1, <3>1
         DEF ThreadInv, RequestInv, PresentedInv, MatchInv, WroteInv, Presented, Matches
    <3>3. QED
      BY <1>2, <2>1, <3>1, <3>2 DEF Untouched
  <2>4. QED
    BY <2>2, <2>3
<1>12. CASE Done(t)
  <2>1. ThreadInv(t)'
    BY <1>1, <1>2, <1>12
       DEF Done, ThreadInv, RequestInv, PresentedInv, MatchInv, WroteInv, InDao
  <2>2. QED
    BY <1>2, <1>12, <2>1 DEF Done, Untouched
<1>13. QED
  BY <1>4, <1>5, <1>6, <1>7, <1>8, <1>9, <1>10, <1>11, <1>12 DEF Handle, Parse

LEMMA NextIInv == IInv /\ [Next]_vars => IInv'
<1> SUFFICES ASSUME IInv, [Next]_vars PROVE IInv'
  OBVIOUS
<1>1. TypeOK' /\ CodesInv'
  BY NextTypeOK, NextCodes
<1>2. ASSUME NEW u \in Threads PROVE ThreadInv(u)'
  <2>1. CASE Untouched(u)
    BY <2>1, OthersKeep
  <2>2. CASE ~Untouched(u)
    <3>1. PICK t \in Threads : Receive(t) \/ Handle(t) \/ Statement(t) \/ GetChatServer(t)
      BY <2>2 DEF Next, Untouched, vars, world, handling, history, Expire
    <3>2. t = u
      BY <2>2, <3>1, StepKeeps
    <3>3. QED
      BY <3>1, <3>2, StepKeeps
  <2>3. QED
    BY <2>1, <2>2
<1>3. QED
  BY <1>1, <1>2 DEF IInv, HandlerInv, ThreadInv

-----------------------------------------------------------------------------
\* The invariant holds always.
THEOREM Inductive == Spec => []IInv
<1>1. QED
  BY InitIInv, NextIInv, PTL DEF Spec

\* Every variable keeps its type.
THEOREM TypeCorrect == Spec => []TypeOK
<1>1. IInv => TypeOK
  BY DEF IInv
<1>2. QED
  BY <1>1, Inductive, PTL

\* Of the errors only 1005 and 1008 can hide a change of the user table.
THEOREM Refusals == Spec => []RefusalsChangeNothing
<1>1. IInv => RefusalsChangeNothing
  BY ConstantsAssumption
     DEF IInv, HandlerInv, RequestInv, WroteInv, RefusalsChangeNothing, Errors, Answers
<1>2. QED
  BY <1>1, Inductive, PTL

\* A user is registered only under an address that a code was issued for, by a request that
\* presented that code.
THEOREM Registrations == Spec => RegisteredWithIssuedCode
<1>1. ASSUME IInv, [Next]_vars
      PROVE  \A n \in Names : users[n] = None /\ users'[n] # None =>
                \E t \in Threads : /\ Running(t, "registerUser")
                                   /\ users'[n].email = req[t].email
                                   /\ Presented(t) \in issued
  <2>1. SUFFICES ASSUME NEW n \in Names, users[n] = None, users'[n] # None
                 PROVE  \E t \in Threads : /\ Running(t, "registerUser")
                                           /\ users'[n].email = req[t].email
                                           /\ Presented(t) \in issued
    OBVIOUS
  <2>2. PICK t \in Threads : Registers(t, n)
    BY <1>1, <2>1, RowChanges DEF Updates
  <2>3. Presented(t) \in issued
    BY <1>1, <2>2 DEF Registers, Running, At, IInv, HandlerInv, PresentedInv, InDao
  <2>4. QED
    BY <2>2, <2>3 DEF Registers
<1>2. IInv /\ [Next]_vars =>
        [\A n \in Names : users[n] = None /\ users'[n] # None =>
            \E t \in Threads : /\ Running(t, "registerUser")
                               /\ users'[n].email = req[t].email
                               /\ Presented(t) \in issued]_vars
  BY <1>1
<1>3. QED
  BY <1>2, Inductive, PTL DEF Spec, RegisteredWithIssuedCode

\* A row of the user table changes only by a reset with an issued code, for the address of
\* the row unless the reset saw no such row.
THEOREM Resets == Spec => ResetsAreChecked
<1>1. ASSUME IInv, [Next]_vars
      PROVE  \A n \in Names : users[n] # None /\ users'[n] # users[n] =>
                \E t \in Threads : /\ ChangesNow(t, n)
                                   /\ unknown[t] \/ req[t].email = users[n].email
  <2>1. SUFFICES ASSUME NEW n \in Names, users[n] # None, users'[n] # users[n]
                 PROVE  \E t \in Threads : /\ ChangesNow(t, n)
                                           /\ unknown[t] \/ req[t].email = users[n].email
    OBVIOUS
  <2>2. PICK t \in Threads : Updates(t, n)
    BY <1>1, <2>1, RowChanges DEF Registers
  <2>3. Presented(t) \in issued
    BY <1>1, <2>2 DEF Updates, Running, At, IInv, HandlerInv, PresentedInv, InDao
  <2>4. unknown[t] \/ req[t].email = users[n].email
    BY <1>1, <2>2 DEF Updates, Running, At, IInv, HandlerInv, MatchInv, Matches
  <2>5. QED
    BY <2>2, <2>3, <2>4 DEF Updates, ChangesNow
<1>2. IInv /\ [Next]_vars =>
        [\A n \in Names : users[n] # None /\ users'[n] # users[n] =>
            \E t \in Threads : /\ ChangesNow(t, n)
                               /\ unknown[t] \/ req[t].email = users[n].email]_vars
  BY <1>1
<1>3. QED
  BY <1>2, Inductive, PTL DEF Spec, ResetsAreChecked

-----------------------------------------------------------------------------
(* The handlers use the queue as an EntryPool.                             *)

\* A step of t leaves what the other handlers have still to give back.
LEMMA OwedChanges ==
  ASSUME NEW t \in Threads, NEW kind, Owed(t)' = kind,
         \A u \in Threads \ {t} : pc'[u] = pc[u] /\ due'[u] = due[u]
  PROVE  [u \in Threads |-> Owed(u)]' = [[u \in Threads |-> Owed(u)] EXCEPT ![t] = kind]
<1>1. \A u \in Threads : u # t => Owed(u)' = Owed(u)
  BY DEF Owed, At
<1>2. QED
  BY <1>1

\* What is due is told by the sequence of releases.
LEMMA DueCases ==
  ASSUME TypeOK, NEW t \in Threads
  PROVE  \/ due[t] = never
         \/ due[t] = once /\ Head(due[t]) = "live" /\ Tail(due[t]) = never
         \/ due[t] = twice /\ Head(due[t]) = "live" /\ Tail(due[t]) = <<"null">>
         \/ due[t] = <<"null">> /\ Head(due[t]) = "null" /\ Tail(due[t]) = never
<1>1. /\ Head(once) = "live" /\ Tail(once) = never
      /\ Head(twice) = "live" /\ Tail(twice) = <<"null">>
      /\ Head(<<"null">>) = "null" /\ Tail(<<"null">>) = never
  BY DEF once, twice, never
<1>2. QED
  BY <1>1 DEF TypeOK

LEMMA DueDiffer == /\ never \notin {once, twice, <<"null">>}
                   /\ <<"null">> \notin {once, twice, never}
<1>1. /\ Len(never) = 0 /\ Len(once) = 1 /\ Len(twice) = 2 /\ Len(<<"null">>) = 1
      /\ Head(once) = "live" /\ Head(<<"null">>) = "null"
  BY DEF once, twice, never
<1>2. QED
  BY <1>1

\* After a DAO function has returned no statement runs.
LEMMA ContinueLeaves ==
  ASSUME TypeOK, NEW t \in Threads, NEW result \in BOOLEAN, Continue(t, result)
  PROVE  pc'[t] # "run" /\ \A u \in Threads \ {t} : pc'[u] = pc[u]
<1>1. pc \in [Threads -> PCs]
  BY DEF TypeOK
<1>2. QED
  BY <1>1, ContinueCases

\* The queue of the connected pool is an initial state of EntryPool.
LEMMA InitImplements == Init => Pool!Init
<1> SUFFICES ASSUME Init PROVE Pool!Init
  OBVIOUS
<1>1. pool \in [1..Connections -> {"live"}]
  BY DEF Init
<1>2. pool \in Seq({"live"})
  BY <1>1, ConstantsAssumption, SeqDef
<1>3. \A t \in Threads : Owed(t) = "nothing"
  <2>1. \A t \in Threads : pc[t] = "idle" /\ due[t] = never
    BY DEF Init, never
  <2>2. QED
    BY <2>1, DueDiffer DEF Owed, At
<1>4. QED
  BY <1>2, <1>3 DEF Pool!Init

\* Each step is a step of EntryPool or changes nothing in it.
LEMMA NextImplements == IInv /\ [Next]_vars => [Pool!Next]_(Pool!poolVars)
<1> SUFFICES ASSUME IInv, [Next]_vars PROVE [Pool!Next]_(Pool!poolVars)
  OBVIOUS
<1>0. /\ TypeOK /\ pc \in [Threads -> PCs]
      /\ due \in [Threads -> {once, twice, <<"null">>, never}]
      /\ \A t \in Threads : pc[t] = "release" <=> due[t] # never
  BY DEF IInv, TypeOK, HandlerInv, RequestInv
<1> USE DEF world, handling, history, At
<1>1. ASSUME NEW t \in Threads, Borrow(t) PROVE [Pool!Next]_(Pool!poolVars)
  <2>1. due[t] = never /\ due' = due /\ pool # <<>> /\ pool' = Tail(pool)
    BY <1>0, <1>1 DEF Borrow
  <2>2. Owed(t) = "nothing"
    BY <1>1, <2>1, DueDiffer DEF Owed, Borrow
  <2>3. /\ Owed(t)' = (IF Head(pool) = "live" THEN "live" ELSE "nothing")
        /\ \A u \in Threads \ {t} : pc'[u] = pc[u] /\ due'[u] = due[u]
    <3>1. CASE Head(pool) = "live"
      BY <1>0, <1>1, <2>1, <3>1 DEF Borrow, Goto, Owed
    <3>2. CASE Head(pool) # "live"
      <4>1. (op[t] = "registerUser") \in BOOLEAN
        OBVIOUS
      <4>2. pc'[t] # "run" /\ \A u \in Threads \ {t} : pc'[u] = pc[u]
        BY <1>0, <1>1, <3>2, <4>1, ContinueLeaves DEF Borrow
      <4>3. QED
        BY <2>1, <3>2, <4>2, DueDiffer DEF Owed
    <3>3. QED
      BY <3>1, <3>2
  <2>4. Pool!Borrow(t)
    BY <2>1, <2>2, <2>3, OwedChanges DEF Pool!Borrow
  <2>5. QED
    BY <2>4 DEF Pool!Next
<1>2. ASSUME NEW t \in Threads, Statement(t) PROVE [Pool!Next]_(Pool!poolVars)
  <2>1. Owed(t) = "live" /\ pool' = pool
    BY <1>2 DEF Owed, Statement, RegisterUser, CheckEmail, UpdatePassword, CheckPassword, Running
  <2>2. PICK result \in BOOLEAN, releases \in {once, twice, never} : Ran(t, result, releases)
    <3>1. once \in {once, twice, never} /\ twice \in {once, twice, never}
          /\ never \in {once, twice, never}
      OBVIOUS
    <3>2. CASE CheckEmail(t)
      <4>1. (users[req[t].name].email = req[t].email) \in BOOLEAN
        OBVIOUS
      <4>2. QED
        BY <3>1, <3>2, <4>1 DEF CheckEmail
    <3>3. CASE RegisterUser(t) \/ UpdatePassword(t) \/ CheckPassword(t)
      BY <3>1, <3>3 DEF RegisterUser, UpdatePassword, CheckPassword
    <3>4. QED
      BY <1>2, <3>2, <3>3 DEF Statement
  <2>3. CASE releases = never
    <3>1. Continue(t, result) /\ due' = [due EXCEPT ![t] = never]
      BY <2>2, <2>3 DEF Ran, never
    <3>2. pc'[t] # "run" /\ \A u \in Threads \ {t} : pc'[u] = pc[u]
      BY <1>0, <3>1, ContinueLeaves
    <3>3. /\ Owed(t)' = "nothing"
          /\ \A u \in Threads \ {t} : pc'[u] = pc[u] /\ due'[u] = due[u]
      BY <1>0, <3>1, <3>2, DueDiffer DEF Owed
    <3>4. Pool!Lose(t)
      BY <2>1, <3>3, OwedChanges DEF Pool!Lose
    <3>5. QED
      BY <3>4 DEF Pool!Next
  <2>4. CASE releases # never
    <3>1. releases \in {once, twice}
      BY <2>4
    <3>2. pc' = [pc EXCEPT ![t] = "release"] /\ due' = [due EXCEPT ![t] = releases]
      BY <2>2, <2>4 DEF Ran, Goto, never
    <3>3. /\ Owed(t)' = Owed(t)
          /\ \A u \in Threads \ {t} : Owed(u)' = Owed(u)
      BY <1>0, <2>1, <3>1, <3>2 DEF Owed
    <3>4. QED
      BY <2>1, <3>3 DEF Pool!poolVars
  <2>5. QED
    BY <2>3, <2>4
<1>3. ASSUME NEW t \in Threads, Release(t) PROVE [Pool!Next]_(Pool!poolVars)
  <2>1. /\ pc[t] = "release" /\ due[t] # never
        /\ pool' = Append(pool, Head(due[t]))
        /\ due' = [due EXCEPT ![t] = Tail(due[t])]
    BY <1>0, <1>3 DEF Release
  <2>2. pc'[t] # "run" /\ \A u \in Threads \ {t} : pc'[u] = pc[u]
    <3>1. CASE Len(due[t]) = 1
      <4>1. ok[t] \in BOOLEAN /\ Continue(t, ok[t])
        BY <1>0, <1>3, <3>1 DEF Release, TypeOK
      <4>2. QED
        BY <1>0, <4>1, ContinueLeaves
    <3>2. CASE Len(due[t]) # 1
      BY <1>3, <2>1, <3>2 DEF Release
    <3>3. QED
      BY <3>1, <3>2
  <2>3. Owed(t) = Head(due[t]) /\ Owed(t) # "nothing"
    BY <1>0, <2>1, DueCases, DueDiffer DEF Owed
  <2>4. \/ Owed(t)' = "nothing"
        \/ Owed(t)' = "null" /\ Owed(t) = "live"
    <3>1. due'[t] = Tail(due[t])
      BY <1>0, <2>1
    <3>2. QED
      BY <1>0, <2>1, <2>2, <2>3, <3>1, DueCases, DueDiffer DEF Owed
  <2>5. \A u \in Threads \ {t} : pc'[u] = pc[u] /\ due'[u] = due[u]
    BY <1>0, <2>1, <2>2
  <2>6. Pool!GiveBack(t)
    BY <2>1, <2>3, <2>4, <2>5, OwedChanges DEF Pool!GiveBack
  <2>7. QED
    BY <2>6 DEF Pool!Next
<1>4. ASSUME NEW t \in Threads,
             Receive(t) \/ Parse(t) \/ GetVerifyCode(t) \/ CheckCode(t) \/ GetChatServer(t) \/ Done(t)
      PROVE  [Pool!Next]_(Pool!poolVars)
  <2>1. due' = due /\ pool' = pool
    <3>1. ASSUME Parsed(t) PROVE due' = due /\ pool' = pool
      BY <3>1 DEF Parsed
    <3>2. QED
      BY <1>4, <3>1 DEF Receive, Parse, ParseFails, ParseThrows, ConfirmDiffers,
         GetVerifyCode, CheckCode, GetChatServer, Done
  <2>2. /\ pc[t] # "run" /\ pc'[t] # "run"
        /\ \A u \in Threads \ {t} : pc'[u] = pc[u]
    <3>1. CASE Parsed(t)
      <4>1. req[t] \in Requests
        BY <3>1 DEF Parsed, IInv, HandlerInv, RequestInv
      <4>2. req[t].route \in {"get_verify", "user_register", "reset_pwd", "user_login"}
        BY <4>1, RequestTyped
      <4>3. \E place \in {"verify", "redis", "borrow"} : pc' = [pc EXCEPT ![t] = place]
        BY <3>1, <4>2 DEF Parsed, Goto
      <4>4. QED
        BY <1>0, <3>1, <4>3 DEF Parsed
    <3>2. CASE ~Parsed(t)
      BY <1>0, <1>4, <3>2 DEF Receive, Parse, ParseFails, ParseThrows, ConfirmDiffers,
         GetVerifyCode, CheckCode, GetChatServer, Done, Answer, Goto
    <3>3. QED
      BY <3>1, <3>2
  <2>3. QED
    BY <2>1, <2>2 DEF Owed, Pool!poolVars
<1>5. CASE UNCHANGED vars \/ \E e \in Emails : Expire(e)
  BY <1>5 DEF vars, Expire, Owed, Pool!poolVars
<1>6. QED
  BY <1>1, <1>2, <1>3, <1>4, <1>5 DEF Next, Handle

\* Whatever requests come, the handlers take entries and give them back as EntryPool has it,
\* which is what MysqlDao provides.
THEOREM PoolImplemented == Spec => ImplementsPool
  BY InitImplements, Inductive, NextImplements, PTL DEF Spec, ImplementsPool, Pool!Spec
=============================================================================

------------------------------ MODULE RedisMgr ------------------------------
(***************************************************************************)
(* The commands of RedisMgr (redismgr.cc) over one key of a Redis that     *)
(* several threads use through the contexts of a pool.  A function of      *)
(* RedisMgr puts its arguments into a line of text unquoted, and           *)
(* redisCommand cuts that line into words at blanks.  So a command here is *)
(* the words that follow the key.  An argument of one word is the ordinary *)
(* case (Plain); an empty one leaves a word out, one with blanks adds      *)
(* words, which Redis takes for options, further fields or further keys.   *)
(*                                                                         *)
(* Redis is not part of the repository.  It carries out one command after  *)
(* the other; a connection can break before the command gets there, while  *)
(* BRPOP waits, or before the reply is back.  The pool is as RenewingPool   *)
(* promises; RedisConPool shows how it is built.                           *)
(***************************************************************************)
EXTENDS Naturals, Sequences, SequencesExt

CONSTANTS Threads,
          Words,       \* words that are neither numbers nor options
          Contexts,    \* how many contexts RedisConPool starts with
          MaxLen,      \* bound: no LPush starts on a list this long
          Blanks,      \* bound: which of BlankCommands are called
          None         \* no command, no reply

ASSUME ConstantsAssumption == /\ IsFiniteSet(Threads)
                              /\ Contexts \in Nat \ {0}
                              /\ MaxLen \in Nat \ {0}

VARIABLES entry,    \* Redis: what the key holds
          waiting,  \* Redis: the threads whose BRPOP waits for an element, first come first
          free,     \* the number of contexts in the pool
          closed,   \* RedisConPool::close has been called
          pc,       \* where each thread is
          cmd,      \* cmd[t]: the command t was called with
          reply,    \* reply[t]: what Redis answered, or None for a null reply
          runs,     \* history: how often Redis has carried out t's command
          effect    \* history: what it did when it answered

vars == <<entry, waiting, free, closed, pc, cmd, reply, runs, effect>>

-----------------------------------------------------------------------------
(* The lines that RedisMgr writes.                                         *)

\* A command: the function, the words after the key, and the ttl or the timeout that the
\* function puts at the end of the line (0 for none).
Command(ops, lines, ns) == [op : ops, line : lines, n : ns]
One == {<<w>> : w \in Words}
Two == {<<f, w>> : f, w \in Words}
Followed(lines, more) == {l \o m : l \in lines, m \in more}

\* Each argument is one word.
PlainCommands ==
    Command({"Get", "ExistsKey", "Del", "LPop", "LLen"}, {<<>>}, {0})
    \cup Command({"Expire", "BRPop"}, {<<>>}, {0, 1})
    \cup Command({"Set", "LPush", "HGet", "HExists", "HDel"}, One, {0})
    \cup Command({"SetWithExpire"}, One, {0, 1})
    \cup Command({"HSet"}, Two, {0})

\* A key of two words, or another argument that is empty or has blanks.  (Two such arguments
\* that make up for each other give a plain line: what holds for it holds for them.)
BlankCommands ==
    Command({"Get", "ExistsKey", "Del", "LPop", "LLen"}, {<<"1">>}, {0})
    \cup Command({"Expire", "BRPop"}, {<<"1">>}, {1})
    \cup Command({"Set"}, {<<>>} \cup Followed(One, {<<"NX">>, <<"GET">>, <<"EX", "1">>}), {0})
    \cup Command({"SetWithExpire"}, {<<>>} \cup Followed(One, {<<"NX">>, <<"GET">>}), {1})
    \cup Command({"LPush", "HGet", "HExists", "HDel"}, {<<>>} \cup Followed(One, {<<"1">>}), {0})
    \cup Command({"HSet"}, One \cup Followed(Two, {<<"1">>, <<"1", "1">>}), {0})

ASSUME BlanksAssumption == Blanks \subseteq BlankCommands

Commands == PlainCommands \cup Blanks

\* How many arguments follow the key.
Arguments(op) == CASE op \in {"Get", "ExistsKey", "Del", "LPop", "LLen", "Expire", "BRPop"} -> 0
                   [] op = "HSet" -> 2
                   [] OTHER -> 1
Plain(c) == Len(c.line) = Arguments(c.op)

-----------------------------------------------------------------------------
(* Redis.                                                                  *)

\* val is a list, or a string as the one element of a sequence.
NoFields == [f \in {} |-> f]
Entry(type, val, fields, expires) ==
    [type |-> type, val |-> val, fields |-> fields, expires |-> expires]
Absent == Entry("none", <<>>, NoFields, FALSE)
String(word, expires) == Entry("string", <<word>>, NoFields, expires)
\* Redis drops a list or hash that has become empty.
List(val, expires) == IF val = <<>> THEN Absent ELSE Entry("list", val, NoFields, expires)
Hash(h, expires) == IF DOMAIN h = {} THEN Absent ELSE Entry("hash", <<>>, h, expires)

Put(h, f, v) == [x \in DOMAIN h \cup {f} |-> IF x = f THEN v ELSE h[x]]
Without(h, fs) == [x \in DOMAIN h \ fs |-> h[x]]

Str(val)   == [type |-> "STRING", val |-> val, integer |-> 0]
Integer(n) == [type |-> "INTEGER", val |-> <<>>, integer |-> n]
Array(val) == [type |-> "ARRAY", val |-> val, integer |-> 0]
Status     == [type |-> "STATUS", val |-> <<>>, integer |-> 0]
Nil        == [type |-> "NIL", val |-> <<>>, integer |-> 0]
Error      == [type |-> "ERROR", val |-> <<>>, integer |-> 0]
\* A count of which the function only asks whether it is 0.
Boolean(b) == Integer(IF b THEN 1 ELSE 0)

\* SET's words after the value.
Options(c) == Tail(c.line)
Malformed(c) ==
    \/ c.op \in {"Get", "LLen", "Expire"} /\ c.line # <<>>
    \/ c.op = "LPop" /\ c.line \notin {<<>>, <<"1">>}
    \/ c.op \in {"HGet", "HExists"} /\ Len(c.line) # 1
    \/ c.op \in {"LPush", "HDel"} /\ c.line = <<>>
    \/ c.op = "HSet" /\ Len(c.line) \notin {2, 4}
    \/ c.op = "Set" /\ (c.line = <<>> \/ Options(c) \notin {<<>>, <<"NX">>, <<"GET">>, <<"EX", "1">>})
    \/ c.op = "SetWithExpire" /\ \/ c.line = <<>> \/ Options(c) \notin {<<>>, <<"NX">>, <<"GET">>}
                                 \/ c.n = 0

\* The type of value that a command needs.
TypeOf(c) == CASE c.op \in {"LPush", "LPop", "BRPop", "LLen"} -> "list"
               [] c.op \in {"HSet", "HGet", "HExists", "HDel"} -> "hash"
               [] c.op = "Get" -> "string"
               [] c.op \in {"Set", "SetWithExpire"} /\ Options(c) = <<"GET">> -> "string"
               [] OTHER -> "any"
WrongType(c, e) == e.type \notin {"none", TypeOf(c)} /\ TypeOf(c) # "any"

\* SET ... NX on a key that exists.
Refused(c, e) == e # Absent /\ Options(c) = <<"NX">>

\* The entry that a well-formed command leaves behind, and the reply.
After(c, e) ==
    CASE c.op = "Set" /\ ~Refused(c, e) -> String(Head(c.line), Options(c) = <<"EX", "1">>)
      [] c.op = "SetWithExpire" /\ ~Refused(c, e) -> String(Head(c.line), TRUE)
      [] c.op = "Del" -> Absent
      [] c.op = "Expire" /\ e # Absent ->
            IF c.n = 0 THEN Absent ELSE [e EXCEPT !.expires = TRUE]
      [] c.op = "LPush" -> List(Reverse(c.line) \o e.val, e.expires)
      [] c.op = "LPop" /\ e # Absent -> List(Tail(e.val), e.expires)
      [] c.op = "BRPop" -> List(Front(e.val), e.expires)
      [] c.op = "HSet" ->
            LET h == Put(e.fields, c.line[1], c.line[2])
            IN  Hash(IF Len(c.line) = 2 THEN h ELSE Put(h, c.line[3], c.line[4]), e.expires)
      [] c.op = "HDel" -> Hash(Without(e.fields, ToSet(c.line)), e.expires)
      [] OTHER -> e
\* another: of the further keys that the line names, one exists.
Answer(c, e, another) ==
    CASE c.op \in {"Set", "SetWithExpire"} ->
            IF Refused(c, e) \/ (Options(c) = <<"GET">> /\ e = Absent) THEN Nil
            ELSE IF Options(c) = <<"GET">> THEN Str(e.val) ELSE Status
      [] c.op \in {"ExistsKey", "Del"} -> Boolean(e # Absent \/ (another /\ c.line # <<>>))
      [] c.op = "Expire" -> Boolean(e # Absent)
      [] c.op = "Get" -> IF e = Absent THEN Nil ELSE Str(e.val)
      [] c.op = "LPush" -> Integer(Len(c.line) + Len(e.val))
      [] c.op = "LPop" -> IF e = Absent THEN Nil
                          ELSE IF c.line = <<>> THEN Str(<<Head(e.val)>>) ELSE Array(<<Head(e.val)>>)
      [] c.op = "BRPop" -> Array(<<"key", Last(e.val)>>)
      [] c.op = "LLen" -> Integer(Len(e.val))
      [] c.op = "HGet" -> IF c.line[1] \in DOMAIN e.fields THEN Str(<<e.fields[c.line[1]]>>) ELSE Nil
      [] c.op = "HExists" -> Boolean(c.line[1] \in DOMAIN e.fields)
      [] c.op \in {"HSet", "HDel"} -> Boolean(DOMAIN After(c, e).fields # DOMAIN e.fields)

-----------------------------------------------------------------------------
(* RedisMgr.                                                               *)

\* What a function makes of a reply that is not null: its result and, if that is true, the
\* value it hands out.
Converted(c, r) ==
    LET array == r.type = "ARRAY" /\ Len(r.val) >= 2
    IN  CASE c.op \in {"Get", "LPop", "HGet"} -> [ok |-> r.type = "STRING", value |-> r.val]
          [] c.op \in {"Set", "SetWithExpire"} -> [ok |-> r.type = "STATUS", value |-> <<>>]
          [] c.op \in {"ExistsKey", "Del", "Expire", "HExists", "HDel"} ->
                [ok |-> r.type = "INTEGER" /\ r.integer > 0, value |-> <<>>]
          [] c.op \in {"LPush", "HSet"} -> [ok |-> r.type = "INTEGER", value |-> <<>>]
          [] c.op = "LLen" -> [ok |-> r.type = "INTEGER", value |-> <<r.integer>>]
          [] c.op = "BRPop" -> [ok |-> array, value |-> IF array THEN <<r.val[2]>> ELSE <<>>]

\* What redismgr.h says of a function that returns true: e is the entry before, f after,
\* and v what the function hands out.
Documented(c, e, f, v) ==
    CASE c.op = "Get" -> e.type = "string" /\ f = e /\ v = e.val
      [] c.op = "Set" -> f = String(c.line[1], FALSE)
      [] c.op = "SetWithExpire" -> f = String(c.line[1], TRUE)
      [] c.op = "ExistsKey" -> e # Absent /\ f = e
      [] c.op = "Del" -> e # Absent /\ f = Absent
      [] c.op = "Expire" -> e # Absent /\ (f.expires \/ f = Absent)
      [] c.op = "LPush" -> f.type = "list" /\ Len(f.val) = Len(e.val) + 1
                           /\ Tail(f.val) = e.val /\ <<Head(f.val)>> = c.line
      [] c.op = "LPop" -> e.type = "list" /\ v \o f.val = e.val /\ Len(v) = 1
      [] c.op = "BRPop" -> e.type = "list" /\ f.val \o v = e.val /\ Len(v) = 1
      [] c.op = "LLen" -> f = e /\ v = <<Len(e.val)>>
      [] c.op = "HSet" -> f.type = "hash" /\ f.fields = Put(e.fields, c.line[1], c.line[2])
      [] c.op = "HGet" -> /\ c.line[1] \in DOMAIN e.fields /\ f = e
                          /\ v = <<e.fields[c.line[1]]>>
      [] c.op = "HExists" -> c.line[1] \in DOMAIN e.fields /\ f = e
      [] c.op = "HDel" -> /\ c.line[1] \in DOMAIN e.fields
                          /\ f.fields = Without(e.fields, {c.line[1]})

\* Kept of a plain command only, for which redismgr.h speaks.
Effect(c, e, f, r) == [documented |-> Plain(c) /\ Documented(c, e, f, Converted(c, r).value),
                       changed |-> Plain(c) /\ f # e]
NoEffect == [documented |-> FALSE, changed |-> FALSE]

-----------------------------------------------------------------------------
Init == /\ entry = Absent
        /\ waiting = <<>>
        /\ free = Contexts
        /\ closed = FALSE
        /\ pc = [t \in Threads |-> "idle"]
        /\ cmd = [t \in Threads |-> None]
        /\ reply = [t \in Threads |-> None]
        /\ runs = [t \in Threads |-> 0]
        /\ effect = [t \in Threads |-> NoEffect]

Goto(t, from, to) == /\ pc[t] = from
                     /\ pc' = [pc EXCEPT ![t] = to]

\* Bounds: LPush as MaxLen says; beside a command that is not plain, LPush only.
Call(t) == /\ \E c \in Commands :
                 /\ c.op = "LPush" => /\ Len(entry.val) < MaxLen
                                      /\ \A u \in Threads : pc[u] # "idle" => cmd[u].op # "LPush"
                 /\ \A u \in Threads : pc[u] # "idle" => \/ Plain(c) /\ Plain(cmd[u])
                                                       \/ "LPush" \in {c.op, cmd[u].op}
                 /\ cmd' = [cmd EXCEPT ![t] = c]
           /\ Goto(t, "idle", "wait")
           /\ UNCHANGED <<entry, waiting, free, closed, reply, runs, effect>>

\* The call is over, with what the caller is told: nothing of it is kept.
Return(t) == /\ pc' = [pc EXCEPT ![t] = "idle"]
             /\ cmd' = [cmd EXCEPT ![t] = None]
             /\ reply' = [reply EXCEPT ![t] = None]
             /\ runs' = [runs EXCEPT ![t] = 0]
             /\ effect' = [effect EXCEPT ![t] = NoEffect]

\* execCommand: no context from a pool that is stopped, and so no reply.
NoContext(t) == /\ closed
                /\ pc[t] = "wait"
                /\ Return(t)
                /\ UNCHANGED <<entry, waiting, free, closed>>

\* Mutant of GetContext: front() without pop().
GetContextWithoutPop(t) == /\ ~closed
                           /\ free > 0
                           /\ Goto(t, "wait", "sent")
                           /\ UNCHANGED <<entry, waiting, free, closed, cmd, reply, runs, effect>>

\* Mutant of GetContext: the last context stays in the pool.
GetContextButOne(t) == /\ ~closed
                       /\ free > 1
                       /\ free' = free - 1
                       /\ Goto(t, "wait", "sent")
                       /\ UNCHANGED <<entry, waiting, closed, cmd, reply, runs, effect>>

\* getConnection: waits until the pool has a context.
GetContext(t) == /\ ~closed
                 /\ free > 0
                 /\ free' = free - 1
                 /\ Goto(t, "wait", "sent")
                 /\ UNCHANGED <<entry, waiting, closed, cmd, reply, runs, effect>>

\* Redis answers t with r and leaves f; the reply gets back to t or is lost.
Carry(t, f, r) ==
    /\ entry' = f
    /\ runs' = [runs EXCEPT ![t] = @ + 1]
    /\ \/ /\ pc' = [pc EXCEPT ![t] = "answered"]
          /\ reply' = [reply EXCEPT ![t] = r]
          /\ effect' = [effect EXCEPT ![t] = Effect(cmd[t], entry, f, r)]
       \/ /\ pc' = [pc EXCEPT ![t] = "broken"]
          /\ UNCHANGED <<reply, effect>>
    /\ UNCHANGED <<free, closed, cmd>>

\* An element has come for a BRPOP, which Redis serves before it takes another command.
Servable == waiting # <<>> /\ entry.type = "list"
Serve(t) == /\ Servable
            /\ t = Head(waiting)
            /\ waiting' = Tail(waiting)
            /\ Carry(t, After(cmd[t], entry), Answer(cmd[t], entry, FALSE))

\* redisCommand writes the command and waits for the reply; it sets no timeout.
Execute(t) ==
    /\ pc[t] = "sent"
    /\ ~Servable
    /\ LET c == cmd[t]
       IN  IF Malformed(c) \/ WrongType(c, entry)
           THEN Carry(t, entry, Error) /\ UNCHANGED waiting
           ELSE IF c.op = "BRPop" /\ entry = Absent
           THEN /\ waiting' = Append(waiting, t)
                /\ pc' = [pc EXCEPT ![t] = "blocked"]
                /\ UNCHANGED <<entry, free, closed, cmd, reply, runs, effect>>
           ELSE /\ \E another \in BOOLEAN : Carry(t, After(c, entry), Answer(c, entry, another))
                /\ UNCHANGED waiting

\* Redis forgets a BRPOP that waits.
StopWaiting(t) == \E i \in DOMAIN waiting : /\ waiting[i] = t
                                           /\ waiting' = RemoveAt(waiting, i)

\* BRPOP of several keys: this one is absent, and another has an element or the wrong type.
ExecuteElsewhere(t) ==
    /\ ~Servable
    /\ cmd[t] # None
    /\ cmd[t].op = "BRPop" /\ cmd[t].line # <<>>
    /\ \/ /\ pc[t] = "sent" /\ entry = Absent /\ UNCHANGED waiting
          /\ \E r \in {Array(<<"1", w>>) : w \in Words} \cup {Error} : Carry(t, entry, r)
       \/ /\ pc[t] = "blocked" /\ StopWaiting(t)
          /\ \E w \in Words : Carry(t, entry, Array(<<"1", w>>))

\* BRPOP's timeout is over.
TimeOut(t) ==
    /\ cmd[t] # None
    /\ cmd[t].n > 0
    /\ Goto(t, "blocked", "answered")
    /\ reply' = [reply EXCEPT ![t] = Nil]
    /\ StopWaiting(t)
    /\ UNCHANGED <<entry, free, closed, cmd, runs, effect>>

\* The connection breaks before Redis has carried out the command.
Break(t) ==
    /\ \/ Goto(t, "sent", "broken") /\ UNCHANGED waiting
       \/ Goto(t, "blocked", "broken") /\ StopWaiting(t)
    /\ UNCHANGED <<entry, free, closed, cmd, reply, runs, effect>>

\* Mutant of Release: a command without a reply is sent again.
ReleaseRetrying(t) ==
    /\ \/ /\ pc[t] = "answered"
          /\ free' = IF closed THEN free ELSE free + 1
          /\ Return(t)
       \/ /\ Goto(t, "broken", "sent")
          /\ UNCHANGED <<free, cmd, reply, runs, effect>>
    /\ UNCHANGED <<entry, waiting, closed>>

\* releaseConnection, which replaces a broken context if it can; the function evaluates the
\* reply (Converted), frees it and returns.
Release(t) ==
    /\ \/ /\ pc[t] = "answered"
          /\ free' = IF closed THEN free ELSE free + 1
       \/ /\ pc[t] = "broken"
          /\ free' \in IF closed THEN {free} ELSE {free, free + 1}
    /\ Return(t)
    /\ UNCHANGED <<entry, waiting, closed>>

\* The key's time is over.
Drop == /\ entry.expires
        /\ entry' = Absent
        /\ UNCHANGED <<waiting, free, closed, pc, cmd, reply, runs, effect>>

\* ~RedisMgr closes the pool, at any time.
Close == /\ ~closed
         /\ closed' = TRUE
         /\ free' = 0
         /\ UNCHANGED <<entry, waiting, pc, cmd, reply, runs, effect>>

-----------------------------------------------------------------------------
Redis(t) == Serve(t) \/ Execute(t) \/ ExecuteElsewhere(t) \/ Break(t)
Proceed(t) == NoContext(t) \/ GetContext(t) \/ TimeOut(t) \/ Release(t)

Next == \/ \E t \in Threads : Call(t) \/ Proceed(t) \/ Redis(t)
        \/ Drop \/ Close

Spec == Init /\ [][Next]_vars

\* Threads are scheduled, a context that stays in the pool gets to a thread that waits
\* (RedisConPool), and Redis keeps BRPOP's timeout and serves who waits.
Fairness == \A t \in Threads : WF_vars(Proceed(t)) /\ WF_vars(Serve(t))
FairSpec == Spec /\ Fairness

-----------------------------------------------------------------------------
(* Properties.                                                             *)

PCs == {"idle", "wait", "sent", "blocked", "answered", "broken"}
Elements == Words \cup {"NX", "GET", "EX", "1"}
Replies == [type : {"STRING", "INTEGER", "ARRAY", "STATUS", "NIL", "ERROR"},
            val : Seq(Elements \cup {"key"}), integer : Nat]
TypeOK ==
    /\ entry.type \in {"none", "string", "list", "hash"}
    /\ entry.val \in Seq(Elements)
    /\ DOMAIN entry.fields \subseteq Elements
    /\ \A f \in DOMAIN entry.fields : entry.fields[f] \in Elements
    /\ entry.type = "none" <=> entry = Absent
    /\ entry.type \in {"string", "list"} <=> entry.val # <<>>
    /\ entry.type = "hash" <=> DOMAIN entry.fields # {}
    /\ \A i \in DOMAIN waiting : pc[waiting[i]] = "blocked" /\ cmd[waiting[i]].op = "BRPop"
    /\ free \in 0..Contexts
    /\ closed \in BOOLEAN
    /\ pc \in [Threads -> PCs]
    /\ cmd \in [Threads -> Commands \cup {None}]
    /\ \A t \in Threads : cmd[t] \in IF pc[t] = "idle" THEN {None} ELSE Commands
    /\ reply \in [Threads -> Replies \cup {None}]
    /\ \A t \in Threads : pc[t] = "answered" => reply[t] \in Replies
    /\ runs \in [Threads -> Nat]
    /\ effect \in [Threads -> [documented : BOOLEAN, changed : BOOLEAN]]

\* What a caller may conclude from an answer (the comments of redismgr.h).  A command is
\* carried out at most once.  When every argument was one word: true means that Redis has
\* carried out the command, and did what the comment says; false after a reply, that Redis
\* changed nothing; false without a reply, that it has carried out the command or not.
AnswersTruthful ==
    \A t \in Threads :
        /\ runs[t] <= 1
        /\ pc[t] = "answered" /\ Plain(cmd[t]) =>
              IF Converted(cmd[t], reply[t]).ok
              THEN runs[t] = 1 /\ effect[t].documented
              ELSE ~effect[t].changed

\* A context is in the pool or in one call: no more are in use than there are.
Holds(t) == pc[t] \in {"sent", "blocked", "answered", "broken"}

\* BRPop without a timeout, the default.
Endless(t) == pc[t] = "blocked" /\ cmd[t].n = 0

\* No call is stuck for a context or for the timeout of its BRPop, while one context is left
\* that is not with a BRPop without timeout: BRPops that wait, each keeping a context, delay
\* the other calls, the pushes they wait for included, but do not stop them.  Either every
\* call of t ends, an endless BRPop that has got its context excepted, or the others take
\* contexts in front of it for ever, which getConnection does not rule out.
CallsEnd ==
    ( /\ [](closed \/ free > 0 \/ \E t \in Threads : Holds(t) /\ ~Endless(t))
      /\ \A t \in Threads : []<>(pc[t] # "sent") )
    => \A t \in Threads : \/ pc[t] # "idle" ~> (pc[t] = "idle" \/ Endless(t))
                          \/ []<><<\E u \in Threads \ {t} : GetContext(u)>>_vars
=============================================================================

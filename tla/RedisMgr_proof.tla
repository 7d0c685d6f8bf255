---------------------------- MODULE RedisMgr_proof ----------------------------
(***************************************************************************)
(* Proofs about RedisMgr, for any finite set of threads, any words and any *)
(* number of contexts.                                                     *)
(*                                                                         *)
(* Carried is the heart: what one command does to an entry, what Redis     *)
(* replies, and what the function of RedisMgr makes of the reply fit       *)
(* together, for each of the fourteen commands.  The rest shows that a     *)
(* command is carried out at most once between its call and its return,    *)
(* which needs Redis' queue of waiting BRPOPs to name each thread once,    *)
(* and that no more contexts are about than there were (ContextInv), which *)
(* the type of free needs.                                                 *)
(***************************************************************************)
EXTENDS RedisMgr, FiniteSetTheorems, SequenceTheorems, TLAPS

Types == {"none", "string", "list", "hash"}
Hashes == UNION {[D -> Elements] : D \in SUBSET Elements}
Entries == [type : Types, val : Seq(Elements), fields : Hashes, expires : BOOLEAN]

\* Absent is the one entry of type none; only strings and lists have a value, only hashes fields.
WellFormed(e) == /\ e \in Entries
                 /\ e.type = "none" <=> e = Absent
                 /\ e.type \in {"string", "list"} <=> e.val # <<>>
                 /\ e.type = "hash" <=> DOMAIN e.fields # {}

\* Redis carries c out on e: its words and the type of e fit, and it need not wait.
Fits(c, e) == ~Malformed(c) /\ ~WrongType(c, e) /\ (c.op = "BRPop" => e # Absent)

Ops == {"Get", "ExistsKey", "Del", "LPop", "LLen", "HGet", "HExists", "HDel",
        "Set", "LPush", "HSet", "SetWithExpire", "Expire", "BRPop"}

CommandType == [op : Ops, line : Seq(Elements), n : {0, 1}]

LEMMA CommandSet ==
    ASSUME NEW ops \in SUBSET Ops, NEW lines \in SUBSET Seq(Elements), NEW ns \in SUBSET {0, 1}
    PROVE  Command(ops, lines, ns) \subseteq CommandType
  BY DEF Command, CommandType

\* Each command has one of the fourteen names and a sequence of words.
LEMMA CommandTyped == Commands \subseteq CommandType
  <1>1. /\ {<<>>} \in SUBSET Seq(Elements)
        /\ {<<"1">>} \in SUBSET Seq(Elements)
    BY DEF Elements
  <1>2. One \in SUBSET Seq(Elements) /\ Two \in SUBSET Seq(Elements)
    <2>1. ASSUME NEW f \in Words, NEW w \in Words
          PROVE  <<w>> \in Seq(Elements) /\ <<f, w>> \in Seq(Elements)
      BY DEF Elements
    <2>2. One \subseteq Seq(Elements)
      BY <2>1 DEF One
    <2>3. Two \subseteq Seq(Elements)
      <3> SUFFICES ASSUME NEW x \in Two PROVE x \in Seq(Elements)
        OBVIOUS
      <3>1. PICK f \in Words, w \in Words : x = <<f, w>>
        BY DEF Two
      <3> QED
        BY <2>1, <3>1
    <2> QED
      BY <2>2, <2>3
  <1>3. ASSUME NEW lines \in SUBSET Seq(Elements), NEW more \in SUBSET Seq(Elements)
        PROVE  Followed(lines, more) \in SUBSET Seq(Elements)
    <2>1. \A l \in lines, m \in more : l \o m \in Seq(Elements)
      <3> SUFFICES ASSUME NEW l \in Seq(Elements), NEW m \in Seq(Elements)
                   PROVE  l \o m \in Seq(Elements)
        OBVIOUS
      <3> QED
        OBVIOUS
    <2> QED
      <3> SUFFICES ASSUME NEW x \in Followed(lines, more) PROVE x \in Seq(Elements)
        OBVIOUS
      <3>1. PICK l \in lines, m \in more : x = l \o m
        BY DEF Followed
      <3> QED
        BY <2>1, <3>1
  <1>4. /\ {<<"NX">>, <<"GET">>, <<"EX", "1">>} \in SUBSET Seq(Elements)
        /\ {<<"NX">>, <<"GET">>} \in SUBSET Seq(Elements)
        /\ {<<"1">>, <<"1", "1">>} \in SUBSET Seq(Elements)
    <2>1. /\ <<"NX">> \in Seq(Elements) /\ <<"GET">> \in Seq(Elements)
          /\ <<"EX", "1">> \in Seq(Elements) /\ <<"1">> \in Seq(Elements)
          /\ <<"1", "1">> \in Seq(Elements)
      BY DEF Elements
    <2> QED
      BY <2>1
  <1>5. /\ {<<>>} \cup Followed(One, {<<"NX">>, <<"GET">>, <<"EX", "1">>}) \in SUBSET Seq(Elements)
        /\ {<<>>} \cup Followed(One, {<<"NX">>, <<"GET">>}) \in SUBSET Seq(Elements)
        /\ {<<>>} \cup Followed(One, {<<"1">>}) \in SUBSET Seq(Elements)
        /\ One \cup Followed(Two, {<<"1">>, <<"1", "1">>}) \in SUBSET Seq(Elements)
    <2>1. /\ Followed(One, {<<"NX">>, <<"GET">>, <<"EX", "1">>}) \in SUBSET Seq(Elements)
          /\ Followed(One, {<<"NX">>, <<"GET">>}) \in SUBSET Seq(Elements)
          /\ Followed(One, {<<"1">>}) \in SUBSET Seq(Elements)
          /\ Followed(Two, {<<"1">>, <<"1", "1">>}) \in SUBSET Seq(Elements)
      BY <1>1, <1>2, <1>3, <1>4
    <2> QED
      BY <1>1, <1>2, <2>1
  <1>6. /\ {"Get", "ExistsKey", "Del", "LPop", "LLen"} \in SUBSET Ops
        /\ {"Expire", "BRPop"} \in SUBSET Ops
        /\ {"Set", "LPush", "HGet", "HExists", "HDel"} \in SUBSET Ops
        /\ {"LPush", "HGet", "HExists", "HDel"} \in SUBSET Ops
        /\ {"SetWithExpire"} \in SUBSET Ops /\ {"HSet"} \in SUBSET Ops /\ {"Set"} \in SUBSET Ops
    BY DEF Ops
  <1>7. {0} \in SUBSET {0, 1} /\ {1} \in SUBSET {0, 1} /\ {0, 1} \in SUBSET {0, 1}
    OBVIOUS
  <1>8. PlainCommands \subseteq CommandType
    <2>1. /\ Command({"Get", "ExistsKey", "Del", "LPop", "LLen"}, {<<>>}, {0}) \subseteq CommandType
          /\ Command({"Expire", "BRPop"}, {<<>>}, {0, 1}) \subseteq CommandType
          /\ Command({"Set", "LPush", "HGet", "HExists", "HDel"}, One, {0}) \subseteq CommandType
          /\ Command({"SetWithExpire"}, One, {0, 1}) \subseteq CommandType
          /\ Command({"HSet"}, Two, {0}) \subseteq CommandType
      BY <1>1, <1>2, <1>6, <1>7, CommandSet
    <2> QED
      BY <2>1, Zenon DEF PlainCommands
  <1>9. BlankCommands \subseteq CommandType
    <2>1. /\ Command({"Get", "ExistsKey", "Del", "LPop", "LLen"}, {<<"1">>}, {0})
                \subseteq CommandType
          /\ Command({"Expire", "BRPop"}, {<<"1">>}, {1}) \subseteq CommandType
          /\ Command({"Set"},
                     {<<>>} \cup Followed(One, {<<"NX">>, <<"GET">>, <<"EX", "1">>}), {0})
                \subseteq CommandType
          /\ Command({"SetWithExpire"}, {<<>>} \cup Followed(One, {<<"NX">>, <<"GET">>}), {1})
                \subseteq CommandType
          /\ Command({"LPush", "HGet", "HExists", "HDel"},
                     {<<>>} \cup Followed(One, {<<"1">>}), {0})
                \subseteq CommandType
          /\ Command({"HSet"}, One \cup Followed(Two, {<<"1">>, <<"1", "1">>}), {0})
                \subseteq CommandType
      BY <1>1, <1>5, <1>6, <1>7, CommandSet
    <2> QED
      BY <2>1, Zenon DEF BlankCommands
  <1> QED
    BY <1>8, <1>9, BlanksAssumption DEF Commands

LEMMA CommandParts ==
    ASSUME NEW c \in Commands
    PROVE  /\ c.op \in Ops /\ c.line \in Seq(Elements) /\ c.n \in {0, 1}
           /\ Len(c.line) \in Nat
  BY CommandTyped DEF CommandType

LEMMA ListEnds ==
    ASSUME NEW s \in Seq(Elements), s # <<>>
    PROVE  /\ Front(s) \in Seq(Elements) /\ Last(s) \in Elements /\ Front(s) \o <<Last(s)>> = s
           /\ Tail(s) \in Seq(Elements) /\ Head(s) \in Elements /\ <<Head(s)>> \o Tail(s) = s
           /\ Len(s) \in Nat \ {0}
  BY DEF Front, Last

LEMMA Reversed ==
    ASSUME NEW s \in Seq(Elements)
    PROVE  Reverse(s) \in Seq(Elements) /\ Len(Reverse(s)) = Len(s)
  BY DEF Reverse

\* A line of one word.
LEMMA OneWord ==
    ASSUME NEW a \in Seq(Elements), Len(a) = 1
    PROVE  /\ a # <<>> /\ a[1] \in Elements /\ a = <<a[1]>>
           /\ Head(a) = a[1] /\ Tail(a) = <<>> /\ ToSet(a) = {a[1]}
  <1>1. a # <<>> /\ a[1] \in Elements /\ Head(a) = a[1] /\ DOMAIN a = {1}
    OBVIOUS
  <1>2. <<a[1]>> \in Seq(Elements) /\ Len(<<a[1]>>) = 1 /\ <<a[1]>>[1] = a[1]
    BY <1>1
  <1>3. a = <<a[1]>>
    BY <1>2, SeqEqual
  <1>4. Tail(a) \in Seq(Elements) /\ Len(Tail(a)) = 0
    BY <1>1
  <1>5. Tail(a) = <<>>
    BY <1>4, EmptySeq
  <1>6. ToSet(a) = {a[1]}
    BY <1>1 DEF ToSet
  <1> QED
    BY <1>1, <1>3, <1>5, <1>6

\* What LPUSH of one word does to a list.
LEMMA PushedOne ==
    ASSUME NEW a \in Seq(Elements), Len(a) = 1, NEW v \in Seq(Elements)
    PROVE  /\ Len(Reverse(a) \o v) = Len(v) + 1
           /\ Tail(Reverse(a) \o v) = v
           /\ <<Head(Reverse(a) \o v)>> = a
  <1>1. a[1] \in Elements /\ a = <<a[1]>>
    BY OneWord
  <1>2. <<a[1]>> \in Seq(Elements) /\ Len(<<a[1]>>) = 1 /\ <<a[1]>>[1] = a[1]
    BY <1>1
  <1>3. Reverse(a) = <<a[1]>>
    <2>1. Reverse(a) \in Seq(Elements) /\ Len(Reverse(a)) = 1 /\ Reverse(a)[1] = a[1]
      BY DEF Reverse
    <2> QED
      BY <1>2, <2>1, SeqEqual
  <1>4. ASSUME NEW x \in Elements
        PROVE  Len(<<x>> \o v) = Len(v) + 1 /\ Head(<<x>> \o v) = x /\ Tail(<<x>> \o v) = v
    OBVIOUS
  <1> QED
    BY <1>1, <1>3, <1>4

LEMMA Pushed ==
    ASSUME NEW a \in Seq(Elements), a # <<>>, NEW v \in Seq(Elements)
    PROVE  /\ Reverse(a) \o v \in Seq(Elements)
           /\ Reverse(a) \o v # <<>>
           /\ Len(a) + Len(v) \in Nat
  <1>1. Reverse(a) \in Seq(Elements) /\ Reverse(a) # <<>>
    <2>1. Reverse(a) \in Seq(Elements) /\ Len(Reverse(a)) = Len(a) /\ Len(a) > 0
      BY Reversed
    <2> QED
      BY <2>1
  <1>2. Len(a) + Len(v) \in Nat
    BY EmptySeq, LenProperties
  <1>3. Reverse(a) \o v \in Seq(Elements)
    BY <1>1
  <1> QED
    BY <1>1, <1>2, <1>3, ConcatSimplifications

-----------------------------------------------------------------------------
(* Entries.                                                                *)

LEMMA HashParts ==
    ASSUME NEW h \in Hashes
    PROVE  /\ DOMAIN h \subseteq Elements
           /\ h = [x \in DOMAIN h |-> h[x]]
           /\ \A x \in DOMAIN h : h[x] \in Elements
  BY DEF Hashes

LEMMA HashMade ==
    ASSUME NEW D \in SUBSET Elements, NEW h \in [D -> Elements]
    PROVE  h \in Hashes
  BY DEF Hashes

LEMMA NoFieldsTyped == NoFields \in Hashes /\ DOMAIN NoFields = {}
  <1>1. NoFields \in [{} -> Elements]
    BY DEF NoFields
  <1> QED
    BY <1>1, HashMade DEF NoFields

LEMMA EmptyHash == ASSUME NEW h \in Hashes, DOMAIN h = {} PROVE h = NoFields
  <1>1. h = [x \in {} |-> h[x]]
    BY HashParts
  <1> QED
    BY <1>1 DEF NoFields

LEMMA PutTyped ==
    ASSUME NEW h \in Hashes, NEW f \in Elements, NEW v \in Elements
    PROVE  Put(h, f, v) \in Hashes /\ DOMAIN Put(h, f, v) # {}
  <1>1. DOMAIN h \cup {f} \in SUBSET Elements
    BY HashParts
  <1>2. Put(h, f, v) \in [DOMAIN h \cup {f} -> Elements]
    BY HashParts DEF Put
  <1> QED
    BY <1>1, <1>2, HashMade

LEMMA WithoutTyped ==
    ASSUME NEW h \in Hashes, NEW fs
    PROVE  /\ Without(h, fs) \in Hashes
           /\ DOMAIN Without(h, fs) = DOMAIN h \ fs
           /\ DOMAIN h \cap fs = {} => Without(h, fs) = h
  <1>1. DOMAIN h \ fs \in SUBSET Elements
    BY HashParts
  <1>2. Without(h, fs) \in [DOMAIN h \ fs -> Elements]
    BY HashParts DEF Without
  <1>3. ASSUME DOMAIN h \cap fs = {} PROVE Without(h, fs) = h
    <2>1. DOMAIN h \ fs = DOMAIN h
      BY <1>3
    <2> QED
      BY <2>1, HashParts DEF Without
  <1> QED
    BY <1>1, <1>2, <1>3, HashMade

LEMMA AbsentEntry ==
    /\ WellFormed(Absent)
    /\ Absent.val = <<>> /\ Absent.type = "none" /\ Absent.fields = NoFields
    /\ DOMAIN Absent.fields = {}
  <1>1. /\ Absent.val = <<>> /\ Absent.type = "none" /\ Absent.fields = NoFields
        /\ Absent \in Entries
    <2>1. <<>> \in Seq(Elements)
      OBVIOUS
    <2> QED
      BY <2>1, NoFieldsTyped DEF Absent, Entry, Entries, Types
  <1> QED
    BY <1>1, NoFieldsTyped DEF WellFormed

LEMMA EntryParts ==
    ASSUME NEW e, WellFormed(e)
    PROVE  /\ e.type \in Types /\ e.val \in Seq(Elements) /\ e.expires \in BOOLEAN
           /\ e.fields \in Hashes
           /\ Len(e.val) \in Nat
           /\ e.type = "none" <=> e = Absent
           /\ e.type \in {"string", "list"} <=> e.val # <<>>
           /\ e.type = "hash" <=> DOMAIN e.fields # {}
           /\ e = Entry(e.type, e.val, e.fields, e.expires)
  BY DEF WellFormed, Entries, Entry

LEMMA StringEntry ==
    ASSUME NEW w \in Elements, NEW x \in BOOLEAN
    PROVE  WellFormed(String(w, x))
  <1>1. <<w>> \in Seq(Elements) /\ <<w>> # <<>>
    OBVIOUS
  <1>2. /\ String(w, x).type = "string" /\ String(w, x).val = <<w>>
        /\ String(w, x).fields = NoFields /\ String(w, x) \in Entries
    BY <1>1, NoFieldsTyped DEF String, Entry, Entries, Types
  <1>3. String(w, x) # Absent
    BY <1>2, AbsentEntry
  <1> QED
    BY <1>1, <1>2, <1>3, NoFieldsTyped DEF WellFormed

LEMMA ListEntry ==
    ASSUME NEW v \in Seq(Elements), NEW x \in BOOLEAN
    PROVE  /\ WellFormed(List(v, x)) /\ List(v, x).val = v
           /\ v # <<>> => List(v, x).type = "list"
  <1>1. CASE v = <<>>
    BY <1>1, AbsentEntry DEF List
  <1>2. CASE v # <<>>
    <2>1. List(v, x) = Entry("list", v, NoFields, x)
      BY <1>2 DEF List
    <2>2. /\ List(v, x).type = "list" /\ List(v, x).val = v
          /\ List(v, x).fields = NoFields /\ List(v, x) \in Entries
      BY <2>1, NoFieldsTyped DEF Entry, Entries, Types
    <2>3. List(v, x) # Absent
      BY <2>2, AbsentEntry
    <2> QED
      BY <1>2, <2>2, <2>3, NoFieldsTyped DEF WellFormed
  <1> QED
    BY <1>1, <1>2

LEMMA HashEntry ==
    ASSUME NEW h \in Hashes, NEW x \in BOOLEAN
    PROVE  /\ WellFormed(Hash(h, x)) /\ Hash(h, x).fields = h
           /\ DOMAIN h # {} => Hash(h, x).type = "hash" /\ Hash(h, x) = Entry("hash", <<>>, h, x)
  <1>1. CASE DOMAIN h = {}
    BY <1>1, AbsentEntry, EmptyHash DEF Hash
  <1>2. CASE DOMAIN h # {}
    <2>1. Hash(h, x) = Entry("hash", <<>>, h, x)
      BY <1>2 DEF Hash
    <2>2. <<>> \in Seq(Elements)
      OBVIOUS
    <2>3. /\ Hash(h, x).type = "hash" /\ Hash(h, x).val = <<>>
          /\ Hash(h, x).fields = h /\ Hash(h, x) \in Entries
      BY <2>1, <2>2 DEF Entry, Entries, Types
    <2>4. Hash(h, x) # Absent
      BY <2>3, AbsentEntry
    <2> QED
      BY <1>2, <2>1, <2>3, <2>4 DEF WellFormed
  <1> QED
    BY <1>1, <1>2

\* A hash without some field that it does not have.
LEMMA HashSame ==
    ASSUME NEW e, WellFormed(e), e.type \in {"none", "hash"}, NEW fs, DOMAIN e.fields \cap fs = {}
    PROVE  Hash(Without(e.fields, fs), e.expires) = e
  <1>1. Without(e.fields, fs) = e.fields
    BY EntryParts, WithoutTyped
  <1>2. CASE e = Absent
    BY <1>1, <1>2, AbsentEntry DEF Hash
  <1>3. CASE e # Absent
    <2>1. e.type = "hash" /\ e.val = <<>> /\ DOMAIN e.fields # {}
      BY <1>3, EntryParts
    <2>2. Hash(e.fields, e.expires) = Entry("hash", <<>>, e.fields, e.expires)
      BY <2>1, EntryParts, HashEntry
    <2>3. e = Entry(e.type, e.val, e.fields, e.expires)
      BY EntryParts
    <2> QED
      BY <1>1, <2>1, <2>2, <2>3
  <1> QED
    BY <1>2, <1>3

LEMMA Expiring ==
    ASSUME NEW e, WellFormed(e), e # Absent
    PROVE  WellFormed([e EXCEPT !.expires = TRUE]) /\ [e EXCEPT !.expires = TRUE].expires
  <1>1. /\ [e EXCEPT !.expires = TRUE] \in Entries
        /\ [e EXCEPT !.expires = TRUE].type = e.type
        /\ [e EXCEPT !.expires = TRUE].val = e.val
        /\ [e EXCEPT !.expires = TRUE].fields = e.fields
        /\ [e EXCEPT !.expires = TRUE].expires
    BY DEF WellFormed, Entries
  <1>2. [e EXCEPT !.expires = TRUE] # Absent
    <2>1. e.type # "none"
      BY EntryParts
    <2> QED
      BY <1>1, <2>1, AbsentEntry
  <1> QED
    BY <1>1, <1>2 DEF WellFormed

-----------------------------------------------------------------------------
(* What Redis has done with a command that fits, what it replies, and what *)
(* the function makes of the reply.                                        *)

Told(c, e, f, r) ==
    Plain(c) => IF Converted(c, r).ok THEN Documented(c, e, f, Converted(c, r).value) ELSE f = e
Result(c, e, f, r) == WellFormed(f) /\ r \in Replies /\ Told(c, e, f, r)

LEMMA ReplyTyped ==
    /\ \A n \in Nat : Integer(n) \in Replies
    /\ \A v \in Seq(Elements \cup {"key"}) : Str(v) \in Replies /\ Array(v) \in Replies
    /\ \A b \in BOOLEAN : Boolean(b) \in Replies
    /\ Status \in Replies /\ Nil \in Replies /\ Error \in Replies
  BY DEF Replies, Integer, Str, Array, Status, Nil, Error, Boolean

LEMMA ReplyFields ==
    /\ \A n : Integer(n).type = "INTEGER" /\ Integer(n).integer = n
    /\ \A v : Str(v).type = "STRING" /\ Str(v).val = v
    /\ \A v : Array(v).type = "ARRAY" /\ Array(v).val = v
    /\ \A b \in BOOLEAN : Boolean(b).type = "INTEGER" /\ (Boolean(b).integer > 0 <=> b)
    /\ Status.type = "STATUS" /\ Nil.type = "NIL"
  BY DEF Integer, Str, Array, Status, Nil, Boolean

LEMMA Widened == Seq(Elements) \subseteq Seq(Elements \cup {"key"})
  OBVIOUS

LEMMA PlainLine ==
    ASSUME NEW c \in Commands, Plain(c)
    PROVE  /\ c.op \in {"Get", "ExistsKey", "Del", "LPop", "LLen", "Expire", "BRPop"}
                 => c.line = <<>>
           /\ c.op = "HSet" => Len(c.line) = 2
           /\ c.op \in {"Set", "SetWithExpire", "LPush", "HGet", "HExists", "HDel"}
                 => /\ Len(c.line) = 1 /\ c.line # <<>> /\ c.line[1] \in Elements
                    /\ c.line = <<c.line[1]>> /\ Head(c.line) = c.line[1]
                    /\ Options(c) = <<>> /\ ToSet(c.line) = {c.line[1]}
  <1>1. c.line \in Seq(Elements)
    BY CommandParts
  <1>2. CASE c.op \in {"Get", "ExistsKey", "Del", "LPop", "LLen", "Expire", "BRPop"}
    <2>1. Len(c.line) = 0
      BY <1>2 DEF Plain, Arguments
    <2> QED
      BY <1>1, <1>2, <2>1, EmptySeq
  <1>3. CASE c.op = "HSet"
    BY <1>3 DEF Plain, Arguments
  <1>4. CASE c.op \in {"Set", "SetWithExpire", "LPush", "HGet", "HExists", "HDel"}
    <2>1. Len(c.line) = 1
      BY <1>4 DEF Plain, Arguments
    <2> QED
      BY <1>1, <1>4, <2>1, OneWord DEF Options
  <1> QED
    BY <1>2, <1>3, <1>4

LEMMA CarriedGet ==
    ASSUME NEW c \in Commands, c.op = "Get", NEW e, WellFormed(e), Fits(c, e),
           NEW another \in BOOLEAN, NEW f, f = After(c, e), NEW r, r = Answer(c, e, another)
    PROVE  Result(c, e, f, r)
  <1>1. f = e
    BY DEF After
  <1>2. r = IF e = Absent THEN Nil ELSE Str(e.val)
    BY DEF Answer
  <1>3. e.type \in {"none", "string"}
    BY EntryParts DEF Fits, WrongType, TypeOf, Types
  <1>4. (Converted(c, r).ok <=> r.type = "STRING") /\ Converted(c, r).value = r.val
    BY DEF Converted
  <1>5. Documented(c, e, f, r.val) <=> e.type = "string" /\ f = e /\ r.val = e.val
    BY DEF Documented
  <1>6. r \in Replies
    BY <1>2, EntryParts, ReplyTyped, Widened
  <1>7. Told(c, e, f, r)
    BY <1>1, <1>2, <1>3, <1>4, <1>5, EntryParts, ReplyFields DEF Told
  <1> QED
    BY <1>1, <1>6, <1>7 DEF Result

LEMMA CarriedLLen ==
    ASSUME NEW c \in Commands, c.op = "LLen", NEW e, WellFormed(e), Fits(c, e),
           NEW another \in BOOLEAN, NEW f, f = After(c, e), NEW r, r = Answer(c, e, another)
    PROVE  Result(c, e, f, r)
  <1>1. f = e
    BY DEF After
  <1>2. r = Integer(Len(e.val))
    BY DEF Answer
  <1>3. (Converted(c, r).ok <=> r.type = "INTEGER") /\ Converted(c, r).value = <<r.integer>>
    BY DEF Converted
  <1>4. Documented(c, e, f, <<r.integer>>) <=> f = e /\ <<r.integer>> = <<Len(e.val)>>
    BY DEF Documented
  <1>5. r \in Replies
    BY <1>2, EntryParts, ReplyTyped
  <1>6. Told(c, e, f, r)
    BY <1>1, <1>2, <1>3, <1>4, ReplyFields DEF Told
  <1> QED
    BY <1>1, <1>5, <1>6 DEF Result

LEMMA CarriedExistsKey ==
    ASSUME NEW c \in Commands, c.op = "ExistsKey", NEW e, WellFormed(e), Fits(c, e),
           NEW another \in BOOLEAN, NEW f, f = After(c, e), NEW r, r = Answer(c, e, another)
    PROVE  Result(c, e, f, r)
  <1>1. f = e
    BY DEF After
  <1>2. /\ (e # Absent \/ (another /\ c.line # <<>>)) \in BOOLEAN
        /\ r = Boolean(e # Absent \/ (another /\ c.line # <<>>))
    BY DEF Answer
  <1>3. Converted(c, r).ok <=> r.type = "INTEGER" /\ r.integer > 0
    BY DEF Converted
  <1>4. Documented(c, e, f, Converted(c, r).value) <=> e # Absent /\ f = e
    BY DEF Documented
  <1>5. r \in Replies
    BY <1>2, ReplyTyped
  <1>6. Told(c, e, f, r)
    <2> SUFFICES ASSUME Plain(c)
                 PROVE  IF Converted(c, r).ok
                        THEN Documented(c, e, f, Converted(c, r).value) ELSE f = e
      BY DEF Told
    <2>1. c.line = <<>>
      BY PlainLine
    <2>2. r.type = "INTEGER" /\ (r.integer > 0 <=> e # Absent)
      BY <1>2, <2>1, ReplyFields
    <2> QED
      BY <1>1, <1>3, <1>4, <2>2
  <1> QED
    BY <1>1, <1>5, <1>6, AbsentEntry DEF Result

LEMMA CarriedDel ==
    ASSUME NEW c \in Commands, c.op = "Del", NEW e, WellFormed(e), Fits(c, e),
           NEW another \in BOOLEAN, NEW f, f = After(c, e), NEW r, r = Answer(c, e, another)
    PROVE  Result(c, e, f, r)
  <1>1. f = Absent
    BY DEF After
  <1>2. /\ (e # Absent \/ (another /\ c.line # <<>>)) \in BOOLEAN
        /\ r = Boolean(e # Absent \/ (another /\ c.line # <<>>))
    BY DEF Answer
  <1>3. Converted(c, r).ok <=> r.type = "INTEGER" /\ r.integer > 0
    BY DEF Converted
  <1>4. Documented(c, e, f, Converted(c, r).value) <=> e # Absent /\ f = Absent
    BY DEF Documented
  <1>5. r \in Replies
    BY <1>2, ReplyTyped
  <1>6. Told(c, e, f, r)
    <2> SUFFICES ASSUME Plain(c)
                 PROVE  IF Converted(c, r).ok
                        THEN Documented(c, e, f, Converted(c, r).value) ELSE f = e
      BY DEF Told
    <2>1. c.line = <<>>
      BY PlainLine
    <2>2. r.type = "INTEGER" /\ (r.integer > 0 <=> e # Absent)
      BY <1>2, <2>1, ReplyFields
    <2> QED
      BY <1>1, <1>3, <1>4, <2>2
  <1> QED
    BY <1>1, <1>5, <1>6, AbsentEntry DEF Result

LEMMA CarriedExpire ==
    ASSUME NEW c \in Commands, c.op = "Expire", NEW e, WellFormed(e), Fits(c, e),
           NEW another \in BOOLEAN, NEW f, f = After(c, e), NEW r, r = Answer(c, e, another)
    PROVE  Result(c, e, f, r)
  <1>1. f = IF e = Absent THEN e ELSE IF c.n = 0 THEN Absent ELSE [e EXCEPT !.expires = TRUE]
    BY DEF After
  <1>2. r = Boolean(e # Absent)
    BY DEF Answer
  <1>3. Converted(c, r).ok <=> r.type = "INTEGER" /\ r.integer > 0
    BY DEF Converted
  <1>4. Documented(c, e, f, Converted(c, r).value) <=> e # Absent /\ (f.expires \/ f = Absent)
    BY DEF Documented
  <1>5. r \in Replies /\ WellFormed(f)
    BY <1>1, <1>2, ReplyTyped, AbsentEntry, Expiring
  <1>6. r.type = "INTEGER" /\ (r.integer > 0 <=> e # Absent)
    BY <1>2, ReplyFields
  <1>7. Told(c, e, f, r)
    BY <1>1, <1>3, <1>4, <1>6, Expiring DEF Told
  <1> QED
    BY <1>5, <1>7 DEF Result

LEMMA CarriedSet ==
    ASSUME NEW c \in Commands, c.op = "Set", NEW e, WellFormed(e), Fits(c, e),
           NEW another \in BOOLEAN, NEW f, f = After(c, e), NEW r, r = Answer(c, e, another)
    PROVE  Result(c, e, f, r)
  <1>1. f = IF Refused(c, e) THEN e ELSE String(Head(c.line), Options(c) = <<"EX", "1">>)
    BY DEF After
  <1>2. r = IF Refused(c, e) \/ (Options(c) = <<"GET">> /\ e = Absent) THEN Nil
            ELSE IF Options(c) = <<"GET">> THEN Str(e.val) ELSE Status
    BY DEF Answer
  <1>3. c.line \in Seq(Elements) /\ c.line # <<>>
    BY CommandParts DEF Fits, Malformed
  <1>4. Head(c.line) \in Elements
    BY <1>3
  <1>5. WellFormed(f)
    <2>1. ASSUME NEW x \in BOOLEAN PROVE WellFormed(String(Head(c.line), x))
      BY <1>4, StringEntry
    <2> QED
      BY <1>1, <2>1
  <1>6. r \in Replies
    BY <1>2, EntryParts, ReplyTyped, Widened
  <1>7. Converted(c, r).ok <=> r.type = "STATUS"
    BY DEF Converted
  <1>8. Documented(c, e, f, Converted(c, r).value) <=> f = String(c.line[1], FALSE)
    BY DEF Documented
  <1>9. Told(c, e, f, r)
    <2> SUFFICES ASSUME Plain(c)
                 PROVE  IF Converted(c, r).ok
                        THEN Documented(c, e, f, Converted(c, r).value) ELSE f = e
      BY DEF Told
    <2>1. Options(c) = <<>> /\ Head(c.line) = c.line[1]
      BY PlainLine
    <2>2. ~Refused(c, e) /\ Options(c) # <<"GET">> /\ (Options(c) = <<"EX", "1">>) = FALSE
      BY <2>1 DEF Refused
    <2>3. r = Status
      BY <1>2, <2>2
    <2>4. f = String(c.line[1], FALSE)
      BY <1>1, <2>1, <2>2
    <2> QED
      BY <1>7, <1>8, <2>3, <2>4, ReplyFields
  <1> QED
    BY <1>5, <1>6, <1>9 DEF Result

LEMMA CarriedSetWithExpire ==
    ASSUME NEW c \in Commands, c.op = "SetWithExpire", NEW e, WellFormed(e), Fits(c, e),
           NEW another \in BOOLEAN, NEW f, f = After(c, e), NEW r, r = Answer(c, e, another)
    PROVE  Result(c, e, f, r)
  <1>1. f = IF Refused(c, e) THEN e ELSE String(Head(c.line), TRUE)
    BY DEF After
  <1>2. r = IF Refused(c, e) \/ (Options(c) = <<"GET">> /\ e = Absent) THEN Nil
            ELSE IF Options(c) = <<"GET">> THEN Str(e.val) ELSE Status
    BY DEF Answer
  <1>3. c.line \in Seq(Elements) /\ c.line # <<>>
    BY CommandParts DEF Fits, Malformed
  <1>4. Head(c.line) \in Elements
    BY <1>3
  <1>5. WellFormed(f)
    <2>1. ASSUME NEW x \in BOOLEAN PROVE WellFormed(String(Head(c.line), x))
      BY <1>4, StringEntry
    <2> QED
      BY <1>1, <2>1
  <1>6. r \in Replies
    BY <1>2, EntryParts, ReplyTyped, Widened
  <1>7. Converted(c, r).ok <=> r.type = "STATUS"
    BY DEF Converted
  <1>8. Documented(c, e, f, Converted(c, r).value) <=> f = String(c.line[1], TRUE)
    BY DEF Documented
  <1>9. Told(c, e, f, r)
    <2> SUFFICES ASSUME Plain(c)
                 PROVE  IF Converted(c, r).ok
                        THEN Documented(c, e, f, Converted(c, r).value) ELSE f = e
      BY DEF Told
    <2>1. Options(c) = <<>> /\ Head(c.line) = c.line[1]
      BY PlainLine
    <2>2. ~Refused(c, e) /\ Options(c) # <<"GET">> /\ (Options(c) = <<"EX", "1">>) = FALSE
      BY <2>1 DEF Refused
    <2>3. r = Status
      BY <1>2, <2>2
    <2>4. f = String(c.line[1], TRUE)
      BY <1>1, <2>1, <2>2
    <2> QED
      BY <1>7, <1>8, <2>3, <2>4, ReplyFields
  <1> QED
    BY <1>5, <1>6, <1>9 DEF Result

LEMMA CarriedLPush ==
    ASSUME NEW c \in Commands, c.op = "LPush", NEW e, WellFormed(e), Fits(c, e),
           NEW another \in BOOLEAN, NEW f, f = After(c, e), NEW r, r = Answer(c, e, another)
    PROVE  Result(c, e, f, r)
  <1> DEFINE l == Reverse(c.line) \o e.val
  <1>1. c.line # <<>> /\ c.line \in Seq(Elements)
    BY CommandParts DEF Fits, Malformed
  <1>2. l \in Seq(Elements) /\ l # <<>> /\ Len(c.line) + Len(e.val) \in Nat
    BY <1>1, EntryParts, Pushed
  <1>3. Len(c.line) = 1 => Len(l) = Len(e.val) + 1 /\ Tail(l) = e.val /\ <<Head(l)>> = c.line
    BY <1>1, EntryParts, PushedOne
  <1>4. f = List(l, e.expires)
    BY DEF After
  <1> HIDE DEF l
  <1>5. r = Integer(Len(c.line) + Len(e.val))
    BY DEF Answer
  <1>6. Converted(c, r).ok <=> r.type = "INTEGER"
    BY DEF Converted
  <1>7. Documented(c, e, f, Converted(c, r).value)
        <=> f.type = "list" /\ Len(f.val) = Len(e.val) + 1
            /\ Tail(f.val) = e.val /\ <<Head(f.val)>> = c.line
    BY DEF Documented
  <1>8. WellFormed(f) /\ f.val = l /\ f.type = "list"
    BY <1>2, <1>4, EntryParts, ListEntry
  <1>9. r \in Replies
    BY <1>2, <1>5, ReplyTyped
  <1>10. Told(c, e, f, r)
    <2>0. Converted(c, r).ok
      BY <1>5, <1>6 DEF Integer
    <2> SUFFICES ASSUME Plain(c) PROVE Documented(c, e, f, Converted(c, r).value)
      BY <2>0, Zenon DEF Told
    <2>1. Len(c.line) = 1
      BY PlainLine
    <2>2. Len(f.val) = Len(e.val) + 1 /\ Tail(f.val) = e.val /\ <<Head(f.val)>> = c.line
      BY <1>3, <1>8, <2>1, Zenon
    <2> QED
      BY <1>7, <1>8, <2>2, Zenon
  <1> QED
    BY <1>8, <1>9, <1>10 DEF Result

LEMMA CarriedLPop ==
    ASSUME NEW c \in Commands, c.op = "LPop", NEW e, WellFormed(e), Fits(c, e),
           NEW another \in BOOLEAN, NEW f, f = After(c, e), NEW r, r = Answer(c, e, another)
    PROVE  Result(c, e, f, r)
  <1>1. f = IF e = Absent THEN e ELSE List(Tail(e.val), e.expires)
    BY DEF After
  <1>2. r = IF e = Absent THEN Nil
            ELSE IF c.line = <<>> THEN Str(<<Head(e.val)>>) ELSE Array(<<Head(e.val)>>)
    BY DEF Answer
  <1>3. e # Absent => e.type = "list"
    BY EntryParts DEF Fits, WrongType, TypeOf, Types
  <1>4. (Converted(c, r).ok <=> r.type = "STRING") /\ Converted(c, r).value = r.val
    BY DEF Converted
  <1>5. Documented(c, e, f, r.val)
        <=> e.type = "list" /\ r.val \o f.val = e.val /\ Len(r.val) = 1
    BY DEF Documented
  <1>6. e # Absent => /\ Tail(e.val) \in Seq(Elements)
                      /\ Head(e.val) \in Elements
                      /\ <<Head(e.val)>> \o Tail(e.val) = e.val
    BY <1>3, EntryParts, ListEnds
  <1>7. e # Absent => <<Head(e.val)>> \in Seq(Elements \cup {"key"}) /\ Len(<<Head(e.val)>>) = 1
    BY <1>6
  <1>8. WellFormed(f) /\ (e # Absent => f.val = Tail(e.val))
    <2>1. ASSUME NEW v \in Seq(Elements)
          PROVE  WellFormed(List(v, e.expires)) /\ List(v, e.expires).val = v
      BY EntryParts, ListEntry
    <2>2. CASE e = Absent
      BY <1>1, <2>2
    <2>3. CASE e # Absent
      BY <1>1, <1>6, <2>1, <2>3, Zenon
    <2> QED
      BY <2>2, <2>3
  <1>9. r \in Replies
    BY <1>2, <1>7, ReplyTyped
  <1>10. Told(c, e, f, r)
    <2> SUFFICES ASSUME Plain(c)
                 PROVE  IF Converted(c, r).ok
                        THEN Documented(c, e, f, Converted(c, r).value) ELSE f = e
      BY DEF Told
    <2>1. c.line = <<>>
      BY PlainLine
    <2>2. CASE e = Absent
      BY <1>1, <1>2, <1>4, <2>2, ReplyFields
    <2>3. CASE e # Absent
      <3>1. e.type = "list" /\ r.type = "STRING" /\ r.val = <<Head(e.val)>> /\ f.val = Tail(e.val)
        BY <1>2, <1>3, <1>8, <2>1, <2>3, ReplyFields
      <3>2. r.val \o f.val = <<Head(e.val)>> \o Tail(e.val)
        BY <3>1, Zenon
      <3>3. r.val \o f.val = e.val /\ Len(r.val) = 1
        BY <1>6, <1>7, <2>3, <3>1, <3>2, Zenon
      <3> QED
        BY <1>4, <1>5, <3>1, <3>3, Zenon
    <2> QED
      BY <2>2, <2>3
  <1> QED
    BY <1>8, <1>9, <1>10 DEF Result

LEMMA CarriedBRPop ==
    ASSUME NEW c \in Commands, c.op = "BRPop", NEW e, WellFormed(e), Fits(c, e),
           NEW another \in BOOLEAN, NEW f, f = After(c, e), NEW r, r = Answer(c, e, another)
    PROVE  Result(c, e, f, r)
  <1>1. f = List(Front(e.val), e.expires)
    BY DEF After
  <1>2. r = Array(<<"key", Last(e.val)>>)
    BY DEF Answer
  <1>3. e.type = "list"
    BY EntryParts DEF Fits, WrongType, TypeOf, Types
  <1>4. /\ Converted(c, r).ok <=> r.type = "ARRAY" /\ Len(r.val) >= 2
        /\ Converted(c, r).value = IF r.type = "ARRAY" /\ Len(r.val) >= 2
                                   THEN <<r.val[2]>> ELSE <<>>
    BY DEF Converted
  <1>5. Documented(c, e, f, Converted(c, r).value)
        <=> /\ e.type = "list"
            /\ f.val \o Converted(c, r).value = e.val
            /\ Len(Converted(c, r).value) = 1
    BY DEF Documented
  <1>6. /\ Front(e.val) \in Seq(Elements)
        /\ Last(e.val) \in Elements
        /\ Front(e.val) \o <<Last(e.val)>> = e.val
    BY <1>3, EntryParts, ListEnds
  <1>7. /\ <<"key", Last(e.val)>> \in Seq(Elements \cup {"key"})
        /\ Len(<<"key", Last(e.val)>>) = 2
        /\ <<"key", Last(e.val)>>[2] = Last(e.val)
        /\ Len(<<Last(e.val)>>) = 1
    BY <1>6
  <1>8. WellFormed(f) /\ f.val = Front(e.val)
    <2>1. ASSUME NEW v \in Seq(Elements)
          PROVE  WellFormed(List(v, e.expires)) /\ List(v, e.expires).val = v
      BY EntryParts, ListEntry
    <2> QED
      BY <1>1, <1>6, <2>1, Zenon
  <1>9. r \in Replies
    <2>1. ASSUME NEW v \in Seq(Elements \cup {"key"}) PROVE Array(v) \in Replies
      BY ReplyTyped
    <2> QED
      BY <1>2, <1>7, <2>1, Zenon
  <1>10. r.type = "ARRAY" /\ r.val = <<"key", Last(e.val)>>
    BY <1>2 DEF Array
  <1>11. Len(r.val) >= 2
    <2>1. Len(r.val) = 2
      BY <1>7, <1>10, Zenon
    <2> QED
      BY <2>1
  <1>12. Converted(c, r).ok /\ Converted(c, r).value = <<Last(e.val)>>
    BY <1>4, <1>7, <1>10, <1>11
  <1>13. f.val \o Converted(c, r).value = e.val /\ Len(Converted(c, r).value) = 1
    BY <1>6, <1>7, <1>8, <1>12, Zenon
  <1>14. Told(c, e, f, r)
    BY <1>3, <1>5, <1>12, <1>13, Zenon DEF Told
  <1> QED
    BY <1>8, <1>9, <1>14 DEF Result

LEMMA CarriedHGet ==
    ASSUME NEW c \in Commands, c.op = "HGet", NEW e, WellFormed(e), Fits(c, e),
           NEW another \in BOOLEAN, NEW f, f = After(c, e), NEW r, r = Answer(c, e, another)
    PROVE  Result(c, e, f, r)
  <1> DEFINE x == c.line[1]
  <1>1. f = e
    BY DEF After
  <1>2. r = IF x \in DOMAIN e.fields THEN Str(<<e.fields[x]>>) ELSE Nil
    BY DEF Answer
  <1>3. (Converted(c, r).ok <=> r.type = "STRING") /\ Converted(c, r).value = r.val
    BY DEF Converted
  <1>4. Documented(c, e, f, r.val) <=> x \in DOMAIN e.fields /\ f = e /\ r.val = <<e.fields[x]>>
    BY DEF Documented
  <1> HIDE DEF x
  <1>5. x \in DOMAIN e.fields => <<e.fields[x]>> \in Seq(Elements)
    <2>1. x \in DOMAIN e.fields => e.fields[x] \in Elements
      BY EntryParts, HashParts
    <2> QED
      BY <2>1
  <1>6. r \in Replies
    BY <1>2, <1>5, ReplyTyped, Widened
  <1>7. Told(c, e, f, r)
    BY <1>1, <1>2, <1>3, <1>4, ReplyFields DEF Told
  <1> QED
    BY <1>1, <1>6, <1>7 DEF Result

LEMMA CarriedHExists ==
    ASSUME NEW c \in Commands, c.op = "HExists", NEW e, WellFormed(e), Fits(c, e),
           NEW another \in BOOLEAN, NEW f, f = After(c, e), NEW r, r = Answer(c, e, another)
    PROVE  Result(c, e, f, r)
  <1>1. f = e
    BY DEF After
  <1>2. (c.line[1] \in DOMAIN e.fields) \in BOOLEAN /\ r = Boolean(c.line[1] \in DOMAIN e.fields)
    BY DEF Answer
  <1>3. Converted(c, r).ok <=> r.type = "INTEGER" /\ r.integer > 0
    BY DEF Converted
  <1>4. Documented(c, e, f, Converted(c, r).value) <=> c.line[1] \in DOMAIN e.fields /\ f = e
    BY DEF Documented
  <1>5. r \in Replies
    BY <1>2, ReplyTyped
  <1>6. Told(c, e, f, r)
    BY <1>1, <1>2, <1>3, <1>4, ReplyFields DEF Told
  <1> QED
    BY <1>1, <1>5, <1>6 DEF Result

LEMMA CarriedHDel ==
    ASSUME NEW c \in Commands, c.op = "HDel", NEW e, WellFormed(e), Fits(c, e),
           NEW another \in BOOLEAN, NEW f, f = After(c, e), NEW r, r = Answer(c, e, another)
    PROVE  Result(c, e, f, r)
  <1> DEFINE fs == ToSet(c.line)
  <1>1. f = Hash(Without(e.fields, fs), e.expires)
    BY DEF After
  <1>2. /\ (DOMAIN f.fields # DOMAIN e.fields) \in BOOLEAN
        /\ r = Boolean(DOMAIN f.fields # DOMAIN e.fields)
    BY DEF Answer
  <1>3. Converted(c, r).ok <=> r.type = "INTEGER" /\ r.integer > 0
    BY DEF Converted
  <1>4. Documented(c, e, f, Converted(c, r).value)
        <=> c.line[1] \in DOMAIN e.fields /\ f.fields = Without(e.fields, {c.line[1]})
    BY DEF Documented
  <1>5. e.type \in {"none", "hash"}
    BY EntryParts DEF Fits, WrongType, TypeOf, Types
  <1> HIDE DEF fs
  <1>6. /\ Without(e.fields, fs) \in Hashes
        /\ DOMAIN Without(e.fields, fs) = DOMAIN e.fields \ fs
    BY EntryParts, WithoutTyped
  <1>7. WellFormed(f) /\ f.fields = Without(e.fields, fs)
    BY <1>1, <1>6, EntryParts, HashEntry
  <1>8. r \in Replies
    BY <1>2, ReplyTyped
  <1>9. Told(c, e, f, r)
    <2> SUFFICES ASSUME Plain(c)
                 PROVE  IF Converted(c, r).ok
                        THEN Documented(c, e, f, Converted(c, r).value) ELSE f = e
      BY DEF Told
    <2>1. fs = {c.line[1]}
      BY PlainLine DEF fs
    <2>2. Converted(c, r).ok <=> DOMAIN f.fields # DOMAIN e.fields
      BY <1>2, <1>3, ReplyFields
    <2>3. CASE c.line[1] \in DOMAIN e.fields
      BY <1>4, <1>6, <1>7, <2>1, <2>2, <2>3
    <2>4. CASE c.line[1] \notin DOMAIN e.fields
      <3>1. DOMAIN e.fields \cap fs = {}
        BY <2>1, <2>4
      <3>2. f = e
        BY <1>1, <1>5, <3>1, HashSame
      <3> QED
        BY <2>2, <3>2
    <2> QED
      BY <2>3, <2>4
  <1> QED
    BY <1>7, <1>8, <1>9 DEF Result

LEMMA CarriedHSet ==
    ASSUME NEW c \in Commands, c.op = "HSet", NEW e, WellFormed(e), Fits(c, e),
           NEW another \in BOOLEAN, NEW f, f = After(c, e), NEW r, r = Answer(c, e, another)
    PROVE  Result(c, e, f, r)
  <1> DEFINE p == Put(e.fields, c.line[1], c.line[2])
             h == IF Len(c.line) = 2 THEN p ELSE Put(p, c.line[3], c.line[4])
  <1>1. f = Hash(h, e.expires)
    BY DEF After
  <1>2. /\ (DOMAIN f.fields # DOMAIN e.fields) \in BOOLEAN
        /\ r = Boolean(DOMAIN f.fields # DOMAIN e.fields)
    BY DEF Answer
  <1>3. Converted(c, r).ok <=> r.type = "INTEGER"
    BY DEF Converted
  <1>4. Documented(c, e, f, Converted(c, r).value) <=> f.type = "hash" /\ f.fields = p
    BY DEF Documented
  <1>5. /\ c.line[1] \in Elements /\ c.line[2] \in Elements
        /\ Len(c.line) = 2 \/ (c.line[3] \in Elements /\ c.line[4] \in Elements)
    <2>1. c.line \in Seq(Elements) /\ Len(c.line) \in {2, 4}
      BY CommandParts DEF Fits, Malformed
    <2> QED
      BY <2>1
  <1>6. p \in Hashes /\ DOMAIN p # {}
    BY <1>5, EntryParts, PutTyped
  <1> HIDE DEF p
  <1>7. h \in Hashes /\ DOMAIN h # {}
    BY <1>5, <1>6, PutTyped
  <1>8. Plain(c) => h = p
    BY PlainLine
  <1> HIDE DEF h
  <1>9. WellFormed(f) /\ f.fields = h /\ f.type = "hash"
    BY <1>1, <1>7, EntryParts, HashEntry
  <1>10. r \in Replies
    BY <1>2, ReplyTyped
  <1>11. Told(c, e, f, r)
    BY <1>2, <1>3, <1>4, <1>8, <1>9, ReplyFields DEF Told
  <1> QED
    BY <1>9, <1>10, <1>11 DEF Result

\* The heart: any command that fits leaves an entry that is well formed, gets a reply, and if it
\* is plain, tells its caller the truth.
LEMMA Carried ==
    ASSUME NEW c \in Commands, NEW e, WellFormed(e), Fits(c, e), NEW another \in BOOLEAN
    PROVE  Result(c, e, After(c, e), Answer(c, e, another))
  <1>1. c.op \in Ops
    BY CommandParts
  <1>2. CASE c.op = "Get"
    BY <1>2, CarriedGet
  <1>3. CASE c.op = "LLen"
    BY <1>3, CarriedLLen
  <1>4. CASE c.op = "ExistsKey"
    BY <1>4, CarriedExistsKey
  <1>5. CASE c.op = "Del"
    BY <1>5, CarriedDel
  <1>6. CASE c.op = "Expire"
    BY <1>6, CarriedExpire
  <1>7. CASE c.op = "Set"
    BY <1>7, CarriedSet
  <1>8. CASE c.op = "SetWithExpire"
    BY <1>8, CarriedSetWithExpire
  <1>9. CASE c.op = "LPush"
    BY <1>9, CarriedLPush
  <1>10. CASE c.op = "LPop"
    BY <1>10, CarriedLPop
  <1>11. CASE c.op = "BRPop"
    BY <1>11, CarriedBRPop
  <1>12. CASE c.op = "HGet"
    BY <1>12, CarriedHGet
  <1>13. CASE c.op = "HExists"
    BY <1>13, CarriedHExists
  <1>14. CASE c.op = "HDel"
    BY <1>14, CarriedHDel
  <1>15. CASE c.op = "HSet"
    BY <1>15, CarriedHSet
  <1> QED
    BY <1>1, <1>2, <1>3, <1>4, <1>5, <1>6, <1>7, <1>8, <1>9, <1>10, <1>11, <1>12, <1>13, <1>14, <1>15 DEF Ops

-----------------------------------------------------------------------------
(* The inductive invariant.                                                *)

Holders == {t \in Threads : Holds(t)}

\* Redis keeps one place in its queue for each BRPOP that waits.
QueueInv == /\ waiting \in Seq(Threads)
            /\ \A i, j \in DOMAIN waiting : waiting[i] = waiting[j] => i = j
            /\ \A i \in DOMAIN waiting : pc[waiting[i]] = "blocked"
            /\ \A t \in Threads : pc[t] = "blocked" => cmd[t].op = "BRPop"

\* No more contexts are in the pool and on loan than there were in the beginning.
ContextInv == /\ free \in Nat
              /\ IF closed THEN free = 0
                           ELSE free + Cardinality(Holders) <= Contexts

\* Before Redis has carried a command out, nothing has come of it.
HistoryInv == /\ \A t \in Threads : pc[t] \in {"idle", "wait", "sent", "blocked"}
                                       => runs[t] = 0 /\ effect[t] = NoEffect
              /\ AnswersTruthful

IInv == TypeOK /\ WellFormed(entry) /\ QueueInv /\ ContextInv /\ HistoryInv

LEMMA DocumentedBoolean ==
    ASSUME NEW c \in Commands, NEW e, NEW f, NEW v
    PROVE  Documented(c, e, f, v) \in BOOLEAN
  <1>0. c.op \in Ops
    BY CommandParts
  <1>1. CASE c.op \in {"Get", "Set", "SetWithExpire", "ExistsKey", "Del", "Expire", "LPush"}
    BY <1>1 DEF Documented
  <1>2. CASE c.op \in {"LPop", "BRPop", "LLen", "HSet", "HGet", "HExists", "HDel"}
    BY <1>2 DEF Documented
  <1> QED
    BY <1>0, <1>1, <1>2 DEF Ops

LEMMA EffectTyped ==
    ASSUME NEW c \in Commands, NEW e, NEW f, NEW r
    PROVE  Effect(c, e, f, r) \in [documented : BOOLEAN, changed : BOOLEAN]
  <1>1. Documented(c, e, f, Converted(c, r).value) \in BOOLEAN
    BY DocumentedBoolean
  <1> QED
    BY <1>1 DEF Effect

LEMMA ErrorTold ==
    ASSUME NEW c \in Commands, NEW e
    PROVE  Told(c, e, e, Error)
  <1>1. c.op \in Ops /\ Error.type = "ERROR"
    BY CommandParts DEF Error
  <1>2. Converted(c, Error).ok = FALSE
    BY <1>1 DEF Converted, Ops
  <1> QED
    BY <1>2 DEF Told

LEMMA TimeOutTold ==
    ASSUME NEW c \in Commands, c.op = "BRPop"
    PROVE  Converted(c, Nil).ok = FALSE
  BY ReplyFields DEF Converted

LEMMA Executed ==
    ASSUME IInv, NEW t \in Threads, Execute(t)
    PROVE  /\ pc[t] = "sent"
           /\ cmd[t] \in Commands
           /\ \/ /\ \E f, r : /\ Carry(t, f, r)
                              /\ WellFormed(f) /\ r \in Replies /\ Told(cmd[t], entry, f, r)
                 /\ UNCHANGED waiting
              \/ /\ cmd[t].op = "BRPop"
                 /\ waiting' = Append(waiting, t)
                 /\ pc' = [pc EXCEPT ![t] = "blocked"]
                 /\ UNCHANGED <<entry, free, closed, cmd, reply, runs, effect>>
  <1>1. pc[t] = "sent" /\ cmd[t] \in Commands /\ WellFormed(entry)
    BY DEF IInv, TypeOK, Execute
  <1>2. CASE Malformed(cmd[t]) \/ WrongType(cmd[t], entry)
    BY <1>1, <1>2, ErrorTold, ReplyTyped DEF Execute
  <1>3. CASE /\ ~(Malformed(cmd[t]) \/ WrongType(cmd[t], entry))
             /\ ~(cmd[t].op = "BRPop" /\ entry = Absent)
    <2>1. Fits(cmd[t], entry)
      BY <1>3 DEF Fits
    <2>2. PICK another \in BOOLEAN :
             /\ Carry(t, After(cmd[t], entry), Answer(cmd[t], entry, another))
             /\ UNCHANGED waiting
      BY <1>1, <1>3 DEF Execute
    <2> QED
      BY <1>1, <2>1, <2>2, Carried DEF Result
  <1>4. CASE /\ ~(Malformed(cmd[t]) \/ WrongType(cmd[t], entry))
             /\ cmd[t].op = "BRPop" /\ entry = Absent
    BY <1>1, <1>4 DEF Execute
  <1> QED
    BY <1>2, <1>3, <1>4

LEMMA Served ==
    ASSUME IInv, NEW t \in Threads, Serve(t)
    PROVE  /\ pc[t] = "blocked"
           /\ cmd[t] \in Commands
           /\ waiting # <<>> /\ t = Head(waiting) /\ waiting' = Tail(waiting)
           /\ \E f, r : /\ Carry(t, f, r)
                        /\ WellFormed(f) /\ r \in Replies /\ Told(cmd[t], entry, f, r)
  <1>1. waiting # <<>> /\ t = Head(waiting) /\ waiting' = Tail(waiting)
    BY DEF Serve, Servable
  <1>2. pc[t] = "blocked"
    BY <1>1 DEF IInv, QueueInv
  <1>3. cmd[t] \in Commands /\ cmd[t].op = "BRPop"
    BY <1>2 DEF IInv, TypeOK, QueueInv
  <1>4. Fits(cmd[t], entry)
    <2>1. entry.type = "list" /\ entry # Absent
      BY AbsentEntry DEF Serve, Servable
    <2> QED
      BY <1>3, <2>1 DEF Fits, Malformed, WrongType, TypeOf
  <1>5. /\ WellFormed(After(cmd[t], entry)) /\ Answer(cmd[t], entry, FALSE) \in Replies
        /\ Told(cmd[t], entry, After(cmd[t], entry), Answer(cmd[t], entry, FALSE))
    BY <1>3, <1>4, Carried DEF IInv, Result
  <1> QED
    BY <1>1, <1>2, <1>3, <1>5 DEF Serve

\* A BRPOP that another key ends.
LEMMA ServedElsewhere ==
    ASSUME IInv, NEW t \in Threads, ExecuteElsewhere(t)
    PROVE  /\ cmd[t] \in Commands /\ cmd[t].op = "BRPop"
           /\ \/ pc[t] = "sent" /\ UNCHANGED waiting
              \/ pc[t] = "blocked" /\ StopWaiting(t)
           /\ \E r \in Replies : Carry(t, entry, r) /\ Told(cmd[t], entry, entry, r)
  <1>1. cmd[t] \in Commands /\ cmd[t].op = "BRPop" /\ cmd[t].line # <<>>
    BY DEF ExecuteElsewhere, IInv, TypeOK
  <1>2. ~Plain(cmd[t])
    BY <1>1, PlainLine
  <1>3. \A r : Told(cmd[t], entry, entry, r)
    BY <1>2 DEF Told
  <1>4. \A w \in Words : Array(<<"1", w>>) \in Replies
    <2>1. \A w \in Words : <<"1", w>> \in Seq(Elements \cup {"key"})
      BY DEF Elements
    <2> QED
      BY <2>1, ReplyTyped
  <1>5. CASE /\ pc[t] = "sent" /\ UNCHANGED waiting
             /\ \E r \in {Array(<<"1", w>>) : w \in Words} \cup {Error} : Carry(t, entry, r)
    BY <1>1, <1>3, <1>4, <1>5, ReplyTyped
  <1>6. CASE /\ pc[t] = "blocked" /\ StopWaiting(t)
             /\ \E w \in Words : Carry(t, entry, Array(<<"1", w>>))
    BY <1>1, <1>3, <1>4, <1>6
  <1> QED
    BY <1>5, <1>6 DEF ExecuteElsewhere

LEMMA RemovedAt ==
    ASSUME NEW S, NEW s \in Seq(S), NEW i \in 1..Len(s)
    PROVE  /\ RemoveAt(s, i) \in Seq(S)
           /\ Len(RemoveAt(s, i)) = Len(s) - 1
           /\ \A j \in 1..(Len(s) - 1) : RemoveAt(s, i)[j] = IF j < i THEN s[j] ELSE s[j + 1]
  <1> DEFINE a == SubSeq(s, 1, i - 1)
             b == SubSeq(s, i + 1, Len(s))
  <1>1. a \in Seq(S) /\ Len(a) = i - 1 /\ \A j \in 1..(i - 1) : a[j] = s[j]
    OBVIOUS
  <1>2. b \in Seq(S) /\ Len(b) = Len(s) - i /\ \A j \in 1..(Len(s) - i) : b[j] = s[j + i]
    OBVIOUS
  <1>3. RemoveAt(s, i) = a \o b
    BY DEF RemoveAt
  <1>4. i \in Nat /\ Len(s) \in Nat /\ 1 <= i /\ i <= Len(s)
    OBVIOUS
  <1> HIDE DEF a, b
  <1>5. /\ a \o b \in Seq(S)
        /\ Len(a \o b) = Len(a) + Len(b)
        /\ \A j \in 1..(Len(a) + Len(b)) :
              (a \o b)[j] = IF j <= Len(a) THEN a[j] ELSE b[j - Len(a)]
    BY <1>1, <1>2, ConcatProperties
  <1>6. ASSUME NEW j \in 1..(Len(s) - 1)
        PROVE  (a \o b)[j] = IF j < i THEN s[j] ELSE s[j + 1]
    <2>1. (a \o b)[j] = IF j <= i - 1 THEN a[j] ELSE b[j - (i - 1)]
      BY <1>1, <1>2, <1>4, <1>5
    <2>2. CASE j < i
      BY <1>1, <1>4, <2>1, <2>2
    <2>3. CASE ~(j < i)
      <3>1. j - (i - 1) \in 1..(Len(s) - i) /\ (j - (i - 1)) + i = j + 1
        BY <1>4, <2>3
      <3> QED
        BY <1>2, <1>4, <2>1, <2>3, <3>1
    <2> QED
      BY <2>2, <2>3
  <1>7. Len(a) + Len(b) = Len(s) - 1
    BY <1>1, <1>2, <1>4
  <1>8. RemoveAt(s, i) \in Seq(S) /\ Len(RemoveAt(s, i)) = Len(s) - 1
    BY <1>3, <1>5, <1>7, Zenon
  <1> QED
    BY <1>3, <1>6, <1>8, Zenon

-----------------------------------------------------------------------------
LEMMA InitIInv == Init => IInv
  <1> SUFFICES ASSUME Init PROVE IInv
    OBVIOUS
  <1>1. TypeOK
    <2>1. free \in 0..Contexts
      BY ConstantsAssumption DEF Init
    <2>2. /\ entry.type \in {"none", "string", "list", "hash"}
          /\ entry.val \in Seq(Elements)
          /\ DOMAIN entry.fields \subseteq Elements
          /\ \A f \in DOMAIN entry.fields : entry.fields[f] \in Elements
          /\ entry.type = "none" <=> entry = Absent
          /\ entry.type \in {"string", "list"} <=> entry.val # <<>>
          /\ entry.type = "hash" <=> DOMAIN entry.fields # {}
      BY AbsentEntry, EntryParts, HashParts DEF Init, Types
    <2>3. \A i \in DOMAIN waiting : pc[waiting[i]] = "blocked" /\ cmd[waiting[i]].op = "BRPop"
      BY DEF Init
    <2>6. closed \in BOOLEAN
      BY DEF Init
    <2>4. /\ pc \in [Threads -> PCs]
          /\ cmd \in [Threads -> Commands \cup {None}]
          /\ \A t \in Threads : cmd[t] \in IF pc[t] = "idle" THEN {None} ELSE Commands
          /\ reply \in [Threads -> Replies \cup {None}]
          /\ \A t \in Threads : pc[t] = "answered" => reply[t] \in Replies
          /\ runs \in [Threads -> Nat]
      BY DEF Init, PCs
    <2>5. effect \in [Threads -> [documented : BOOLEAN, changed : BOOLEAN]]
      BY DEF Init, NoEffect
    <2> QED
      BY <2>1, <2>2, <2>3, <2>4, <2>5, <2>6 DEF TypeOK
  <1>2. WellFormed(entry)
    BY AbsentEntry DEF Init
  <1>3. QueueInv
    BY DEF Init, QueueInv
  <1>4. ContextInv
    <2>1. Holders = {}
      BY DEF Init, Holders, Holds
    <2> QED
      BY <2>1, FS_EmptySet, ConstantsAssumption DEF Init, ContextInv
  <1>5. HistoryInv
    BY DEF Init, HistoryInv, AnswersTruthful
  <1> QED
    BY <1>1, <1>2, <1>3, <1>4, <1>5 DEF IInv

\* A reply or a broken connection, for a command that Redis has carried out.
LEMMA CarryTyped ==
    ASSUME TypeOK, NEW t \in Threads, cmd[t] \in Commands, pc[t] \in {"sent", "blocked"},
           NEW f, NEW r, Carry(t, f, r), WellFormed(f), r \in Replies
    PROVE  /\ entry' = f /\ free' = free /\ closed' = closed /\ cmd' = cmd
           /\ \E to \in {"answered", "broken"} : pc' = [pc EXCEPT ![t] = to]
           /\ pc' \in [Threads -> PCs]
           /\ reply' \in [Threads -> Replies \cup {None}]
           /\ \A u \in Threads : pc'[u] = "answered" => reply'[u] \in Replies
           /\ runs' \in [Threads -> Nat]
           /\ effect' \in [Threads -> [documented : BOOLEAN, changed : BOOLEAN]]
  <1>1. Effect(cmd[t], entry, f, r) \in [documented : BOOLEAN, changed : BOOLEAN]
    BY EffectTyped
  <1>2. effect' \in [Threads -> [documented : BOOLEAN, changed : BOOLEAN]]
    <2>1. CASE effect' = [effect EXCEPT ![t] = Effect(cmd[t], entry, f, r)]
      BY <1>1, <2>1 DEF TypeOK
    <2>2. CASE effect' = effect
      BY <2>2 DEF TypeOK
    <2> QED
      BY <2>1, <2>2 DEF Carry
  <1>3. runs' \in [Threads -> Nat] /\ entry' = f /\ free' = free /\ closed' = closed /\ cmd' = cmd
    BY DEF TypeOK, Carry
  <1>4. CASE pc' = [pc EXCEPT ![t] = "answered"] /\ reply' = [reply EXCEPT ![t] = r]
    BY <1>2, <1>3, <1>4 DEF TypeOK, PCs
  <1>5. CASE pc' = [pc EXCEPT ![t] = "broken"] /\ UNCHANGED reply
    BY <1>2, <1>3, <1>5 DEF TypeOK, PCs
  <1> QED
    BY <1>4, <1>5 DEF Carry

\* What the steps do to everything but Redis' queue and the number of contexts.
Typed == /\ WellFormed(entry)
         /\ closed \in BOOLEAN
         /\ pc \in [Threads -> PCs]
         /\ cmd \in [Threads -> Commands \cup {None}]
         /\ \A t \in Threads : cmd[t] \in IF pc[t] = "idle" THEN {None} ELSE Commands
         /\ reply \in [Threads -> Replies \cup {None}]
         /\ \A t \in Threads : pc[t] = "answered" => reply[t] \in Replies
         /\ runs \in [Threads -> Nat]
         /\ effect \in [Threads -> [documented : BOOLEAN, changed : BOOLEAN]]

LEMMA ReturnTyped ==
    ASSUME IInv, NEW t \in Threads, pc[t] # "idle", Return(t), entry' = entry, closed' = closed
    PROVE  Typed'
  BY DEF Typed, IInv, TypeOK, Return, PCs, NoEffect

LEMMA GotoTyped ==
    ASSUME IInv, NEW t \in Threads, NEW from \in PCs \ {"idle"},
           NEW to \in PCs \ {"idle", "answered"},
           Goto(t, from, to), UNCHANGED <<entry, closed, cmd, reply, runs, effect>>
    PROVE  Typed'
  BY DEF Typed, IInv, TypeOK, Goto, PCs

LEMMA CarriedTyped ==
    ASSUME IInv, NEW t \in Threads, cmd[t] \in Commands, pc[t] \in {"sent", "blocked"},
           NEW f, NEW r, Carry(t, f, r), WellFormed(f), r \in Replies
    PROVE  Typed'
  <1>1. /\ entry' = f /\ closed' = closed /\ cmd' = cmd
        /\ \E to \in {"answered", "broken"} : pc' = [pc EXCEPT ![t] = to]
        /\ pc' \in [Threads -> PCs]
        /\ reply' \in [Threads -> Replies \cup {None}]
        /\ \A u \in Threads : pc'[u] = "answered" => reply'[u] \in Replies
        /\ runs' \in [Threads -> Nat]
        /\ effect' \in [Threads -> [documented : BOOLEAN, changed : BOOLEAN]]
    BY CarryTyped DEF IInv
  <1>2. \A u \in Threads : cmd'[u] \in IF pc'[u] = "idle" THEN {None} ELSE Commands
    BY <1>1 DEF IInv, TypeOK
  <1> QED
    BY <1>1, <1>2 DEF Typed, IInv, TypeOK

LEMMA NextTyped == IInv /\ [Next]_vars => Typed'
  <1> SUFFICES ASSUME IInv, [Next]_vars PROVE Typed'
    OBVIOUS
  <1>1. ASSUME NEW t \in Threads, Call(t) PROVE Typed'
    <2>1. PICK c \in Commands : cmd' = [cmd EXCEPT ![t] = c]
      BY <1>1 DEF Call
    <2>2. pc[t] = "idle" /\ pc' = [pc EXCEPT ![t] = "wait"]
          /\ UNCHANGED <<entry, waiting, free, closed, reply, runs, effect>>
      BY <1>1 DEF Call, Goto
    <2> QED
      BY <2>1, <2>2 DEF Typed, IInv, TypeOK, PCs
  <1>2. ASSUME NEW t \in Threads, NoContext(t) PROVE Typed'
    BY <1>2, ReturnTyped DEF NoContext
  <1>3. ASSUME NEW t \in Threads, GetContext(t) PROVE Typed'
    BY <1>3, GotoTyped DEF GetContext, PCs
  <1>4. ASSUME NEW t \in Threads, TimeOut(t) PROVE Typed'
    <2>1. /\ pc[t] = "blocked" /\ pc' = [pc EXCEPT ![t] = "answered"]
          /\ reply' = [reply EXCEPT ![t] = Nil]
          /\ UNCHANGED <<entry, free, closed, cmd, runs, effect>>
      BY <1>4 DEF TimeOut, Goto
    <2> QED
      BY <2>1, ReplyTyped DEF Typed, IInv, TypeOK, PCs
  <1>5. ASSUME NEW t \in Threads, Release(t) PROVE Typed'
    BY <1>5, ReturnTyped DEF Release
  <1>6. ASSUME NEW t \in Threads, Serve(t) PROVE Typed'
    BY <1>6, Served, CarriedTyped
  <1>7. ASSUME NEW t \in Threads, Execute(t) PROVE Typed'
    <2>1. CASE \E f, r : /\ Carry(t, f, r)
                         /\ WellFormed(f) /\ r \in Replies /\ Told(cmd[t], entry, f, r)
      BY <1>7, <2>1, Executed, CarriedTyped
    <2>2. CASE /\ pc' = [pc EXCEPT ![t] = "blocked"]
               /\ UNCHANGED <<entry, free, closed, cmd, reply, runs, effect>>
      BY <1>7, <2>2, Executed, GotoTyped DEF Goto, PCs
    <2> QED
      BY <1>7, <2>1, <2>2, Executed
  <1>8. ASSUME NEW t \in Threads, Break(t) PROVE Typed'
    BY <1>8, GotoTyped DEF Break, PCs
  <1>9. ASSUME NEW t \in Threads, ExecuteElsewhere(t) PROVE Typed'
    <2>1. pc[t] \in {"sent", "blocked"} /\ cmd[t] \in Commands /\ WellFormed(entry)
      BY <1>9, ServedElsewhere DEF IInv
    <2> QED
      BY <1>9, <2>1, ServedElsewhere, CarriedTyped
  <1>10. CASE Drop
    BY <1>10, AbsentEntry DEF Drop, Typed, IInv, TypeOK
  <1>11. CASE Close
    BY <1>11 DEF Close, Typed, IInv, TypeOK
  <1>12. CASE UNCHANGED vars
    BY <1>12 DEF vars, Typed, IInv, TypeOK
  <1> QED
    BY <1>1, <1>2, <1>3, <1>4, <1>5, <1>6, <1>7, <1>8, <1>9, <1>10, <1>11,
       <1>12
    DEF Next, Proceed, Redis

-----------------------------------------------------------------------------
(* Redis' queue of waiting BRPOPs.                                         *)

LEMMA QueueKept ==
    ASSUME IInv, UNCHANGED waiting,
           \A t \in Threads : (pc'[t] = "blocked") = (pc[t] = "blocked"),
           \A t \in Threads : pc[t] = "blocked" => cmd'[t] = cmd[t]
    PROVE  QueueInv'
  BY DEF IInv, QueueInv

LEMMA QueueLeft ==
    ASSUME IInv, NEW t \in Threads, StopWaiting(t), NEW to \in PCs \ {"blocked"},
           pc' = [pc EXCEPT ![t] = to], UNCHANGED cmd
    PROVE  QueueInv'
  <1>1. PICK i \in 1..Len(waiting) : waiting[i] = t /\ waiting' = RemoveAt(waiting, i)
    BY DEF StopWaiting, IInv, QueueInv
  <1>2. /\ waiting' \in Seq(Threads)
        /\ Len(waiting') = Len(waiting) - 1
        /\ \A j \in 1..(Len(waiting) - 1) :
              waiting'[j] = IF j < i THEN waiting[j] ELSE waiting[j + 1]
    BY <1>1, RemovedAt DEF IInv, QueueInv
  <1>3. \A j \in 1..(Len(waiting) - 1) :
           \E k \in 1..Len(waiting) : /\ k = IF j < i THEN j ELSE j + 1
                                      /\ waiting'[j] = waiting[k] /\ k # i
    BY <1>2
  <1>4. \A k \in 1..Len(waiting) : k # i => waiting[k] # t
    BY <1>1 DEF IInv, QueueInv
  <1>5. DOMAIN waiting' = 1..(Len(waiting) - 1)
    BY <1>2
  <1>6. \A j, k \in DOMAIN waiting' : waiting'[j] = waiting'[k] => j = k
    <2> SUFFICES ASSUME NEW j \in 1..(Len(waiting) - 1), NEW k \in 1..(Len(waiting) - 1),
                        waiting'[j] = waiting'[k]
                 PROVE  j = k
      BY <1>5
    <2>1. PICK jj \in 1..Len(waiting) :
             jj = (IF j < i THEN j ELSE j + 1) /\ waiting'[j] = waiting[jj]
      BY <1>3
    <2>2. PICK kk \in 1..Len(waiting) :
             kk = (IF k < i THEN k ELSE k + 1) /\ waiting'[k] = waiting[kk]
      BY <1>3
    <2>3. jj = kk
      <3>1. jj \in DOMAIN waiting /\ kk \in DOMAIN waiting /\ waiting[jj] = waiting[kk]
        <4>1. DOMAIN waiting = 1..Len(waiting)
          BY LenProperties DEF IInv, QueueInv
        <4> QED
          BY <2>1, <2>2, <4>1
      <3> QED
        BY <3>1, Zenon DEF IInv, QueueInv
    <2> QED
      BY <2>1, <2>2, <2>3
  <1>7. \A j \in DOMAIN waiting' : pc'[waiting'[j]] = "blocked"
    <2> SUFFICES ASSUME NEW j \in 1..(Len(waiting) - 1) PROVE pc'[waiting'[j]] = "blocked"
      BY <1>5
    <2>1. PICK k \in 1..Len(waiting) : waiting'[j] = waiting[k] /\ k # i
      BY <1>3
    <2>2. waiting[k] \in Threads /\ pc[waiting[k]] = "blocked" /\ waiting[k] # t
      BY <1>4, <2>1 DEF IInv, QueueInv
    <2> QED
      BY <2>1, <2>2 DEF IInv, TypeOK
  <1>8. \A u \in Threads : pc'[u] = "blocked" => cmd'[u].op = "BRPop"
    BY DEF IInv, TypeOK, QueueInv
  <1> QED
    BY <1>2, <1>6, <1>7, <1>8 DEF QueueInv

LEMMA QueueServed ==
    ASSUME IInv, NEW t \in Threads, waiting # <<>>, t = Head(waiting), waiting' = Tail(waiting),
           NEW to \in PCs \ {"blocked"}, pc' = [pc EXCEPT ![t] = to], UNCHANGED cmd
    PROVE  QueueInv'
  <1>1. /\ waiting' \in Seq(Threads)
        /\ DOMAIN waiting' = 1..(Len(waiting) - 1)
        /\ \A j \in 1..(Len(waiting) - 1) : waiting'[j] = waiting[j + 1]
        /\ waiting[1] = t
        /\ Len(waiting) \in Nat \ {0} /\ DOMAIN waiting = 1..Len(waiting)
    BY HeadTailProperties DEF IInv, QueueInv
  <1>2. \A j, k \in DOMAIN waiting' : waiting'[j] = waiting'[k] => j = k
    <2> SUFFICES ASSUME NEW j \in 1..(Len(waiting) - 1), NEW k \in 1..(Len(waiting) - 1),
                        waiting'[j] = waiting'[k]
                 PROVE  j = k
      BY <1>1
    <2>1. j + 1 \in DOMAIN waiting /\ k + 1 \in DOMAIN waiting /\ waiting[j + 1] = waiting[k + 1]
      BY <1>1
    <2>2. j + 1 = k + 1
      BY <2>1 DEF IInv, QueueInv
    <2> QED
      BY <1>1, <2>2
  <1>3. \A j \in DOMAIN waiting' : pc'[waiting'[j]] = "blocked"
    <2> SUFFICES ASSUME NEW j \in 1..(Len(waiting) - 1) PROVE pc'[waiting'[j]] = "blocked"
      BY <1>1
    <2>1. j + 1 \in DOMAIN waiting /\ 1 \in DOMAIN waiting /\ j + 1 # 1
      BY <1>1
    <2>2. waiting[j + 1] \in Threads /\ pc[waiting[j + 1]] = "blocked" /\ waiting[j + 1] # t
      BY <1>1, <2>1 DEF IInv, QueueInv
    <2> QED
      BY <1>1, <2>2 DEF IInv, TypeOK
  <1>4. \A u \in Threads : pc'[u] = "blocked" => cmd'[u].op = "BRPop"
    BY DEF IInv, TypeOK, QueueInv
  <1> QED
    BY <1>1, <1>2, <1>3, <1>4 DEF QueueInv

LEMMA QueueJoined ==
    ASSUME IInv, NEW t \in Threads, pc[t] # "blocked", cmd[t].op = "BRPop",
           waiting' = Append(waiting, t), pc' = [pc EXCEPT ![t] = "blocked"], UNCHANGED cmd
    PROVE  QueueInv'
  <1>1. /\ waiting' \in Seq(Threads)
        /\ DOMAIN waiting' = 1..(Len(waiting) + 1)
        /\ \A j \in 1..Len(waiting) : waiting'[j] = waiting[j]
        /\ waiting'[Len(waiting) + 1] = t
        /\ Len(waiting) \in Nat /\ DOMAIN waiting = 1..Len(waiting)
    BY AppendProperties DEF IInv, QueueInv
  <1>2. \A j \in 1..Len(waiting) :
           waiting[j] \in Threads /\ pc[waiting[j]] = "blocked" /\ waiting[j] # t
    BY <1>1 DEF IInv, QueueInv
  <1>3. \A j, k \in DOMAIN waiting' : waiting'[j] = waiting'[k] => j = k
    BY <1>1, <1>2 DEF IInv, QueueInv
  <1>4. \A j \in DOMAIN waiting' : pc'[waiting'[j]] = "blocked"
    BY <1>1, <1>2 DEF IInv, TypeOK
  <1>5. \A u \in Threads : pc'[u] = "blocked" => cmd'[u].op = "BRPop"
    BY DEF IInv, TypeOK, QueueInv
  <1> QED
    BY <1>1, <1>3, <1>4, <1>5 DEF QueueInv

LEMMA CarryPc ==
    ASSUME IInv, NEW t \in Threads, NEW f, NEW r, Carry(t, f, r)
    PROVE  \E to \in {"answered", "broken"} : pc' = [pc EXCEPT ![t] = to] /\ UNCHANGED cmd
  BY DEF Carry

LEMMA NextQueue == IInv /\ [Next]_vars => QueueInv'
  <1> SUFFICES ASSUME IInv, [Next]_vars PROVE QueueInv'
    OBVIOUS
  <1>0. pc \in [Threads -> PCs] /\ cmd \in [Threads -> Commands \cup {None}]
    BY DEF IInv, TypeOK
  <1>1. ASSUME NEW t \in Threads, Call(t) PROVE QueueInv'
    BY <1>0, <1>1, QueueKept DEF Call, Goto
  <1>2. ASSUME NEW t \in Threads, NoContext(t) PROVE QueueInv'
    BY <1>0, <1>2, QueueKept DEF NoContext, Return
  <1>3. ASSUME NEW t \in Threads, GetContext(t) PROVE QueueInv'
    BY <1>0, <1>3, QueueKept DEF GetContext, Goto
  <1>4. ASSUME NEW t \in Threads, TimeOut(t) PROVE QueueInv'
    BY <1>4, QueueLeft DEF TimeOut, Goto, PCs
  <1>5. ASSUME NEW t \in Threads, Release(t) PROVE QueueInv'
    BY <1>0, <1>5, QueueKept DEF Release, Return
  <1>6. ASSUME NEW t \in Threads, Serve(t) PROVE QueueInv'
    BY <1>6, Served, CarryPc, QueueServed DEF PCs
  <1>7. ASSUME NEW t \in Threads, Execute(t) PROVE QueueInv'
    <2>1. ASSUME NEW f, NEW r, Carry(t, f, r), UNCHANGED waiting PROVE QueueInv'
      <3>1. pc[t] = "sent"
        BY <1>7, Executed
      <3>2. PICK to \in {"answered", "broken"} : pc' = [pc EXCEPT ![t] = to] /\ UNCHANGED cmd
        BY <2>1, CarryPc
      <3> QED
        BY <1>0, <2>1, <3>1, <3>2, QueueKept
    <2>2. CASE /\ cmd[t].op = "BRPop"
               /\ waiting' = Append(waiting, t)
               /\ pc' = [pc EXCEPT ![t] = "blocked"]
               /\ UNCHANGED <<entry, free, closed, cmd, reply, runs, effect>>
      BY <1>7, <2>2, Executed, QueueJoined
    <2> QED
      BY <1>7, <2>1, <2>2, Executed
  <1>8. ASSUME NEW t \in Threads, Break(t) PROVE QueueInv'
    <2>1. CASE Goto(t, "sent", "broken") /\ UNCHANGED <<waiting, cmd>>
      BY <1>0, <2>1, QueueKept DEF Goto
    <2>2. CASE Goto(t, "blocked", "broken") /\ StopWaiting(t) /\ UNCHANGED cmd
      BY <2>2, QueueLeft DEF Goto, PCs
    <2> QED
      BY <1>8, <2>1, <2>2 DEF Break
  <1>9. ASSUME NEW t \in Threads, ExecuteElsewhere(t) PROVE QueueInv'
    <2>1. PICK r \in Replies : Carry(t, entry, r)
      BY <1>9, ServedElsewhere
    <2>2. PICK to \in {"answered", "broken"} : pc' = [pc EXCEPT ![t] = to] /\ UNCHANGED cmd
      BY <2>1, CarryPc
    <2>3. CASE pc[t] = "sent" /\ UNCHANGED waiting
      BY <1>0, <2>2, <2>3, QueueKept
    <2>4. CASE pc[t] = "blocked" /\ StopWaiting(t)
      BY <2>2, <2>4, QueueLeft DEF PCs
    <2> QED
      BY <1>9, <2>3, <2>4, ServedElsewhere
  <1>10. CASE Drop
    BY <1>10, QueueKept DEF Drop
  <1>11. CASE Close
    BY <1>11, QueueKept DEF Close
  <1>12. CASE UNCHANGED vars
    BY <1>12, QueueKept DEF vars
  <1> QED
    BY <1>1, <1>2, <1>3, <1>4, <1>5, <1>6, <1>7, <1>8, <1>9, <1>10, <1>11,
       <1>12
    DEF Next, Proceed, Redis

-----------------------------------------------------------------------------
(* The contexts in the pool and on loan.                                   *)

LEMMA HoldersFinite == IsFiniteSet(Holders) /\ Cardinality(Holders) \in Nat
  <1>1. Holders \subseteq Threads
    BY DEF Holders
  <1> QED
    BY <1>1, FS_Subset, FS_CardinalityType, ConstantsAssumption

LEMMA Taken ==
    ASSUME IInv, NEW t \in Threads, pc[t] = "wait", pc' = [pc EXCEPT ![t] = "sent"]
    PROVE  Cardinality(Holders') = Cardinality(Holders) + 1
  <1>1. Holders' = Holders \cup {t} /\ t \notin Holders
    BY DEF Holders, Holds, IInv, TypeOK
  <1> QED
    BY <1>1, HoldersFinite, FS_AddElement

LEMMA Returned ==
    ASSUME IInv, NEW t \in Threads, Holds(t), Return(t)
    PROVE  Cardinality(Holders') = Cardinality(Holders) - 1
  <1>1. Holders' = Holders \ {t} /\ t \in Holders
    BY DEF Holders, Holds, Return, IInv, TypeOK
  <1> QED
    BY <1>1, HoldersFinite, FS_RemoveElement

LEMMA HoldersKept ==
    ASSUME IInv, \A t \in Threads : Holds(t)' = Holds(t), UNCHANGED <<free, closed>>
    PROVE  ContextInv'
  <1>1. Holders' = Holders
    BY DEF Holders
  <1> QED
    BY <1>1 DEF IInv, ContextInv

LEMMA NextContexts == IInv /\ [Next]_vars => ContextInv'
  <1> SUFFICES ASSUME IInv, [Next]_vars PROVE ContextInv'
    OBVIOUS
  <1>0. pc \in [Threads -> PCs] /\ free \in Nat /\ closed \in BOOLEAN
    BY ConstantsAssumption DEF IInv, TypeOK
  <1>1. ASSUME NEW t \in Threads, Call(t) PROVE ContextInv'
    BY <1>0, <1>1, HoldersKept DEF Call, Goto, Holds
  <1>2. ASSUME NEW t \in Threads, NoContext(t) PROVE ContextInv'
    BY <1>0, <1>2, HoldersKept DEF NoContext, Return, Holds
  <1>3. ASSUME NEW t \in Threads, GetContext(t) PROVE ContextInv'
    <2>1. Cardinality(Holders') = Cardinality(Holders) + 1
      BY <1>3, Taken DEF GetContext, Goto
    <2> QED
      BY <1>0, <1>3, <2>1, HoldersFinite, ConstantsAssumption DEF GetContext, IInv, ContextInv
  <1>4. ASSUME NEW t \in Threads, TimeOut(t) PROVE ContextInv'
    BY <1>0, <1>4, HoldersKept DEF TimeOut, Goto, Holds
  <1>5. ASSUME NEW t \in Threads, Release(t) PROVE ContextInv'
    <2>1. Cardinality(Holders') = Cardinality(Holders) - 1
      BY <1>5, Returned DEF Release, Holds
    <2>2. closed' = closed /\ free' \in IF closed THEN {free} ELSE {free, free + 1}
      BY <1>5 DEF Release
    <2> QED
      BY <1>0, <2>1, <2>2, HoldersFinite, ConstantsAssumption DEF IInv, ContextInv
  <1>6. ASSUME NEW t \in Threads, Serve(t) PROVE ContextInv'
    <2>1. UNCHANGED <<free, closed>>
      BY <1>6 DEF Serve, Carry
    <2> QED
      BY <1>0, <1>6, <2>1, Served, CarryPc, HoldersKept DEF Holds
  <1>7. ASSUME NEW t \in Threads, Execute(t) PROVE ContextInv'
    <2>1. ASSUME NEW f, NEW r, Carry(t, f, r) PROVE ContextInv'
      <3>1. UNCHANGED <<free, closed>>
        BY <2>1 DEF Carry
      <3> QED
        BY <1>0, <1>7, <2>1, <3>1, Executed, CarryPc, HoldersKept DEF Holds
    <2>2. CASE /\ pc' = [pc EXCEPT ![t] = "blocked"]
               /\ UNCHANGED <<entry, free, closed, cmd, reply, runs, effect>>
      BY <1>0, <1>7, <2>2, Executed, HoldersKept DEF Holds
    <2> QED
      BY <1>7, <2>1, <2>2, Executed
  <1>8. ASSUME NEW t \in Threads, Break(t) PROVE ContextInv'
    BY <1>0, <1>8, HoldersKept DEF Break, Goto, Holds
  <1>9. ASSUME NEW t \in Threads, ExecuteElsewhere(t) PROVE ContextInv'
    <2>1. PICK r \in Replies : Carry(t, entry, r)
      BY <1>9, ServedElsewhere
    <2>2. UNCHANGED <<free, closed>>
      BY <2>1 DEF Carry
    <2>3. pc[t] \in {"sent", "blocked"}
      BY <1>9, ServedElsewhere
    <2> QED
      BY <1>0, <2>1, <2>2, <2>3, CarryPc, HoldersKept DEF Holds
  <1>10. CASE Drop
    BY <1>10, HoldersKept DEF Drop, Holds
  <1>11. CASE Close
    BY <1>11 DEF Close, ContextInv
  <1>12. CASE UNCHANGED vars
    BY <1>12, HoldersKept DEF vars, Holds
  <1> QED
    BY <1>1, <1>2, <1>3, <1>4, <1>5, <1>6, <1>7, <1>8, <1>9, <1>10, <1>11,
       <1>12
    DEF Next, Proceed, Redis

-----------------------------------------------------------------------------
(* What has come of the commands.                                          *)

Resting == {"idle", "wait", "sent", "blocked"}

\* The part of HistoryInv about one thread.
History(t) == /\ pc[t] \in Resting => runs[t] = 0 /\ effect[t] = NoEffect
              /\ runs[t] <= 1
              /\ pc[t] = "answered" /\ Plain(cmd[t]) =>
                    IF Converted(cmd[t], reply[t]).ok
                    THEN runs[t] = 1 /\ effect[t].documented
                    ELSE ~effect[t].changed

LEMMA HistoryOf == HistoryInv <=> \A t \in Threads : History(t)
  BY DEF HistoryInv, History, AnswersTruthful, Resting

LEMMA OthersHistory ==
    ASSUME IInv, NEW t \in Threads, History(t)',
           \A u \in Threads \ {t} : /\ pc'[u] = pc[u] /\ cmd'[u] = cmd[u] /\ reply'[u] = reply[u]
                                    /\ runs'[u] = runs[u] /\ effect'[u] = effect[u]
    PROVE  HistoryInv'
  <1>1. ASSUME NEW u \in Threads, u # t PROVE History(u)'
    BY <1>1, HistoryOf DEF IInv, History
  <1>2. \A u \in Threads : History(u)'
    BY <1>1
  <1> QED
    BY <1>2 DEF History, HistoryInv, AnswersTruthful, Resting

LEMMA RestingHistory ==
    ASSUME IInv, NEW t \in Threads, pc[t] \in Resting, NEW to \in Resting \cup {"broken"},
           pc' = [pc EXCEPT ![t] = to], UNCHANGED <<reply, runs, effect>>,
           \A u \in Threads \ {t} : cmd'[u] = cmd[u]
    PROVE  HistoryInv'
  <1>1. History(t)'
    BY HistoryOf DEF IInv, TypeOK, History, Resting
  <1> QED
    BY <1>1, OthersHistory DEF IInv, TypeOK

LEMMA ReturnHistory ==
    ASSUME IInv, NEW t \in Threads, Return(t)
    PROVE  HistoryInv'
  <1>1. History(t)'
    BY DEF IInv, TypeOK, History, Return, Resting, NoEffect
  <1> QED
    BY <1>1, OthersHistory DEF IInv, TypeOK, Return

LEMMA CarryHistory ==
    ASSUME IInv, NEW t \in Threads, pc[t] \in {"sent", "blocked"}, cmd[t] \in Commands,
           NEW f, NEW r, Carry(t, f, r), Told(cmd[t], entry, f, r)
    PROVE  HistoryInv'
  <1>1. /\ runs'[t] = 1 /\ cmd'[t] = cmd[t]
    <2>1. runs[t] = 0
      BY HistoryOf DEF IInv, History, Resting
    <2>2. runs' = [runs EXCEPT ![t] = runs[t] + 1] /\ cmd' = cmd
      BY DEF Carry
    <2> QED
      BY <2>1, <2>2 DEF IInv, TypeOK
  <1>2. CASE /\ pc' = [pc EXCEPT ![t] = "answered"] /\ reply' = [reply EXCEPT ![t] = r]
             /\ effect' = [effect EXCEPT ![t] = Effect(cmd[t], entry, f, r)]
    <2>1. pc'[t] = "answered" /\ reply'[t] = r /\ effect'[t] = Effect(cmd[t], entry, f, r)
      BY <1>2 DEF IInv, TypeOK
    <2>2. Plain(cmd[t]) =>
             /\ Documented(cmd[t], entry, f, Converted(cmd[t], r).value) => effect'[t].documented
             /\ f = entry => ~effect'[t].changed
      <3>1. /\ effect'[t].documented
                   = (Plain(cmd[t]) /\ Documented(cmd[t], entry, f, Converted(cmd[t], r).value))
            /\ effect'[t].changed = (Plain(cmd[t]) /\ f # entry)
        BY <2>1 DEF Effect
      <3>2. Documented(cmd[t], entry, f, Converted(cmd[t], r).value) \in BOOLEAN
        BY DocumentedBoolean
      <3> QED
        BY <3>1, <3>2, Zenon
    <2>3. History(t)'
      <3>1. CASE ~Plain(cmd[t])
        BY <1>1, <2>1, <3>1 DEF History, Resting
      <3>2. CASE Plain(cmd[t]) /\ Converted(cmd[t], r).ok
        BY <1>1, <2>1, <2>2, <3>2 DEF History, Resting, Told
      <3>3. CASE Plain(cmd[t]) /\ ~Converted(cmd[t], r).ok
        BY <1>1, <2>1, <2>2, <3>3 DEF History, Resting, Told
      <3> QED
        BY <3>1, <3>2, <3>3
    <2> QED
      BY <1>2, <2>3, OthersHistory DEF IInv, TypeOK, Carry
  <1>3. CASE pc' = [pc EXCEPT ![t] = "broken"] /\ UNCHANGED <<reply, effect>>
    <2>1. History(t)'
      BY <1>1, <1>3 DEF IInv, TypeOK, History, Resting
    <2> QED
      BY <1>3, <2>1, OthersHistory DEF IInv, TypeOK, Carry
  <1> QED
    BY <1>2, <1>3 DEF Carry

LEMMA NextHistory == IInv /\ [Next]_vars => HistoryInv'
  <1> SUFFICES ASSUME IInv, [Next]_vars PROVE HistoryInv'
    OBVIOUS
  <1>1. ASSUME NEW t \in Threads, Call(t) PROVE HistoryInv'
    <2>1. \A u \in Threads \ {t} : cmd'[u] = cmd[u]
      BY <1>1 DEF Call, IInv, TypeOK
    <2> QED
      BY <1>1, <2>1, RestingHistory DEF Call, Goto, Resting
  <1>2. ASSUME NEW t \in Threads, NoContext(t) PROVE HistoryInv'
    BY <1>2, ReturnHistory DEF NoContext
  <1>3. ASSUME NEW t \in Threads, GetContext(t) PROVE HistoryInv'
    BY <1>3, RestingHistory DEF GetContext, Goto, Resting
  <1>4. ASSUME NEW t \in Threads, TimeOut(t) PROVE HistoryInv'
    <2>1. /\ pc[t] = "blocked" /\ pc' = [pc EXCEPT ![t] = "answered"]
          /\ reply' = [reply EXCEPT ![t] = Nil]
          /\ UNCHANGED <<cmd, runs, effect>>
      BY <1>4 DEF TimeOut, Goto
    <2>2. cmd[t] \in Commands /\ cmd[t].op = "BRPop"
      BY <2>1 DEF IInv, TypeOK, QueueInv
    <2>3. runs[t] = 0 /\ ~effect[t].changed
      BY <2>1, HistoryOf DEF IInv, History, Resting, NoEffect
    <2>4. /\ pc'[t] = "answered" /\ reply'[t] = Nil /\ cmd'[t] = cmd[t] /\ runs'[t] = 0
          /\ ~effect'[t].changed
      BY <2>1, <2>3 DEF IInv, TypeOK
    <2>5. History(t)'
      <3>1. ~Converted(cmd'[t], reply'[t]).ok
        BY <2>2, <2>4, TimeOutTold
      <3> QED
        BY <2>4, <3>1 DEF History, Resting
    <2> QED
      BY <2>1, <2>5, OthersHistory DEF IInv, TypeOK
  <1>5. ASSUME NEW t \in Threads, Release(t) PROVE HistoryInv'
    BY <1>5, ReturnHistory DEF Release
  <1>6. ASSUME NEW t \in Threads, Serve(t) PROVE HistoryInv'
    BY <1>6, Served, CarryHistory
  <1>7. ASSUME NEW t \in Threads, Execute(t) PROVE HistoryInv'
    <2>1. ASSUME NEW f, NEW r, Carry(t, f, r), Told(cmd[t], entry, f, r) PROVE HistoryInv'
      BY <1>7, <2>1, Executed, CarryHistory
    <2>2. CASE /\ pc' = [pc EXCEPT ![t] = "blocked"]
               /\ UNCHANGED <<entry, free, closed, cmd, reply, runs, effect>>
      BY <1>7, <2>2, Executed, RestingHistory DEF Resting
    <2> QED
      BY <1>7, <2>1, <2>2, Executed
  <1>8. ASSUME NEW t \in Threads, Break(t) PROVE HistoryInv'
    BY <1>8, RestingHistory DEF Break, Goto, Resting
  <1>9. ASSUME NEW t \in Threads, ExecuteElsewhere(t) PROVE HistoryInv'
    BY <1>9, ServedElsewhere, CarryHistory
  <1>10. CASE Drop
    BY <1>10 DEF Drop, IInv, HistoryInv, AnswersTruthful
  <1>11. CASE Close
    BY <1>11 DEF Close, IInv, HistoryInv, AnswersTruthful
  <1>12. CASE UNCHANGED vars
    BY <1>12 DEF vars, IInv, HistoryInv, AnswersTruthful
  <1> QED
    BY <1>1, <1>2, <1>3, <1>4, <1>5, <1>6, <1>7, <1>8, <1>9, <1>10, <1>11,
       <1>12
    DEF Next, Proceed, Redis

-----------------------------------------------------------------------------
LEMMA NextIInv == IInv /\ [Next]_vars => IInv'
  <1> SUFFICES ASSUME IInv, [Next]_vars PROVE IInv'
    OBVIOUS
  <1>1. Typed' /\ QueueInv' /\ ContextInv' /\ HistoryInv'
    BY NextTyped, NextQueue, NextContexts, NextHistory
  <1>2. free' \in 0..Contexts
    <2>1. Cardinality(Holders)' \in Nat
      <3>1. Holders' \subseteq Threads
        BY DEF Holders
      <3> QED
        BY <3>1, FS_Subset, FS_CardinalityType, ConstantsAssumption
    <2> QED
      BY <1>1, <2>1, ConstantsAssumption DEF ContextInv
  <1>3. /\ entry'.type \in {"none", "string", "list", "hash"}
        /\ entry'.val \in Seq(Elements)
        /\ DOMAIN entry'.fields \subseteq Elements
        /\ \A f \in DOMAIN entry'.fields : entry'.fields[f] \in Elements
        /\ entry'.type = "none" <=> entry' = Absent
        /\ entry'.type \in {"string", "list"} <=> entry'.val # <<>>
        /\ entry'.type = "hash" <=> DOMAIN entry'.fields # {}
    <2>1. WellFormed(entry')
      BY <1>1 DEF Typed, WellFormed
    <2> QED
      BY <2>1, EntryParts, HashParts DEF Types
  <1>4. \A i \in DOMAIN waiting' : pc'[waiting'[i]] = "blocked" /\ cmd'[waiting'[i]].op = "BRPop"
    BY <1>1 DEF QueueInv
  <1>5. TypeOK'
    BY <1>1, <1>2, <1>3, <1>4 DEF Typed, TypeOK
  <1> QED
    BY <1>1, <1>5 DEF Typed, IInv

\* Redis' queue, the contexts and the history of the commands are consistent in every state
\* of RedisMgr.
THEOREM Inductive == Spec => []IInv
  BY InitIInv, NextIInv, PTL DEF Spec

\* Type correctness; above all, the pool never has more contexts than it started with.
THEOREM TypeCorrect == Spec => []TypeOK
  BY Inductive, PTL DEF IInv

\* What a function of RedisMgr returns is true of what Redis has done, if each argument was one
\* word: true means that it carried the command out once and as redismgr.h says; false after a
\* reply means that it changed nothing.  No command, with blanks or not, is carried out twice.
THEOREM Answers == Spec => []AnswersTruthful
  BY Inductive, PTL DEF IInv, HistoryInv
===============================================================================

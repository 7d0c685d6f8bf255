------------------------------ MODULE Messages ------------------------------
(***************************************************************************)
(* The messages of the two gRPC services, as protoc has generated them     *)
(* (message.pb.h, message.pb.cc).  The six classes are one program over    *)
(* different fields, and so is their model: a class is the sequence of the *)
(* types of its fields, whose positions are the field numbers.  Beside the *)
(* values an object has a bit for each field, _has_bits_, by which Clear,  *)
(* MergeImpl, _InternalSerialize and ByteSizeLong skip fields.  An int32   *)
(* is a TLA+ integer, a string and what goes over the wire are sequences   *)
(* of bytes.  The parser is the library's (TcParser), driven by _table_.   *)
(***************************************************************************)
EXTENDS Integers, SequencesExt

GetVerifyReq     == <<"string">>                                \* email
GetVerifyRsp     == <<"int32", "string", "string">>             \* error, email, code
GetChatServerReq == <<"int32">>                                 \* uid
GetChatServerRsp == <<"int32", "string", "string", "string">>   \* error, host, port, token
LoginReq         == <<"int32", "string">>                       \* uid, token
LoginRsp         == <<"int32", "int32", "string">>              \* error, uid, token

Default(type) == IF type = "int32" THEN 0 ELSE <<>>

\* The constructor.
New(class) == [class |-> class, value |-> [i \in DOMAIN class |-> Default(class[i])],
               has |-> {}, unknown |-> <<>>]

\* set_uid, set_token and so on.
Set(m, i, v) == [m EXCEPT !.value[i] = v, !.has = @ \cup {i}]

IsDefault(m, i) == m.value[i] = Default(m.class[i])

\* Clear leaves a string alone whose bit is not set.  (So does LoginRsp with its two int32, if
\* neither has its bit; those are 0 then, and setting them to 0 is the same.)
Clear(m) ==
    [New(m.class) EXCEPT !.value = [i \in DOMAIN m.class |->
        IF m.class[i] = "string" /\ i \notin m.has THEN m.value[i] ELSE @[i]]]

\* Mutant of MergeFrom: the bits are not merged.
MergeFromBitless(to, from) ==
    [to EXCEPT !.value = [i \in DOMAIN from.class |->
                             IF i \in from.has /\ ~IsDefault(from, i) THEN from.value[i] ELSE @[i]],
               !.unknown = @ \o from.unknown]

MergeFrom(to, from) ==
    [to EXCEPT !.value = [i \in DOMAIN from.class |->
                             IF i \in from.has /\ ~IsDefault(from, i) THEN from.value[i] ELSE @[i]],
               !.has = @ \cup from.has,
               !.unknown = @ \o from.unknown]

CopyFrom(to, from) == MergeFrom(Clear(to), from)

-----------------------------------------------------------------------------
(* The wire format of the library.                                         *)

\* A varint has seven bits to a byte, the low ones first, and all bytes but the last have the
\* high bit set.  A negative int32 is extended to 64 bits.
VarintSize(n) == CASE n < 0 -> 10
                   [] n >= 0 /\ n < 128 -> 1
                   [] n >= 128 /\ n < 16384 -> 2
                   [] n >= 16384 /\ n < 2097152 -> 3
                   [] n >= 2097152 /\ n < 268435456 -> 4
                   [] n >= 268435456 -> 5
Varint(n) ==
    LET group(k) == CASE k <= 5 -> (n \div 128^(k - 1)) % 128 [] k = 10 -> 1 [] OTHER -> 127
    IN  [k \in 1..VarintSize(n) |-> IF k = VarintSize(n) THEN group(k) ELSE 128 + group(k)]

\* The bytes of the varint at the head of s, and the int32 they stand for.
Leading(s) == SubSeq(s, 1, CHOOSE n \in DOMAIN s : s[n] < 128 /\ \A k \in 1..(n - 1) : s[k] >= 128)
Int32(s) ==
    LET group(k) == IF k > Len(Leading(s)) THEN 0 ELSE s[k] % 128
        high == group(5) % 16
    IN  group(1) + 128 * group(2) + 16384 * group(3) + 2097152 * group(4)
        + (IF high >= 8 THEN high - 16 ELSE high) * 268435456

\* WriteInt32ToArrayWithField and WriteStringMaybeAliased, Int32SizePlusOne and StringSize.
WriteField(i, type, v) == IF type = "int32" THEN Varint(8 * i) \o Varint(v)
                                            ELSE Varint(8 * i + 2) \o Varint(Len(v)) \o v
FieldSize(type, v) == IF type = "int32" THEN 1 + VarintSize(v)
                                        ELSE 1 + VarintSize(Len(v)) + Len(v)

\* The field at the head of s.
Field(s) ==
    LET tag == Leading(s)
        body == SubSeq(s, Len(tag) + 1, Len(s))
        type == IF Int32(tag) % 8 = 0 THEN "int32" ELSE "string"
        start == Len(Leading(body)) + 1
        stop == Len(Leading(body)) + Int32(body)
        all == Len(tag) + IF type = "int32" THEN start - 1 ELSE stop
    IN  [num |-> Int32(tag) \div 8, type |-> type,
         v |-> IF type = "int32" THEN Int32(body) ELSE SubSeq(body, start, stop),
         bytes |-> SubSeq(s, 1, all)]

\* The fields in s, one after the other.
Fields(s) ==
    LET fields[pos \in 1..(Len(s) + 1)] ==
            IF pos > Len(s) THEN <<>>
            ELSE LET first == Field(SubSeq(s, pos, Len(s)))
                 IN  <<first>> \o fields[pos + Len(first.bytes)]
    IN  fields[1]

-----------------------------------------------------------------------------
\* An object writes the fields whose bit is set, except those with the default value.
Written(m) == {i \in m.has : ~IsDefault(m, i)}

InternalSerialize(m) ==
    FlattenSeq([i \in DOMAIN m.class |->
        IF i \in Written(m) THEN WriteField(i, m.class[i], m.value[i]) ELSE <<>>]) \o m.unknown

\* The size of the buffer for it.
ByteSizeLong(m) ==
    FoldLeft(+, Len(m.unknown), [i \in DOMAIN m.class |->
        IF i \in Written(m) THEN FieldSize(m.class[i], m.value[i]) ELSE 0])

\* The parser sets the fields of _table_; one that it does not find there, or with another
\* type, it keeps with the unknown fields.  Not modelled: it refuses a string that is not
\* UTF-8; those here are ASCII.
MergeFromString(m, s) ==
    FoldLeft(LAMBDA to, f : IF f.num \in DOMAIN to.class /\ to.class[f.num] = f.type
                            THEN Set(to, f.num, f.v)
                            ELSE [to EXCEPT !.unknown = @ \o f.bytes],
             m, Fields(s))

\* BlockingUnaryCall: what the client's response object holds after the server has answered
\* with reply; and the request as the server's object receives it.
Received(m) == MergeFromString(New(m.class), InternalSerialize(m))

-----------------------------------------------------------------------------
(* What can be said of them.                                               *)

Classes == {GetVerifyReq, GetVerifyRsp, GetChatServerReq, GetChatServerRsp, LoginReq, LoginRsp}

\* A value that has its bit set, or is the default: CheckHasBitConsistency.
Consistent(m) == \A i \in DOMAIN m.class : i \in m.has \/ IsDefault(m, i)

Same(m, n) == m.value = n.value /\ m.unknown = n.unknown

\* The objects that setters make of a new one.
Objects(class, ints, strings) ==
    FoldLeft(LAMBDA made, i :
                made \cup {Set(m, i, v) : m \in made,
                                         v \in IF class[i] = "int32" THEN ints ELSE strings},
             {New(class)}, [i \in DOMAIN class |-> i])

\* The other side reads what was set, negative numbers and default values included, and the
\* buffer has the size of what is written into it.
Arrives(class) ==
    \A m \in Objects(class, {0, 1, 1002, -1, 2147483647, -2147483647 - 1},
                     {<<>>, <<97>>, [k \in 1..128 |-> 97]}) :
        /\ Len(InternalSerialize(m)) = ByteSizeLong(m)
        /\ Same(Received(m), m)

\* Objects that are used again: they merge and copy as their messages do, and every field
\* that then has a value also has its bit, without which it would not be sent.
Merges(class) ==
    \A to, from \in Objects(class, {0, -1}, {<<>>, <<97>>}) :
        /\ Same(MergeFrom(to, from), MergeFromString(to, InternalSerialize(from)))
        /\ Same(CopyFrom(to, from), from)
        /\ Consistent(MergeFrom(to, from))
        /\ Consistent(CopyFrom(to, from))

\* A field that only a later version of the class has passes through an object of this one.
PassesOn(class) ==
    LET Later == class \o <<"string">>
    IN  \A m \in Objects(Later, {0, -1}, {<<>>, <<97>>}) :
            LET here == MergeFromString(New(class), InternalSerialize(m))
            IN  Same(MergeFromString(New(Later), InternalSerialize(CopyFrom(New(class), here))), m)

MessagesCarry == \A class \in Classes : Arrives(class) /\ Merges(class) /\ PassesOn(class)
=============================================================================

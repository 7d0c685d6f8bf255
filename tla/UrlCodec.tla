------------------------------ MODULE UrlCodec ------------------------------
(***************************************************************************)
(* The parameters of a GET request: urlDecode and PreParseGetParam         *)
(* (httpconnection.cc), which fill m_get_param from the target of the      *)
(* request.  A string is a sequence of bytes.                              *)
(***************************************************************************)
EXTENDS Integers, SequencesExt

Space == 32
Percent == 37
Ampersand == 38
Plus == 43
Equal == 61
Question == 63

\* The digits and all letters, not only those up to F.
fromHex(x) == CASE x \in 65..90 -> x - 65 + 10
                [] x \in 97..122 -> x - 97 + 10
                [] x \in 48..57 -> x - 48
                [] OTHER -> 0

\* A '%' among the last two characters ends the string.
urlDecode(str) ==
    LET decode[i \in 1..(Len(str) + 3)] ==
            IF i > Len(str) THEN <<>>
            ELSE IF str[i] = Plus THEN <<Space>> \o decode[i + 1]
            ELSE IF str[i] # Percent THEN <<str[i]>> \o decode[i + 1]
            ELSE IF i + 2 > Len(str) THEN <<>>
            ELSE <<(fromHex(str[i + 1]) * 16 + fromHex(str[i + 2])) % 256>> \o decode[i + 3]
    IN  decode[1]

\* The position of the first b in str at or after pos, or the one after the last.
find(str, b, pos) == CHOOSE i \in pos..(Len(str) + 1) :
                        /\ i <= Len(str) => str[i] = b
                        /\ \A j \in pos..(i - 1) : str[j] # b

\* m_get_param with key set to value, and the empty map.
Assign(param, key, value) == [k \in DOMAIN param \cup {key} |->
                                 IF k = key THEN value ELSE param[k]]
NoParam == [k \in {} |-> <<>>]

\* The pairs of a query, each a key, up to the next '=', and a value, up to the next '&';
\* what follows the last pair is ignored.
Pairs(query) ==
    LET pairs[pos \in 1..(Len(query) + 2)] ==
            LET equalPos == find(query, Equal, pos)
                ampPos == find(query, Ampersand, equalPos + 1)
            IN  IF pos > Len(query) \/ equalPos > Len(query) THEN <<>>
                ELSE << <<SubSeq(query, pos, equalPos - 1),
                          SubSeq(query, equalPos + 1, ampPos - 1)>> >> \o pairs[ampPos + 1]
    IN  pairs[1]

\* The target before its first '?', by which the handler is looked up, and after it.
m_get_url(uri) == SubSeq(uri, 1, find(uri, Question, 1) - 1)
Query(uri) == SubSeq(uri, find(uri, Question, 1) + 1, Len(uri))

\* Mutant of PreParseGetParam: the query is decoded before it is split.
PreParseGetParamDecoded(uri) ==
    FoldLeft(LAMBDA param, p : Assign(param, p[1], p[2]), NoParam,
             Pairs(urlDecode(Query(uri))))

\* m_get_param for the target uri.
PreParseGetParam(uri) ==
    FoldLeft(LAMBDA param, p : Assign(param, urlDecode(p[1]), urlDecode(p[2])), NoParam,
             Pairs(Query(uri)))

-----------------------------------------------------------------------------
(* What clients send: a form encodes a key or a value by leaving letters,  *)
(* writing '+' for a blank and '%' with two hexadecimal digits for the rest. *)

Letter == 97
Slash == 47
Bytes == {Letter, Space, Percent, Ampersand, Plus, Equal, Question, 255}
Hex(n, letters) == IF n < 10 THEN 48 + n ELSE letters + n - 10
Escaped(b, letters) == <<Percent, Hex(b \div 16, letters), Hex(b % 16, letters)>>
\* Encodings with upper case digits, with lower case digits, and with everything escaped.
Encoders == {"upper", "lower", "all"}
Encode(str, encoder) ==
    FlattenSeq([i \in DOMAIN str |->
        IF encoder = "all" THEN Escaped(str[i], 65)
        ELSE IF str[i] = Letter THEN <<Letter>>
        ELSE IF str[i] = Space THEN <<Plus>>
        ELSE Escaped(str[i], IF encoder = "upper" THEN 65 ELSE 97)])

Strings(bytes, n) == UNION {[1..k -> bytes] : k \in 0..n}

Target(query) == <<Slash, Question>> \o query
Joined(first, second) == first \o <<Ampersand>> \o second
Segment(key, value) == key \o <<Equal>> \o value

\* Every key and every value arrives, the last value of a key counts, and no '?' of theirs
\* is taken for that of the target.
FormsRead ==
    \A e \in Encoders :
        /\ \A v \in Strings(Bytes, 2) :
              /\ m_get_url(Target(Segment(v, Encode(v, e)))) = <<Slash>>
              /\ m_get_url(<<Slash>> \o Encode(v, e)) = <<Slash>> \o Encode(v, e)
        /\ \A k \in Strings(Bytes, 1), v \in Strings(Bytes, 2) :
              PreParseGetParam(Target(Segment(Encode(k, e), Encode(v, e))))
                = Assign(NoParam, k, v)
        /\ \A k1, v1, k2, v2 \in Strings({Letter, Percent, Ampersand, Equal}, 1) :
              PreParseGetParam(Target(Joined(Segment(Encode(k1, e), Encode(v1, e)),
                                             Segment(Encode(k2, e), Encode(v2, e)))))
                = Assign(Assign(NoParam, k1, v1), k2, v2)

\* Whatever the key and the value of a segment look like, an empty or cut escape among them,
\* they do not change what the segments beside it mean, as long as each has its '='.
Raw == Strings({Letter, Percent, Plus}, 2)
Parse(query) == PreParseGetParam(Target(query))
Merged(p, q) == [k \in DOMAIN p \cup DOMAIN q |-> IF k \in DOMAIN q THEN q[k] ELSE p[k]]
SegmentsApart ==
    \A k \in Strings({Letter, Percent}, 1), v, w \in Raw :
        LET one == Segment(k, v)
            two == Segment(<<Letter>>, w)
        IN  /\ Parse(Joined(one, two)) = Merged(Parse(one), Parse(two))
            /\ Parse(Joined(two, one)) = Merged(Parse(two), Parse(one))

\* A segment without '=' is dropped if it is the last.  Before another one it is taken for
\* the beginning of that one's key, '&' included: of flag&a=1 the handler gets a parameter
\* flag&a, and a is lost.  The segments before and after these two are not affected.
FlagsMisread ==
    \A k \in Strings({Letter, Percent}, 1), v \in Raw, flag \in Raw :
        LET one == Segment(k, v)
            misread == Assign(NoParam, urlDecode(Joined(flag, k)), urlDecode(v))
        IN  /\ Parse(Joined(one, flag)) = Parse(one)
            /\ Parse(Joined(flag, one)) = misread
            /\ Parse(Joined(one, Joined(flag, one))) = Merged(Parse(one), misread)
            /\ Parse(Joined(Joined(flag, one), one)) = Merged(misread, Parse(one))

ParametersRead == FormsRead /\ SegmentsApart /\ FlagsMisread
=============================================================================

-------------------------------- MODULE Json --------------------------------
(***************************************************************************)
(* decode.c and encode.c on the values of value.c: a text is decoded, what *)
(* comes out is encoded again, and released.  Both are automata that keep  *)
(* their place in a stack of values.  Values are counted, and freed with   *)
(* all they hold.  A text is a sequence of tokens without white space; it  *)
(* is made up as the decoder looks at it.  What is in a string is module   *)
(* Utf8; an object is the function that module Map makes of its hash table.*)
(***************************************************************************)
EXTENDS Utf8, SequencesExt

CONSTANTS Keys,        \* strings, in the order of value_object_keys_compare()
          Numbers,     \* numbers that value_decode_number() accepts
          MaxTokens,   \* bound: length of a text
          Characters,  \* characters to put into strings
          Bytes, Continuations   \* first bytes of characters, and others

ASSUME JsonAssumption == MaxTokens \in Nat /\ Keys \in Seq(STRING)

Strings == {Keys[i] : i \in DOMAIN Keys}
\* What begins like a number and value_decode_number() rejects: what is none, and
\* also a number whose exponent has a leading zero, such as 1e09, which is JSON
Malformed == "-"
EndOfText == ""
Tokens == Strings \cup Numbers \cup {"null", Malformed, "[", "]", "{", "}", ",", ":"}

VARIABLES
  state,    \* of value_decode(), then of value_buffer_encode()
  text,     \* what the decoder has read
  next,     \* the token that it looks at, if it has looked
  value,    \* the local variable of both
  stack,    \* the stack of the decoder: values
  result,   \* what value_decode() returned to the client
  heap,     \* all values
  contexts, \* the stack of the encoder
  output,   \* what was encoded
  sample    \* what the operators of Utf8 are applied to, when nothing is decoded

vars == <<state, text, next, value, stack, result, heap, contexts, output, sample>>

Unread == "?"
Undefined == 0   \* value_undefined()
Null == -1       \* value_null(), which is static: its count is 0 and stays 0

-----------------------------------------------------------------------------
(* Values: value.c *)

Type(v) == IF v = Undefined THEN "undefined" ELSE heap[v].type

Fresh(type, token) == [type |-> type, ref |-> 1, token |-> token, elements |-> <<>>, members |-> <<>>]

FreeId(h) == CHOOSE i \in 1 .. Cardinality(DOMAIN h) + 1 : i \notin DOMAIN h /\ \A j \in 1 .. i - 1 : j \in DOMAIN h

\* value_create()
Created(h, type, token) == [v \in DOMAIN h \cup {FreeId(h)} |-> IF v \in DOMAIN h THEN h[v] ELSE Fresh(type, token)]

\* value_hold()
Hold(h, v) == IF v # Undefined /\ h[v].ref > 0 THEN [h EXCEPT ![v].ref = @ + 1] ELSE h

Members(h, v) ==
  LET keys == SelectSeq(Keys, LAMBDA k : k \in DOMAIN h[v].members)
  IN [i \in DOMAIN keys |-> h[v].members[keys[i]]]

\* value_release(), value_array_destroy(), value_object_release()
RECURSIVE Release(_, _)
Release(h, v) ==
  IF v = Undefined \/ h[v].ref = 0 THEN h
  ELSE IF h[v].ref > 1 THEN [h EXCEPT ![v].ref = @ - 1]
  ELSE LET rest == FoldLeft(Release, h, h[v].elements \o Members(h, v))
       IN [w \in DOMAIN rest \ {v} |-> rest[w]]

\* value_array_append()
ArrayAppend(h, a, v) == [Hold(h, v) EXCEPT ![a].elements = Append(@, v)]

\* value_object_delete()
ObjectDelete(h, o, key) ==
  IF key \notin DOMAIN h[o].members THEN h
  ELSE LET freed == Release(h, h[o].members[key])
       IN [freed EXCEPT ![o].members = [k \in DOMAIN @ \ {key} |-> @[k]]]

\* Mutant of ObjectSet: the member that was there is forgotten.
ObjectSetOver(h, o, key, v) ==
  [Hold(h, v) EXCEPT ![o].members = [k \in DOMAIN @ \cup {key} |-> IF k = key THEN v ELSE @[k]]]

\* value_object_set(): a member with the key is deleted first
ObjectSet(h, o, key, v) ==
  LET room == Hold(ObjectDelete(h, o, key), v)
  IN [room EXCEPT ![o].members = [k \in DOMAIN @ \cup {key} |-> IF k = key THEN v ELSE @[k]]]

-----------------------------------------------------------------------------
(* value_decode(): one action for each of its states *)

Samples ==
  {[kind |-> "none", data |-> <<>>]}
  \cup {[kind |-> "string", data |-> <<c, d>>] : c, d \in Characters}
  \cup {[kind |-> "bytes", data |-> <<b, c1, c2, c3>>] : b \in Bytes, c1, c2, c3 \in Continuations}

Init ==
  /\ state = "VALUE_START" /\ text = <<>> /\ next = Unread /\ value = Undefined
  /\ stack = <<>> /\ result = Undefined /\ contexts = <<>> /\ output = <<>>
  /\ sample \in Samples
  /\ heap = [v \in {Null} |-> [Fresh("null", "null") EXCEPT !.ref = 0]]

encodeVars == <<result, contexts, output>>

Top == Last(stack)

\* The decoder looks at the token t, which there is always room for or is the end
Looks(t) == next' = t /\ (t = EndOfText \/ Len(text) < MaxTokens)

\* It goes past the token
Reads == text' = Append(text, next) /\ next' = Unread

StartOf(t) ==
  CASE t = "null" -> "NULL"
    [] t \in Numbers \cup {Malformed} -> "NUMBER"
    [] t \in Strings -> "STRING"
    [] t = "[" -> "ARRAY_FIRST"
    [] t = "]" -> "ARRAY_EMPTY"
    [] t = "{" -> "OBJECT_FIRST"
    [] t = "}" -> "OBJECT_EMPTY"
    [] OTHER -> "REJECT"

ValueStart(t) ==
  /\ state = "VALUE_START"
  /\ Looks(t)
  /\ state' = StartOf(t)
  /\ UNCHANGED <<text, value, stack, heap, encodeVars>>

ValueEnd ==
  /\ state = "VALUE_END"
  /\ state' = IF value = Undefined THEN "REJECT" ELSE IF stack = <<>> THEN "ACCEPT" ELSE "REDUCE"
  /\ UNCHANGED <<text, next, value, stack, heap, encodeVars>>

\* value_decode_null(), value_decode_number(), value_decode_string()
Scalar ==
  /\ state \in {"NULL", "NUMBER", "STRING"}
  /\ \/ next = "null" /\ value' = Null /\ heap' = heap /\ Reads
     \/ next = Malformed /\ value' = Undefined /\ UNCHANGED <<heap, text, next>>
     \/ /\ next \in Strings \cup Numbers
        /\ value' = FreeId(heap)
        /\ heap' = Created(heap, IF next \in Strings THEN "string" ELSE "number", next)
        /\ Reads
  /\ state' = "VALUE_END"
  /\ UNCHANGED <<stack, encodeVars>>

\* STATE_ARRAY_FIRST, STATE_OBJECT_FIRST
First(type, from) ==
  /\ state = from
  /\ Reads
  /\ heap' = Created(heap, type, "")
  /\ stack' = Append(stack, FreeId(heap))
  /\ state' = "VALUE_START"
  /\ UNCHANGED <<value, encodeVars>>

\* STATE_ARRAY_REST, STATE_OBJECT_REST that see the end of the container, or
\* reject; RestMore goes on
Rest(t, close, from, end) ==
  /\ state = from
  /\ t # ","
  /\ Looks(t)
  /\ state' = IF t = close THEN end ELSE "REJECT"
  /\ UNCHANGED <<text, value, stack, heap, encodeVars>>

\* A token that is looked at and read, or rejected: "," in STATE_ARRAY_REST and
\* STATE_OBJECT_REST, ":" in STATE_OBJECT_MAP
RestMore ==
  /\ state \in {"ARRAY_REST", "OBJECT_REST", "OBJECT_MAP"}
  /\ Len(text) < MaxTokens
  /\ text' = Append(text, IF state = "OBJECT_MAP" THEN ":" ELSE ",")
  /\ state' = "VALUE_START"
  /\ UNCHANGED <<next, value, stack, heap, encodeVars>>

MapRejects(t) ==
  /\ state = "OBJECT_MAP"
  /\ t # ":"
  /\ Looks(t)
  /\ state' = "REJECT"
  /\ UNCHANGED <<text, value, stack, heap, encodeVars>>

\* Mutant of MayEnd: a comma may come before the end.
MayEndAnyway(type) == stack # <<>> /\ Type(Top) = type

\* The container on top of the stack is of the type, and nothing is in it
MayEnd(type) ==
  /\ stack # <<>> /\ Type(Top) = type
  /\ heap[Top].elements = <<>> /\ DOMAIN heap[Top].members = {}

\* STATE_ARRAY_EMPTY, STATE_OBJECT_EMPTY
Empty(type, from, end) ==
  /\ state = from
  /\ state' = IF MayEnd(type) THEN end ELSE "REJECT"
  /\ UNCHANGED <<text, next, value, stack, heap, encodeVars>>

\* STATE_ARRAY_END, STATE_OBJECT_END
End ==
  /\ state \in {"ARRAY_END", "OBJECT_END"}
  /\ Reads
  /\ value' = Top
  /\ stack' = Front(stack)
  /\ state' = "VALUE_END"
  /\ UNCHANGED <<heap, encodeVars>>

\* STATE_REDUCE: the value is an element of the array, the key or the value of
\* a member of the object, or out of place
Reduce ==
  /\ state = "REDUCE"
  /\ \/ /\ Type(Top) = "array"
        /\ heap' = Release(ArrayAppend(heap, Top, value), value)
        /\ value' = Undefined /\ stack' = stack /\ state' = "ARRAY_REST"
     \/ /\ Type(Top) = "object" /\ Type(value) = "string"
        /\ stack' = Append(stack, value)
        /\ value' = Undefined /\ heap' = heap /\ state' = "OBJECT_MAP"
     \/ /\ Type(Top) = "string"
        /\ stack' = Front(stack)
        /\ heap' = Release(Release(ObjectSet(heap, Last(stack'), heap[Top].token, value), value), Top)
        /\ value' = Undefined /\ state' = "OBJECT_REST"
     \/ /\ Type(Top) = "object" /\ Type(value) # "string"
        /\ state' = "REJECT"
        /\ UNCHANGED <<value, stack, heap>>
  /\ UNCHANGED <<text, next, encodeVars>>

Reject ==
  /\ state = "REJECT"
  /\ heap' = Release(FoldLeft(Release, heap, stack), value)
  /\ stack' = <<>>
  /\ value' = Undefined
  /\ state' = "rejected"
  /\ UNCHANGED <<text, next, encodeVars>>

-----------------------------------------------------------------------------
(* value_buffer_encode() of what was decoded *)

Accept ==
  /\ state = "ACCEPT"
  /\ result' = value
  /\ state' = "ENCODE_START"
  /\ UNCHANGED <<text, next, value, stack, heap, contexts, output>>

decodeVars == <<text, next, stack>>

\* value_object_keys(): an array of the keys in order
Sorted(h, o) ==
  LET keys == SelectSeq(Keys, LAMBDA k : k \in DOMAIN h[o].members)
      array == FreeId(h)
      with[n \in 0 .. Len(keys)] ==
        IF n = 0 THEN Created(h, "array", "")
        ELSE LET v == FreeId(with[n - 1])
             IN Release(ArrayAppend(Created(with[n - 1], "string", keys[n]), array, v), v)
  IN with[Len(keys)]

\* STATE_VALUE_START of the encoder and what follows for each type
EncodeStart ==
  /\ state = "ENCODE_START"
  /\ \/ /\ Type(value) \in {"null", "number", "string"}
        /\ output' = Append(output, heap[value].token)
        /\ UNCHANGED <<contexts, heap>>
     \/ /\ Type(value) = "array"
        /\ output' = Append(output, "[")
        /\ contexts' = Append(contexts, [value |-> value, keys |-> Undefined, index |-> 0])
        /\ heap' = heap
     \/ /\ Type(value) = "object"
        /\ output' = Append(output, "{")
        /\ contexts' = Append(contexts, [value |-> value, keys |-> FreeId(heap), index |-> 0])
        /\ heap' = Sorted(heap, value)
  /\ state' = "ENCODE_END"
  /\ UNCHANGED <<value, result, decodeVars>>

\* What a context goes through: the elements of the array, or the keys
Items(c) == IF c.keys = Undefined THEN heap[c.value].elements ELSE heap[c.keys].elements

Comma(c) == IF c.index = 0 THEN <<>> ELSE <<",">>

\* STATE_ARRAY_REST, STATE_OBJECT_REST of the encoder: the next element or member
EncodeItem ==
  LET c == Last(contexts)
      item == Items(c)[c.index + 1]
      key == heap[item].token
  IN
  /\ state = "ENCODE_END"
  /\ contexts # <<>> /\ c.index < Len(Items(c))
  /\ output' = output \o Comma(c) \o (IF c.keys = Undefined THEN <<>> ELSE <<key, ":">>)
  /\ value' = IF c.keys = Undefined THEN item ELSE heap[c.value].members[key]
  /\ contexts' = [contexts EXCEPT ![Len(contexts)].index = @ + 1]
  /\ state' = "ENCODE_START"
  /\ UNCHANGED <<heap, result, decodeVars>>

\* The same states at the end of the container
EncodeClose ==
  LET c == Last(contexts) IN
  /\ state = "ENCODE_END"
  /\ contexts # <<>> /\ c.index = Len(Items(c))
  /\ output' = Append(output, IF c.keys = Undefined THEN "]" ELSE "}")
  /\ heap' = Release(heap, c.keys)
  /\ contexts' = Front(contexts)
  /\ UNCHANGED <<state, value, result, decodeVars>>

EncodeAccept ==
  /\ state = "ENCODE_END"
  /\ contexts = <<>>
  /\ state' = "encoded"
  /\ UNCHANGED <<value, heap, encodeVars, decodeVars>>

\* The client releases the value
Done ==
  /\ state = "encoded"
  /\ state' = "released"
  /\ heap' = Release(heap, result)
  /\ result' = Undefined /\ value' = Undefined
  /\ UNCHANGED <<contexts, output, decodeVars>>

-----------------------------------------------------------------------------
DecodeLooks(t) ==
  \/ ValueStart(t) \/ MapRejects(t)
  \/ Rest(t, "]", "ARRAY_REST", "ARRAY_END") \/ Rest(t, "}", "OBJECT_REST", "OBJECT_END")

DecodeSteps ==
  \/ ValueEnd \/ Scalar \/ RestMore \/ End \/ Reduce \/ Reject \/ Accept
  \/ First("array", "ARRAY_FIRST") \/ First("object", "OBJECT_FIRST")
  \/ Empty("array", "ARRAY_EMPTY", "ARRAY_END") \/ Empty("object", "OBJECT_EMPTY", "OBJECT_END")

EncodeSteps == EncodeStart \/ EncodeItem \/ EncodeClose \/ EncodeAccept \/ Done

Next ==
  /\ sample.kind = "none" /\ sample' = sample
  /\ EncodeSteps \/ DecodeSteps \/ \E t \in Tokens \cup {EndOfText} : DecodeLooks(t)

Spec == Init /\ [][Next]_vars

-----------------------------------------------------------------------------
(* The reference: JSON by its grammar, as the set of all short texts, each *)
(* with what it means: the text of the same value with the members of      *)
(* objects in order and none twice                                         *)

Doc(t, c) == [text |-> t, canon |-> c]

RECURSIVE Docs(_), Elements(_), MemberLists(_)

\* The values of n tokens, the ones separated by commas, and the members, each
\* with the function from keys that they mean
Docs(n) ==
  (IF n # 1 THEN {} ELSE {Doc(<<t>>, <<t>>) : t \in Strings \cup Numbers \cup {"null"}})
  \cup (IF n # 2 THEN {} ELSE {Doc(<<"[", "]">>, <<"[", "]">>), Doc(<<"{", "}">>, <<"{", "}">>)})
  \cup (IF n < 3 THEN {} ELSE
         {Doc(<<"[">> \o e.text \o <<"]">>, <<"[">> \o e.canon \o <<"]">>) : e \in Elements(n - 2)}
         \cup {LET keys == SelectSeq(Keys, LAMBDA k : k \in DOMAIN m.canon)
                   member(k) == <<k, ":">> \o m.canon[k]
                   list[i \in 1 .. Len(keys)] ==
                     IF i = 1 THEN member(keys[1]) ELSE list[i - 1] \o <<",">> \o member(keys[i])
               IN Doc(<<"{">> \o m.text \o <<"}">>, <<"{">> \o list[Len(keys)] \o <<"}">>)
               : m \in MemberLists(n - 2)})

Elements(n) ==
  Docs(n) \cup UNION {{Doc(e.text \o <<",">> \o d.text, e.canon \o <<",">> \o d.canon) :
                         e \in Elements(k), d \in Docs(n - 1 - k)} : k \in 1 .. n - 2}

MemberLists(n) ==
  LET One(k) == {Doc(<<key, ":">> \o d.text, [x \in {key} |-> d.canon]) : key \in Strings, d \in Docs(k - 2)} IN
  (IF n < 3 THEN {} ELSE One(n))
  \cup UNION {{Doc(m.text \o <<",">> \o o.text,
                   [x \in DOMAIN m.canon \cup DOMAIN o.canon |->
                      IF x \in DOMAIN o.canon THEN o.canon[x] ELSE m.canon[x]]) :
                 m \in MemberLists(k), o \in One(n - 1 - k)} : k \in 3 .. n - 4}

AllDocs == UNION {Docs(n) : n \in 1 .. MaxTokens}
AllTexts == {d.text : d \in AllDocs}
AllPrefixes == UNION {{SubSeq(t, 1, n) : n \in 1 .. Len(t)} : t \in AllTexts}

-----------------------------------------------------------------------------
(* Properties *)

\* What the decoder has looked at
LookedAt == IF next \in {Unread, EndOfText} THEN text ELSE Append(text, next)

\* value_decode() accepts a text when it is JSON, and what value_buffer_encode()
\* makes of the result is the same value.  It rejects a text that ends only if it
\* is not JSON, and any other only if no JSON text begins with the tokens that it
\* has looked at: the last of them may be out of place, or, when STATE_REDUCE
\* rejects the array in {[1], one that was read long before.
DecodesJson ==
  /\ state = "encoded" => Doc(text, output) \in AllDocs
  /\ state = "rejected" => LookedAt \notin IF next = EndOfText THEN AllTexts ELSE AllPrefixes

Uses(v) ==
  LET In(s) == Cardinality({i \in DOMAIN s : s[i] = v})
      Inside(w) == In(heap[w].elements) + In(Members(heap, w))
      inside == [w \in DOMAIN heap |-> Inside(w)]
      root == IF result # Undefined THEN result ELSE value
  IN FoldFunction(LAMBDA a, b : a + b, 0, inside)
     + In(stack) + In([i \in DOMAIN contexts |-> contexts[i].keys])
     + (IF root = v THEN 1 ELSE 0)

\* Every value is referred to exactly as often as it is counted, by the stacks,
\* the local variable, the client and other values: nothing is freed that is
\* in use, and nothing is left of a text that is rejected, of a key, of a
\* member that is set twice, or of what the client has released.
ValuesCounted == \A v \in DOMAIN heap \ {Null} : heap[v].ref = Uses(v)

IsScalar(c) == c \in 0 .. 55295 \/ c \in 57344 .. 1114111

\* A character is put into bytes that string_utf8_get() reads back as it, and
\* it reads no other bytes as a character: no overlong form, no surrogate and
\* nothing beyond U+10FFFF passes the table.
Utf8Exact ==
  /\ sample.kind = "string" => \A i \in DOMAIN sample.data :
       LET c == sample.data[i] IN Get(Put(c)) = [code |-> c, used |-> Length(c)]
  /\ sample.kind = "bytes" =>
       LET g == Get(sample.data) IN
       g.code # Replacement => IsScalar(g.code) /\ Put(g.code) = SubSeq(sample.data, 1, g.used)

\* The characters whose surrogates string_utf8_get_encoded() puts together
\* wrongly: the ones of planes 2, 4, ..., 16
Collides(c) == c >= 131072 /\ (c \div 65536) % 2 = 0

\* A string is decoded from what it was encoded to, as characters or in ASCII; in
\* ASCII as long as it has no character that collides (AsciiKept).
StringsKept ==
  sample.kind = "string" => LET s == sample.data IN
    /\ Decode(Encode(s, FALSE)) = s
    /\ (\A i \in DOMAIN s : ~ Collides(s[i])) => Decode(Encode(s, TRUE)) = s

\* What README.md says of the JSON notation, that it is fully compliant: every
\* string, of characters of any plane, is decoded from what it was encoded to in
\* ASCII.
AsciiKept ==
  sample.kind = "string" => Decode(Encode(sample.data, TRUE)) = sample.data
=============================================================================

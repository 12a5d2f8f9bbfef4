--------------------------------- MODULE Json ---------------------------------
(***************************************************************************)
(* Values written by JsonWriter (src/core/json/src/JsonWriter.cpp) and     *)
(* read by JsonReader (JsonReader.cpp).  The reader works in the buffer it *)
(* is given: it takes the escapes out of a string where the string is, and *)
(* a value is a pointer at its first character, ended by a zero that goes  *)
(* over a character behind it.  The buffer is a sequence of symbols; a     *)
(* number or a word (true, null, NaN) is one symbol.                       *)
(***************************************************************************)
EXTENDS Naturals, Sequences, SequencesExt

CONSTANTS
    Values,        \* the arrays and objects that are written
    Broken         \* bound: buffers of this length or less may break off anywhere

VARIABLES
    value,         \* the value that was written
    lacking,       \* what the buffer lacks: nothing, its end, or a token
    buffer,        \* what the reader works in; its last symbol is the terminator
    curr,          \* where the reader is
    step,          \* what it does next
    nodes,         \* the arrays and objects that are open
    token,         \* [start, out]: the string that is read; out = 0: no escape yet
    ended,         \* behind the last value, if it needs a terminator; else 0
    result         \* what has been read

jsonVars == <<value, lacking, buffer, curr, step, nodes, token, ended, result>>
jsonGiven == <<value, lacking>>

-----------------------------------------------------------------------------
(* Characters.                                                             *)

Zero == "zero"
Words == {"1", "true", "null", "NaN"}
White == {" ", "tab", "newline"}
Controls == {"newline", "tab", "ctl1", "xc3"}      \* below 0x20; xc3 is as a signed char

\* The letters of the escapes, JsonReader.cpp lines 139-154.
Letters == [c \in {"n", "t"} |-> IF c = "n" THEN "newline" ELSE "tab"]

\* Two hexadecimal digits, lines 105-127, and the character they are.
Digits == {"0", "1", "c", "3"}
Byte(high, low) ==
    CASE <<high, low>> = <<"0", "0">> -> Zero
      [] <<high, low>> = <<"0", "1">> -> "ctl1"
      [] <<high, low>> = <<"c", "3">> -> "xc3"
      [] OTHER -> "other"

-----------------------------------------------------------------------------
(* The writer.                                                             *)

\* putString, JsonWriter.cpp lines 50-109.
Quote(c) ==
    CASE \E l \in DOMAIN Letters : Letters[l] = c -> <<"\\", CHOOSE l \in DOMAIN Letters : Letters[l] = c>>
      [] c = "ctl1" -> <<"\\", "u", "0", "0", "0", "1">>
      [] c = "xc3" -> <<"\\", "u", "0", "0", "c", "3">>
      [] c \in {"\"", "\\"} -> <<"\\", c>>
      [] OTHER -> <<c>>
PutString(string) == <<"\"">> \o FlattenSeq([i \in DOMAIN string |-> Quote(string[i])]) \o <<"\"">>

Separated(parts) ==
    FlattenSeq([i \in DOMAIN parts |-> IF i = 1 THEN parts[i] ELSE <<",">> \o parts[i]])

\* writeNode, lines 111-173.
RECURSIVE WriteNode(_)
WriteNode(node) ==
    CASE node.k = "null" -> <<"null">>
      [] node.k = "nan" -> <<"NaN">>
      [] node.k \in {"number", "boolean"} -> node.text
      [] node.k = "string" -> PutString(node.text)
      [] node.k = "array" ->
            <<"[">> \o Separated([i \in DOMAIN node.kids |-> WriteNode(node.kids[i])]) \o <<"]">>
      [] node.k = "object" ->
            <<"{">> \o Separated([i \in DOMAIN node.kids |->
                          PutString(node.kids[i].name) \o <<":">> \o WriteNode(node.kids[i].node)])
            \o <<"}">>

\* Blanks around the symbols, where they are allowed.
Spaced(written) ==
    FlattenSeq([i \in DOMAIN written |->
        IF written[i] \in {",", ":", "]", "}"}
        THEN <<" ", written[i]>> \o (IF i = Len(written) THEN <<>> ELSE <<"newline">>)
        ELSE <<written[i]>>])

-----------------------------------------------------------------------------
(* The reader.                                                             *)

None == [k |-> "none"]

JsonInit ==
    /\ value \in Values
    /\ \E written \in {WriteNode(value), Spaced(WriteNode(value))} :
          \/ buffer = Append(written, Zero) /\ lacking = "nothing"
          \/ /\ Len(written) <= Broken
             /\ \E length \in 0 .. Len(written) - 1 : buffer = Append(SubSeq(written, 1, length), Zero)
             /\ lacking = "end"
          \/ /\ \E i \in DOMAIN written : /\ written[i] \in Words
                                         /\ buffer = Append(RemoveAt(written, i), Zero)
             /\ lacking = "token"
    /\ curr = 1 /\ step = "top" /\ nodes = <<>>
    /\ token = [start |-> 0, out |-> 0]
    /\ ended = 0 /\ result = None

\* skipWs, lines 40-49.
SkipWs(from) == CHOOSE i \in from..Len(buffer) :
                    buffer[i] \notin White /\ \A j \in from .. i - 1 : buffer[j] \in White

\* NGREST_ASSERT
Refuse == step' = "refused" /\ UNCHANGED <<jsonGiven, buffer, curr, nodes, token, ended, result>>

\* The node that is read is put into the one around it: it is the last of that.
Put(node) ==
    LET last == Last(nodes) IN
    [nodes EXCEPT ![Len(nodes)].kids =
        IF last.k = "array" THEN Append(@, node)
        ELSE [@ EXCEPT ![Len(@)].node = node]]

\* A value that is not null is terminated at its end (lines 277, 330).
GiveValue(node, end) ==
    /\ nodes' = Put(node)
    /\ ended' = IF node.k = "null" THEN 0 ELSE end
    /\ curr' = end
    /\ step' = "after"

\* readArrayOrObject and readAny, lines 200-248; the brackets, lines 252-261 and
\* 298-307.  The node is open before its first child is looked for.
OpenNode ==
    /\ step \in {"top", "any"}
    /\ LET at    == SkipWs(curr)
           next  == SkipWs(at + 1)
           node  == [k |-> IF buffer[at] = "[" THEN "array" ELSE "object", kids |-> <<>>]
           close == IF node.k = "array" THEN "]" ELSE "}"
       IN  /\ buffer[at] \in {"[", "{"}
           /\ IF buffer[next] = close THEN
                  /\ curr' = next + 1
                  /\ IF step = "top" THEN result' = node /\ step' = "done" /\ UNCHANGED nodes
                     ELSE nodes' = Put(node) /\ step' = "after" /\ UNCHANGED result
              ELSE /\ nodes' = Append(nodes, node)
                   /\ curr' = next
                   /\ step' = IF node.k = "array" THEN "any" ELSE "name"
                   /\ UNCHANGED result
    /\ ended' = 0
    /\ UNCHANGED <<jsonGiven, buffer, token>>

NeitherNode ==
    /\ step = "top" /\ buffer[SkipWs(curr)] \notin {"[", "{"}
    /\ Refuse

\* tokenValue, lines 59-79, and what it is taken for, lines 216-233.  The end of the
\* buffer behind a token is not accepted.
TokenValue ==
    /\ step = "any"
    /\ LET at   == SkipWs(curr)
           word == buffer[at]
       IN  /\ word \in Words /\ buffer[at + 1] # Zero
           /\ GiveValue(CASE word = "null" -> [k |-> "null"]
                          [] word = "NaN" -> [k |-> "nan"]
                          [] word = "true" -> [k |-> "boolean", text |-> at]
                          [] word = "1" -> [k |-> "number", text |-> at], at + 1)
    /\ UNCHANGED <<jsonGiven, buffer, token, result>>

\* A token without a character is the beginning of any word (line 223): it is a
\* Boolean, and the terminator goes over the bracket or comma that has been passed.
EmptyToken ==
    /\ step = "any"
    /\ LET at == SkipWs(curr)
       IN  /\ buffer[at] \in {"]", "}", ","}
           /\ GiveValue([k |-> "boolean", text |-> at], at)
    /\ UNCHANGED <<jsonGiven, buffer, token, result>>

TokenAtEnd ==
    /\ step = "any"
    /\ LET at == SkipWs(curr)
       IN  buffer[at] = Zero \/ (buffer[at] \in Words /\ buffer[at + 1] = Zero)
    /\ Refuse

\* tokenString, lines 129-132; a name of an object (lines 314-315) or a value.
StartString ==
    /\ step \in {"any", "name"}
    /\ LET at == SkipWs(curr) IN
       /\ buffer[at] = "\""
       /\ token' = [start |-> at + 1, out |-> 0]
       /\ curr' = at + 1
    /\ nodes' = IF step = "name"
                THEN [nodes EXCEPT ![Len(nodes)].kids = Append(@, [name |-> curr', node |-> None])]
                ELSE nodes
    /\ step' = IF step = "name" THEN "nameString" ELSE "string"
    /\ UNCHANGED <<jsonGiven, buffer, ended, result>>

NameMissing == step = "name" /\ buffer[SkipWs(curr)] # "\"" /\ Refuse

InString == step \in {"nameString", "string"} /\ curr <= Len(buffer)

\* Lines 174-180: characters move up as soon as an escape has made room.
StringChar ==
    /\ InString /\ buffer[curr] \notin {"\"", "\\"} \cup Controls \cup {Zero}
    /\ buffer' = IF token.out = 0 THEN buffer ELSE [buffer EXCEPT ![token.out] = buffer[curr]]
    /\ token' = IF token.out = 0 THEN token ELSE [token EXCEPT !.out = @ + 1]
    /\ curr' = curr + 1
    /\ UNCHANGED <<jsonGiven, step, nodes, ended, result>>

\* The terminator is below 0x20, too.
StringControl == InString /\ buffer[curr] \in Controls \cup {Zero} /\ Refuse

Out == IF token.out = 0 THEN curr ELSE token.out

\* Lines 134-154 and 168-171: a letter, or any other character for itself.
Escape ==
    /\ InString /\ buffer[curr] = "\\" /\ buffer[curr + 1] \notin {"u", Zero}
    /\ LET c == buffer[curr + 1]
       IN  buffer' = [buffer EXCEPT ![Out] = IF c \in DOMAIN Letters THEN Letters[c] ELSE c]
    /\ token' = [token EXCEPT !.out = Out + 1]
    /\ curr' = curr + 2
    /\ UNCHANGED <<jsonGiven, step, nodes, ended, result>>

\* Lines 155-167: the high byte is written if it is not zero, then the low one.
EscapeUnicode ==
    /\ InString /\ buffer[curr] = "\\" /\ buffer[curr + 1] = "u"
    /\ \A i \in 2..5 : curr + i <= Len(buffer) /\ buffer[curr + i] \in Digits
    /\ LET high == Byte(buffer[curr + 2], buffer[curr + 3])
           low  == Byte(buffer[curr + 4], buffer[curr + 5])
           at   == IF high = Zero THEN Out ELSE Out + 1
       IN  /\ buffer' = [[buffer EXCEPT ![Out] = high] EXCEPT ![at] = low]
           /\ token' = [token EXCEPT !.out = at + 1]
    /\ curr' = curr + 6
    /\ UNCHANGED <<jsonGiven, step, nodes, ended, result>>

EscapeNoUnicode ==
    /\ InString /\ buffer[curr] = "\\" /\ buffer[curr + 1] = "u"
    /\ ~ \A i \in 2..5 : curr + i <= Len(buffer) /\ buffer[curr + i] \in Digits
    /\ Refuse

\* A backslash in front of the terminator passes it: what is read then is
\* whatever follows the buffer.
EscapeOfEnd ==
    /\ InString /\ buffer[curr] = "\\" /\ buffer[curr + 1] = Zero
    /\ step' = "astray"
    /\ UNCHANGED <<jsonGiven, buffer, curr, nodes, token, ended, result>>

\* Lines 182-188; line 212 or 317-319.
EndString ==
    /\ InString /\ buffer[curr] = "\""
    /\ buffer' = [buffer EXCEPT ![Out] = Zero]
    /\ UNCHANGED <<jsonGiven, token, result>>
    /\ IF step = "string" THEN GiveValue([k |-> "string", text |-> token.start], curr + 1)
       ELSE /\ LET colon == SkipWs(curr + 1) IN
               IF buffer[colon] = ":" THEN curr' = colon + 1 /\ step' = "any"
               ELSE curr' = colon /\ step' = "refused"
            /\ UNCHANGED <<nodes, ended>>

\* Mutation of Terminated: nothing is terminated.
TerminatedNever == buffer

\* Lines 283-284, 289-290, 335-336 and 341-342.
Terminated == IF ended = 0 THEN buffer ELSE [buffer EXCEPT ![ended] = Zero]

\* Lines 278-291, 331-345.
NextChild ==
    /\ step = "after" /\ buffer[SkipWs(curr)] = ","
    /\ buffer' = Terminated
    /\ curr' = SkipWs(curr) + 1
    /\ step' = IF Last(nodes).k = "array" THEN "any" ELSE "name"
    /\ ended' = 0
    /\ UNCHANGED <<jsonGiven, nodes, token, result>>

\* The closing bracket: the node is the last of the one around it, or the result.
CloseNode ==
    /\ step = "after"
    /\ buffer[SkipWs(curr)] = IF Last(nodes).k = "array" THEN "]" ELSE "}"
    /\ buffer' = Terminated
    /\ curr' = SkipWs(curr) + 1
    /\ ended' = 0
    /\ IF Len(nodes) = 1 THEN result' = nodes[1] /\ nodes' = <<>> /\ step' = "done"
       ELSE LET outer == Front(nodes) IN
            /\ nodes' = [outer EXCEPT ![Len(outer)].kids =
                   IF Last(outer).k = "array" THEN Append(@, Last(nodes))
                   ELSE [@ EXCEPT ![Len(@)].node = Last(nodes)]]
            /\ UNCHANGED <<step, result>>
    /\ UNCHANGED <<jsonGiven, token>>

\* Lines 279 and 288.
NeitherFollows ==
    /\ step = "after"
    /\ buffer[SkipWs(curr)] \notin {",", IF Last(nodes).k = "array" THEN "]" ELSE "}"}
    /\ Refuse

JsonNext ==
    \/ OpenNode \/ NeitherNode \/ TokenValue \/ EmptyToken \/ TokenAtEnd
    \/ StartString \/ NameMissing \/ StringChar \/ StringControl
    \/ Escape \/ EscapeUnicode \/ EscapeNoUnicode \/ EscapeOfEnd \/ EndString
    \/ NextChild \/ CloseNode \/ NeitherFollows

JsonSpec == JsonInit /\ [][JsonNext]_jsonVars

-----------------------------------------------------------------------------
\* Types; the reader is within the buffer and has nodes open while it reads.
JsonTypeOK ==
    /\ step \in {"top", "any", "name", "nameString", "string", "after", "done", "refused", "astray"}
    /\ curr \in 1..Len(buffer) /\ token.out \in 0..Len(buffer) /\ ended \in 0..Len(buffer)
    /\ step \in {"any", "name", "nameString", "string", "after"} => nodes # <<>>
    /\ (step = "done") = (result # None)

\* The characters from a pointer to the zero.
CString(at) ==
    LET end == CHOOSE i \in at..Len(buffer) : buffer[i] = Zero /\ \A j \in at .. i - 1 : buffer[j] # Zero
    IN  SubSeq(buffer, at, end - 1)

\* What a node that has been read says.
RECURSIVE Said(_)
Said(node) ==
    CASE node.k \in {"null", "nan"} -> node
      [] node.k \in {"number", "boolean", "string"} -> [node EXCEPT !.text = CString(node.text)]
      [] node.k = "array" -> [node EXCEPT !.kids = [i \in DOMAIN @ |-> Said(@[i])]]
      [] node.k = "object" -> [node EXCEPT !.kids =
            [i \in DOMAIN @ |-> [name |-> CString(@[i].name), node |-> Said(@[i].node)]]]

\* What has been written is read back, although the strings, names and numbers are
\* terminated within the buffer that is still being read.
JsonReadsBack == (step = "done" /\ lacking = "nothing") => Said(result) = value

\* A buffer that breaks off is refused, and one that does not is accepted; where it
\* breaks off behind a backslash the reader leaves it (lines 138-139).
BrokenIsRefused ==
    /\ lacking = "end" => step # "done"
    /\ lacking = "nothing" => step \notin {"refused", "astray"}

\* The reader reads what the writer has written, and only that.
JsonInv == JsonTypeOK /\ JsonReadsBack /\ BrokenIsRefused

\* The reader ends.
JsonAtEnd == step \in {"done", "refused", "astray"}

\* "Unexpected token" (JsonReader.cpp line 233): what is no value is refused.
TokenExpected == lacking = "token" => step # "done"

\* "Unexpected EOF while reading token" (JsonReader.cpp line 67): the end of the
\* buffer is where reading stops.
StopsAtEnd == step # "astray"
==============================================================================

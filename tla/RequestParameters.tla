-------------------------- MODULE RequestParameters --------------------------
(***************************************************************************)
(* The parameters of an operation that are in the path of a request:       *)
(* ServiceDispatcher.cpp (src/core/engine/src) takes the location of an    *)
(* operation apart when the service is registered, and the path of a       *)
(* request when one is dispatched.  A text is a sequence of characters; an *)
(* encoded one holds "%" and two hexadecimal digits for a character.       *)
(***************************************************************************)
EXTENDS Naturals, Sequences, SequencesExt, FiniteSetsExt

CONSTANTS
    Locations,     \* locations of operations
    Bodies,        \* objects that were read from bodies, <<name, value>> each
    ParameterValues,        \* the values of parameters
    Code           \* character to its two hexadecimal digits

VARIABLES
    location,      \* OperationDescription::location
    from,          \* parseResource's end
    baseLocation,
    parameters,    \* Resource::parameters, [name, divider]
    sent,         \* the values the client has for the parameters
    body,          \* and the body it sends
    path,          \* the path of the request, behind that of the service
    begin,         \* where the next value begins
    children,         \* the children of request->node, in order
    outcome

registerVars == <<location, from, baseLocation, parameters>>
requestVars == <<sent, body, path, begin, children>>
parameterVars == <<registerVars, requestVars, outcome>>

Text(i, j, text) == SubSeq(text, i, j - 1)           \* i up to, but not, j
End(text) == Len(text) + 1

\* std::string::find of a text, from i on; 0 is npos.
FindText(text, what, i) ==
    LET hits == {j \in i..End(text) : IsPrefix(what, Text(j, End(text), text))}
    IN  IF hits = {} THEN 0 ELSE Min(hits)

ParameterInit ==
    /\ location \in Locations
    /\ from = 1 /\ baseLocation = <<>> /\ parameters = <<>>
    /\ sent = <<>> /\ body = <<>> /\ path = <<>> /\ begin = 0 /\ children = <<>>
    /\ outcome = "registering"

-----------------------------------------------------------------------------
(* parseResource, lines 130-155.                                           *)

Brace == FindText(location, <<"{">>, from)
Closed == FindText(location, <<"}">>, Brace + 1)

ParseParameter ==
    /\ outcome = "registering" /\ Brace # 0 /\ Closed # 0
    /\ parameters' = Append(parameters, [name    |-> Text(Brace + 1, Closed, location),
                                         divider |-> IF from = 1 THEN <<>> ELSE Text(from, Brace, location)])
    /\ baseLocation' = IF parameters = <<>> THEN Text(1, Brace, location) ELSE baseLocation
    /\ from' = Closed + 1
    /\ UNCHANGED <<location, requestVars, outcome>>

\* The assertion of lines 145-146: the service cannot be registered.
ParameterUnclosed ==
    /\ outcome = "registering" /\ Brace # 0 /\ Closed = 0
    /\ outcome' = "unregistered"
    /\ UNCHANGED <<registerVars, requestVars>>

ResourceParsed ==
    /\ outcome = "registering" /\ Brace = 0
    /\ baseLocation' = IF parameters = <<>> THEN location ELSE baseLocation
    /\ outcome' = IF parameters = <<>> THEN "static" ELSE "registered"
    /\ UNCHANGED <<location, from, parameters, requestVars>>

-----------------------------------------------------------------------------
(* A client puts its values where the location has the parameters'         *)
(* names.  It quotes a text that would be taken for something else, and    *)
(* encodes what is not a letter.                                           *)

QuoteMark == "quote"
Opening == {"[", "{"}
Literal(v) ==
    IF v.kind # "string" THEN v.text
    ELSE IF v.text # <<>> /\ (v.text[1] \in Opening \cup {QuoteMark} \/ v.text = <<"n", "u", "l", "l">>)
    THEN <<QuoteMark>> \o v.text \o <<QuoteMark>>
    ELSE v.text
Encoded(text, plus) ==
    FlattenSeq([i \in DOMAIN text |->
        IF text[i] = " " /\ plus THEN <<"+">>
        ELSE IF text[i] \in DOMAIN Code THEN <<"%">> \o Code[text[i]] ELSE <<text[i]>>])

PathOf(values, plus) ==
    baseLocation \o FlattenSeq([i \in DOMAIN values |->
        (IF i = 1 THEN <<>> ELSE parameters[i].divider) \o Encoded(Literal(values[i]), plus)])
    \o IF Len(values) < Len(parameters) THEN <<>> ELSE Text(from, End(location), location)

\* A request; or one that leaves parameters out, from the last one on.
Request ==
    /\ outcome = "registered"
    /\ \E n \in 1..Len(parameters) : \E values \in [1..n -> ParameterValues] : \E plus \in BOOLEAN :
         sent' = values /\ path' = PathOf(values, plus)
    /\ body' \in Bodies
    /\ children' = body'
    /\ begin' = Len(baseLocation) + 1              \* line 414
    /\ outcome' = "dispatching"
    /\ UNCHANGED registerVars

-----------------------------------------------------------------------------
(* dispatchMessage, lines 406-495.                                         *)

\* urldecode, lines 55-77, of a text in place: [out, next, wrote] after each character;
\* where nothing is put, what was there before is left.
Digit(c) == \E x \in DOMAIN Code : c \in {Code[x][1], Code[x][2]}
Coded(hi, lo) == CHOOSE x \in DOMAIN Code : Code[x] = <<hi, lo>>
Decoded(text) ==
    LET step(acc, i) ==
          LET out == acc.out
              put(c, next, wrote) == [out |-> Append(out, c), next |-> next, wrote |-> wrote]
          IN  IF i < acc.next THEN acc
              ELSE IF text[i] = "%" /\ i + 2 <= Len(text)
              THEN IF Digit(text[i + 1]) /\ Digit(text[i + 2])
                   THEN put(Coded(text[i + 1], text[i + 2]), i + 3, TRUE)
                   ELSE put(text[Len(out) + 1], i + 1, acc.wrote)
              ELSE IF text[i] = "+" THEN put(" ", i + 1, acc.wrote)
              ELSE put(IF acc.wrote THEN text[i] ELSE text[Len(out) + 1], i + 1, acc.wrote)
    IN  FoldLeft(step, [out |-> <<>>, next |-> 1, wrote |-> FALSE], [i \in DOMAIN text |-> i]).out

\* Mutation of ValueOf: the closing quote is left.
ValueOfOpened(text) ==
    IF text = <<"n", "u", "l", "l">> THEN [kind |-> "null", text |-> text]
    ELSE IF text # <<>> /\ text[1] \in Opening THEN [kind |-> "json", text |-> text]
    ELSE [kind |-> "string", text |-> IF text # <<>> /\ text[1] = QuoteMark THEN Tail(text) ELSE text]

\* Lines 467-482, with what JsonReader reads of a text in brackets: the text itself.
ValueOf(text) ==
    IF text = <<"n", "u", "l", "l">> THEN [kind |-> "null", text |-> text]
    ELSE IF text # <<>> /\ text[1] \in Opening THEN [kind |-> "json", text |-> text]
    ELSE IF text # <<>> /\ text[1] = QuoteMark THEN [kind |-> "string", text |-> SubSeq(text, 2, Len(text) - 1)]
    ELSE [kind |-> "string", text |-> text]

\* The parameter of this turn of the loop, and where its value ends; 0 is npos.
Turn == Len(children) - Len(body) + 1

\* Lines 436-448.
ValueEnd ==
    IF Turn = Len(parameters) THEN End(path)
    ELSE FindText(path, parameters[Turn + 1].divider, begin)

\* Lines 453-485; an array or an object that cannot be read throws.
TakeValue ==
    /\ outcome = "dispatching" /\ Turn <= Len(parameters) /\ ValueEnd # 0
    /\ children' = Append(children, [name |-> parameters[Turn].name,
                               value |-> ValueOf(Decoded(Text(begin, ValueEnd, path)))])
    /\ begin' = ValueEnd + (IF Turn = Len(parameters) THEN 0 ELSE Len(parameters[Turn + 1].divider))
    /\ UNCHANGED <<registerVars, sent, body, path, outcome>>

\* Lines 444-445.
DividerMissing ==
    /\ outcome = "dispatching" /\ Turn <= Len(parameters) /\ ValueEnd = 0
    /\ outcome' = "refused"
    /\ UNCHANGED <<registerVars, requestVars>>

InvokeOperation ==
    /\ outcome = "dispatching" /\ Turn > Len(parameters)
    /\ outcome' = "invoked"
    /\ UNCHANGED <<registerVars, requestVars>>

ParameterNext ==
    \/ ParseParameter \/ ParameterUnclosed \/ ResourceParsed \/ Request
    \/ TakeValue \/ DividerMissing \/ InvokeOperation

ParameterSpec == ParameterInit /\ [][ParameterNext]_parameterVars

-----------------------------------------------------------------------------

\* Types; what an operation is invoked with is as much as its location names.
ParametersTypeOK ==
    /\ outcome \in {"registering", "unregistered", "static", "registered", "dispatching", "invoked", "refused"}
    /\ begin <= Len(path) + 1
    /\ outcome = "invoked" => Len(children) = Len(body) + Len(parameters)

\* An operation is invoked with the members of the body, and behind them, under the name
\* each has in the location, the values the client has put into the path: whatever they
\* hold, the dividers of the location included.
ParametersArrive ==
    outcome = "invoked" =>
        children = body \o [i \in DOMAIN sent |-> [name |-> parameters[i].name, value |-> sent[i]]]

\* A request is refused only when parameters are left out, and always then.
OnlyWholeRequests ==
    /\ outcome = "refused" => Len(sent) < Len(parameters)
    /\ outcome = "invoked" => Len(sent) = Len(parameters)

\* The location decides what a path says, and what it lacks.
ParametersInv == ParametersTypeOK /\ ParametersArrive /\ OnlyWholeRequests
==============================================================================

------------------------------ MODULE TypeNames ------------------------------
(***************************************************************************)
(* The parameters of an operation: how CppParser takes their list apart    *)
(* (src/tools/parsers/cpp/src/CppParser.cpp), and how XmlGen writes their  *)
(* types (src/tools/ngrestcg/src/XmlGen.cpp).                              *)
(***************************************************************************)
EXTENDS DataTypes

CONSTANTS
    Lists          \* the lists of parameters: [text, means]

VARIABLES
    list,          \* the list that is read
    left,          \* the text that is left of it
    params,        \* the parameters that have been read, [type, name]
    rewritten,     \* the types as they are written, and what they are read as
    outcome

typeVars == <<list, left, params, rewritten, outcome>>

-----------------------------------------------------------------------------
(* The list of parameters of an operation.                                 *)

TypeStart ==
    /\ left = list.text
    /\ params = <<>> /\ rewritten = <<>>
    /\ outcome = "reading"
TypeInit == list \in Lists /\ TypeStart

\* Lines 584-612: up to a comma or the bracket behind as many > as <.
ParamEnd ==
    Min({j \in DOMAIN left :
           /\ left[j] \in {<<",">>, <<")">>}
           /\ Cardinality({k \in 1..j : left[k] = <<"<">>}) = Cardinality({k \in 1..j : left[k] = <<">">>})})

\* parseParam, lines 580-624: the name is what is behind the last blank.
ReadParam ==
    /\ outcome = "reading" /\ left # <<>>
    /\ LET text  == Stripped(SubSeq(left, 1, ParamEnd - 1))
           blank == SelectLastInSeq(text, LAMBDA c : c = BlankToken)
       IN  \E type \in {ParseDataType(Stripped(SubSeq(text, 1, blank - 1)), list.parent)} :
           IF blank # 0 /\ type.ok
           THEN /\ params' = Append(params, [type |-> type, name |-> Joined(SubSeq(text, blank + 1, Len(text)))])
                /\ left' = SubSeq(left, ParamEnd + 1, Len(left))
                /\ UNCHANGED outcome
           ELSE outcome' = "refused" /\ UNCHANGED <<left, params>>
    /\ UNCHANGED <<list, rewritten>>

\* XmlGen.cpp lines 125-147: the types of the parameters, as they are and as they are used.
WriteTypes ==
    /\ outcome = "reading" /\ left = <<>>
    /\ rewritten' = [i \in DOMAIN params |->
                        [asUsed \in BOOLEAN |-> ParseDataType(Written(params[i].type, asUsed), list.parent)]]
    /\ outcome' = "written"
    /\ UNCHANGED <<list, left, params>>

TypeNext == ReadParam \/ WriteTypes
TypeSpec == TypeInit /\ [][TypeNext]_typeVars

-----------------------------------------------------------------------------

\* Types; a list that has been read to its end has given every parameter.
TypeNamesTypeOK ==
    /\ outcome \in {"reading", "written", "refused"}
    /\ IsSuffix(left, list.text)
    /\ \A i \in DOMAIN params : params[i].type.ok
    /\ left = <<>> => Len(params) = Len(list.means)

\* The parameters are the ones that are declared, with the types their names stand for
\* where they are used; what is no type of a parameter is refused.
ReadsWhatIsDeclared ==
    /\ outcome = "written" => params = list.means
    /\ outcome = "refused" => list.means = <<>>

\* What XmlGen writes for a type that is known, in full and as it was used, is read as
\* this type, by the code that reads the generated wrappers' names.
RECURSIVE AsNamed(_), IsKnown(_)
AsNamed(t) == [t EXCEPT !.used = <<>>, !.params = [i \in DOMAIN t.params |-> AsNamed(t.params[i])]]
IsKnown(t) == t.kind # "unknown" /\ \A i \in DOMAIN t.params : IsKnown(t.params[i])
WrittenIsReadAlike ==
    outcome = "written" =>
        \A i \in DOMAIN params :
            IsKnown(params[i].type) =>
                AsNamed(rewritten[i][FALSE]) = AsNamed(params[i].type) /\ rewritten[i][TRUE] = params[i].type

\* A type goes through reading and writing unchanged.
TypeNamesInv == TypeNamesTypeOK /\ ReadsWhatIsDeclared /\ WrittenIsReadAlike

\* The same of every type; not so: the namespace of a name that is not known is written twice.
WrittenIsReadAlikeAlways ==
    outcome = "written" =>
        \A i \in DOMAIN params : AsNamed(rewritten[i][FALSE]) = AsNamed(params[i].type)
==============================================================================

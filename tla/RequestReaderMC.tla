---------------------------- MODULE RequestReaderMC ----------------------------
(* Instances of streams for TLC.                                           *)
EXTENDS RequestReader, TLC

MCLower == "N" :> "n" @@ "L" :> "l"
MCHeader(name, value) == [name |-> name, value |-> value]
MCRequest(path, headers, body) ==
    [method |-> <<"G">>, path |-> path, headers |-> headers, body |-> body, bad |-> FALSE]
MCBad(path, headers) == [MCRequest(path, headers, <<>>) EXCEPT !.bad = TRUE]

MCPlain == MCRequest(<<"/">>, <<>>, <<>>)
MCNamed == MCRequest(<<"/", "a">>, <<MCHeader(<<"N", "x", " ">>, <<"x", " ", "y", " ">>), MCHeader(<<"m">>, <<":">>)>>, <<>>)
MCPosted(n) == MCRequest(<<"/">>, <<MCHeader(<<"L">>, <<ToString(n)>>)>>, [i \in 1..n |-> IF i = 2 THEN LF ELSE CR])
MCEncoded == MCRequest(<<"/">>, <<MCHeader(<<"t">>, <<"i">>)>>, <<>>)

MCStreams == {<<MCNamed, MCPlain, MCPosted(2)>>, <<MCPlain, MCPlain, MCEncoded>>, <<MCPosted(0)>>, <<MCPosted(3)>>,
              <<MCNamed, MCBad(<<"/">>, <<MCHeader(<<"L">>, <<"x">>)>>)>>,
              <<MCPlain, MCBad(<<"/">>, <<MCHeader(<<"t">>, <<"x">>)>>), MCPlain>>,
              <<MCPlain, MCBad(<<"/">>, <<MCHeader(<<"m">>, <<>>)>>)>>,
              <<MCBad(<<>>, <<>>)>>}
MCSplit == {<<MCPlain>>}
MCEmptyValue == {<<MCRequest(<<"/">>, <<MCHeader(<<"m">>, <<>>), MCHeader(<<"n">>, <<"x">>)>>, <<>>)>>}
MCBefore == {<<NUL, NUL>>, <<"x", "x">>}
==============================================================================

---------------------------- MODULE MCSqlScanner ----------------------------
(* Model values for the run of SqlScanner.                                  *)
EXTENDS SqlScanner

CONSTANTS MaxBody, MaxPieces

MCBodies == SeqOf({"{", "}", "\"", "\\", "a"}, MaxBody)

\* Texts are put together from pieces that make something begin or end.
Pieces == {<<"'">>, <<"\"">>, <<"-", "-">>, <<"/", "*">>, <<"*", "/">>, <<"/">>, <<"-">>,
           <<";">>, <<"nl">>, <<"a">>, <<":">>, <<":", "a">>, <<":", "b", "1">>}

MCKnown == {<<"a">>}

MCSqls == {FlattenSeq(p) : p \in SeqOf(Pieces, MaxPieces)}

=============================================================================

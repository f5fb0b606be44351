--------------------------- MODULE MCCorpusIndex ---------------------------
(* Small instances of CorpusIndex: pages of at most MaxPlace chunks.       *)
EXTENDS CorpusIndex, TLC

CONSTANT MaxPlace

MCSourceOf == [d \in Ids |-> <<"s", ToString((d + MaxPlace - 1) \div MaxPlace)>>]
MCPlaceOf == [d \in Ids |-> ((d - 1) % MaxPlace) + 1]

Piece(t, s, x) == [tenant |-> t, section |-> s, text |-> x]

X == Piece(<<"a">>, <<"h">>, <<"x">>)
Y == Piece(<<"a">>, <<"g">>, <<"y">>)
Z == Piece(<<"a">>, <<"h">>, <<"z">>)

\* A section comes in before the only one of its page, which then grows; at
\* last one chunk is left, and the page has changed hands.
MCHistory == <<<<X>>, <<Y, X>>, <<Y, X, Z>>, <<[X EXCEPT !.tenant = <<"b">>]>>>>

=============================================================================

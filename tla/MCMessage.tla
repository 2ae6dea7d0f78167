------------------------------ MODULE MCMessage ------------------------------
(* Message over every short payload, and over headers and answers that fold, *)
(* hide, break or forge.                                                     *)
EXTENDS Message

Short == {CR, LF, DOT, "x"}

Xs(n) == [i \in 1..n |-> "x"]

\* Every five bytes at the start of a message, after the blank line, after the
\* beginning of a body line, after a header line one byte short of the cap, and
\* after one that all but crosses it.
Payloads ==
  {before \o s : before \in {<<>>, <<LF>>, <<LF>> \o Xs(2), Xs(11), Xs(14)},
                 s \in TupleOf(Short, 5)}

\* Three pieces of a header block, alone or after a header, and then the end of
\* the message.
Pieces ==
  {<<"x", COLON>>, <<"X", COLON, DOT>>, <<LF>>, <<SP>>, <<VT>>, <<DOT>>, <<COLON>>}

Blocks ==
  {before \o FlattenSeq(p) \o CRLF \o CRLF \o <<DOT, LF>> :
     before \in {<<>>, <<"x", COLON, "x", LF>>}, p \in TupleOf(Pieces, 3)}

MCInputs == Payloads \cup Blocks

H(name, value) == [name |-> name, value |-> value]

\* A header replaced under another case, taken away, folded, with a leading
\* dot, and ones that would forge a header, a body or the end of the message.
MCAnswers ==
  {<<>>, <<H(<<"X">>, <<"x">>)>>, <<H(<<"x">>, Null), H(<<DOT>>, <<"x", LF, SP, DOT>>)>>,
   <<H(<<"X">>, <<"x", LF, "x", COLON, "x">>)>>, <<H(<<"X">>, <<CR, LF, DOT, CR, LF>>)>>,
   <<H(<<SP, "x">>, <<"x">>)>>, <<H(<<>>, <<"x">>)>>, <<H(<<"X">>, <<"x", LF, VT>>)>>}
=============================================================================

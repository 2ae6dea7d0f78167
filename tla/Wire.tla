-------------------------------- MODULE Wire --------------------------------
(***************************************************************************)
(* Message bytes, and where lines begin and end in them.  A byte is one of *)
(* the classes the code tells apart: the line break bytes, the dot, the    *)
(* colon, white space that may fold a header (SP, for space and tab) and   *)
(* white space that may not (VT, for vertical tab and form feed), and      *)
(* letters.                                                                *)
(***************************************************************************)
EXTENDS Naturals, Sequences, SequencesExt

CR == "CR"
LF == "LF"
DOT == "."
COLON == ":"
SP == "SP"
VT == "VT"

Bytes == {CR, LF, DOT, COLON, SP, VT, "x", "X"}

CRLF == <<CR, LF>>

\* The end of the line that begins at i: its LF, or the last byte there is.
LineEnd(s, i) ==
  LET ends == {j \in i..Len(s) : s[j] = LF}
  IN  IF ends = {} THEN Len(s) ELSE Min(ends)

\* split_inclusive on LF: where a line begins, and the line that begins at i.
LineBegins(s, i) == i = 1 \/ s[i - 1] = LF
LineAt(s, i) == SubSeq(s, i, LineEnd(s, i))

\* The elements of s at some positions, in order.
Picked(s, positions) ==
  FlattenSeq([i \in DOMAIN s |-> IF i \in positions THEN <<s[i]>> ELSE <<>>])

\* take_line: the buffer holds a whole line, and which one it is.
HasLine(buf) == Contains(buf, LF)
FirstLine(buf) == LineAt(buf, 1)
AfterLine(buf) == SubSeq(buf, LineEnd(buf, 1) + 1, Len(buf))

is_empty_line(line) == line \in {CRLF, <<LF>>}

\* The lone dot; where it counts is the caller's business.
is_terminator(line) == line \in {<<DOT>> \o CRLF, <<DOT, LF>>}

\* strip_prefix(b".")
Unstuffed(line) == IF line # <<>> /\ line[1] = DOT THEN Tail(line) ELSE line

\* Every LF and CRLF as CRLF; a CR on its own is data.
normalize_breaks(block) ==
  FlattenSeq([i \in DOMAIN block |->
    IF block[i] = LF THEN CRLF
    ELSE IF block[i] = CR /\ i < Len(block) /\ block[i + 1] = LF THEN <<>>
    ELSE <<block[i]>>])
=============================================================================

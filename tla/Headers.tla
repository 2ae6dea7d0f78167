------------------------------- MODULE Headers -------------------------------
(***************************************************************************)
(* The header block between the client, the API and the upstream           *)
(* (proxy.rs): parsed, merged with what the API answers, checked and       *)
(* written in the form DATA wants.  A header is [name, value], both        *)
(* sequences of bytes.                                                     *)
(***************************************************************************)
EXTENDS Wire

\* A header the API takes away: its answer has a null value.
Null == <<"null">>

is_perl_space(b) == b \in {SP, VT, CR, LF}

\* A line that does not continue the one before it, and the end of what does:
\* the byte before the next such line.
HeaderBegins(s, i, cont) == LineBegins(s, i) /\ (i = 1 \/ s[i] \notin cont)
HeaderEnd(s, i, cont) ==
  LET next == {j \in i + 1..Len(s) : HeaderBegins(s, j, cont)}
  IN  IF next = {} THEN Len(s) ELSE Min(next) - 1

\* The lines of a block with every line that begins with a byte of `cont'
\* joined to the one before.
Unfold(s, cont) ==
  Picked([i \in DOMAIN s |-> SubSeq(s, i, HeaderEnd(s, i, cont))],
         {i \in DOMAIN s : HeaderBegins(s, i, cont)})

trim_end_breaks(line) ==
  SubSeq(line, 1, SelectLastInSeq(line, LAMBDA b : b \notin {CR, LF}))

\* Leading white space goes, all of it but one byte when there is nothing else.
perl_header_value(rest) ==
  LET i == SelectInSeq(rest, LAMBDA b : ~is_perl_space(b))
  IN  IF i > 0 THEN SubSeq(rest, i, Len(rest)) ELSE <<Last(rest)>>

FirstColon(line) == SelectInSeq(line, LAMBDA b : b = COLON)

\* The lines parse_headers splits a block into, folded ones whole.
HeaderLines(block) == Unfold(block, {SP, VT})

\* Mutant: a value of white space counts as none.
parses_mutant(line) ==
  FirstColon(line) > 1 /\ \E i \in FirstColon(line) + 1..Len(line) : ~is_perl_space(line[i])

\* A line with no name, no colon or nothing at all behind it is dropped.
parses(line) == FirstColon(line) > 1 /\ FirstColon(line) < Len(line)

Parsed(line) ==
  [name  |-> SubSeq(line, 1, FirstColon(line) - 1),
   value |-> perl_header_value(SubSeq(line, FirstColon(line) + 1, Len(line)))]

parse_headers(block) ==
  LET lines == [i \in DOMAIN HeaderLines(block) |-> trim_end_breaks(HeaderLines(block)[i])]
      good  == Picked(lines, {i \in DOMAIN lines : parses(lines[i])})
  IN  [i \in DOMAIN good |-> Parsed(good[i])]

\* eq_ignore_ascii_case; x is the letter with a capital.
Lower(name) == [i \in DOMAIN name |-> IF name[i] = "X" THEN "x" ELSE name[i]]
SameName(a, b) == Lower(a) = Lower(b)

Named(api, h) == \E i \in DOMAIN api : SameName(api[i].name, h.name)

\* merge_headers: every header the API names goes, those it gives a value come.
merge_headers(existing, api) ==
  Picked(existing, {i \in DOMAIN existing : ~Named(api, existing[i])})
    \o Picked(api, {i \in DOMAIN api : api[i].value # Null})

\* Mutant: a line break of any kind before any white space is a fold.
folds_at_mutant(value, i) == i < Len(value) /\ is_perl_space(value[i + 1])

\* folds_at: a CRLF or an LF, and then a space or a tab.
folds_at(value, i) ==
  LET after == IF value[i] = CR THEN i + 2 ELSE i + 1
  IN  /\ value[i] = CR => i < Len(value) /\ value[i + 1] = LF
      /\ after <= Len(value) /\ value[after] = SP

\* What assert_header_relayable asks of a name ...
relayable_name(name) ==
  name # <<>> /\ \A i \in DOMAIN name : name[i] # COLON /\ ~is_perl_space(name[i])

\* ... and of a value: a line break is a fold.
assert_header_relayable(headers) ==
  \A k \in DOMAIN headers :
    LET value == headers[k].value
    IN  /\ relayable_name(headers[k].name)
        /\ \A i \in DOMAIN value : value[i] \in {CR, LF} => folds_at(value, i)

\* A dot that begins a line is doubled.
dot_stuff(block) ==
  FlattenSeq([i \in DOMAIN block |->
    IF block[i] = DOT /\ LineBegins(block, i) THEN <<DOT, DOT>> ELSE <<block[i]>>])

\* A header as a line of the block.
Written(h) == h.name \o <<COLON, SP>> \o h.value \o CRLF

\* header_block
header_block(headers) ==
  dot_stuff(normalize_breaks(
    FlattenSeq([i \in DOMAIN headers |-> Written(headers[i])]) \o CRLF))
=============================================================================

------------------------------- MODULE Framing -------------------------------
(***************************************************************************)
(* The two halves of a DATA payload (server/data.rs) as functions on       *)
(* records: HeaderCollector, which holds the header block and bounds it,   *)
(* and BodyFramer, which stages the body in pieces of WRITE_CHUNK.         *)
(***************************************************************************)
EXTENDS Wire

CONSTANTS max_header_size, WRITE_CHUNK

ASSUME FramingAssumption ==
  max_header_size \in Nat \ {0} /\ WRITE_CHUNK \in Nat /\ WRITE_CHUNK >= 2

\* HeaderCollector::new
NewCollector == [headers |-> <<>>, size |-> 0, too_large |-> FALSE, delivered |-> FALSE]

mark_too_large(c) == [c EXCEPT !.too_large = TRUE, !.headers = <<>>]

\* saturating_sub, for a collector that is not discarding
remaining_capacity(c) == IF c.size > max_header_size THEN 0 ELSE max_header_size - c.size

\* What push_line keeps of a header line.
Collected(c, line) ==
  [c EXCEPT !.size = @ + Len(Unstuffed(line)), !.headers = @ \o Unstuffed(line)]

\* take_pending, and what Complete carries: the block leaves the collector.
HandedOver(c) == [c EXCEPT !.delivered = TRUE, !.headers = <<>>]

\* HeaderCollector::push_line: the event and the collector after it, which for a
\* terminator read_message has asked for the pending block as well.
push_line(c, line) ==
  IF c.too_large THEN [event |-> "TooLarge", to |-> c]
  ELSE IF is_terminator(line) THEN [event |-> "Terminator", to |-> HandedOver(c)]
  ELSE IF c.delivered THEN [event |-> "None", to |-> c]
  ELSE IF is_empty_line(line) THEN [event |-> "Complete", to |-> HandedOver(c)]
  ELSE LET to == Collected(c, line)
       IN  IF to.size > max_header_size
           THEN [event |-> "TooLarge", to |-> mark_too_large(to)]
           ELSE [event |-> "None", to |-> to]

\* BodyFramer::new
NewFramer == [out |-> <<>>, at_line_start |-> TRUE, held_cr |-> FALSE]

\* Mutant: a CR that ends a piece is written as it is.
append_mutant(f, bytes) == [f EXCEPT !.out = @ \o normalize_breaks(bytes)]

\* BodyFramer::append: a CR that ends the bytes waits for the next one.
append(f, bytes) ==
  LET all  == IF f.held_cr THEN <<CR>> \o bytes ELSE bytes
      held == Last(all) = CR
  IN  [f EXCEPT !.out = @ \o normalize_breaks(IF held THEN Front(all) ELSE all),
                !.held_cr = held]

\* Mutant: a buffer that is exactly full waits for more.
piece_mutant(f) ==
  IF Len(f.out) > WRITE_CHUNK
  THEN [piece |-> "Chunk", bytes |-> f.out, to |-> [f EXCEPT !.out = <<>>]]
  ELSE [piece |-> "Pending", bytes |-> <<>>, to |-> f]

\* BodyFramer::piece
piece(f) ==
  IF Len(f.out) >= WRITE_CHUNK
  THEN [piece |-> "Chunk", bytes |-> f.out, to |-> [f EXCEPT !.out = <<>>]]
  ELSE [piece |-> "Pending", bytes |-> <<>>, to |-> f]

\* BodyFramer::push
push(f, line) ==
  IF f.at_line_start /\ is_terminator(line)
  THEN [piece |-> "Terminator", bytes |-> <<>>, to |-> f]
  ELSE piece([append(f, line) EXCEPT !.at_line_start = TRUE])

\* BodyFramer::push_partial
push_partial(f, bytes) == piece([append(f, bytes) EXCEPT !.at_line_start = FALSE])
=============================================================================

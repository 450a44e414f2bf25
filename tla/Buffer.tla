------------------------------- MODULE Buffer -------------------------------
(***************************************************************************)
(* Buffer<N> (src/src/buffer.rs), Payload being Buffer<2048>.  A buffer is *)
(* the sequence of what was written to it, bytes[0 .. cursor]; a write     *)
(* yields how it ended, the buffer and how many bytes it took.             *)
(***************************************************************************)
EXTENDS Naturals, Sequences

CONSTANT N  \* its length, 2048 for a Payload

ASSUME LengthAssumption == N \in Nat \ {0}

New == << >>

Written(outcome, b, count) == [outcome |-> outcome, buffer |-> b, count |-> count]

available(b) == N - Len(b)

\* copy_from_slice wants two slices of one length: a partial write panics.
write(b, buf) ==
  IF buf = << >> THEN Written("Ok", b, 0)
  ELSE IF available(b) = 0 THEN Written("Full", b, 0)
  ELSE IF Len(buf) > available(b) THEN Written("Panic", b, 0)
  ELSE Written("Ok", b \o buf, Len(buf))

\* embedded_io's write_all writes again what was not taken.  (After a partial
\* write the buffer is full, so that there is at most one more.)
write_all(b, buf) ==
  LET first == write(b, buf)
  IN  IF first.outcome = "Ok" /\ first.count < Len(buf)
      THEN write(first.buffer, SubSeq(buf, first.count + 1, Len(buf)))
      ELSE first

\* Buffer::from
from(buf) ==
  LET all == write_all(New, buf)
  IN  [all EXCEPT !.outcome = IF @ = "Full" THEN "TooLarge" ELSE @]

\* Mutant of append_encoded: as long as the text itself is not longer than N.
append_encoded_anywhere(b, text) ==
  IF Len(text) <= 2 * N THEN Written("Ok", b \o text, Len(text)) ELSE Written("Error", b, 0)

\* encode_packet and serialize_json: an encoder that fails may have written
\* bytes behind the cursor, which stays where it was.
append_encoded(b, text) ==
  IF Len(text) <= available(b) THEN Written("Ok", b \o text, Len(text))
  ELSE Written("Error", b, 0)
=============================================================================

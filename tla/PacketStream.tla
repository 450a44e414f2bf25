---------------------------- MODULE PacketStream ----------------------------
(***************************************************************************)
(* How recv_loop (src/src/io.rs) cuts the bytes of the connection into     *)
(* packets: its buffer, its cursor and packet_size, against a TCP stream   *)
(* that may be read in pieces of any size.                                 *)
(*                                                                         *)
(* A byte is what packet_size sees of it, seven bits and a continuation    *)
(* bit; Base stands for 128.  What a packet says is left out.              *)
(***************************************************************************)
EXTENDS Integers, FiniteSets, Sequences

CONSTANTS
  Sizes,       \* the remaining lengths of the packets the broker sends
  Base,        \* 128
  BufferSize,  \* 4096
  None

ASSUME ConstantsAssumption ==
  /\ Sizes \in Seq(Nat) /\ None \notin Nat
  /\ Base \in Nat \ {0, 1} /\ BufferSize \in Nat /\ BufferSize >= 5

VARIABLES
  held,     \* buffer[0 .. cursor]
  start,    \* start_pos, 0 outside the scan
  taken,    \* how many bytes of the stream have been read
  decoded,  \* history: the ranges of the stream that decode_slice was given -
            \* begin, end, and up to where it had been read
  torn,     \* history: a read has ended inside the body of a packet
  status    \* "reading", "scanning", or how recv_loop ended

vars == <<held, start, taken, decoded, torn, status>>

Byte(digit, more) == [digit |-> digit, more |-> more]

\* The fixed header of a packet: its type, then the length, low digits first.
Digits[n \in Nat] ==
  IF n < Base THEN <<n>> ELSE <<n % Base>> \o Digits[n \div Base]

Header(size) ==
  LET digits == Digits[size]
  IN  <<Byte(0, FALSE)>>
        \o [i \in DOMAIN digits |-> Byte(digits[i], i < Len(digits))]

Encoded(size) == Header(size) \o [i \in 1 .. size |-> Byte(Base - 1, TRUE)]

\* What the broker sends, packet by packet, and where its packets are.
Sent[i \in 0 .. Len(Sizes)] ==
  IF i = 0 THEN << >> ELSE Sent[i - 1] \o Encoded(Sizes[i])

Stream == Sent[Len(Sizes)]

StartOf(i) == Len(Sent[i - 1])
EndOf(i) == Len(Sent[i])

Init ==
  /\ held = << >> /\ start = 0 /\ taken = 0
  /\ decoded = << >> /\ torn = FALSE /\ status = "reading"

-----------------------------------------------------------------------------
\* The number of which these are the digits.
Value(bytes) ==
  LET n == Len(bytes)
      value[i \in 0 .. n] ==
        IF i = 0 THEN 0 ELSE bytes[n - i + 1].digit + Base * value[i - 1]
  IN  value[n]

\* Mutant of packet_size: it gives up after three length bytes.
packet_size_three(buffer) ==
  LET last == {k \in 2 .. Len(buffer) : ~buffer[k].more}
      k == CHOOSE k \in last : \A j \in last : k <= j
  IN  IF last # {} /\ k <= 4
      THEN Value(SubSeq(buffer, 2, k)) + k
      ELSE IF Len(buffer) >= 4 THEN 0 ELSE None

\* The size of the packet at the start of a buffer: 0 if its length takes more
\* than four bytes, None if the length is not complete.
packet_size(buffer) ==
  LET last == {k \in 2 .. Len(buffer) : ~buffer[k].more}
      k == CHOOSE k \in last : \A j \in last : k <= j
  IN  IF last # {} /\ k <= 5
      THEN Value(SubSeq(buffer, 2, k)) + k
      ELSE IF Len(buffer) >= 5 THEN 0 ELSE None

Size == packet_size(SubSeq(held, start + 1, Len(held)))

\* Where the body of a packet is torn apart if a read ends there.
InsideBody(position) ==
  \E i \in DOMAIN Sizes :
    StartOf(i) + Len(Header(Sizes[i])) <= position /\ position < EndOf(i)

\* reader.read(&mut buffer[cursor..]) returns some of the bytes that are next.
Read(len) ==
  /\ status = "reading"
  /\ len <= BufferSize - Len(held) /\ taken + len <= Len(Stream)
  /\ held' = held \o SubSeq(Stream, taken + 1, taken + len)
  /\ taken' = taken + len
  /\ torn' = (torn \/ InsideBody(taken + len))
  /\ status' = "scanning"
  /\ UNCHANGED <<start, decoded>>

\* A read of nothing is taken for a closed connection: the broker has closed,
\* at any time, or the slice to read into is empty.
ReadNothing ==
  /\ status = "reading"
  /\ status' = IF Len(held) = BufferSize THEN "full" ELSE "closed"
  /\ UNCHANGED <<held, start, taken, decoded, torn>>

\* start_pos is in the part of the buffer that has been read.
Scanning == status = "scanning" /\ start <= Len(held)

\* Mutant of NeedMore: the cursor moves back, the bytes do not.
NeedMoreInPlace ==
  /\ Scanning /\ Size = None
  /\ held' = SubSeq(held, 1, Len(held) - start)
  /\ start' = 0 /\ status' = "reading"
  /\ UNCHANGED <<taken, decoded, torn>>

\* The length is not complete: keep what is left of the buffer and read on.
NeedMore ==
  /\ Scanning /\ Size = None
  /\ held' = SubSeq(held, start + 1, Len(held))
  /\ start' = 0 /\ status' = "reading"
  /\ UNCHANGED <<taken, decoded, torn>>

\* More than four length bytes: PacketError.
BadLength ==
  /\ Scanning /\ Size = 0
  /\ status' = "PacketError"
  /\ UNCHANGED <<held, start, taken, decoded, torn>>

\* Where in the stream the buffer, the packet at start_pos and the next begin.
Origin == taken - Len(held)
Begin == Origin + start
End == Begin + Size

\* Mutant of Decode: the rest of the buffer waits for the next read.
DecodeOne ==
  /\ Scanning /\ Size \notin {None, 0} /\ start + Size <= Len(held)
  /\ decoded' = Append(decoded, <<Begin, End, End>>)
  /\ held' = SubSeq(held, start + Size + 1, Len(held))
  /\ start' = 0 /\ status' = "reading"
  /\ UNCHANGED <<taken, torn>>

\* Mutant of Decode: start_pos is declared outside the loop and never put back.
DecodeKeepsStart ==
  /\ Scanning /\ Size \notin {None, 0} /\ start + Size <= Len(held)
  /\ decoded' = Append(decoded, <<Begin, End, End>>)
  /\ start' = start + Size
  /\ IF start + Size = Len(held)
     THEN held' = << >> /\ status' = "reading"
     ELSE UNCHANGED <<held, status>>
  /\ UNCHANGED <<taken, torn>>

\* A packet of the buffer is decoded and handled; the scan goes on behind it
\* unless nothing is left.
Decode ==
  /\ Scanning /\ Size \notin {None, 0} /\ start + Size <= Len(held)
  /\ decoded' = Append(decoded, <<Begin, End, End>>)
  /\ IF start + Size = Len(held)
     THEN held' = << >> /\ start' = 0 /\ status' = "reading"
     ELSE start' = start + Size /\ UNCHANGED <<held, status>>
  /\ UNCHANGED <<taken, torn>>

\* The body is not complete.  decode_slice gets what happens to be in the
\* buffer behind the cursor as the rest of it.  It fails, or makes a packet of
\* that, which is handled like any other before start_pos moves to its end.
DecodeIncomplete ==
  /\ Scanning /\ Size \notin {None, 0}
  /\ start + Size > Len(held) /\ start + Size <= BufferSize
  /\ decoded' = Append(decoded, <<Begin, End, taken>>)
  /\ \/ status' = "PacketError" /\ UNCHANGED start
     \/ start' = start + Size /\ UNCHANGED status
  /\ UNCHANGED <<held, taken, torn>>

\* A slice of the buffer panics: of a packet that ends beyond the buffer, or of
\* what is left of it when start_pos is beyond the cursor.
SlicePanics ==
  /\ status = "scanning"
  /\ start > Len(held) \/ (Size # None /\ start + Size > BufferSize)
  /\ status' = "panicked"
  /\ UNCHANGED <<held, start, taken, decoded, torn>>

Scan == NeedMore \/ BadLength \/ Decode \/ DecodeIncomplete \/ SlicePanics

Next == (\E len \in 1 .. BufferSize : Read(len)) \/ ReadNothing \/ Scan

Spec == Init /\ [][Next]_vars

\* recv_loop is polled and the broker's bytes arrive.
LiveSpec ==
  Spec /\ WF_vars(Scan) /\ WF_vars(\E len \in 1 .. BufferSize : Read(len))

-----------------------------------------------------------------------------
(* Properties *)

TypeOK ==
  /\ held \in Seq([digit : 0 .. Base - 1, more : BOOLEAN])
  /\ start \in 0 .. BufferSize /\ Len(held) <= BufferSize
  /\ taken \in 0 .. Len(Stream) /\ torn \in BOOLEAN
  /\ status \in {"reading", "scanning", "closed", "full", "PacketError",
               "panicked"}
  /\ start > Len(held) => torn /\ status \in {"scanning", "panicked"}

\* decode_slice is given the packets the broker sent, one after the other, none
\* twice and, however their headers were torn apart, all of each: but for one
\* whose body was torn apart, and nothing is decoded after that one.
DecodesPackets ==
  \A k \in DOMAIN decoded :
    /\ k \in DOMAIN Sizes /\ decoded[k][1] = StartOf(k) /\ decoded[k][2] = EndOf(k)
    /\ decoded[k][3] = EndOf(k) \/ (torn /\ k = Len(decoded))

\* The packets before the first whose length takes more than four bytes.
WellFormed ==
  Cardinality({i \in DOMAIN Sizes : \A j \in 1 .. i : Len(Digits[Sizes[j]]) <= 4})

\* While no body is torn apart, nothing but a malformed packet or the broker
\* ends the receive loop, and the buffer never fills up with what is left over
\* from the last packet.
StreamSurvives ==
  ~torn =>
    /\ status \notin {"panicked", "full"}
    /\ status = "PacketError" => WellFormed < Len(Sizes) /\ Len(decoded) = WellFormed
    /\ status = "reading" => Len(held) < 5

\* Everything the broker sent is decoded, up to a malformed packet, without
\* waiting for more to arrive.
AllDecoded ==
  [](~torn /\ status # "closed") => <>(Len(decoded) = WellFormed)

\* "None is returned when there is not yet enough data to decode a packet."
NoneUntilComplete ==
  status = "scanning" /\ Size # None => start + Size <= Len(held)
=============================================================================

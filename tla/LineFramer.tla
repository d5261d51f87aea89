----------------------------- MODULE LineFramer -----------------------------
(***************************************************************************)
(* The LineFramer of src/locks/src/lib.rs at the level of bytes: a buffer  *)
(* for input that is cut into lines and compacted, and two buffers for     *)
(* output that swap roles. Whether a line is valid UTF-8 is left out: its  *)
(* bytes are consumed either way. An error of the stream changes nothing.  *)
(***************************************************************************)
EXTENDS Integers, Sequences, FiniteSetsExt

CONSTANTS Bytes,        \* what the peer sends
          LF, CR,       \* two of them: the end of a line, and what may precede it
          MaxLine,      \* MAX_LINE
          MaxIn,        \* bound: bytes read
          MaxOut        \* bound: bytes written

ASSUME BytesAssumption == LF \in Bytes /\ CR \in Bytes /\ LF # CR
ASSUME BoundsAssumption == MaxLine \in Nat \ {0} /\ MaxIn \in Nat /\ MaxOut \in Nat

VARIABLES buf, tail,            \* Reader; tail counts the bytes consumed
          bufs, active, cursor, \* Writer; cursor counts the bytes drained
          input, lines,         \* history: bytes read since the last purge, lines returned
          written, out          \* history: bytes given to write, bytes on the stream

reader == <<buf, tail, input, lines>>
writer == <<bufs, active, cursor, written, out>>
vars == <<reader, writer>>

Init ==
  /\ buf = <<>> /\ tail = 0
  /\ bufs = [i \in {0, 1} |-> <<>>] /\ active = 0 /\ cursor = 0
  /\ input = <<>> /\ lines = <<>>
  /\ written = <<>> /\ out = <<>>

-----------------------------------------------------------------------------
(* refresh appends what has arrived, in one read or several.               *)
Refresh(b) ==
  /\ Len(input) < MaxIn
  /\ buf' = Append(buf, b)
  /\ input' = Append(input, b)
  /\ UNCHANGED <<tail, lines, writer>>

Ends == {i \in tail + 1 .. Len(buf) : buf[i] = LF}

(* The bytes of s after from and before the LF at to, without a CR there.  *)
Line(s, from, to) ==
  SubSeq(s, from + 1, IF to - 1 > from /\ s[to - 1] = CR THEN to - 2 ELSE to - 1)

(* Mutant: the consumed bytes are drained and tail stays.                  *)
CompactStays(t) ==
  /\ buf' = IF Len(buf) = t THEN <<>> ELSE IF Len(buf) \div 2 <= t THEN SubSeq(buf, t + 1, Len(buf)) ELSE buf
  /\ tail' = IF Len(buf) = t THEN 0 ELSE t

(* With t bytes consumed, a buffer of which half is consumed is cut.       *)
Compact(t) ==
  IF Len(buf) \div 2 <= t
  THEN buf' = SubSeq(buf, t + 1, Len(buf)) /\ tail' = 0
  ELSE buf' = buf /\ tail' = t

NextLine ==
  /\ Ends # {}
  /\ lines' = Append(lines, Line(buf, tail, Min(Ends)))
  /\ Compact(Min(Ends))
  /\ UNCHANGED <<input, writer>>

LineTooLong ==
  /\ Ends = {} /\ Len(buf) - tail >= MaxLine
  /\ buf' = <<>> /\ tail' = 0
  /\ input' = <<>> /\ lines' = <<>>
  /\ UNCHANGED writer

-----------------------------------------------------------------------------
drain == 1 - active

write_buffer_empty == bufs[active] = <<>> /\ cursor >= Len(bufs[drain])

Write(b) ==
  /\ Len(written) < MaxOut
  /\ bufs' = [bufs EXCEPT ![active] = Append(@, b)]
  /\ written' = Append(written, b)
  /\ UNCHANGED <<reader, active, cursor, out>>

(* Mutant: the buffers swap although the one that drains is not exhausted. *)
SwapEarly ==
  /\ bufs[active] # <<>>
  /\ bufs' = [bufs EXCEPT ![drain] = <<>>]
  /\ active' = drain /\ cursor' = 0
  /\ UNCHANGED <<reader, written, out>>

(* The turns of the loop in flush_nonblocking. It may return after each of *)
(* them, with the rest left for the next call.                             *)
Swap ==
  /\ cursor >= Len(bufs[drain]) /\ bufs[active] # <<>>
  /\ bufs' = [bufs EXCEPT ![drain] = <<>>]
  /\ active' = drain /\ cursor' = 0
  /\ UNCHANGED <<reader, written, out>>

Drain(n) ==
  /\ cursor + n <= Len(bufs[drain])
  /\ out' = out \o SubSeq(bufs[drain], cursor + 1, cursor + n)
  /\ cursor' = cursor + n
  /\ UNCHANGED <<reader, bufs, active, written>>

Next ==
  \/ \E b \in Bytes : Refresh(b)
  \/ NextLine \/ LineTooLong
  \/ Write(Len(written) + 1)
  \/ Swap
  \/ \E n \in 1 .. MaxOut : Drain(n)

Spec == Init /\ [][Next]_vars

-----------------------------------------------------------------------------
(* The ends of the lines of s, and the k-th of them.                       *)
LineEnds(s) == {i \in DOMAIN s : s[i] = LF}
End(s, k) == IF k = 0 THEN 0
             ELSE CHOOSE i \in LineEnds(s) : Cardinality({j \in LineEnds(s) : j <= i}) = k

(* However the input was cut into reads and whenever the buffer was        *)
(* compacted, the lines returned are the first lines of the input, and     *)
(* what is not consumed is all of the rest (next_line, compact).           *)
LinesExact ==
  /\ Len(lines) <= Cardinality(LineEnds(input))
  /\ \A k \in DOMAIN lines : lines[k] = Line(input, End(input, k - 1), End(input, k))
  /\ tail <= Len(buf)
  /\ SubSeq(buf, tail + 1, Len(buf)) = SubSeq(input, End(input, Len(lines)) + 1, Len(input))

(* What is on the stream, what is left to drain and what was written since *)
(* are, in this order, what was written; nothing is left exactly when      *)
(* write_buffer_empty says so (flush_nonblocking).                         *)
OutputExact ==
  /\ written = out \o SubSeq(bufs[drain], cursor + 1, Len(bufs[drain])) \o bufs[active]
  /\ write_buffer_empty <=> out = written

(* What the comment of MAX_LINE says ("Anything longer surfaces as         *)
(* LineTooLong"), of the lines that next_line returns: its length is asked *)
(* for only while the end of the line has not arrived.                     *)
LinesBounded == \A k \in DOMAIN lines : Len(lines[k]) <= MaxLine
=============================================================================

--------------------------- MODULE ChunkCodec ---------------------------
(***************************************************************************)
(* One chunk of a plot group file (PlotGroupFile in plot/PlotFile.hpp),    *)
(* written and read back.                                                  *)
(*                                                                         *)
(* The writer turns a chunk's sorted fragments into deltas, and each delta *)
(* into a high byte (entropy coded) and a variable length field of low     *)
(* bits and a unary quotient.  The reader undoes this field by field, then *)
(* adds the deltas up again.  The chunk of a group holds the fragments of  *)
(* its plots one after the other, those of plot p moved up by p chunk      *)
(* ranges; the reader infers from the growing value where the next plot    *)
(* begins.  Groups of several plots are not written by this code base,     *)
(* only read: the writer here packs them the way readChunk unpacks them.   *)
(*                                                                         *)
(* FSE is the vendored entropy coder: high bytes go in and come out again, *)
(* unless they are too few or do not get smaller.                          *)
(***************************************************************************)
EXTENDS BitFields, SequencesExt, FiniteSets

CONSTANTS
  LowBits,      \* LOW_BITS, k - 8
  HighValues,   \* 178: a remainder's high byte is smaller
  MaxQuotient,  \* 64: the reader refuses larger quotients
  RangePerChunk,\* REGION_RANGE
  ChunkIndexes, \* the chunks written and read
  Groups,       \* groups: per plot, its sorted fragments in the chunk, relative to its start
  Targets(_)    \* the ranges a chunk's reader may be asked for, given the chunk

Threshold == HighValues * 2^LowBits

ASSUME ChunkAssumption ==
  /\ {LowBits, HighValues, MaxQuotient, RangePerChunk} \subseteq Nat \ {0}
  /\ \A group \in Groups : group # <<>> /\ \A p \in DOMAIN group : group[p] # <<>>

VARIABLES
  chunk,      \* chunk_index
  group,      \* what is stored in it
  target,     \* target_range
  phase,      \* "encode", "open", "decode", "place", "done" or "failed"
  error,      \* the exception thrown, when failed
  next,       \* the stacked value that is encoded, or the delta that is placed, next
  prev,       \* prev_value
  highBytes,  \* the high bytes, as the entropy coder returns them
  bits,       \* unary_and_low_bits
  fieldIndex, fieldBits,            \* the reader's place in the fields
  low, lowNeeded, quotient,         \* the delta being decoded
  deltas,     \* proof_deltas decoded so far
  plot,       \* plot_index, from 0
  out         \* out_fragments

writer == <<highBytes, bits>>
reader == <<fieldIndex, fieldBits, low, lowNeeded, quotient, deltas>>
given == <<chunk, group, target>>
vars == <<given, phase, error, next, prev, writer, reader, plot, out>>

ChunkStart == chunk * RangePerChunk

\* the fragments of the chunk as the file orders them
Stacked ==
  FlattenSeq([p \in DOMAIN group |->
                [j \in DOMAIN group[p] |-> ChunkStart + group[p][j] + (p - 1) * RangePerChunk]])

Init ==
  /\ chunk \in ChunkIndexes
  /\ group \in Groups
  /\ target \in Targets(chunk)
  /\ phase = "encode" /\ error = "none"
  /\ next = 1 /\ prev = ChunkStart
  /\ highBytes = <<>> /\ bits = NoBits
  /\ fieldIndex = 0 /\ fieldBits = FieldBits
  /\ low = 0 /\ lowNeeded = LowBits /\ quotient = 0 /\ deltas = <<>>
  /\ plot = 0 /\ out = [p \in DOMAIN group |-> <<>>]

Throw(what) == phase' = "failed" /\ error' = what

-----------------------------------------------------------------------------
(* writeData *)

EncodedLength(d) == d \div Threshold + 1 + LowBits

\* the unary quotient above the low bits of the remainder
DeltaField(d) == Ones(d \div Threshold) * 2^LowBits + ((d % Threshold) % 2^LowBits)

\* a plausible slip: the byte is taken from the delta, not from its remainder
HighByteWhole(d) == d \div 2^LowBits

HighByte(d) == (d % Threshold) \div 2^LowBits

\* a plausible slip: the first fragment is compared with the chunk's start
IsRepeatOfStart == Stacked[next] = prev

IsRepeat == next > 1 /\ Stacked[next] = prev

SkipRepeat ==
  /\ phase = "encode" /\ next <= Len(Stacked)
  /\ IsRepeat
  /\ next' = next + 1
  /\ UNCHANGED <<given, phase, error, prev, writer, reader, plot, out>>

EncodeDelta ==
  /\ phase = "encode" /\ next <= Len(Stacked)
  /\ ~IsRepeat
  /\ LET d == Stacked[next] - prev
     IN  /\ highBytes' = Append(highBytes, HighByte(d))
         /\ bits' = AppendBits(bits, DeltaField(d), EncodedLength(d))
  /\ prev' = Stacked[next]
  /\ next' = next + 1
  /\ UNCHANGED <<given, phase, error, reader, plot, out>>

\* POS2_FSE_compress_usingCTable: no result for one or two bytes; more bytes may
\* come out than went in.
CompressedSizes(n) == IF n <= 2 THEN {0} ELSE {n, n + 1}

\* No result is taken for a buffer that is too small, which no retry changes.
EndEncode ==
  /\ phase = "encode" /\ next > Len(Stacked)
  /\ \E ansSize \in CompressedSizes(Len(highBytes)) :
       IF ansSize = 0 THEN Throw("Buffer too small")
       ELSE IF ansSize > Len(highBytes) THEN Throw("ANS is larger than raw bytes")
       ELSE phase' = "open" /\ UNCHANGED error
  /\ UNCHANGED <<given, next, prev, writer, reader, plot, out>>

-----------------------------------------------------------------------------
(* readChunk *)

\* The room made for high bytes: the non-ANS bytes of the shortest possible deltas.
MaxDeltas == (BytesOf(bits) * 8) \div (LowBits + 1)

OpenChunk ==
  /\ phase = "open"
  /\ IF MaxDeltas < Len(highBytes)
       THEN Throw("FSE destination too small")
       ELSE phase' = "decode" /\ UNCHANGED error
  /\ UNCHANGED <<given, next, prev, writer, reader, plot, out>>

Decoding == phase = "decode" /\ Len(deltas) < Len(highBytes)

LoadField ==
  /\ Decoding
  /\ fieldBits = FieldBits
  /\ IF fieldIndex >= Len(bits.fields)
       THEN Throw("Overflowed compressed bits") /\ UNCHANGED <<fieldIndex, fieldBits>>
       ELSE /\ fieldIndex' = fieldIndex + 1
            /\ fieldBits' = 0
            /\ UNCHANGED <<phase, error>>
  /\ UNCHANGED <<given, next, prev, writer, low, lowNeeded, quotient, deltas, plot, out>>

Field == bits.fields[fieldIndex]

TakeLowBits ==
  /\ Decoding
  /\ fieldBits < FieldBits
  /\ lowNeeded > 0
  /\ LET taken == IF lowNeeded < FieldBits - fieldBits THEN lowNeeded ELSE FieldBits - fieldBits
     IN  /\ low' = low + LowBitsOf(ShiftRight(Field, fieldBits), taken) * 2^(LowBits - lowNeeded)
         /\ lowNeeded' = lowNeeded - taken
         /\ fieldBits' = fieldBits + taken
  /\ UNCHANGED <<given, phase, error, next, prev, writer, fieldIndex, quotient, deltas, plot, out>>

\* a plausible slip: the zero that ends the quotient is looked for in one field only
TakeUnaryOneField ==
  /\ Decoding
  /\ fieldBits < FieldBits
  /\ lowNeeded = 0
  /\ LET ones == TrailingOnes(Field, fieldBits)
         all  == ones = FieldBits - fieldBits
     IN  /\ fieldBits' = fieldBits + ones + IF all THEN 0 ELSE 1
         /\ quotient' = 0
         /\ deltas' = Append(deltas, (quotient + ones) * Threshold
                                     + highBytes[Len(deltas) + 1] * 2^LowBits + low)
         /\ low' = 0 /\ lowNeeded' = LowBits
  /\ UNCHANGED <<given, phase, error, next, prev, writer, fieldIndex, plot, out>>

\* Count the ones left in the field; a zero among them ends the quotient and the delta.
TakeUnary ==
  /\ Decoding
  /\ fieldBits < FieldBits
  /\ lowNeeded = 0
  /\ LET ones  == TrailingOnes(Field, fieldBits)
         total == quotient + ones
     IN  IF ones = FieldBits - fieldBits
           THEN /\ quotient' = total
                /\ fieldBits' = FieldBits
                /\ UNCHANGED <<phase, error, low, lowNeeded, deltas>>
           ELSE IF total > MaxQuotient
           THEN Throw("Invalid quotient") /\ UNCHANGED <<quotient, fieldBits, low, lowNeeded, deltas>>
           ELSE /\ deltas' = Append(deltas, total * Threshold
                                              + highBytes[Len(deltas) + 1] * 2^LowBits + low)
                /\ fieldBits' = fieldBits + ones + 1
                /\ quotient' = 0 /\ low' = 0 /\ lowNeeded' = LowBits
                /\ UNCHANGED <<phase, error>>
  /\ UNCHANGED <<given, next, prev, writer, fieldIndex, plot, out>>

EndDecode ==
  /\ phase = "decode" /\ Len(deltas) = Len(highBytes)
  /\ phase' = "place"
  /\ next' = 1 /\ prev' = ChunkStart
  /\ UNCHANGED <<given, error, writer, reader, plot, out>>

InTarget(f) == target.start <= f /\ f <= target.end

\* region_end and virtual_region advance with plot_index
RegionEnd == ChunkStart + (plot + 1) * RangePerChunk

\* a plausible slip: the fragment that opens the next plot is left moved up
PlaceUnmoved ==
  /\ phase = "place" /\ next <= Len(deltas)
  /\ LET value == prev + deltas[next]
         moves == value >= RegionEnd
         to    == IF moves THEN plot + 1 ELSE plot
         f     == value - plot * RangePerChunk
     IN  /\ plot' = to
         /\ prev' = value
         /\ out' = IF InTarget(f) THEN [out EXCEPT ![to + 1] = Append(@, f)] ELSE out
  /\ next' = next + 1
  /\ UNCHANGED <<given, phase, error, writer, reader>>

\* A value past the current plot's region opens the next plot, one plot on at most.
Place ==
  /\ phase = "place" /\ next <= Len(deltas)
  /\ LET value == prev + deltas[next]
         moves == value >= RegionEnd
         to    == IF moves THEN plot + 1 ELSE plot
         f     == value - to * RangePerChunk
     IN  /\ prev' = value
         /\ IF moves /\ out[plot + 1] = <<>>
           THEN Throw("Plot had no proof fragments") /\ UNCHANGED <<plot, out>>
           ELSE IF to >= Len(group)
           THEN Throw("Malformed plot group") /\ UNCHANGED <<plot, out>>
           ELSE /\ plot' = to
                /\ out' = IF InTarget(f) THEN [out EXCEPT ![to + 1] = Append(@, f)] ELSE out
                /\ UNCHANGED <<phase, error>>
  /\ next' = next + 1
  /\ UNCHANGED <<given, writer, reader>>

EndPlace ==
  /\ phase = "place" /\ next > Len(deltas)
  /\ phase' = "done"
  /\ UNCHANGED <<given, error, next, prev, writer, reader, plot, out>>

Stopped == phase \in {"done", "failed"} /\ UNCHANGED vars

Step == \/ SkipRepeat \/ EncodeDelta \/ EndEncode
        \/ OpenChunk \/ LoadField \/ TakeLowBits \/ TakeUnary \/ EndDecode
        \/ Place \/ EndPlace

Next == Step \/ Stopped

Spec == Init /\ [][Next]_vars

-----------------------------------------------------------------------------
(* Properties *)

\* The type invariant.
TypeOK ==
  /\ phase \in {"encode", "open", "decode", "place", "done", "failed"}
  /\ next \in 1..(Len(Stacked) + 1)
  /\ \A j \in DOMAIN highBytes : highBytes[j] \in 0..(HighValues - 1)
  /\ \A j \in DOMAIN bits.fields : bits.fields[j] \in FieldValues
  /\ fieldIndex \in 0..Len(bits.fields) /\ fieldBits \in 0..FieldBits
  /\ low \in 0..(2^LowBits - 1) /\ lowNeeded \in 0..LowBits
  /\ quotient \in Nat /\ deltas \in Seq(Nat)
  /\ plot \in 0..(Len(group) - 1)

\* the distinct fragments of plot p that the reader was asked for, in order
Wanted(p) ==
  SetToSortSeq({f \in {ChunkStart + group[p][j] : j \in DOMAIN group[p]} : InTarget(f)}, <)

\* A chunk read to its end gives each plot exactly its own distinct fragments, in order:
\* encoding, field layout, plot boundaries and range filter undo each other.
ReadsWhatWasWritten == phase = "done" => \A p \in DOMAIN group : out[p] = Wanted(p)

\* the deltas of the distinct stacked values
WrittenDeltas ==
  LET values == SetToSortSeq(ToSet(Stacked), <)
  IN  [j \in DOMAIN values |-> values[j] - IF j = 1 THEN ChunkStart ELSE values[j - 1]]

\* The reader never loses its place in the bit stream: what it has decoded is the start
\* of what was written, wherever a delta straddles two fields or ends on a boundary.
DecodesInStep == phase \in {"decode", "place"} => IsPrefix(deltas, WrittenDeltas)

WriterErrors == {"Buffer too small", "ANS is larger than raw bytes"}

\* A chunk that was written can be read: none of readChunk's checks refuses it.
NeverRefused == phase = "failed" => error \in WriterErrors

\* writeData's assertion: a delta's quotient, its zero and its low bits fit in one field.
QuotientFits ==
  (phase = "encode" /\ next <= Len(Stacked) /\ ~IsRepeat)
     => EncodedLength(Stacked[next] - prev) <= FieldBits

==============================================================================

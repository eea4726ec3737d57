--------------------------- MODULE BitFields ---------------------------
(***************************************************************************)
(* Bit streams kept in fields of FieldBits bits (64 in the code): the      *)
(* writer of common/Utils.hpp and the reader of common/BitReader.hpp.  A   *)
(* stream is filled from the least significant bit of each field up.       *)
(***************************************************************************)
EXTENDS Integers, Sequences

CONSTANT FieldBits

ASSUME FieldAssumption == FieldBits \in Nat \ {0}

FieldValues == 0..(2^FieldBits - 1)

ShiftLeft(v, n) == (v * 2^n) % 2^FieldBits
ShiftRight(v, n) == v \div 2^n
LowBitsOf(v, n) == v % 2^n

NoBits == [fields |-> <<>>, count |-> 0]

\* BitWriter::append of the n low bits v.  The field's upper bits are still zero, so
\* the bitwise or of the code is a sum.
AppendBits(w, v, n) ==
  LET index == w.count \div FieldBits
      used  == w.count % FieldBits
      grown == IF Len(w.fields) <= index THEN Append(w.fields, 0) ELSE w.fields
      ored  == [grown EXCEPT ![index + 1] = @ + ShiftLeft(v, used)]
  IN  [fields |-> IF n > FieldBits - used THEN Append(ored, ShiftRight(v, FieldBits - used))
                                          ELSE ored,
       count  |-> w.count + n]

\* std::countr_one of the upper FieldBits - used bits of a field
TrailingOnes(field, used) ==
  LET isOne(b) == (field \div 2^b) % 2 = 1
  IN  CHOOSE n \in 0..(FieldBits - used) :
        /\ \A b \in used..(used + n - 1) : isOne(b)
        /\ n = FieldBits - used \/ ~isOne(used + n)

\* bytes that asBytes() hands to the file
BytesOf(w) == (w.count + 7) \div 8

Ones(n) == 2^n - 1

-----------------------------------------------------------------------------
(* BitReader, of the first limit bits of the fields of w.  What it reads    *)
(* at a position, or Refused where it throws.                               *)

Refused == [value |-> 0, end |-> -1]

FieldAt(w, pos) == ShiftRight(w.fields[(pos \div FieldBits) + 1], pos % FieldBits)

\* read_u64, and read_one with n = 1
ReadBits(w, limit, pos, n) ==
  LET available == FieldBits - (pos % FieldBits)
      more == IF available < n THEN ShiftLeft(w.fields[(pos \div FieldBits) + 2], available) ELSE 0
  IN  IF pos + n > limit THEN Refused
      ELSE [value |-> LowBitsOf(FieldAt(w, pos) + more, n), end |-> pos + n]

\* Mutant of ReadUnary: it ends with the field.
ReadUnaryOneField(w, limit, pos) ==
  LET ones == TrailingOnes(w.fields[(pos \div FieldBits) + 1], pos % FieldBits)
  IN  IF pos >= limit THEN Refused ELSE [value |-> ones, end |-> pos + ones + 1]

\* read_unary_64: ones, over as many fields as they fill, and the zero after them
ReadUnary(w, limit, pos) ==
  LET from[p \in Nat] ==
        LET ones == TrailingOnes(w.fields[(p \div FieldBits) + 1], p % FieldBits)
        IN  IF p >= limit \/ (p + ones) - pos >= FieldBits THEN Refused
            ELSE IF ones >= FieldBits - (p % FieldBits) \/ ones >= limit - p THEN from[p + ones]
            ELSE [value |-> (p + ones) - pos, end |-> p + ones + 1]
  IN  from[pos]
========================================================================

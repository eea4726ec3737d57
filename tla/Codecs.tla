------------------------------ MODULE Codecs ------------------------------
(***************************************************************************)
(* The other encodings of the program, each written value by value and     *)
(* then read back:                                                         *)
(*   "stub"   a chunk of a plot file (ChunkCompressor of                   *)
(*            plot/ChunkCompression.hpp): fragments as deltas, whose low   *)
(*            bits are packed into bytes from the low end and whose high   *)
(*            byte the entropy coder gets,                                 *)
(*   "sizes"  the chunk index of a group file (gsz_encode and gsz_decode): *)
(*            chunk sizes as Golomb codes around the size that is expected *)
(*            of the group,                                                *)
(*   "proof"  the x values of a full proof (compact_bits and expand_bits   *)
(*            of crates/chik-pos2/src/bits.rs), packed from the high end;  *)
(*            what is expanded comes from outside and may have bits set    *)
(*            behind the last value, or lack its last byte.                *)
(* Bytes and words are shorter than the code's.  Asserts are compiled in.  *)
(***************************************************************************)
EXTENDS BitFields, SequencesExt, FiniteSets

CONSTANTS
  ByteBits,  \* 8
  WordBits,  \* 64, the bits of bitbuf
  Jobs       \* what is encoded: [codec, width, values]

\* compress asserts stub_bits < 56, compact_bits asserts k >= 8.
ASSUME CodecAssumption ==
  /\ {ByteBits, WordBits} \subseteq Nat \ {0}
  /\ \A j \in Jobs : /\ j.codec \in {"stub", "sizes", "proof"}
                     /\ j.values \in Seq(Nat)
                     /\ j.codec = "stub" => j.width \in 1 .. WordBits - ByteBits - 1
                     /\ j.codec = "proof" => /\ j.width >= ByteBits
                                             /\ \A i \in DOMAIN j.values : j.values[i] < 2^j.width

VARIABLES
  job,    \* the codec, its width (stub_bits, group_size, k) and the values
  phase,  \* "write", "sent", "read", "done" or "failed"
  error,  \* why it failed
  next,   \* the value that is written next
  prev,   \* the fragment before it, or before the one read next
  deltas, \* the high bytes of the deltas
  buf,    \* bitbuf, or val
  count,  \* bitcount: bits in buf, or bits_left: bits still missing in it
  todo,   \* x_bits or byte_bits: the bits of the value or byte not yet moved
  stream, \* the bytes written; for sizes, the fields of a BitWriter
  at,     \* bytes read; for sizes, bits read
  got,    \* the values read
  whole   \* the proof arrived as it was sent

state == <<next, prev, deltas, buf, count, todo, stream, at, got, whole>>
vars  == <<job, phase, error, state>>

Is(codec, ph) == job.codec = codec /\ phase = ph

Width == job.width
Value == job.values[next]
More  == next <= Len(job.values)

Throw(what) == phase' = "failed" /\ error' = what /\ UNCHANGED state

Smaller(a, b) == IF a < b THEN a ELSE b

-----------------------------------------------------------------------------
(* deltifyAndStubProofFragments, compress and packStubs                    *)

Byte(v) == v % 2^ByteBits

\* Mutant of PackStub: the bytes that leave stay in the buffer.
PackStubKept(stub) ==
  LET bits == (buf + stub * 2^count) % 2^WordBits
      full == (count + Width) \div ByteBits
  IN  /\ stream' = stream \o [j \in 1 .. full |-> Byte(bits \div 2^(ByteBits * (j - 1)))]
      /\ buf' = bits
      /\ count' = (count + Width) % ByteBits

\* A stub is put on top of the bits left over; whole bytes leave at the low end.
PackStub(stub) ==
  LET bits == (buf + stub * 2^count) % 2^WordBits
      full == (count + Width) \div ByteBits
  IN  /\ stream' = stream \o [j \in 1 .. full |-> Byte(bits \div 2^(ByteBits * (j - 1)))]
      /\ buf' = bits \div 2^(ByteBits * full)
      /\ count' = (count + Width) % ByteBits

WriteFragment ==
  /\ Is("stub", "write") /\ More
  /\ LET delta == Value - prev
     IN  IF delta < 0 THEN Throw("decreasing")
         ELSE IF delta \div 2^Width >= 2^ByteBits THEN Throw("delta too large")
         ELSE /\ PackStub(delta % 2^Width)
              /\ deltas' = Append(deltas, delta \div 2^Width)
              /\ prev' = Value
              /\ next' = next + 1
              /\ UNCHANGED <<phase, error, todo, at, got, whole>>
  /\ UNCHANGED job

EndChunk ==
  /\ Is("stub", "write") /\ ~More
  /\ stream' = IF count > 0 THEN Append(stream, Byte(buf)) ELSE stream
  /\ phase' = "sent"
  /\ prev' = 0 /\ buf' = 0 /\ count' = 0
  /\ UNCHANGED <<job, error, next, deltas, todo, at, got, whole>>

-----------------------------------------------------------------------------
(* decompressProofFragments, decompress and unpackStubs                    *)

\* POS2_FSE_compress gives no data for bytes that are all alike or all different,
\* and may give none for others; compress writes the chunk without.
NeverSmaller == Cardinality(ToSet(deltas)) \in {1, Len(deltas)}

\* An empty chunk is its header alone.
OpenChunk ==
  /\ Is("stub", "sent")
  /\ \E coded \in BOOLEAN :
       /\ coded => ~NeverSmaller
       /\ IF deltas = <<>> THEN Throw("chunk.size() > 12")
          ELSE IF ~coded THEN Throw("FSE_decompress failed")
          ELSE phase' = "read" /\ UNCHANGED <<error, state>>
  /\ UNCHANGED job

Loads == IF count < Width THEN (Width - count + ByteBits - 1) \div ByteBits ELSE 0

\* Bytes, the lowest first
LittleEndian(bytes) == FoldRight(LAMBDA b, above : b + above * 2^ByteBits, bytes, 0)

\* Mutant of UnpackStub: what is left of a byte is dropped.
UnpackStubAligned(bits) ==
  buf' = 0 /\ count' = 0 /\ at' = at + Loads

\* The stub is taken from the low end, what is left stays in the buffer.
UnpackStub(bits) ==
  buf' = bits \div 2^Width /\ count' = count + Loads * ByteBits - Width /\ at' = at + Loads

ReadFragment ==
  /\ Is("stub", "read") /\ Len(got) < Len(deltas)
  /\ IF at + Loads > Len(stream) THEN Throw("not enough stub data")
     ELSE LET bits == (buf + LittleEndian(SubSeq(stream, at + 1, at + Loads)) * 2^count) % 2^WordBits
              fragment == prev + deltas[Len(got) + 1] * 2^Width + (bits % 2^Width)
          IN  /\ UnpackStub(bits)
              /\ got' = Append(got, fragment)
              /\ prev' = fragment
              /\ UNCHANGED <<phase, error, next, deltas, todo, stream, whole>>
  /\ UNCHANGED job

-----------------------------------------------------------------------------
(* gsz_encode and gsz_decode, for a group of Width plots                   *)

RootOf(n) == CHOOSE r \in 0 .. n : r * r <= n /\ n < (r + 1) * (r + 1)
Log2Of(n) == CHOOSE f \in 0 .. n : 2^f <= n /\ n < 2^(f + 1)

\* gsz_round_log2_u64
RoundLog2(n) ==
  IF n <= 1 THEN 0
  ELSE IF n * n < 2^(2 * Log2Of(n) + 1) THEN Log2Of(n) ELSE Log2Of(n) + 1

RiceK    == RoundLog2(RootOf(357 * Width))
Expected == (Width * 60301) \div 256

\* Sign, remainder of RiceK bits, quotient in ones, and a zero.
WriteSize ==
  /\ Is("sizes", "write") /\ More
  /\ LET delta     == Value - Expected
         magnitude == IF delta < 0 THEN -delta ELSE delta
         quotient  == magnitude \div 2^RiceK
         sign      == IF delta < 0 THEN 1 ELSE 0
         length    == quotient + RiceK + 2
     IN  IF length > FieldBits THEN Throw("field_size <= 64")
         ELSE /\ stream' = AppendBits(stream, Ones(quotient) * 2^(RiceK + 1)
                                                + (magnitude % 2^RiceK) * 2 + sign, length)
              /\ next' = next + 1
              /\ UNCHANGED <<phase, error, prev, deltas, buf, count, todo, at, got, whole>>
  /\ UNCHANGED job

EndSizes ==
  /\ Is("sizes", "write") /\ ~More
  /\ phase' = "read"
  /\ UNCHANGED <<job, error, state>>

\* The reader is given whole bytes.
Limit == BytesOf(stream) * 8

ReadSize ==
  /\ Is("sizes", "read") /\ Len(got) < Len(job.values)
  /\ LET sign      == ReadBits(stream, Limit, at, 1)
         remainder == IF RiceK = 0 THEN [value |-> 0, end |-> sign.end]
                                   ELSE ReadBits(stream, Limit, sign.end, RiceK)
         quotient  == ReadUnary(stream, Limit, remainder.end)
         magnitude == quotient.value * 2^RiceK + remainder.value
         size      == Expected + IF sign.value = 1 THEN -magnitude ELSE magnitude
     IN  IF Refused \in {sign, remainder, quotient} THEN Throw("out of range")
         ELSE IF size < 1 THEN Throw("Invalid delta")
         ELSE /\ got' = Append(got, size)
              /\ at' = quotient.end
              /\ UNCHANGED <<phase, error, next, prev, deltas, buf, count, todo, stream, whole>>
  /\ UNCHANGED job

-----------------------------------------------------------------------------
(* compact_bits: one turn of its inner loop moves what fits into val.      *)

PackPart ==
  /\ Is("proof", "write") /\ More
  /\ LET moved == Smaller(count, todo)
         left  == Value % 2^todo
         val   == buf + IF todo > count THEN Byte(left \div 2^(todo - count))
                                        ELSE Byte(left * 2^(count - todo))
     IN  /\ IF moved = count
              THEN stream' = Append(stream, val) /\ buf' = 0 /\ count' = ByteBits
              ELSE UNCHANGED stream /\ buf' = val /\ count' = count - moved
         /\ IF moved = todo
              THEN next' = next + 1 /\ todo' = Width
              ELSE UNCHANGED next /\ todo' = todo - moved
  /\ UNCHANGED <<job, phase, error, prev, deltas, at, got, whole>>

EndPack ==
  /\ Is("proof", "write") /\ ~More
  /\ stream' = IF count < ByteBits THEN Append(stream, buf) ELSE stream
  /\ phase' = "sent"
  /\ UNCHANGED <<job, error, next, prev, deltas, buf, count, todo, at, got, whole>>

\* The proof comes back as it was sent, with the bits behind its last value set,
\* or without its last byte.
Receive ==
  /\ Is("proof", "sent")
  /\ LET last    == Len(stream)
         spare   == (Len(stream) * ByteBits) - (Len(job.values) * Width)
         padded  == [stream EXCEPT ![last] = @ + Ones(spare)]
     IN  stream' \in {stream} \cup IF stream = <<>> THEN {} ELSE {padded, Front(stream)}
  /\ whole' = (stream' = stream)
  /\ phase' = "read"
  /\ buf' = 0 /\ count' = Width /\ todo' = ByteBits
  /\ UNCHANGED <<job, error, next, prev, deltas, at, got>>

\* The part of a byte that goes into val: what is left of it, or the top of that.
TakenBits(byte) ==
  LET left == byte % 2^todo
  IN  IF count > todo THEN left * 2^(count - todo) ELSE left \div 2^(todo - count)

\* expand_bits: one turn of its inner loop.
ExpandPart ==
  /\ Is("proof", "read") /\ at < Len(stream)
  /\ LET moved == Smaller(count, todo)
         val   == buf + TakenBits(stream[at + 1])
     IN  /\ IF moved = count
              THEN got' = Append(got, val) /\ buf' = 0 /\ count' = Width
              ELSE UNCHANGED got /\ buf' = val /\ count' = count - moved
         /\ IF moved = todo
              THEN at' = at + 1 /\ todo' = ByteBits
              ELSE UNCHANGED at /\ todo' = todo - moved
  /\ UNCHANGED <<job, phase, error, next, prev, deltas, stream, whole>>

-----------------------------------------------------------------------------
AllRead == CASE job.codec = "stub"  -> Len(got) = Len(deltas)
             [] job.codec = "sizes" -> Len(got) = Len(job.values)
             [] job.codec = "proof" -> at = Len(stream)

\* Mutant of EndRead: bits that are left over are not looked at.
EndReadAny ==
  /\ phase = "read" /\ AllRead
  /\ phase' = "done"
  /\ UNCHANGED <<job, error, state>>

\* Bits that are left over and not zero make a proof invalid.
EndRead ==
  /\ phase = "read" /\ AllRead
  /\ IF job.codec = "proof" /\ buf # 0 THEN Throw("None")
     ELSE phase' = "done" /\ UNCHANGED <<error, state>>
  /\ UNCHANGED job

Init ==
  /\ job \in Jobs
  /\ phase = "write" /\ error = "none"
  /\ next = 1 /\ prev = 0 /\ deltas = <<>> /\ buf = 0
  /\ count = IF job.codec = "proof" THEN ByteBits ELSE 0
  /\ todo = IF job.codec = "proof" THEN job.width ELSE 0
  /\ stream = IF job.codec = "sizes" THEN NoBits ELSE <<>>
  /\ at = 0 /\ got = <<>> /\ whole = TRUE

Ended == phase \in {"done", "failed"}

Next ==
  \/ WriteFragment \/ EndChunk \/ OpenChunk \/ ReadFragment
  \/ WriteSize \/ EndSizes \/ ReadSize
  \/ PackPart \/ EndPack \/ Receive \/ ExpandPart
  \/ EndRead
  \/ Ended /\ UNCHANGED vars

\* There is no other step to take, so without a deadlock every job ends.
Spec == Init /\ [][Next]_vars

-----------------------------------------------------------------------------
(* Properties                                                              *)

\* Type correctness; a byte is a byte, and bitbuf has no bits above bitcount.
TypeOK ==
  /\ phase \in {"write", "sent", "read", "done", "failed"}
  /\ next \in 1 .. Len(job.values) + 1
  /\ got \in Seq(Nat) /\ deltas \in Seq(0 .. 2^ByteBits - 1)
  /\ job.codec # "sizes" => /\ stream \in Seq(0 .. 2^ByteBits - 1)
                            /\ at \in 0 .. Len(stream)
  /\ job.codec = "sizes" => at \in 0 .. Limit /\ stream.count \in Nat
  /\ job.codec = "stub" => buf < 2^count
  /\ whole \in BOOLEAN

\* What was encoded is what is decoded, at every value of the way: neither side loses
\* its place where a value straddles bytes or fields, or ends with one.
ReadsBack ==
  (phase \in {"read", "done"} /\ whole) =>
    IsPrefix(got, job.values) /\ (phase = "done" => got = job.values)

\* Bit b of the proof that was received, the high end first
BitOf(b) == (stream[(b \div ByteBits) + 1] \div 2^(ByteBits - 1 - (b % ByteBits))) % 2

\* Whatever proof arrives, the x values are its bits cut every Width bits, and bits
\* that make no whole value are only ever zero (expand_bits).
ExpandsBits ==
  Is("proof", "done") =>
    LET bits == Len(stream) * ByteBits
    IN  /\ Len(got) = bits \div Width
        /\ \A i \in DOMAIN got, j \in 0 .. Width - 1 :
             (got[i] \div 2^(Width - 1 - j)) % 2 = BitOf((i - 1) * Width + j)
        /\ \A b \in Len(got) * Width .. bits - 1 : BitOf(b) = 0

Gaps == [i \in DOMAIN job.values |-> job.values[i] - IF i = 1 THEN 0 ELSE job.values[i - 1]]

\* A job is refused for no other reason than these, and never read to its end when one
\* of them holds: no chunk or index that was written runs out of data when it is read.
RefusedOnlyFor ==
  /\ error = "decreasing" => \E i \in DOMAIN Gaps : Gaps[i] < 0
  /\ error = "delta too large" => \E i \in DOMAIN Gaps : Gaps[i] >= 2^(Width + ByteBits)
  /\ error = "chunk.size() > 12" => job.values = <<>>
  /\ error = "Invalid delta" => 0 \in ToSet(job.values)
  /\ error = "None" => ~whole
  /\ error \notin {"not enough stub data", "out of range"}
  /\ Is("sizes", "done") => 0 \notin ToSet(job.values)
  /\ Is("stub", "done") => job.values # <<>> /\ Cardinality(ToSet(deltas)) > 1
===========================================================================

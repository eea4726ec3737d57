--------------------------- MODULE PlotFilesProofs ---------------------------
(***************************************************************************)
(* Plot files of any number of chunks, and of any number of index pieces:  *)
(* wherever the writer stops and whenever a reader comes, a chunk that is  *)
(* returned is the one that was written (OnlyWrittenChunks), and a file    *)
(* that is complete can be read (CompleteReadable).                        *)
(***************************************************************************)
EXTENDS PlotFiles, TLAPS

Bodies == BodyAt(Chunks) + 1

(***************************************************************************)
(* How much of the file is on disk when the writer is where it is.         *)
(***************************************************************************)
WriterInv ==
  /\ writer = "create" => size = 0
  /\ writer = "table"  => ~Grouped /\ size \in 1 .. Chunks
  /\ writer = "bodies" => size \in BodyAt(1) .. BodyAt(Chunks)
  /\ writer = "patch"  => size = Bodies
  /\ writer = "index"  => /\ Grouped /\ size >= FirstIndexPart
                          /\ size < FirstIndexPart + IndexParts
  /\ writer = "done"   => size = IF Grouped THEN FirstIndexPart + IndexParts ELSE Bodies

(***************************************************************************)
(* What the writer has gone back to fill in, and that all bodies were      *)
(* written before.                                                         *)
(***************************************************************************)
PatchedInv ==
  /\ indexAt = IF Grouped /\ writer \in {"index", "done"} THEN FirstIndexPart ELSE 0
  /\ \A c \in Numbers : table[c] = 0 \/ table[c] = BodyAt(c)
  /\ \A c \in Numbers : table[c] # 0 => ~Grouped /\ writer \in {"patch", "done"}
  /\ ~Grouped /\ writer = "done" => \A c \in Numbers : table[c] # 0

(***************************************************************************)
(* What an object knows of the file is a placeholder or true, and that it  *)
(* is true when the object was made after the file was complete.           *)
(***************************************************************************)
InfoInv ==
  /\ info \in [indexAt : {0, FirstIndexPart}, indexSize : Nat]
  /\ info.indexAt # 0 => writer \in {"index", "done"}
  /\ late => /\ writer = "done" /\ ~failed
             /\ Grouped => info.indexAt = FirstIndexPart /\ info.indexSize = IndexParts

OffsetsInv ==
  offsets # <<>> =>
    /\ \A c \in Numbers : offsets[c] = 0 \/ offsets[c] = BodyAt(c)
    /\ \A c \in Numbers : offsets[c] # 0 => Bodies <= size
    /\ Grouped /\ info.indexAt # 0 => \A c \in Numbers : offsets[c] # 0
    /\ late => \A c \in Numbers : offsets[c] # 0

\* A result is the chunk that was asked for, unless the index was sought at the placeholder.
IInv == TypeOK /\ WriterInv /\ PatchedInv /\ InfoInv /\ OffsetsInv /\ OnlyWrittenChunks
-----------------------------------------------------------------------------
(* Places in a file.                                                       *)

\* The counts of the file are numbers, and a format is one of the two classes.
LEMMA ConstantFacts ==
  /\ Chunks \in Nat \ {0} /\ IndexParts \in Nat \ {0}
  /\ Bodies \in Nat /\ BodyAt(1) \in Nat /\ BodyAt(Chunks) \in Nat
  /\ FirstIndexPart = Chunks + 1
  /\ Grouped  => BodyAt(1) = 1 /\ BodyAt(Chunks) = Chunks /\ Bodies = FirstIndexPart
  /\ ~Grouped => /\ BodyAt(1) = Chunks + 1 /\ BodyAt(Chunks) = 2 * Chunks
                 /\ Bodies = 2 * Chunks + 1
BY FilesAssumption DEF Bodies, BodyAt, FirstIndexPart

\* Every body has a place of its own, behind the header and before what follows the bodies.
LEMMA BodyPlaces ==
  /\ \A c \in Numbers : BodyAt(c) \in Nat /\ 0 < BodyAt(c) /\ BodyAt(c) < Bodies
  /\ \A c, d \in Numbers : BodyAt(c) = BodyAt(d) => c = d
BY FilesAssumption DEF Bodies, BodyAt, Numbers

\* At the place of a body that is on disk there is this body, at the placeholder none.
LEMMA ContentsOfBody ==
  ASSUME size \in Nat
  PROVE  /\ \A c \in Numbers : BodyAt(c) < size => Contents(BodyAt(c)) = c
         /\ Contents(0) = Garbage
         /\ \A c \in Numbers : c # Garbage
<1>1. ASSUME NEW c \in Numbers, BodyAt(c) < size
      PROVE  Contents(BodyAt(c)) = c
  <2>1. (CHOOSE d \in Numbers : BodyAt(d) = BodyAt(c)) = c
    BY BodyPlaces
  <2> HIDE DEF BodyAt
  <2> QED BY <1>1, <2>1 DEF Contents
<1>2. Contents(0) = Garbage
  BY BodyPlaces DEF Contents
<1>3. \A c \in Numbers : c # Garbage
  BY FilesAssumption DEF Numbers, Garbage
<1> QED BY <1>1, <1>2, <1>3

-----------------------------------------------------------------------------
(* The writers.                                                            *)

\* A step of a writer makes the file longer or fills a placeholder with the true place.
LEMMA WriteStep ==
  ASSUME IInv, Write
  PROVE  /\ WriterInv' /\ PatchedInv'
         /\ UNCHANGED <<format, object>>
         /\ size \in Nat /\ size' \in Nat /\ size <= size'
         /\ writer # "done" /\ (writer = "index" => writer' \in {"index", "done"})
<1> USE ConstantFacts
<1>0. /\ size \in Nat /\ WriterInv /\ PatchedInv /\ format \in Formats
      /\ table \in [Numbers -> {0} \cup {BodyAt(c) : c \in Numbers}]
  BY DEF IInv, TypeOK
<1>1. CASE WriteHeader
  <2>1. /\ UNCHANGED <<format, indexAt, table, object>> /\ size' = 1 /\ writer = "create"
        /\ writer' = IF Grouped THEN "bodies" ELSE "table"
    BY <1>1 DEF WriteHeader
  <2>2. WriterInv'
    BY <2>1 DEF WriterInv, Grouped, BodyAt, Bodies
  <2>3. PatchedInv'
    BY <1>0, <2>1 DEF PatchedInv, Grouped, BodyAt
  <2> QED BY <1>0, <2>1, <2>2, <2>3 DEF WriterInv
<1>2. CASE WritePlaceholder
  <2>1. /\ UNCHANGED <<format, indexAt, table, object>> /\ writer = "table"
        /\ size' = size + 1 /\ writer' = IF size' = BodyAt(1) THEN "bodies" ELSE "table"
    BY <1>2 DEF WritePlaceholder
  <2>2. ~Grouped /\ size \in 1 .. Chunks
    BY <1>0, <2>1 DEF WriterInv
  <2>3. WriterInv'
    BY <2>1, <2>2 DEF WriterInv, Grouped, BodyAt, Bodies
  <2>4. PatchedInv'
    BY <1>0, <2>1 DEF PatchedInv, Grouped, BodyAt
  <2> QED BY <1>0, <2>1, <2>3, <2>4
<1>3. CASE WriteBody
  <2>1. /\ UNCHANGED <<format, indexAt, table, object>> /\ writer = "bodies"
        /\ size' = size + 1 /\ writer' = IF size = BodyAt(Chunks) THEN "patch" ELSE "bodies"
    BY <1>3 DEF WriteBody
  <2>2. size \in BodyAt(1) .. BodyAt(Chunks)
    BY <1>0, <2>1 DEF WriterInv
  <2>3. BodyAt(1)' = BodyAt(1) /\ BodyAt(Chunks)' = BodyAt(Chunks) /\ Bodies' = Bodies
    BY <2>1 DEF BodyAt, Bodies, Grouped
  <2>4. size' \in BodyAt(1) .. BodyAt(Chunks) \/ (writer' = "patch" /\ size' = Bodies)
    <3> HIDE DEF BodyAt
    <3> QED BY <2>1, <2>2 DEF Bodies
  <2>5. WriterInv'
    BY <2>1, <2>2, <2>3, <2>4 DEF WriterInv
  <2>6. PatchedInv'
    BY <1>0, <2>1 DEF PatchedInv, Grouped, BodyAt
  <2> QED BY <1>0, <2>1, <2>5, <2>6
<1>4. CASE PatchHeader
  <2>1. /\ UNCHANGED <<format, size, table, object>> /\ writer = "patch" /\ Grouped
        /\ indexAt' = size /\ writer' = "index"
    BY <1>4 DEF PatchHeader
  <2>2. size = FirstIndexPart
    BY <1>0, <2>1 DEF WriterInv
  <2>3. WriterInv'
    BY <2>1, <2>2 DEF WriterInv, Grouped
  <2>4. PatchedInv'
    BY <1>0, <2>1, <2>2 DEF PatchedInv, Grouped, BodyAt
  <2> QED BY <1>0, <2>1, <2>3, <2>4
<1>5. CASE WriteIndexPart
  <2>1. /\ UNCHANGED <<format, indexAt, table, object>> /\ writer = "index"
        /\ size' = size + 1
        /\ writer' = IF size' = FirstIndexPart + IndexParts THEN "done" ELSE "index"
    BY <1>5 DEF WriteIndexPart
  <2>2. Grouped /\ size >= FirstIndexPart /\ size < FirstIndexPart + IndexParts
    BY <1>0, <2>1 DEF WriterInv
  <2>3. WriterInv'
    BY <1>0, <2>1, <2>2 DEF WriterInv, Grouped
  <2>4. PatchedInv'
    BY <1>0, <2>1, <2>2 DEF PatchedInv, Grouped, BodyAt
  <2> QED BY <1>0, <2>1, <2>3, <2>4
<1>6. ASSUME NEW c \in Numbers, PatchOffset(c)
      PROVE  /\ WriterInv' /\ PatchedInv' /\ UNCHANGED <<format, size, object>>
             /\ writer = "patch"
  <2>1. /\ UNCHANGED <<format, size, indexAt, object>> /\ writer = "patch" /\ ~Grouped
        /\ \A d \in Numbers : table[d] = 0 <=> d >= c
        /\ table' = [table EXCEPT ![c] = BodyAt(c)]
        /\ writer' = IF c = Chunks THEN "done" ELSE "patch"
    BY <1>6 DEF PatchOffset
  <2>2. WriterInv'
    BY <1>0, <2>1 DEF WriterInv, Grouped, Bodies, BodyAt
  <2>3. /\ \A d \in Numbers : table'[d] = IF d = c THEN BodyAt(c) ELSE table[d]
        /\ \A d \in Numbers : BodyAt(d)' = BodyAt(d)
        /\ Grouped' = Grouped
    <3>1. \A d \in Numbers : table'[d] = IF d = c THEN BodyAt(c) ELSE table[d]
      <4> HIDE DEF BodyAt
      <4> QED BY <1>0, <2>1
    <3> QED BY <2>1, <3>1 DEF BodyAt, Grouped
  <2>4. writer' = "done" => \A d \in Numbers : table'[d] # 0
    <3>1. SUFFICES ASSUME c = Chunks, NEW d \in Numbers PROVE table'[d] # 0
      BY <2>1
    <3>2. d = c \/ ~ (d >= c)
      BY <3>1 DEF Numbers
    <3> QED BY <2>1, <2>3, <3>2, BodyPlaces
  <2>5. PatchedInv'
    BY <1>0, <2>1, <2>3, <2>4 DEF PatchedInv
  <2> QED BY <2>1, <2>2, <2>5
<1> QED BY <1>0, <1>1, <1>2, <1>3, <1>4, <1>5, <1>6 DEF Write

-----------------------------------------------------------------------------
(* The readers.                                                            *)

\* What a step has to keep of an object.
ObjectInv == InfoInv /\ OffsetsInv /\ OnlyWrittenChunks

\* The type of an object.
ObjectType ==
  /\ reader \in {"none", "idle", "read"}
  /\ offsets = <<>> \/ DOMAIN offsets = Numbers
  /\ failed \in BOOLEAN /\ late \in BOOLEAN
  /\ asked \in Numbers /\ result \in {Nothing, Garbage} \cup Numbers

\* A new object knows what the header says now; the index is behind the bodies.
LEMMA MakeStep ==
  ASSUME IInv, MakePlotFile \/ OpenGroupFile
  PROVE  ObjectType' /\ ObjectInv'
<1> USE ConstantFacts
<1>0. /\ size \in Nat /\ WriterInv /\ PatchedInv
      /\ writer \in {"create", "table", "bodies", "patch", "index", "done"}
  BY DEF IInv, TypeOK
<1>1. /\ UNCHANGED file /\ reader' = "idle" /\ offsets' = <<>> /\ failed' = FALSE
      /\ asked' = 1 /\ result' = Nothing /\ late' = (writer = "done")
      /\ \/ ~Grouped /\ info' = NoInfo
         \/ Grouped /\ indexAt < size /\ info' = [indexAt |-> indexAt, indexSize |-> size - indexAt]
  BY DEF MakePlotFile, OpenGroupFile, Made
<1>2. late' \in BOOLEAN /\ (late' => writer = "done")
  BY <1>1, Zenon
<1>3. ObjectType'
  <2>1. asked' \in Numbers
    BY <1>1 DEF Numbers
  <2>2. reader' = "idle" /\ offsets' = <<>> /\ failed' = FALSE /\ result' = Nothing
    BY <1>1, Zenon
  <2> QED BY <1>2, <2>1, <2>2 DEF ObjectType
<1>4. InfoInv'
  <2>1. UNCHANGED <<format, writer>> /\ failed' = FALSE
    BY <1>1 DEF file
  <2>2. CASE ~Grouped
    <3>1. info' = NoInfo
      BY <1>1, <2>2, Zenon
    <3> QED BY <1>2, <2>1, <2>2, <3>1 DEF InfoInv, NoInfo, Grouped
  <2>3. CASE Grouped
    <3>1. /\ indexAt = IF writer \in {"index", "done"} THEN FirstIndexPart ELSE 0
          /\ writer = "done" => size = FirstIndexPart + IndexParts
      BY <1>0, <2>3 DEF PatchedInv, WriterInv
    <3>2. indexAt < size /\ info' = [indexAt |-> indexAt, indexSize |-> size - indexAt]
      BY <1>1, <2>3, Zenon
    <3>3. info' \in [indexAt : {0, FirstIndexPart}, indexSize : Nat]
      BY <1>0, <3>1, <3>2
    <3> QED BY <1>0, <1>2, <2>1, <2>3, <3>1, <3>2, <3>3 DEF InfoInv, Grouped
  <2> QED BY <2>2, <2>3
<1>5. OffsetsInv' /\ OnlyWrittenChunks'
  <2>1. offsets' = <<>> /\ result' = Nothing
    BY <1>1, Zenon
  <2> QED BY <2>1 DEF OffsetsInv, OnlyWrittenChunks
<1> QED BY <1>3, <1>4, <1>5 DEF ObjectInv

\* An object that is asked for a chunk forgets the chunk that it returned before.
LEMMA AskStep ==
  ASSUME IInv, NEW c \in Numbers, AskChunk(c)
  PROVE  ObjectType' /\ ObjectInv'
<1>1. /\ UNCHANGED file /\ UNCHANGED <<info, offsets, failed, late>>
      /\ asked' = c /\ result' = Nothing /\ reader' = "read"
  BY DEF AskChunk
<1>2. ObjectType'
  BY <1>1 DEF ObjectType, IInv, TypeOK
<1>3. InfoInv' /\ OffsetsInv' /\ OnlyWrittenChunks'
  BY <1>1 DEF IInv, InfoInv, OffsetsInv, OnlyWrittenChunks, file, Grouped, BodyAt, Bodies
<1> QED BY <1>2, <1>3 DEF ObjectInv

\* A call that throws leaves no result, and a stream fails only in an object that was
\* made too early.
LEMMA ThrowsStep ==
  ASSUME IInv, UNCHANGED file, UNCHANGED offsets, reader = "read",
         NEW streamFails \in BOOLEAN, Throws(streamFails), streamFails => ~late \/ failed
  PROVE  ObjectType' /\ ObjectInv'
<1>1. /\ UNCHANGED <<result, info, asked, late>> /\ reader' = "idle"
      /\ failed' = (failed \/ streamFails)
  BY DEF Throws
<1>2. ObjectType'
  BY <1>1 DEF ObjectType, IInv, TypeOK
<1>3. InfoInv'
  <2>1. late => ~failed'
    BY <1>1 DEF IInv, InfoInv
  <2> QED BY <1>1, <2>1 DEF IInv, InfoInv, file, Grouped
<1>4. OffsetsInv' /\ OnlyWrittenChunks'
  BY <1>1 DEF IInv, OffsetsInv, OnlyWrittenChunks, file, Grouped, BodyAt, Bodies
<1> QED BY <1>2, <1>3, <1>4 DEF ObjectInv

\* The offset table of a PlotFile holds a placeholder or the place of a body on disk.
LEMMA HeaderStep ==
  ASSUME IInv, ReadHeader
  PROVE  ObjectType' /\ ObjectInv'
<1> USE ConstantFacts
<1>1. UNCHANGED file /\ reader = "read" /\ ~Grouped /\ offsets = <<>>
  BY DEF ReadHeader
<1>2. CASE size < Chunks + 1
  <2>1. Throws(FALSE) /\ UNCHANGED offsets
    BY <1>2 DEF ReadHeader
  <2> QED BY <1>1, <2>1, ThrowsStep
<1>3. CASE ~ (size < Chunks + 1)
  <2>1. offsets' = table /\ UNCHANGED <<reader, info, failed, asked, result, late>>
    BY <1>3 DEF ReadHeader
  <2>2. /\ table \in [Numbers -> {0} \cup {BodyAt(c) : c \in Numbers}]
        /\ WriterInv /\ PatchedInv /\ InfoInv /\ size \in Nat
    BY DEF IInv, TypeOK
  <2>3. ObjectType'
    <3>1. DOMAIN table = Numbers
      BY <2>2
    <3> QED BY <2>1, <3>1 DEF IInv, TypeOK, ObjectType
  <2>4. /\ \A c \in Numbers : table[c] = 0 \/ table[c] = BodyAt(c)
        /\ \A c \in Numbers : table[c] # 0 => size = Bodies
        /\ late => \A c \in Numbers : table[c] # 0
    BY <1>1, <2>2 DEF WriterInv, PatchedInv, InfoInv
  <2>5. OffsetsInv'
    <3>1. Bodies <= size <=> Bodies' <= size'
      BY <1>1 DEF file, Bodies, BodyAt, Grouped
    <3>2. /\ \A c \in Numbers : BodyAt(c)' = BodyAt(c)
          /\ ~Grouped'
      BY <1>1 DEF file, BodyAt, Grouped
    <3> QED BY <2>1, <2>2, <2>4, <3>1, <3>2 DEF OffsetsInv
  <2>6. InfoInv' /\ OnlyWrittenChunks'
    BY <1>1, <2>1 DEF IInv, InfoInv, OnlyWrittenChunks, file, Grouped
  <2> QED BY <2>3, <2>5, <2>6 DEF ObjectInv
<1> QED BY <1>2, <1>3

\* The chunk index of a PlotGroupFile gives the places of the bodies, when it is there.
LEMMA OffsetsStep ==
  ASSUME IInv, ReadOffsets
  PROVE  ObjectType' /\ ObjectInv'
<1> USE ConstantFacts
<1>1. UNCHANGED file /\ reader = "read" /\ Grouped /\ offsets = <<>>
  BY DEF ReadOffsets
<1>2. /\ WriterInv /\ PatchedInv /\ InfoInv /\ size \in Nat /\ failed \in BOOLEAN
      /\ info.indexAt \in {0, FirstIndexPart}
  BY DEF IInv, TypeOK, InfoInv
<1>3. CASE Throws(failed) /\ UNCHANGED offsets
  BY <1>1, <1>2, <1>3, ThrowsStep
<1>4. CASE Throws(FALSE) /\ UNCHANGED offsets
  BY <1>1, <1>4, ThrowsStep
<1>5. CASE /\ offsets' = [c \in Numbers |-> IF info.indexAt > 0 THEN BodyAt(c) ELSE 0]
           /\ UNCHANGED <<reader, info, failed, asked, result, late>>
  <2>1. ObjectType'
    <3>1. DOMAIN offsets' = Numbers
      BY <1>5
    <3> QED BY <1>5, <3>1 DEF IInv, TypeOK, ObjectType
  <2>2. /\ \A c \in Numbers : offsets'[c] = IF info.indexAt > 0 THEN BodyAt(c) ELSE 0
        /\ \A c \in Numbers : BodyAt(c)' = BodyAt(c) /\ BodyAt(c) # 0
    <3>1. \A c \in Numbers : BodyAt(c)' = BodyAt(c)
      BY <1>1 DEF file, BodyAt, Grouped
    <3> QED BY <1>5, <3>1, BodyPlaces
  <2>3. info.indexAt > 0 => Bodies <= size
    BY <1>1, <1>2 DEF WriterInv, InfoInv
  <2>4. Bodies' = Bodies /\ size' = size /\ (late => info.indexAt > 0)
    BY <1>1, <1>2 DEF file, Bodies, BodyAt, Grouped, InfoInv
  <2>5. OffsetsInv'
    BY <1>2, <1>5, <2>2, <2>3, <2>4 DEF OffsetsInv
  <2>6. InfoInv' /\ OnlyWrittenChunks'
    BY <1>1, <1>5 DEF IInv, InfoInv, OnlyWrittenChunks, file, Grouped
  <2> QED BY <2>1, <2>5, <2>6 DEF ObjectInv
<1> QED BY <1>3, <1>4, <1>5 DEF ReadOffsets

\* A body is read at its own place; what is read at the placeholder is no body.
LEMMA BodyStep ==
  ASSUME IInv, ReadBody
  PROVE  ObjectType' /\ ObjectInv'
<1> USE ConstantFacts
<1> DEFINE got == Contents(offsets[asked])
<1>1. UNCHANGED <<file, offsets>> /\ reader = "read" /\ offsets # <<>>
  BY DEF ReadBody
<1>2. /\ InfoInv /\ OffsetsInv /\ size \in Nat /\ asked \in Numbers /\ failed \in BOOLEAN
  BY DEF IInv, TypeOK
<1>3. /\ got \in {Garbage, asked}
      /\ got = Garbage => ~late /\ (Grouped => info.indexAt = 0)
  <2>1. CASE offsets[asked] = 0
    BY <1>1, <1>2, <2>1, ContentsOfBody DEF OffsetsInv
  <2>2. CASE offsets[asked] # 0
    <3>1. offsets[asked] = BodyAt(asked) /\ BodyAt(asked) < size
      <4>1. offsets[asked] = BodyAt(asked) /\ Bodies <= size
        BY <1>1, <1>2, <2>2 DEF OffsetsInv
      <4>2. BodyAt(asked) \in Nat /\ BodyAt(asked) < Bodies
        BY <1>2, BodyPlaces
      <4> HIDE DEF Bodies, BodyAt
      <4> QED BY <1>2, <4>1, <4>2
    <3>2. got = asked /\ asked # Garbage
      BY <1>2, <3>1, ContentsOfBody
    <3> QED BY <3>2
  <2> QED BY <2>1, <2>2
<1> HIDE DEF got
<1>4. \/ got # Garbage /\ failed /\ Throws(TRUE)
      \/ got = Garbage /\ \E short \in BOOLEAN : (short => Grouped) /\ Throws(short)
      \/ /\ got # Garbage \/ Grouped
         /\ reader' = "idle" /\ result' = got /\ UNCHANGED <<info, failed, asked, late>>
  <2>1. Grouped \in BOOLEAN
    BY DEF Grouped
  <2> QED BY <2>1 DEF ReadBody, got
<1>5. CASE got # Garbage /\ failed /\ Throws(TRUE)
  BY <1>1, <1>5, ThrowsStep
<1>6. CASE got = Garbage /\ \E short \in BOOLEAN : (short => Grouped) /\ Throws(short)
  BY <1>1, <1>3, <1>6, ThrowsStep
<1>7. CASE /\ got # Garbage \/ Grouped
           /\ reader' = "idle" /\ result' = got /\ UNCHANGED <<info, failed, asked, late>>
  <2>1. ObjectType'
    BY <1>1, <1>2, <1>3, <1>7 DEF IInv, TypeOK, ObjectType
  <2>2. OnlyWrittenChunks'
    <3>1. result' = asked' \/ (Grouped' /\ info'.indexAt = 0)
      BY <1>1, <1>3, <1>7 DEF file, Grouped
    <3> QED BY <3>1 DEF OnlyWrittenChunks
  <2>3. InfoInv' /\ OffsetsInv'
    BY <1>1, <1>2, <1>7 DEF InfoInv, OffsetsInv, file, Grouped, BodyAt, Bodies
  <2> QED BY <2>1, <2>2, <2>3 DEF ObjectInv
<1> QED BY <1>4, <1>5, <1>6, <1>7

-----------------------------------------------------------------------------
(* The theorems.                                                           *)

\* Every step of a writer or a reader keeps the invariant.
LEMMA InvStep ==
  ASSUME IInv, [Next]_vars
  PROVE  IInv'
<1> USE ConstantFacts
<1>1. CASE Write
  <2>1. /\ WriterInv' /\ PatchedInv' /\ UNCHANGED <<format, object>>
        /\ size \in Nat /\ size' \in Nat /\ size <= size'
        /\ writer # "done" /\ (writer = "index" => writer' \in {"index", "done"})
    BY <1>1, WriteStep
  <2>2. TypeOK'
    <3>1. writer' \in {"create", "table", "bodies", "patch", "index", "done"}
      BY <1>1 DEF Write, WriteHeader, WritePlaceholder, WriteBody, PatchHeader,
                  WriteIndexPart, PatchOffset
    <3>2. /\ format' = format /\ Grouped' = Grouped /\ Bodies' = Bodies
          /\ BodyAt(1)' = BodyAt(1) /\ BodyAt(Chunks)' = BodyAt(Chunks)
      BY <2>1 DEF Grouped, Bodies, BodyAt
    <3>3. size' \in 0 .. 1 + 2 * Chunks + IndexParts
      <4> HIDE DEF BodyAt, Bodies
      <4> QED BY <2>1, <3>1, <3>2 DEF WriterInv
    <3>4. indexAt' \in {0, FirstIndexPart}
      BY <2>1 DEF PatchedInv
    <3>5. table' \in [Numbers -> {0} \cup {BodyAt(c) : c \in Numbers}]'
      <4>1. table' \in [Numbers -> {0} \cup {BodyAt(c) : c \in Numbers}]
        BY <1>1 DEF IInv, TypeOK, Write, WriteHeader, WritePlaceholder, WriteBody,
                    PatchHeader, WriteIndexPart, PatchOffset
      <4>2. \A c \in Numbers : BodyAt(c)' = BodyAt(c)
        BY <3>2 DEF BodyAt
      <4> QED BY <4>1, <4>2
    <3> QED BY <2>1, <3>1, <3>3, <3>4, <3>5 DEF IInv, TypeOK, object
  <2>3. InfoInv'
    BY <2>1 DEF IInv, InfoInv, object, Grouped
  <2>4. OffsetsInv'
    <3>1. /\ \A c \in Numbers : BodyAt(c)' = BodyAt(c)
          /\ Bodies' = Bodies /\ Grouped' = Grouped
      BY <2>1 DEF Bodies, BodyAt, Grouped
    <3>2. Bodies <= size => Bodies <= size'
      <4> HIDE DEF Bodies
      <4> QED BY <2>1
    <3> QED BY <2>1, <3>1, <3>2 DEF IInv, OffsetsInv, object
  <2>5. OnlyWrittenChunks'
    BY <2>1 DEF IInv, OnlyWrittenChunks, object, Grouped
  <2> QED BY <2>1, <2>2, <2>3, <2>4, <2>5 DEF IInv
<1>2. CASE Read
  <2>1. ObjectType' /\ ObjectInv'
    BY <1>2, MakeStep, AskStep, HeaderStep, OffsetsStep, BodyStep DEF Read
  <2>2. UNCHANGED file
    BY <1>2 DEF Read, MakePlotFile, OpenGroupFile, Made, AskChunk, ReadHeader, ReadOffsets,
                ReadBody
  <2>3. WriterInv' /\ PatchedInv'
    BY <2>2 DEF IInv, WriterInv, PatchedInv, file, Grouped, BodyAt, Bodies
  <2>4. TypeOK'
    BY <2>1, <2>2 DEF IInv, TypeOK, ObjectType, file, Grouped, BodyAt
  <2> QED BY <2>1, <2>3, <2>4 DEF IInv, ObjectInv
<1>3. CASE UNCHANGED vars
  BY <1>3 DEF IInv, TypeOK, WriterInv, PatchedInv, InfoInv, OffsetsInv, OnlyWrittenChunks,
              vars, file, object, Grouped, BodyAt, Bodies
<1> QED BY <1>1, <1>2, <1>3 DEF Next

\* An empty file without readers.
LEMMA InitInv ==
  Init => IInv
<1> SUFFICES ASSUME Init PROVE IInv
  OBVIOUS
<1> USE ConstantFacts
<1>1. TypeOK
  <2>1. size \in 0 .. 1 + 2 * Chunks + IndexParts /\ 1 \in Numbers
    BY DEF Init, Numbers
  <2>2. table \in [Numbers -> {0} \cup {BodyAt(c) : c \in Numbers}]
    BY DEF Init
  <2> QED BY <2>1, <2>2 DEF Init, TypeOK
<1>2. WriterInv /\ PatchedInv
  BY DEF Init, WriterInv, PatchedInv, Numbers
<1>3. InfoInv /\ OffsetsInv /\ OnlyWrittenChunks
  BY DEF Init, InfoInv, OffsetsInv, OnlyWrittenChunks, NoInfo
<1> QED BY <1>1, <1>2, <1>3 DEF IInv

\* The inductive invariant: what is on disk follows from where the writer is, and what
\* an object knows is a placeholder or true.
THEOREM Invariance ==
  Spec => []IInv
<1>1. IInv /\ [Next]_vars => IInv'
  BY InvStep
<1> QED BY InitInv, <1>1, PTL DEF Spec

(***************************************************************************)
(* Every variable keeps its type, for any number of chunks.                *)
(***************************************************************************)
THEOREM TypeCorrect ==
  Spec => []TypeOK
<1>1. IInv => TypeOK
  BY DEF IInv
<1> QED BY Invariance, <1>1, PTL

(***************************************************************************)
(* A chunk that readChunk returns is the one that was written, wherever    *)
(* the writer stopped, unless the index was sought at the placeholder.     *)
(***************************************************************************)
THEOREM NothingElseReturned ==
  Spec => []OnlyWrittenChunks
<1>1. IInv => OnlyWrittenChunks
  BY DEF IInv
<1> QED BY Invariance, <1>1, PTL

(***************************************************************************)
(* A complete file can be read by every object that is made after it was.  *)
(***************************************************************************)
THEOREM CompleteCanBeRead ==
  Spec => []CompleteReadable
<1>1. IInv => CompleteReadable
  <2> SUFFICES ASSUME IInv, late
               PROVE  /\ ~failed
                      /\ Grouped => info.indexAt > 0 /\ info.indexSize >= IndexParts
                      /\ offsets # <<>> => \A c \in Numbers : Contents(offsets[c]) = c
    BY DEF CompleteReadable
  <2>1. ~failed /\ (Grouped => info.indexAt > 0 /\ info.indexSize >= IndexParts)
    BY ConstantFacts DEF IInv, InfoInv
  <2>2. ASSUME offsets # <<>>, NEW c \in Numbers
        PROVE  Contents(offsets[c]) = c
    <3>1. offsets[c] = BodyAt(c) /\ Bodies <= size /\ size \in Nat
      BY <2>2 DEF IInv, OffsetsInv, TypeOK
    <3>2. BodyAt(c) < size
      <4>1. BodyAt(c) \in Nat /\ BodyAt(c) < Bodies /\ Bodies \in Nat
        BY BodyPlaces, ConstantFacts
      <4> HIDE DEF BodyAt, Bodies
      <4> QED BY <3>1, <4>1
    <3> QED BY <3>1, <3>2, ContentsOfBody
  <2> QED BY <2>1, <2>2
<1> QED BY Invariance, <1>1, PTL
=============================================================================

------------------------------ MODULE PlotFiles ------------------------------
(***************************************************************************)
(* Plot files on disk (PlotFile and PlotGroupFile in plot/PlotFile.hpp)    *)
(* while they are written.  Both writers leave placeholders for positions  *)
(* they learn later and go back to fill them in, and may stop anywhere: by *)
(* an exception, a full disk or the end of the process.  A reader may come *)
(* at any time.                                                            *)
(*                                                                         *)
(* A file is measured in parts: the header with the memo, each entry of a  *)
(* PlotFile's offset table, each chunk body, each piece of the chunk index *)
(* of a PlotGroupFile.  What a chunk body or the index holds is ChunkCodec *)
(* and gsz; here a part can only be read whole, or as garbage.             *)
(***************************************************************************)
EXTENDS Integers, Sequences

CONSTANTS
  Formats,      \* a subset of {"plot", "group"}: PlotFile, PlotGroupFile
  Chunks,       \* the number of chunks
  IndexParts,   \* pieces in which the chunk index reaches the disk
  Nothing       \* no result yet

ASSUME FilesAssumption ==
  /\ Formats \subseteq {"plot", "group"}
  /\ Chunks \in Nat \ {0} /\ IndexParts \in Nat \ {0}

VARIABLES
  format,      \* which class writes and reads the file
  writer,      \* what the writer does next
  size,        \* parts on disk
  indexAt,     \* chunk_index_offset in the header; 0 is the placeholder
  table,       \* the offsets of a PlotFile; 0 is the placeholder
  reader,      \* "none", or "idle" or "read" once there is an object
  info,        \* chunk_index_offset and chunk_index_compressed_size of the object
  offsets,     \* chunk_offsets_, or the offsets of plot_file_header_; empty when not read
  failed,      \* is failbit set on the object's stream?
  asked,       \* the chunk that is asked for
  result,      \* what the last call returned, if it did not throw
  late         \* history: was the object made after the file was complete?

file == <<format, writer, size, indexAt, table>>
object == <<reader, info, offsets, failed, asked, result, late>>
vars == <<file, object>>

Grouped == format = "group"

Numbers == 1 .. Chunks

\* The body of chunk c; a PlotFile has the offset table before it.
BodyAt(c) == IF Grouped THEN c ELSE Chunks + c

FirstIndexPart == Chunks + 1

NoInfo == [indexAt |-> 0, indexSize |-> 0]

Init ==
  /\ format \in Formats
  /\ writer = "create" /\ size = 0 /\ indexAt = 0
  /\ table = [c \in Numbers |-> 0]
  /\ reader = "none" /\ info = NoInfo /\ offsets = <<>> /\ failed = FALSE
  /\ asked = 1 /\ result = Nothing /\ late = FALSE

-----------------------------------------------------------------------------
(* writeData of either class. *)

WriteHeader ==
  /\ writer = "create"
  /\ size' = 1
  /\ writer' = IF Grouped THEN "bodies" ELSE "table"
  /\ UNCHANGED <<format, indexAt, table, object>>

WritePlaceholder ==
  /\ writer = "table"
  /\ size' = size + 1
  /\ writer' = IF size' = BodyAt(1) THEN "bodies" ELSE "table"
  /\ UNCHANGED <<format, indexAt, table, object>>

\* Mutant of WriteBody: one body too many.
WriteBodyMore ==
  /\ writer = "bodies"
  /\ size' = size + 1
  /\ writer' = IF size > BodyAt(Chunks) THEN "patch" ELSE "bodies"
  /\ UNCHANGED <<format, indexAt, table, object>>

WriteBody ==
  /\ writer = "bodies"
  /\ size' = size + 1
  /\ writer' = IF size = BodyAt(Chunks) THEN "patch" ELSE "bodies"
  /\ UNCHANGED <<format, indexAt, table, object>>

\* The header is patched first, the index is written after it.
PatchHeader ==
  /\ writer = "patch" /\ Grouped
  /\ indexAt' = size
  /\ writer' = "index"
  /\ UNCHANGED <<format, size, table, object>>

WriteIndexPart ==
  /\ writer = "index"
  /\ size' = size + 1
  /\ writer' = IF size' = FirstIndexPart + IndexParts THEN "done" ELSE "index"
  /\ UNCHANGED <<format, indexAt, table, object>>

\* Mutant of PatchOffset: stops before the last entry.
PatchOffsetFew(c) ==
  /\ writer = "patch" /\ ~Grouped
  /\ \A d \in Numbers : table[d] = 0 <=> d >= c
  /\ table' = [table EXCEPT ![c] = BodyAt(c)]
  /\ writer' = IF c >= Chunks - 1 THEN "done" ELSE "patch"
  /\ UNCHANGED <<format, size, indexAt, object>>

\* The placeholders of the offset table, one after the other.
PatchOffset(c) ==
  /\ writer = "patch" /\ ~Grouped
  /\ \A d \in Numbers : table[d] = 0 <=> d >= c
  /\ table' = [table EXCEPT ![c] = BodyAt(c)]
  /\ writer' = IF c = Chunks THEN "done" ELSE "patch"
  /\ UNCHANGED <<format, size, indexAt, object>>

-----------------------------------------------------------------------------
(* The readers. *)

Made(i) ==
  /\ reader' = "idle" /\ info' = i
  /\ offsets' = <<>> /\ failed' = FALSE
  /\ asked' = 1 /\ result' = Nothing
  /\ late' = (writer = "done")
  /\ UNCHANGED file

\* The constructor of PlotFile reads nothing.
MakePlotFile ==
  /\ ~Grouped /\ reader # "read"
  /\ Made(NoInfo)

\* PlotGroupFile::open; it throws, and makes no object, when the header is not
\* there or the index offset is not below the file's size.
OpenGroupFile ==
  /\ Grouped /\ reader # "read"
  /\ size >= 1 /\ indexAt < size
  /\ Made([indexAt |-> indexAt, indexSize |-> size - indexAt])

AskChunk(c) ==
  /\ reader = "idle"
  /\ asked' = c /\ result' = Nothing
  /\ reader' = "read"
  /\ UNCHANGED <<file, info, offsets, failed, late>>

\* The call throws; the stream of a PlotGroupFile keeps its failbit.
Throws(streamFails) ==
  /\ reader' = "idle"
  /\ failed' = (failed \/ streamFails)
  /\ UNCHANGED <<result, info, asked, late>>

\* readHeadersAndIndexes: cached when all of it could be read.
ReadHeader ==
  /\ ~Grouped /\ reader = "read" /\ offsets = <<>>
  /\ IF size < Chunks + 1
       THEN Throws(FALSE) /\ UNCHANGED offsets
       ELSE offsets' = table /\ UNCHANGED <<reader, info, failed, asked, result, late>>
  /\ UNCHANGED file

\* What decoding the index may leave in the offsets before it throws.
Unfinished == [c \in Numbers |-> 0]

\* Mutant of ReadOffsets: the offsets are not cleared when the index is bad.
ReadOffsetsKept ==
  /\ Grouped /\ reader = "read" /\ offsets = <<>>
  /\ IF info.indexAt > 0 /\ info.indexSize >= IndexParts
       THEN /\ offsets' = [c \in Numbers |-> BodyAt(c)]
            /\ UNCHANGED <<reader, info, failed, asked, result, late>>
       ELSE Throws(FALSE) /\ offsets' = Unfinished
  /\ UNCHANGED file

\* readChunkOffsets: an index cut short ends before the last code and throws;
\* at the placeholder the header is decoded, which may give anything.  After an
\* exception the offsets are empty again.
ReadOffsets ==
  /\ Grouped /\ reader = "read" /\ offsets = <<>>
  /\ IF failed \/ (info.indexAt > 0 /\ info.indexSize < IndexParts)
       THEN Throws(failed) /\ UNCHANGED offsets
       ELSE \/ /\ offsets' = [c \in Numbers |-> IF info.indexAt > 0 THEN BodyAt(c) ELSE 0]
               /\ UNCHANGED <<reader, info, failed, asked, result, late>>
            \/ info.indexAt = 0 /\ Throws(FALSE) /\ UNCHANGED offsets
  /\ UNCHANGED file

\* What is read at a position: a whole body, or bytes that are none.
Garbage == 0
Contents(at) ==
  IF at < size /\ \E c \in Numbers : BodyAt(c) = at
    THEN CHOOSE c \in Numbers : BodyAt(c) = at ELSE Garbage

\* The chunk at its offset.  Garbage may run past the end of the file, be refused by the
\* decoder, or decode to something; the size that a PlotFile finds at offset 0 is
\* made of the magic bytes and larger than any file.
ReadBody ==
  /\ reader = "read" /\ offsets # <<>>
  /\ LET got == Contents(offsets[asked])
         returned == /\ reader' = "idle" /\ result' = got
                     /\ UNCHANGED <<info, failed, asked, late>>
     IN  IF got # Garbage
           THEN IF failed THEN Throws(TRUE) ELSE returned
           ELSE \/ \E short \in {Grouped, FALSE} : Throws(short)
                \/ Grouped /\ ~failed /\ returned
  /\ UNCHANGED <<file, offsets>>

-----------------------------------------------------------------------------
Write ==
  \/ WriteHeader \/ WritePlaceholder \/ WriteBody \/ PatchHeader \/ WriteIndexPart
  \/ \E c \in Numbers : PatchOffset(c)

Read ==
  \/ MakePlotFile \/ OpenGroupFile
  \/ \E c \in Numbers : AskChunk(c)
  \/ ReadHeader \/ ReadOffsets \/ ReadBody

Next == Write \/ Read

\* Nobody promises that a writer goes on.
Spec == Init /\ [][Next]_vars

-----------------------------------------------------------------------------
\* Type correctness.
TypeOK ==
  /\ format \in Formats
  /\ writer \in {"create", "table", "bodies", "patch", "index", "done"}
  /\ size \in 0 .. 1 + 2 * Chunks + IndexParts
  /\ indexAt \in {0, FirstIndexPart}
  /\ table \in [Numbers -> {0} \cup {BodyAt(c) : c \in Numbers}]
  /\ reader \in {"none", "idle", "read"}
  /\ offsets = <<>> \/ DOMAIN offsets = Numbers
  /\ failed \in BOOLEAN /\ late \in BOOLEAN
  /\ asked \in Numbers /\ result \in {Nothing, Garbage} \cup Numbers

(***************************************************************************)
(* Whenever the writer stops and the reader comes, and however often it    *)
(* asks again after an exception, the chunk that is returned is the one    *)
(* that was written, unless the index was looked for at the placeholder.   *)
(***************************************************************************)
OnlyWrittenChunks ==
  result # Nothing => result = asked \/ (Grouped /\ info.indexAt = 0)

(***************************************************************************)
(* A file that is complete can be read: an object made after the writer is *)
(* done has no failed stream, knows where every chunk is once it has read  *)
(* its offsets, and so returns each chunk that is asked for.               *)
(***************************************************************************)
CompleteReadable ==
  late => /\ ~failed
          /\ Grouped => info.indexAt > 0 /\ info.indexSize >= IndexParts
          /\ offsets # <<>> => \A c \in Numbers : Contents(offsets[c]) = c

(***************************************************************************)
(* A PlotGroupFile that open returns has a chunk index behind its header:  *)
(* "Find the file size to ensure the chunks sizes pos is valid".           *)
(***************************************************************************)
OpenedIndexed == Grouped /\ reader # "none" => info.indexAt > 0
=============================================================================

------------------------------ MODULE VolumeTee ------------------------------
(***************************************************************************)
(* How one volume is archived and indexed in one pass                      *)
(* (internal/snapshot/volindex.go, livevolume.go, captureVolumes).         *)
(*                                                                         *)
(* The helper container's tar is read by a consumer (PutBlob, or a discard *)
(* for `status --deep`) through a tee.  Every chunk the consumer reads is  *)
(* first written to an unbuffered pipe, whose other end a goroutine parses *)
(* as a tar; the write returns when the parser has taken the last byte.    *)
(*                                                                         *)
(* A stream is a sequence of 512-byte blocks and the way the helper ends.  *)
(* "head" announces a file whose content is the next block; "end" is a     *)
(* zero block (two of them end the archive, what follows is padding);      *)
(* "junk" is no tar header.                                                *)
(***************************************************************************)
EXTENDS Naturals, Sequences

CONSTANTS Streams,   \* what the helper may write, and whether it then fails
          MaxChunk   \* bound: blocks the consumer reads at once

Blocks == {"head", "data", "end", "junk"}

ASSUME StreamsAssumption ==
  Streams \subseteq [blocks : Seq(Blocks), exit : {"ok", "error"}]
ASSUME ChunkAssumption == MaxChunk \in Nat \ {0}

VARIABLES
  use,       \* "capture" or "live"
  stream,    \* what the helper writes
  pos,       \* blocks the consumer has been handed
  consumer,  \* where the consumer is
  after,     \* what the tee's Read returns once the chunk is through the pipe
  chunk,     \* blocks of the chunk the pipe still holds
  closed,    \* the write end of the pipe is closed
  parser,    \* what the parser expects next, or its result
  files,     \* positions of the files it has indexed
  seen,      \* blocks it has taken
  stored,    \* the object PutBlob committed: how many blocks it holds
  helper,    \* the helper container: "up", "leaving", "gone"
  outcome    \* what the caller gets

vars == <<use, stream, pos, consumer, after, chunk, closed, parser, files, seen,
          stored, helper, outcome>>

Length == Len(stream.blocks)
Results == {"ok", "failed"}

TypeOK ==
  /\ use \in {"capture", "live"}
  /\ stream \in Streams
  /\ pos \in 0..Length /\ seen \in 0..Length
  /\ consumer \in {"read", "write", "eof", "stop", "wait", "returned"}
  /\ after \in {"more", "error"}
  /\ chunk \in Seq(Blocks) /\ seen + Len(chunk) <= pos
  /\ closed \in BOOLEAN
  /\ parser \in {"header", "content", "trailer"} \cup Results
  /\ files \subseteq 1..seen
  /\ stored \in {0, Length}
  /\ helper \in {"up", "leaving", "gone"}
  /\ outcome \in {"none", "error", "stored", "indexed"}

Init ==
  /\ use \in {"capture", "live"}
  /\ stream \in Streams
  /\ pos = 0 /\ seen = 0
  /\ consumer = "read" /\ after = "more"
  /\ chunk = <<>> /\ closed = FALSE
  /\ parser = "header" /\ files = {}
  /\ stored = 0
  /\ helper = "up"
  /\ outcome = "none"
------------------------------------------------------------------------------
(* The consumer *)

(* Faulty: a short read counts as a full chunk. *)
ReadChunkFull(n) ==
  /\ consumer = "read"
  /\ n <= Length - pos
  /\ pos' = pos + MaxChunk
  /\ chunk' = SubSeq(stream.blocks, pos + 1, pos + n)
  /\ after' = "more"
  /\ consumer' = "write"
  /\ UNCHANGED <<use, stream, closed, parser, files, seen, stored, helper, outcome>>

(* TeeReader.Read: read a chunk, then write all of it to the pipe.  The first
   chunk must begin with a tar header (a zero block has no magic); the bytes that
   do not are handed on with the error.                                      *)
ReadChunk(n) ==
  /\ consumer = "read"
  /\ n <= Length - pos
  /\ pos' = pos + n
  /\ chunk' = SubSeq(stream.blocks, pos + 1, pos + n)
  /\ after' = IF pos = 0 /\ stream.blocks[1] # "head" THEN "error" ELSE "more"
  /\ consumer' = "write"
  /\ UNCHANGED <<use, stream, closed, parser, files, seen, stored, helper, outcome>>

(* PipeWriter.Write returns when everything was taken. *)
WriteReturns ==
  /\ consumer = "write"
  /\ chunk = <<>>
  /\ consumer' = IF after = "error" THEN "stop" ELSE "read"
  /\ UNCHANGED <<use, stream, pos, after, chunk, closed, parser, files, seen, stored,
                 helper, outcome>>

Leaving == IF helper = "up" THEN "leaving" ELSE helper

(* Faulty: the helper's exit status is not looked at. *)
ReadEndUnchecked ==
  /\ consumer = "read"
  /\ pos = Length
  /\ consumer' = "eof" /\ helper' = Leaving
  /\ UNCHANGED <<use, stream, pos, after, chunk, closed, parser, files, seen, stored,
                 outcome>>

(* The helper's exit status decides between EOF, which starts the helper's
   removal, and an error.                                                    *)
ReadEnd ==
  /\ consumer = "read"
  /\ pos = Length
  /\ \/ stream.exit = "ok" /\ consumer' = "eof" /\ helper' = Leaving
     \/ stream.exit = "error" /\ consumer' = "stop" /\ UNCHANGED helper
  /\ UNCHANGED <<use, stream, pos, after, chunk, closed, parser, files, seen, stored,
                 outcome>>

(* PutBlob commits after EOF only; the discard has nothing to commit. *)
Commit ==
  /\ consumer = "eof"
  /\ stored' = IF use = "capture" THEN pos ELSE 0
  /\ consumer' = "stop"
  /\ UNCHANGED <<use, stream, pos, after, chunk, closed, parser, files, seen, helper,
                 outcome>>

(* Staging or committing fails: the stream is abandoned where it is. *)
StorageFails ==
  /\ use = "capture"
  /\ consumer \in {"read", "eof"}
  /\ consumer' = "stop"
  /\ after' = "error"
  /\ UNCHANGED <<use, stream, pos, chunk, closed, parser, files, seen, stored, helper,
                 outcome>>

(* Faulty: the pipe is left open. *)
FinishOpen ==
  /\ consumer = "stop"
  /\ helper' = Leaving
  /\ consumer' = "wait"
  /\ UNCHANGED <<use, stream, pos, after, chunk, closed, parser, files, seen, stored,
                 outcome>>

(* stream.Close, then VolumeIndexer.Finish: close the pipe, wait for the parser. *)
Finish ==
  /\ consumer = "stop"
  /\ helper' = Leaving
  /\ closed' = TRUE
  /\ consumer' = "wait"
  /\ UNCHANGED <<use, stream, pos, after, chunk, parser, files, seen, stored, outcome>>

(* The copy failed, by the stream or by the storage. *)
CopyFailed == after = "error" \/ pos < Length \/ stream.exit = "error"

(* Without an index, a capture keeps the volume and warns; a live scan fails. *)
Outcome ==
  IF CopyFailed THEN "error"
  ELSE IF parser = "ok" THEN "indexed"
  ELSE IF use = "capture" THEN "stored" ELSE "error"

Reap ==
  /\ consumer = "wait"
  /\ parser \in Results
  /\ outcome' = Outcome
  /\ consumer' = "returned"
  /\ UNCHANGED <<use, stream, pos, after, chunk, closed, parser, files, seen, stored,
                 helper>>
------------------------------------------------------------------------------
(* The parser goroutine: NewFileIndex over the pipe's read end *)

(* tar.Reader takes one block at a time, and none after the second end block. *)
Parse ==
  /\ parser \notin Results
  /\ chunk # <<>>
  /\ seen' = seen + 1
  /\ chunk' = Tail(chunk)
  /\ \/ /\ parser = "header" /\ Head(chunk) = "head"
        /\ parser' = "content" /\ UNCHANGED files
     \/ /\ parser = "header" /\ Head(chunk) = "end"
        /\ parser' = "trailer" /\ UNCHANGED files
     \/ /\ parser = "header" /\ Head(chunk) \in {"data", "junk"}
        /\ parser' = "failed" /\ UNCHANGED files
     \/ /\ parser = "content"
        /\ parser' = "header" /\ files' = files \cup {seen'}
     \/ /\ parser = "trailer"
        /\ parser' = IF Head(chunk) = "end" THEN "ok" ELSE "failed"
        /\ UNCHANGED files
  /\ UNCHANGED <<use, stream, pos, consumer, after, closed, stored, helper, outcome>>

(* Faulty: an archive cut off within a file counts as complete. *)
ParseEOFLenient ==
  /\ parser \notin Results
  /\ closed
  /\ parser' = "ok"
  /\ files' = IF parser = "content" THEN files \cup {seen} ELSE files
  /\ UNCHANGED <<use, stream, pos, consumer, after, chunk, closed, seen, stored, helper,
                 outcome>>

(* A closed pipe between two entries is a regular end, within one it is not. *)
ParseEOF ==
  /\ parser \notin Results
  /\ closed
  /\ parser' = IF parser = "content" THEN "failed" ELSE "ok"
  /\ UNCHANGED <<use, stream, pos, consumer, after, chunk, closed, files, seen, stored,
                 helper, outcome>>

(* go v.cleanup() *)
RemoveHelper ==
  /\ helper = "leaving"
  /\ helper' = "gone"
  /\ UNCHANGED <<use, stream, pos, consumer, after, chunk, closed, parser, files, seen,
                 stored, outcome>>

Next ==
  \/ \E n \in 1..MaxChunk : ReadChunk(n)
  \/ WriteReturns \/ ReadEnd \/ Commit \/ StorageFails \/ Finish \/ Reap
  \/ Parse \/ ParseEOF \/ RemoveHelper

Spec == Init /\ [][Next]_vars

(* The goroutines are scheduled, the helper's tar goes on to its end. *)
FairSpec == Spec /\ WF_vars(Next)
------------------------------------------------------------------------------
(* Properties *)

(* The files of the stored bytes: an archive is pairs of a header and its content,
   up to the first header that is none.  (A file may hold zero blocks, or a tar.) *)
Odd(i) == i % 2 = 1

Entries == {i \in 1..Length :
  ~ Odd(i) /\ \A j \in 1..i : Odd(j) => stream.blocks[j] = "head"}

(* An index is only ever returned for a stream that was read to its regular
   end, and it lists exactly the files of the bytes that were stored: index
   and object cannot drift apart although two goroutines make them.          *)
IndexIsOfObject ==
  outcome = "indexed" =>
    /\ files = Entries
    /\ parser = "ok"
    /\ use = "capture" => stored = Length

(* A helper that fails, even after the archive's end marker, leaves no volume
   record, no index and no object behind (livevolume.go, IndexLiveVolume;
   PutBlob commits after EOF).                                               *)
FailureObserved ==
  stream.exit = "error" => outcome \in {"none", "error"} /\ stored = 0

(* The inductive invariant behind the two (VolumeTeeProofs). *)

(* The pipe holds what was handed to the consumer and not yet parsed; it is
   empty unless the consumer waits in Write, and closed once it waits for the
   parser.                                                                   *)
PipeInv ==
  /\ chunk = SubSeq(stream.blocks, seen + 1, pos)
  /\ consumer # "write" => chunk = <<>>
  /\ closed <=> consumer \in {"wait", "returned"}

(* The consumer stops with everything stored, or the copy failed. *)
CopyInv ==
  /\ consumer = "eof" => pos = Length /\ stream.exit = "ok"
  /\ consumer \in {"read", "write", "eof"} => stored = 0
  /\ stored # 0 => use = "capture" /\ stream.exit = "ok"
  /\ consumer \in {"stop", "wait", "returned"} /\ ~ CopyFailed /\ use = "capture"
       => stored = Length

(* All headers up to position n announced a file. *)
Headed(n) == \A j \in 1..n : Odd(j) => stream.blocks[j] = "head"

(* Where the parser is in the pairs, and that it ends at a block that is no
   header or at the end of what will ever come.                              *)
ParserInv ==
  /\ files = Entries \cap (1..seen)
  /\ parser = "header"  => ~ Odd(seen) /\ Headed(seen)
  /\ parser = "content" => Odd(seen) /\ Headed(seen)
  /\ parser \in {"trailer", "ok"} => ~ Headed(seen) \/ (closed /\ seen = pos)

OutcomeInv == outcome # "none" =>
  /\ consumer = "returned" /\ parser \in Results
  /\ outcome = Outcome

IInv == TypeOK /\ PipeInv /\ CopyInv /\ ParserInv /\ OutcomeInv

(* Whatever the stream holds and wherever it breaks off, the call returns, its
   parser with it, and the helper container is removed.                      *)
Returns == <>(outcome # "none" /\ parser \in Results /\ helper = "gone")
==============================================================================

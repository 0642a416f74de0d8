---------------------------- MODULE VolumeTeeProofs ----------------------------
(***************************************************************************)
(* Proofs about VolumeTee for every set of streams, of any length, and for *)
(* reads of any size.                                                      *)
(***************************************************************************)
EXTENDS VolumeTee, SequenceTheorems, TLAPS

(* What a stretch of the stream is as a chunk. *)
LEMMA ChunkFacts ==
  ASSUME stream \in Streams, NEW a \in 0..Length, NEW b \in a..Length
  PROVE  /\ SubSeq(stream.blocks, a + 1, b) \in Seq(Blocks)
         /\ Len(SubSeq(stream.blocks, a + 1, b)) = b - a
         /\ SubSeq(stream.blocks, a + 1, b) = <<>> <=> a = b
         /\ a < b => /\ Head(SubSeq(stream.blocks, a + 1, b)) = stream.blocks[a + 1]
                     /\ Tail(SubSeq(stream.blocks, a + 1, b))
                          = SubSeq(stream.blocks, a + 2, b)
<1> DEFINE s == stream.blocks
<1>1. s \in Seq(Blocks) /\ Length \in Nat /\ Length = Len(s)
  BY StreamsAssumption, LenProperties DEF Length
<1>2. \A i \in a + 1..b : s[i] \in Blocks
  BY <1>1, ElementOfSeq
<1>3. /\ SubSeq(s, a + 1, b) \in Seq(Blocks)
      /\ Len(SubSeq(s, a + 1, b)) = IF a + 1 <= b THEN b - (a + 1) + 1 ELSE 0
  BY <1>1, <1>2, SubSeqProperties
<1>4. Len(SubSeq(s, a + 1, b)) = b - a
  BY <1>1, <1>3
<1>5. SubSeq(s, a + 1, b) = <<>> <=> a = b
  BY <1>1, <1>3, <1>4, EmptySeq
<1>6. ASSUME a < b
      PROVE  /\ Head(SubSeq(s, a + 1, b)) = s[a + 1]
             /\ Tail(SubSeq(s, a + 1, b)) = SubSeq(s, a + 2, b)
  <2>1. a + 1 \in 1..Len(s) /\ b \in a + 1..Len(s) /\ (a + 1) + 1 = a + 2
    BY <1>1, <1>6
  <2> QED BY <1>1, <2>1, HeadTailOfSubSeq
<1> QED BY <1>3, <1>4, <1>5, <1>6

(* The stream and its blocks have their types. *)
LEMMA StreamFacts ==
  ASSUME stream \in Streams
  PROVE  /\ stream.blocks \in Seq(Blocks) /\ stream.exit \in {"ok", "error"}
         /\ Length \in Nat
         /\ \A i \in 1..Length : stream.blocks[i] \in Blocks
BY StreamsAssumption, LenProperties, ElementOfSeq DEF Length

(* The chunk is what separates the parser from the consumer. *)
LEMMA PipeFacts ==
  ASSUME TypeOK, PipeInv
  PROVE  /\ stream \in Streams /\ Length \in Nat /\ stream.exit \in {"ok", "error"}
         /\ pos \in 0..Length /\ seen \in 0..pos
         /\ chunk = <<>> <=> seen = pos
         /\ chunk # <<>> => /\ Head(chunk) = stream.blocks[seen + 1]
                            /\ Tail(chunk) = SubSeq(stream.blocks, seen + 2, pos)
<1>1. stream \in Streams /\ Length \in Nat /\ stream.exit \in {"ok", "error"}
  BY StreamFacts DEF TypeOK
<1>2. Len(chunk) \in Nat /\ pos \in 0..Length /\ seen \in 0..Length
      /\ seen + Len(chunk) <= pos
  BY LenProperties DEF TypeOK
<1>3. pos \in seen..Length /\ seen \in 0..pos
  BY <1>1, <1>2
<1>4. chunk = SubSeq(stream.blocks, seen + 1, pos)
  BY DEF PipeInv
<1>5. chunk = <<>> <=> seen = pos
  BY <1>1, <1>2, <1>3, <1>4, ChunkFacts
<1>6. seen < pos => /\ Head(chunk) = stream.blocks[seen + 1]
                    /\ Tail(chunk) = SubSeq(stream.blocks, seen + 2, pos)
  BY <1>1, <1>2, <1>3, <1>4, ChunkFacts
<1>7. seen # pos => seen < pos
  BY <1>1, <1>3
<1> QED BY <1>1, <1>2, <1>3, <1>5, <1>6, <1>7

(* The initial states satisfy the inductive invariant. *)
LEMMA InitInvariant == Init => IInv
<1> SUFFICES ASSUME Init PROVE IInv
  OBVIOUS
<1>1. Length \in Nat /\ stream \in Streams
  BY StreamFacts DEF Init
<1>2. chunk = SubSeq(stream.blocks, seen + 1, pos) /\ chunk \in Seq(Blocks)
      /\ Len(chunk) = 0
  BY SubSeqEmpty, EmptySeq DEF Init
<1>3. TypeOK
  <2>1. pos \in 0..Length /\ seen \in 0..Length /\ seen + Len(chunk) <= pos
    BY <1>1, <1>2 DEF Init
  <2>2. files \subseteq 1..seen
    BY DEF Init
  <2> QED BY <1>1, <1>2, <2>1, <2>2 DEF Init, TypeOK
<1>4. PipeInv
  BY <1>2 DEF Init, PipeInv
<1>5. CopyInv /\ OutcomeInv
  BY DEF Init, CopyInv, OutcomeInv
<1>6. ParserInv
  BY <1>1 DEF Init, ParserInv, Headed, Odd
<1> QED BY <1>3, <1>4, <1>5, <1>6 DEF IInv

(* A step of the consumer. *)
LEMMA ConsumerPreserves ==
  ASSUME IInv,
         \/ \E n \in 1..MaxChunk : ReadChunk(n)
         \/ WriteReturns \/ ReadEnd \/ Commit \/ StorageFails \/ Finish \/ Reap
  PROVE  IInv'
<1>0. /\ stream \in Streams /\ Length \in Nat /\ stream.exit \in {"ok", "error"}
      /\ pos \in 0..Length /\ seen \in 0..pos /\ (chunk = <<>> <=> seen = pos)
  BY PipeFacts DEF IInv
<1> USE DEF IInv, TypeOK, PipeInv, CopyInv, ParserInv, OutcomeInv, Outcome, CopyFailed,
            Headed, Odd, Entries, Results
<1>1. ASSUME NEW n \in 1..MaxChunk, ReadChunk(n) PROVE IInv'
  <2>1. /\ n \in Nat /\ pos + n \in 0..Length /\ n > 0
        /\ seen = pos /\ pos + n \in pos..Length /\ pos' = pos + n
    <3>1. n \in Nat /\ n > 0
      BY ChunkAssumption
    <3>2. n <= Length - pos /\ pos' = pos + n /\ chunk = <<>>
      BY <1>1 DEF ReadChunk, IInv, PipeInv
    <3> HIDE DEF IInv, TypeOK, PipeInv, CopyInv, ParserInv, OutcomeInv
    <3> QED BY <1>0, <3>1, <3>2
  <2>2. stream' = stream /\ Length' = Length
    BY <1>1 DEF ReadChunk, Length
  <2>3. /\ chunk' = SubSeq(stream.blocks, seen + 1, pos')
        /\ chunk' \in Seq(Blocks) /\ Len(chunk') = n
    <3>1. chunk' = SubSeq(stream.blocks, pos + 1, pos + n)
      BY <1>1 DEF ReadChunk
    <3>2. pos \in 0..Length /\ pos + n \in pos..Length /\ (pos + n) - pos = n
      BY <1>0, <2>1
    <3> HIDE DEF IInv, TypeOK, PipeInv
    <3> QED BY <1>0, <2>1, <3>1, <3>2, ChunkFacts
  <2>4. TypeOK' /\ PipeInv'
    BY <1>0, <1>1, <2>1, <2>2, <2>3 DEF ReadChunk
  <2>5. CopyInv' /\ OutcomeInv'
    BY <1>0, <1>1, <2>1, <2>2 DEF ReadChunk
  <2>6. ParserInv'
    BY <1>0, <1>1, <2>1, <2>2 DEF ReadChunk
  <2> QED BY <2>4, <2>5, <2>6
<1> USE DEF Length
<1>2. CASE WriteReturns
  BY <1>0, <1>2 DEF WriteReturns
<1>3. CASE ReadEnd
  BY <1>0, <1>3 DEF ReadEnd, Leaving
<1>4. CASE Commit
  BY <1>0, <1>4 DEF Commit
<1>5. CASE StorageFails
  BY <1>0, <1>5 DEF StorageFails
<1>6. CASE Finish
  BY <1>0, <1>6 DEF Finish, Leaving
<1>7. CASE Reap
  BY <1>0, <1>7 DEF Reap
<1> QED BY <1>1, <1>2, <1>3, <1>4, <1>5, <1>6, <1>7

(* A step of the parser, or the removal of the helper. *)
LEMMA ParserPreserves ==
  ASSUME IInv, Parse \/ ParseEOF \/ RemoveHelper
  PROVE  IInv'
<1>0. /\ stream \in Streams /\ Length \in Nat /\ stream.exit \in {"ok", "error"}
      /\ pos \in 0..Length /\ seen \in 0..pos /\ (chunk = <<>> <=> seen = pos)
  BY PipeFacts DEF IInv
<1> USE DEF IInv, TypeOK, PipeInv, CopyInv, ParserInv, OutcomeInv, Outcome, CopyFailed,
            Headed, Odd, Entries, Results
<1>1. CASE Parse
  <2>1. /\ Head(chunk) = stream.blocks[seen + 1]
        /\ Tail(chunk) = SubSeq(stream.blocks, seen + 2, pos)
    BY <1>1, PipeFacts DEF Parse
  <2>2. stream' = stream /\ Length' = Length /\ pos' = pos
    BY <1>1 DEF Parse, Length
  <2>3. seen' = seen + 1 /\ seen' \in 1..pos /\ seen' \in 0..Length
    BY <1>0, <1>1 DEF Parse
  <2>4. /\ chunk' = SubSeq(stream.blocks, seen' + 1, pos)
        /\ chunk' \in Seq(Blocks) /\ seen' + Len(chunk') = pos
    <3>1. seen + 2 = seen' + 1 /\ pos \in seen'..Length
      BY <1>0, <2>3
    <3>2. chunk' = SubSeq(stream.blocks, seen' + 1, pos)
      BY <1>1, <2>1, <3>1 DEF Parse
    <3>3. chunk' \in Seq(Blocks) /\ Len(chunk') = pos - seen'
      <4> HIDE DEF IInv, TypeOK, PipeInv
      <4> QED BY <1>0, <2>3, <3>1, <3>2, ChunkFacts
    <3> QED BY <1>0, <2>3, <3>2, <3>3
  <2>5. TypeOK'
    <3>1. files' \subseteq files \cup {seen'} /\ files \subseteq 1..seen
      BY <1>1 DEF Parse
    <3>2. files' \subseteq 1..seen'
      BY <1>0, <2>3, <3>1
    <3> QED BY <1>0, <1>1, <2>2, <2>3, <2>4, <3>2 DEF Parse
  <2>6. PipeInv' /\ CopyInv' /\ OutcomeInv'
    BY <1>0, <1>1, <2>2, <2>4 DEF Parse
  <2>7. ParserInv'
    <3>0. 1..seen' = (1..seen) \cup {seen'}
      <4> HIDE DEF IInv
      <4> QED BY <1>0, <2>3
    <3>1. Odd(seen') <=> ~ Odd(seen)
      BY <1>0, <2>3
    <3>2. Headed(seen)' <=> Headed(seen) /\ (Odd(seen') => Head(chunk) = "head")
      <4> HIDE DEF IInv, Odd
      <4> QED BY <2>1, <2>2, <2>3, <3>0
    <3>3. Entries' = Entries /\ 1..seen' = (1..seen) \cup {seen'}
      <4> HIDE DEF IInv, Odd
      <4> QED BY <2>2, <3>0
    <3>4. seen' \in Entries <=> ~ Odd(seen') /\ Headed(seen)'
      BY <1>0, <2>2, <2>3
    <3>5. files' = IF parser = "content" THEN files \cup {seen'} ELSE files
      BY <1>1 DEF Parse
    <3>6. parser # "content" => ~ Odd(seen) \/ ~ Headed(seen)
      BY <1>1 DEF Parse
    <3>7. files' = Entries' \cap (1..seen')
      <4> HIDE DEF TypeOK, PipeInv, CopyInv, OutcomeInv, Entries, Headed, Odd
      <4> QED BY <3>1, <3>2, <3>3, <3>4, <3>5, <3>6
    <3>8. /\ parser' = "header"  => ~ Odd(seen') /\ Headed(seen)'
          /\ parser' = "content" => Odd(seen') /\ Headed(seen)'
          /\ parser' \in {"trailer", "ok"} => ~ Headed(seen)'
      <4> HIDE DEF TypeOK, CopyInv, OutcomeInv, Entries, Headed, Odd
      <4> QED BY <1>1, <3>1, <3>2 DEF Parse
    <3> QED BY <3>7, <3>8
  <2> QED BY <2>5, <2>6, <2>7
<1> USE DEF Length
<1>2. CASE ParseEOF
  BY <1>0, <1>2 DEF ParseEOF
<1>3. CASE RemoveHelper
  <2>1. TypeOK'
    BY <1>0, <1>3 DEF RemoveHelper
  <2>2. PipeInv' /\ CopyInv' /\ ParserInv' /\ OutcomeInv'
    BY <1>3 DEF RemoveHelper
  <2> QED BY <2>1, <2>2
<1> QED BY <1>1, <1>2, <1>3

(* The inductive invariant holds: the pipe, the copy to the object and the parser of
   the index agree on what was read so far.                                   *)
THEOREM InductiveInvariant == Spec => []IInv
<1>1. IInv /\ [Next]_vars => IInv'
  <2>1. CASE UNCHANGED vars
    BY <2>1 DEF vars, IInv, TypeOK, PipeInv, CopyInv, ParserInv, OutcomeInv, Outcome,
       CopyFailed, Headed, Odd, Entries, Length, Results
  <2> QED BY <2>1, ConsumerPreserves, ParserPreserves DEF Next
<1> QED BY <1>1, InitInvariant, PTL DEF Spec

(* The two goroutines keep the variables' types: in particular the parser never
   takes more than the consumer was handed, and what PutBlob commits is nothing
   or the whole stream.                                                       *)
THEOREM TypeCorrect == Spec => []TypeOK
<1>1. IInv => TypeOK
  BY DEF IInv
<1> QED BY <1>1, InductiveInvariant, PTL

(* A failing helper leaves no volume, no index and no object behind. *)
THEOREM FailureIsObserved == Spec => []FailureObserved
<1>1. IInv => FailureObserved
  <2> SUFFICES ASSUME IInv, stream.exit = "error"
               PROVE  outcome \in {"none", "error"} /\ stored = 0
    BY DEF FailureObserved
  <2>1. stored = 0
    BY DEF IInv, CopyInv
  <2>2. outcome # "none" => outcome = "error"
    BY DEF IInv, OutcomeInv, Outcome, CopyFailed
  <2> QED BY <2>1, <2>2
<1> QED BY <1>1, InductiveInvariant, PTL

(* An index that is returned lists exactly the files of the object stored. *)
THEOREM IndexMatchesObject == Spec => []IndexIsOfObject
<1>1. IInv => IndexIsOfObject
  <2> SUFFICES ASSUME IInv, outcome = "indexed"
               PROVE  files = Entries /\ parser = "ok" /\ (use = "capture" => stored = Length)
    BY DEF IndexIsOfObject
  <2>1. stream \in Streams /\ Length \in Nat /\ seen \in 0..Length
    BY StreamFacts DEF IInv, TypeOK
  <2>2. consumer = "returned" /\ parser = "ok" /\ ~ CopyFailed
    BY DEF IInv, OutcomeInv, Outcome
  <2>3. use = "capture" => stored = Length
    BY <2>2 DEF IInv, CopyInv
  <2>4. pos = Length
    BY <2>1, <2>2 DEF CopyFailed, IInv, TypeOK
  <2>5. \A i \in Entries : i \in 1..seen
    BY <2>1, <2>2, <2>4 DEF IInv, ParserInv, Headed, Entries
  <2> QED BY <2>2, <2>3, <2>5 DEF IInv, ParserInv
<1> QED BY <1>1, InductiveInvariant, PTL
================================================================================

------------------------------ MODULE Relay_proof ------------------------------
(***************************************************************************)
(* The two processes implement Relay: whatever pipe, buffers and counters  *)
(* do, the body is cut into blocks that follow each other, and the         *)
(* datagrams are those blocks.  That reader and writer agree on the kind   *)
(* of each frame is InSync (AudioPipe_proof); what is added here is where  *)
(* in the body a frame begins and how long it may be.                      *)
(***************************************************************************)
EXTENDS AudioPipe_proof, Induction_proof, FiniteSetTheorems

\* The byte of the body with which the first n frames end.
TakenTo(n) == IF n = 0 THEN 0 ELSE frames[n].first + frames[n].len - 1

\* A frame that can come after `taken' bytes of the body: audio directly after them, metadata
\* after a length byte, or a length made up because there was no such byte.
Follows(f, taken) ==
  \/ /\ f.kind = "AUDIO" /\ f.first = taken + 1
     /\ f.len \in 1..ChunkSize
     /\ metaint > 0 => f.sum + f.len <= metaint
  \/ /\ f.kind = "METADATA" /\ f.first = taken + 2
     /\ \E b \in LenBytes : f.len = MetadataSize(b)
  \/ /\ f.kind = "METADATA" /\ f.first = taken + 1
     /\ f.len \in GarbageLens

\* The frames follow each other in the body, the one about to be written follows them, and a
\* length byte is looked for directly after them.
FramesFollow ==
  /\ \A i \in 1..Len(frames) : Follows(frames[i], TakenTo(i - 1))
  /\ pc = "header" => Follows(NewFrame, TakenTo(Len(frames)))
  /\ pc = "size" => NextByte = TakenTo(Len(frames)) + 1

-----------------------------------------------------------------------------
(***************************************************************************)
(* FramesFollow is invariant.                                              *)
(***************************************************************************)
\* The next chunk of audio fits what is left of the audio.
LEMMA ChunkFollows ==
  ASSUME ConstantsAssumption, metaint \in Metaints, NEW taken \in Int,
         NEW n \in 1..AudioQuota
  PROVE  \A f : /\ f.kind = "AUDIO" /\ f.first = taken + 1 /\ f.len = ChunkLen(n)
                /\ f.sum = IF metaint > 0 THEN metaint - n ELSE 0
                => Follows(f, taken)
<1>1. metaint \in Nat /\ ChunkSize \in Nat \ {0} /\ n \in Nat \ {0}
  BY LengthTypes DEF ConstantsAssumption, UInt16
<1>2. ChunkLen(n) \in 1..ChunkSize /\ ChunkLen(n) <= n
  BY <1>1 DEF ChunkLen, Least
<1> QED
  BY <1>1, <1>2 DEF Follows

\* After a complete frame the loop is at the byte behind it, with a chunk that fits there or
\* before a length byte.
LEMMA FinishFrameFollows ==
  ASSUME ConstantsAssumption, TypeOK', metaint \in Metaints, metaint' = metaint,
         FinishFrame, WriterAtDue', NEW taken \in Int, NextByte' = taken + 1
  PROVE  pc' = "header" => Follows(NewFrame, taken)'
<1> SUFFICES ASSUME pc' = "header" PROVE Follows(NewFrame, taken)'
  OBVIOUS
<1>1. state' = "AUDIO_STATE" /\ to_read' > 0 /\ smallread' = ChunkLen(to_read')
  BY DEF FinishFrame, BeginAudio, BeginMetadata, WriterAtDue
<1>2. to_read' \in 1..AudioQuota
  BY <1>1 DEF TypeOK, ServerTypeOK, AudioQuota, ConstantsAssumption
<1>3. /\ NewFrame'.kind = "AUDIO" /\ NewFrame'.first = taken + 1
      /\ NewFrame'.len = ChunkLen(to_read')
      /\ NewFrame'.sum = IF metaint > 0 THEN metaint - to_read' ELSE 0
  BY <1>1 DEF NewFrame, KindNow, SumNow
<1>4. Follows(NewFrame', taken)
  BY <1>2, <1>3, ChunkFollows
<1> QED
  BY <1>4 DEF Follows

LEMMA TakenType ==
  ASSUME TypeOK
  PROVE  /\ \A n \in 0..Len(frames) : TakenTo(n) \in Int
         /\ NextByte \in Int /\ Len(frames) \in Nat
<1>1. \A n \in 0..Len(frames) : TakenTo(n) \in Int
  BY FrameTypes DEF TakenTo
<1> QED
  BY <1>1, FrameTypes DEF NextByte, TypeOK, ServerTypeOK

\* A step that begins no frame leaves the frames where they are.
LEMMA FramesStay ==
  ASSUME FramesFollow, UNCHANGED <<metaint, frames>>
  PROVE  /\ \A i \in 1..Len(frames') : Follows(frames[i], TakenTo(i - 1))'
         /\ TakenTo(Len(frames))' = TakenTo(Len(frames))
<1>1. UNCHANGED metaint /\ frames' = frames
  OBVIOUS
<1>2. \A n : TakenTo(n)' = TakenTo(n)
  BY <1>1 DEF TakenTo
<1> QED
  BY <1>1, <1>2 DEF FramesFollow, Follows

\* A length byte that is read, or not read, leads to a frame at its place.
LEMMA SizeFollows ==
  ASSUME ConstantsAssumption, TypeOK, WriterAtDue, FramesFollow,
         FillFailsAtSize \/ (\E b \in LenBytes : TakeSize(b))
  PROVE  FramesFollow'
<1>1. /\ pc = "size" /\ pc' = "header" /\ UNCHANGED <<metaint, frames, state, received>>
      /\ state = "META_STATE" /\ NextByte = TakenTo(Len(frames)) + 1
  BY DEF FillFailsAtSize, TakeSize, WriterAtDue, FramesFollow
<1>2. NewFrame'.kind = "METADATA" /\ NewFrame'.first = NextByte' /\ NewFrame'.len = smallread'
  BY <1>1 DEF NewFrame, KindNow
<1>3. Follows(NewFrame', TakenTo(Len(frames)))
  <2>1. CASE FillFailsAtSize
    <3>1. smallread' \in GarbageLens
      BY <2>1 DEF FillFailsAtSize, FillCodes, GarbageLens
    <3>2. NextByte' = NextByte
      BY <1>1, <2>1 DEF FillFailsAtSize, NextByte
    <3> QED
      BY <1>1, <1>2, <3>1, <3>2 DEF Follows
  <2>2. ASSUME NEW b \in LenBytes, TakeSize(b) PROVE Follows(NewFrame', TakenTo(Len(frames)))
    <3>1. smallread' = MetadataSize(b)
      BY <2>2 DEF TakeSize
    <3>2. NextByte' = NextByte + 1
      BY <1>1, <2>2 DEF TakeSize, NextByte, TypeOK, ServerTypeOK
    <3>3. NextByte' = TakenTo(Len(frames)) + 2
      BY <1>1, <3>2, TakenType
    <3> QED
      BY <1>2, <3>1, <3>3 DEF Follows
  <2> QED
    BY <2>1, <2>2
<1>4. Follows(NewFrame, TakenTo(Len(frames)))'
  BY <1>1, <1>3, FramesStay DEF Follows
<1> QED
  BY <1>1, <1>4, FramesStay DEF FramesFollow

\* The frame begun is the one that follows; an empty one is also complete.
LEMMA WriteHeaderFollows ==
  ASSUME ConstantsAssumption, TypeOK, TypeOK', WriterAtDue', FramesFollow, WriteHeader
  PROVE  FramesFollow'
<1> PICK L \in Nat : L = Len(frames)
  BY FrameTypes
<1>1. /\ UNCHANGED <<metaint, received, read_cnt>> /\ metaint \in Metaints
      /\ frames' = Append(frames, NewFrame) /\ frames \in Seq(Frame)
      /\ Follows(NewFrame, TakenTo(L))
  BY DEF WriteHeader, FramesFollow, TypeOK, ServerTypeOK
<1>2. /\ Len(frames') = L + 1 /\ frames'[L + 1] = NewFrame
      /\ \A i \in 1..L : frames'[i] = frames[i]
  BY <1>1
<1>3. \A n \in 0..L : TakenTo(n)' = TakenTo(n)
  <2> TAKE n \in 0..L
  <2>1. CASE n = 0
    BY <2>1 DEF TakenTo
  <2>2. CASE n # 0
    BY <1>2, <2>2 DEF TakenTo
  <2> QED
    BY <2>1, <2>2
<1>4. ASSUME NEW i \in 1..Len(frames') PROVE Follows(frames[i], TakenTo(i - 1))'
  <2>1. CASE i \in 1..L
    <3>1. i - 1 \in 0..L
      BY <2>1
    <3>2. Follows(frames[i], TakenTo(i - 1))
      BY <2>1 DEF FramesFollow
    <3> QED
      BY <1>1, <1>2, <1>3, <2>1, <3>1, <3>2 DEF Follows
  <2>2. CASE i = L + 1
    <3>1. TakenTo(i - 1)' = TakenTo(L) /\ frames'[i] = NewFrame
      BY <1>2, <1>3, <2>2
    <3> QED
      BY <1>1, <3>1 DEF Follows
  <2> QED
    BY <1>2, <2>1, <2>2
<1>5. CASE smallread = 0
  <2>1. FinishFrame /\ pc' \in {"header", "size"}
    BY <1>5 DEF WriteHeader, FinishFrame, BeginAudio, BeginMetadata
  <2>2. TakenTo(L + 1)' = NextByte - 1
    <3>1. TakenTo(L + 1)' = NewFrame.first + NewFrame.len - 1
      BY <1>2 DEF TakenTo
    <3> QED
      BY <1>5, <3>1, TakenType DEF NewFrame
  <2>3. NextByte' = TakenTo(L + 1)' + 1 /\ TakenTo(L + 1)' \in Int
    BY <1>1, <2>2, TakenType DEF NextByte
  <2>4. pc' = "header" => Follows(NewFrame, TakenTo(Len(frames)))'
    <3>1. pc' = "header" => Follows(NewFrame', TakenTo(L + 1)')
      BY <1>1, <2>1, <2>3, FinishFrameFollows DEF Follows
    <3>2. TakenTo(Len(frames))' = TakenTo(L + 1)'
      BY <1>2 DEF TakenTo
    <3> QED
      BY <1>1, <3>1, <3>2 DEF Follows
  <2> QED
    BY <1>2, <1>4, <2>3, <2>4 DEF FramesFollow
<1>6. CASE smallread # 0
  <2>1. pc' = "copy"
    BY <1>6 DEF WriteHeader
  <2> QED
    BY <1>4, <2>1 DEF FramesFollow
<1> QED
  BY <1>5, <1>6

\* The bytes copied are those of the frame, to its end and no further.
LEMMA CopyFollows ==
  ASSUME ConstantsAssumption, TypeOK, TypeOK', WriterAtDue, WriterAtDue', FramesFollow, Copy
  PROVE  FramesFollow'
<1> PICK L \in Nat : L = Len(frames)
  BY FrameTypes
<1>1. /\ UNCHANGED <<metaint, received, frames>> /\ metaint \in Metaints
      /\ L > 0 /\ frames[L].len = smallread
      /\ frames[L].first + smallread - left = NextByte
  BY DEF Copy, WriterAtDue, TypeOK
<1>2. CASE left = CopyLen
  <2>1. FinishFrame /\ pc' \in {"header", "size"}
    BY <1>2 DEF Copy, FinishFrame, BeginAudio, BeginMetadata
  <2>2. NextByte' = TakenTo(L)' + 1 /\ TakenTo(L)' \in Int
    <3>1. L \in 1..Len(frames)
      BY <1>1
    <3>2. frames[L].first \in Nat /\ smallread \in Nat /\ left \in Nat
      <4>1. frames[L].first \in Nat
        BY ONLY <3>1, TypeOK, FrameTypes
      <4>2. smallread \in Nat /\ left \in Nat
        BY ONLY TypeOK DEF TypeOK, ServerTypeOK, UInt16
      <4> QED
        BY <4>1, <4>2
    <3>3. TakenTo(L)' = frames[L].first + smallread - 1
      BY <1>1 DEF TakenTo
    <3>4. NextByte' = NextByte + left
      BY <1>1, <1>2 DEF Copy, NextByte, TypeOK, ServerTypeOK, UInt16
    <3>5. PICK first \in Nat, len \in Nat, missing \in Nat :
            first = frames[L].first /\ len = smallread /\ missing = left
      BY <3>2
    <3>6. NextByte = first + len - missing
      BY <1>1, <3>5
    <3>7. NextByte' = first + len
      BY ONLY <3>4, <3>5, <3>6
    <3>8. TakenTo(L)' = first + len - 1
      BY <3>3, <3>5
    <3> QED
      BY ONLY <3>7, <3>8, first \in Nat, len \in Nat
  <2>3. pc' = "header" => Follows(NewFrame, TakenTo(Len(frames)))'
    <3>1. pc' = "header" => Follows(NewFrame', TakenTo(L)')
      BY <1>1, <2>1, <2>2, FinishFrameFollows DEF Follows
    <3> QED
      BY <1>1, <3>1 DEF Follows
  <2> QED
    BY <1>1, <2>2, <2>3, FramesStay DEF FramesFollow
<1>3. CASE left # CopyLen
  <2>1. pc' = "copy"
    BY <1>3 DEF Copy
  <2> QED
    BY <1>1, <2>1, FramesStay DEF FramesFollow
<1> QED
  BY <1>2, <1>3

\* No other step moves the writer to a frame.
LEMMA OthersFollow ==
  ASSUME TypeOK, FramesFollow,
         \/ \E n \in 1..BufSize : FillData(n)
         \/ FillFailsInFrame \/ WriteInterrupted
         \/ UNCHANGED <<metaint, serverVars>>
  PROVE  FramesFollow'
<1>1. UNCHANGED <<metaint, frames>>
  BY DEF FillData, FillFailsInFrame, WriteInterrupted, serverVars
<1>2. CASE FillFailsInFrame \/ WriteInterrupted
  <2>1. pc' = "done"
    BY <1>2 DEF FillFailsInFrame, WriteInterrupted, EndServer
  <2> QED
    BY <1>1, <2>1, FramesStay DEF FramesFollow
<1>3. ASSUME NEW n \in 1..BufSize, FillData(n) PROVE FramesFollow'
  <2>1. pc' # "header" /\ pc' = pc
    BY <1>3 DEF FillData, NeedsData
  <2>2. NextByte' = NextByte
    BY <1>3 DEF FillData, NeedsData, NextByte, TypeOK, ServerTypeOK
  <2> QED
    BY <1>1, <2>1, <2>2, FramesStay DEF FramesFollow
<1>4. CASE UNCHANGED <<metaint, serverVars>>
  <2>1. UNCHANGED <<metaint, pc, frames>> /\ NewFrame' = NewFrame /\ NextByte' = NextByte
    BY <1>4 DEF serverVars, NewFrame, KindNow, SumNow, NextByte
  <2> QED
    BY <2>1, FramesStay DEF FramesFollow, Follows
<1> QED
  BY <1>2, <1>3, <1>4

\* What the refinement is proved from.
RelayInv == TypeOK /\ InSync /\ FramesFollow

LEMMA RelayInvInductive ==
  ASSUME ConstantsAssumption
  PROVE  /\ Init => RelayInv
         /\ RelayInv /\ [Next]_vars => RelayInv'
<1>1. ASSUME Init PROVE RelayInv
  <2>1. TypeOK /\ InSync
    BY <1>1, TypeInit, InSyncInit
  <2>2. frames = <<>> /\ Len(frames) = 0 /\ pc = "header" /\ TakenTo(Len(frames)) = 0
    BY <1>1 DEF Init, TakenTo
  <2>3. Follows(NewFrame, 0)
    <3>1. to_read \in 1..AudioQuota
      BY <1>1, <2>1, LengthTypes DEF Init, TypeOK
    <3>2. /\ NewFrame.kind = "AUDIO" /\ NewFrame.len = ChunkLen(to_read)
          /\ NewFrame.sum = IF metaint > 0 THEN metaint - to_read ELSE 0
      BY <1>1 DEF Init, NewFrame, KindNow, SumNow
    <3>3. NewFrame.first = 0 + 1
      BY <1>1, <2>1 DEF Init, NewFrame, NextByte, TypeOK, ServerTypeOK
    <3> QED
      BY <2>1, <3>1, <3>2, <3>3, ChunkFollows DEF TypeOK
  <2> QED
    BY <2>1, <2>2, <2>3 DEF RelayInv, FramesFollow
<1>2. ASSUME RelayInv, [Next]_vars PROVE RelayInv'
  <2>1. /\ TypeOK /\ InSync /\ FramesFollow /\ TypeOK' /\ InSync'
        /\ WriterAtDue /\ WriterAtDue'
    BY <1>2, TypeStep, InSyncStep DEF RelayInv, InSync
  <2>2. CASE Server
    BY <2>1, <2>2, SizeFollows, WriteHeaderFollows, CopyFollows, OthersFollow
       DEF Server, Fill, RelayInv
  <2>3. CASE UNCHANGED <<metaint, serverVars>>
    BY <2>1, <2>3, OthersFollow DEF RelayInv
  <2> QED
    BY <1>2, <2>2, <2>3
       DEF Next, Client, ClientFails, ReadTargetedLen, PartialRead, EmptyFrame, StopClient,
           LeaveLoop, Interrupt, vars
<1> QED
  BY <1>1, <1>2

(***************************************************************************)
(* A frame that the client process can never take, because it is longer    *)
(* than the message, comes from a length byte that could not be read: no   *)
(* radio can make one.                                                     *)
(***************************************************************************)
THEOREM OversizeComesFromFailure == Spec => []OversizeIsFailure
<1>1. ConstantsAssumption
  BY ConstantsAssumption
<1>2. RelayInv => OversizeIsFailure
  <2> SUFFICES ASSUME RelayInv, NEW i \in 1..Len(frames)
               PROVE  \/ frames[i].len <= PayloadSize
                      \/ frames[i].kind = "METADATA" /\ frames[i].len \in GarbageLens
    BY DEF OversizeIsFailure
  <2>1. Follows(frames[i], TakenTo(i - 1))
    BY DEF RelayInv, FramesFollow
  <2>2. ChunkSize \in Nat /\ PayloadSize \in Nat /\ ChunkSize <= PayloadSize
    BY <1>1 DEF ConstantsAssumption, UInt16
  <2>3. CASE frames[i].len \in 1..ChunkSize
    BY <2>2, <2>3
  <2>4. CASE \E b \in LenBytes : frames[i].len = MetadataSize(b)
    BY <1>1, <2>4 DEF ConstantsAssumption
  <2> QED
    BY <2>1, <2>3, <2>4 DEF Follows
<1> QED
  BY <1>1, <1>2, RelayInvInductive, PTL DEF Spec

-----------------------------------------------------------------------------
(***************************************************************************)
(* The refinement of Relay.                                                *)
(***************************************************************************)
\* The blocks of Relay.
Blocks == [i \in 1..Complete |-> AsBlock(frames[i])]

AnyBlock == [kind : Kinds, sum : Nat, first : Nat, len : Nat]

\* A frame that is not complete is the last one.
CompleteOrLast ==
  /\ Complete \in Nat /\ Len(frames) \in Nat /\ Complete <= Len(frames) /\ left \in Nat
  /\ left = 0 => Complete = Len(frames)
  /\ left > 0 => Len(frames) = Complete + 1

LEMMA CompleteType == TypeOK /\ FrameLayout => CompleteOrLast
<1> SUFFICES ASSUME TypeOK, FrameLayout PROVE CompleteOrLast
  OBVIOUS
<1>1. left \in Nat /\ Len(frames) \in Nat /\ Len(written) \in Nat
  BY FrameTypes DEF TypeOK, ServerTypeOK, UInt16
<1>2. Len(frames) = 0 => left = 0
  BY <1>1 DEF FrameLayout, End
<1> QED
  BY <1>1, <1>2 DEF CompleteOrLast, Complete

\* The blocks are a sequence, one for every complete frame.
BlocksAreFrames ==
  /\ Blocks \in Seq(AnyBlock) /\ Len(Blocks) = Complete
  /\ \A i \in 1..Complete : Blocks[i] = AsBlock(frames[i])

LEMMA BlocksType == TypeOK /\ FrameLayout => BlocksAreFrames
<1> SUFFICES ASSUME TypeOK, FrameLayout PROVE BlocksAreFrames
  OBVIOUS
<1>1. Complete \in Nat /\ Complete <= Len(frames) /\ Len(frames) \in Nat
  BY CompleteType DEF CompleteOrLast
<1>2. \A i \in 1..Complete : AsBlock(frames[i]) \in AnyBlock
  BY <1>1, FrameTypes DEF AsBlock, AnyBlock
<1> QED
  BY <1>1, <1>2 DEF BlocksAreFrames, Blocks

\* What Relay says of its blocks is what is known of the frames.
LEMMA BlocksMean ==
  ASSUME TypeOK, FrameLayout
  PROVE  /\ R!Due = Due(Complete)
         /\ R!Taken = TakenTo(Complete)
<1>1. /\ Blocks \in Seq(AnyBlock) /\ Len(Blocks) = Complete /\ Complete \in Nat
      /\ \A i \in 1..Complete : Blocks[i] = AsBlock(frames[i])
  BY BlocksType, CompleteType DEF BlocksAreFrames, CompleteOrLast
<1>2. CASE Complete = 0
  <2>1. Blocks = <<>>
    BY <1>1, <1>2, EmptySeq
  <2> QED
    BY <1>2, <2>1 DEF R!Due, R!Taken, Blocks, Due, TakenTo
<1>3. CASE Complete # 0
  <2>1. Blocks # <<>> /\ Blocks[Len(Blocks)] = AsBlock(frames[Complete])
    BY <1>1, <1>3, EmptySeq
  <2>2. R!After(AsBlock(frames[Complete])) = After(frames[Complete])
    BY DEF R!After, After, AsBlock
  <2>3. R!Due = Due(Complete)
    BY <1>3, <2>1, <2>2 DEF R!Due, Blocks, Due
  <2>4. R!Taken = TakenTo(Complete)
    <3>1. R!Taken = Blocks[Len(Blocks)].first + Blocks[Len(Blocks)].len - 1
      BY <2>1, Zenon DEF R!Taken, Blocks
    <3> QED
      BY <1>3, <2>1, <3>1 DEF TakenTo, AsBlock
  <2> QED
    BY <2>3, <2>4
<1> QED
  BY <1>2, <1>3

\* A step after which nothing is complete that was not before is no step of Relay.
LEMMA NothingCompleted ==
  ASSUME UNCHANGED Complete, \A i \in 1..Complete : frames'[i] = frames[i]
  PROVE  Blocks' = Blocks
BY DEF Blocks, AsBlock

\* The completion of a frame accepts its block.
LEMMA FrameAccepted ==
  ASSUME ConstantsAssumption, RelayInv, RelayInv', CompleteOrLast, CompleteOrLast',
         BlocksAreFrames, BlocksAreFrames', UNCHANGED <<metaint, handled>>,
         Complete' = Complete + 1, \A i \in 1..Complete : frames'[i] = frames[i]
  PROVE  R!RelayNext
<1> PICK n \in Nat : n = Complete
  BY DEF CompleteOrLast
<1> DEFINE f == frames'[n + 1]
<1>1. /\ Blocks \in Seq(AnyBlock) /\ Len(Blocks) = n
      /\ \A i \in 1..n : Blocks[i] = AsBlock(frames[i])
  BY DEF BlocksAreFrames
<1>2. /\ Blocks' \in Seq(AnyBlock) /\ Len(Blocks') = n + 1
      /\ \A i \in 1..(n + 1) : Blocks'[i] = AsBlock(frames'[i])
  <2>1. AnyBlock' = AnyBlock /\ Complete' = n + 1
    BY DEF AnyBlock
  <2> QED
    BY <2>1 DEF BlocksAreFrames, AsBlock
<1>3. n + 1 \in 1..Len(frames')
  BY DEF CompleteOrLast
<1>4. Due(n)' = Due(n) /\ TakenTo(n)' = TakenTo(n)
  <2>1. CASE n = 0
    BY <2>1 DEF Due, TakenTo
  <2>2. CASE n # 0
    <3>1. frames'[n] = frames[n]
      BY <2>2
    <3> QED
      BY <2>2, <3>1 DEF Due, TakenTo, After
  <2> QED
    BY <2>1, <2>2
<1>5. R!Due = Due(n) /\ R!Taken = TakenTo(n)
  BY BlocksMean DEF RelayInv, InSync
<1>6. f.kind = R!Due.kind /\ f.sum = R!Due.sum
  <2>1. f.kind = Due(n)'.kind /\ f.sum = Due(n)'.sum
    BY <1>3 DEF RelayInv, InSync, FrameKinds
  <2> QED
    BY <1>4, <1>5, <2>1
<1>7. Follows(f, R!Taken)
  <2>1. Follows(f, TakenTo(n)')
    BY <1>3 DEF RelayInv, FramesFollow, Follows
  <2> QED
    BY <1>4, <1>5, <2>1
<1>8. R!Accept(f.first, f.len)
  <2>1. Blocks' = Append(Blocks, AsBlock(f))
    <3>1. AsBlock(f) \in AnyBlock
      BY <1>2, <1>3, ElementOfSeq
    <3>2. /\ Append(Blocks, AsBlock(f)) \in Seq(AnyBlock)
          /\ Len(Append(Blocks, AsBlock(f))) = n + 1
          /\ \A i \in 1..n : Append(Blocks, AsBlock(f))[i] = Blocks[i]
          /\ Append(Blocks, AsBlock(f))[n + 1] = AsBlock(f)
      BY <1>1, <3>1
    <3>3. \A i \in 1..(n + 1) : Blocks'[i] = Append(Blocks, AsBlock(f))[i]
      BY <1>1, <1>2, <3>2
    <3> QED
      BY <1>2, <3>2, <3>3, SeqEqual
  <2>2. AsBlock(f) = R!Block(f.first, f.len)
    BY <1>6 DEF AsBlock, R!Block
  <2> QED
    BY <2>1, <2>2 DEF R!Accept, Blocks
<1>9. CASE f.kind = "AUDIO"
  <2>1. /\ f.first = R!Taken + 1 /\ f.len \in 1..ChunkSize
        /\ metaint > 0 => R!Due.sum + f.len <= metaint
    BY <1>6, <1>7, <1>9 DEF Follows
  <2>2. R!AcceptAudio(f.len)
    BY <1>6, <1>8, <1>9, <2>1 DEF R!AcceptAudio
  <2> QED
    BY <2>1, <2>2 DEF R!RelayNext
<1>10. ASSUME f.kind = "METADATA", f.first = R!Taken + 2,
              NEW b \in LenBytes, f.len = MetadataSize(b)
       PROVE  R!RelayNext
  <2>1. R!AcceptMetadata(b)
    BY <1>6, <1>8, <1>10 DEF R!AcceptMetadata, MetadataSize
  <2> QED
    BY <2>1 DEF R!RelayNext
<1>11. CASE f.kind = "METADATA" /\ f.first = R!Taken + 1 /\ f.len \in GarbageLens
  <2>1. R!AcceptGarbage(f.len)
    BY <1>6, <1>8, <1>11 DEF R!AcceptGarbage
  <2> QED
    BY <1>11, <2>1 DEF R!RelayNext
<1> QED
  BY <1>7, <1>9, <1>10, <1>11 DEF Follows

\* A step of the server process completes one frame or none.
LEMMA ServerMaps ==
  ASSUME ConstantsAssumption, RelayInv, RelayInv', CompleteOrLast, CompleteOrLast',
         BlocksAreFrames, BlocksAreFrames', Server
  PROVE  R!RelayNext \/ UNCHANGED R!relayVars
<1>1. UNCHANGED <<metaint, handled>>
  BY DEF Server, Fill, FillData, FillFailsInFrame, FillFailsAtSize, TakeSize,
         WriteHeader, Copy, WriteInterrupted, clientVars
<1>2. /\ Complete \in Nat /\ Complete <= Len(frames) /\ Len(frames) \in Nat
      /\ left \in Nat /\ left' \in Nat
      /\ left > 0 => Len(frames) = Complete + 1
      /\ left = 0 => Len(frames) = Complete
      /\ left' > 0 => Len(frames') = Complete' + 1
      /\ left' = 0 => Len(frames') = Complete'
      /\ Complete' \in Nat
  BY DEF CompleteOrLast
<1>3. ASSUME UNCHANGED Complete, \A i \in 1..Complete : frames'[i] = frames[i]
      PROVE  UNCHANGED R!relayVars
  BY <1>1, <1>3, NothingCompleted DEF R!relayVars, Blocks
<1>4. CASE WriteHeader
  <2>1. left = 0 /\ left' = smallread
    BY <1>4 DEF WriteHeader, RelayInv, InSync, WriterAtDue
  <2>2. Len(frames') = Len(frames) + 1 /\ \A i \in 1..Len(frames) : frames'[i] = frames[i]
    BY <1>4 DEF WriteHeader, RelayInv, TypeOK, ServerTypeOK
  <2>3. \A i \in 1..Complete : frames'[i] = frames[i]
    BY <1>2, <2>1, <2>2
  <2>4. CASE smallread = 0
    <3>1. Complete' = Complete + 1
      BY <1>2, <2>1, <2>2, <2>4
    <3> QED
      BY <1>1, <2>3, <3>1, FrameAccepted
  <2>5. CASE smallread # 0
    <3>1. left' > 0
      BY <1>2, <2>1, <2>5
    <3>2. Complete' = Complete
      BY <1>2, <2>1, <2>2, <3>1
    <3> QED
      BY <1>3, <2>3, <3>2
  <2> QED
    BY <2>4, <2>5
<1>5. CASE Copy
  <2>1. frames' = frames /\ left > 0 /\ left' = left - CopyLen
    BY <1>5 DEF Copy, RelayInv, InSync, WriterAtDue
  <2>2. CASE left = CopyLen
    <3>1. left' = 0
      BY <1>2, <2>1, <2>2
    <3>2. Complete' = Complete + 1
      BY <1>2, <2>1, <3>1
    <3> QED
      BY <1>1, <2>1, <3>2, FrameAccepted
  <2>3. CASE left # CopyLen
    <3>1. left' > 0
      BY <1>2, <2>1, <2>3 DEF CopyLen, Least, RelayInv, TypeOK, ServerTypeOK
    <3>2. Complete' = Complete
      BY <1>2, <2>1, <3>1
    <3> QED
      BY <1>3, <2>1, <3>2
  <2> QED
    BY <2>2, <2>3
<1>6. CASE Fill \/ (\E b \in LenBytes : TakeSize(b)) \/ WriteInterrupted
  <2>1. frames' = frames /\ left' = left
    BY <1>6 DEF Fill, FillData, FillFailsInFrame, FillFailsAtSize, TakeSize, WriteInterrupted
  <2>2. Complete' = Complete
    BY <2>1 DEF Complete
  <2> QED
    BY <1>3, <2>1, <2>2
<1> QED
  BY <1>4, <1>5, <1>6 DEF Server

\* A message is finished only when its frame is complete in the pipe, and then it is the
\* datagram of that frame.
LEMMA FinishForwards ==
  ASSUME ConstantsAssumption, RelayInv, RelayInv', UNCHANGED <<metaint, serverVars>>,
         NEW payload, FinishMessage(payload), targeted_len <= PayloadSize, payload_len_set
  PROVE  R!Forward
<1> PICK h \in Nat : h = Len(handled)
  BY DEF RelayInv, TypeOK, ClientTypeOK
<1>1. /\ frames' = frames /\ written' = written /\ left' = left /\ metaint' = metaint
      /\ h + 1 \in 1..Len(frames) /\ targeted_len = frames[h + 1].len
  BY FrameTypes DEF serverVars, RelayInv, InSync, ReaderInSync
<1>2. PICK x \in [kind : Kinds, len : Nat, payload : Seq(Nat)] : handled' = Append(handled, x)
  <2>1. PICK y : handled' = Append(handled, y)
    BY DEF FinishMessage
  <2>2. /\ handled \in Seq([kind : Kinds, len : Nat, payload : Seq(Nat)])
        /\ handled' \in Seq([kind : Kinds, len : Nat, payload : Seq(Nat)])
    BY DEF RelayInv, TypeOK, ClientTypeOK
  <2>3. Len(handled') = h + 1 /\ handled'[h + 1] = y
    BY <2>1, <2>2
  <2>4. y \in [kind : Kinds, len : Nat, payload : Seq(Nat)]
    <3> DEFINE S == [kind : Kinds, len : Nat, payload : Seq(Nat)]
    <3>1. handled' \in Seq(S) /\ h + 1 \in 1..Len(handled') /\ handled'[h + 1] = y
      BY <2>2, <2>3
    <3> HIDE DEF S
    <3>2. y \in S
      BY <3>1
    <3> QED
      BY <3>2 DEF S
  <2> QED
    BY <2>1, <2>4
<1>3. Len(handled') = h + 1 /\ handled'[h + 1] = x
  BY <1>2 DEF RelayInv, TypeOK, ClientTypeOK
<1>4. x = Datagram(frames[h + 1])
  BY <1>1, <1>3 DEF RelayInv, InSync, HandledFaithful, Datagram
<1>5. h + 1 <= Complete
  <2>1. End(h + 1)' = End(h + 1) /\ End(h + 1) <= Len(written)
    <3>1. payload_len_set' = FALSE
      BY DEF FinishMessage
    <3>2. consumed' = End(h + 1)' /\ consumed' <= Len(written')
      BY <1>3, <3>1 DEF RelayInv, InSync, ReaderInSync
    <3> QED
      BY <1>1, <3>2 DEF End
  <2>2. /\ Len(written) + left = End(Len(frames))
        /\ End(h + 1) \in Nat /\ Len(written) \in Nat /\ Len(frames) \in Nat
    BY <1>1, FrameTypes DEF RelayInv, InSync, FrameLayout
  <2>3. left > 0 => h + 1 # Len(frames)
    BY <2>1, <2>2, CompleteType DEF RelayInv, InSync, CompleteOrLast
  <2>4. /\ Complete \in Nat /\ left \in Nat
        /\ left = 0 => Complete = Len(frames)
        /\ left > 0 => Len(frames) = Complete + 1
    BY CompleteType DEF RelayInv, InSync, CompleteOrLast
  <2> QED
    BY <1>1, <2>2, <2>3, <2>4
<1>6. Blocks' = Blocks
  BY <1>1 DEF Blocks, AsBlock, Complete
<1>7. Len(Blocks) = Complete /\ Blocks[h + 1] = AsBlock(frames[h + 1]) /\ Complete \in Nat
  BY <1>5, BlocksType, CompleteType DEF RelayInv, InSync, BlocksAreFrames, CompleteOrLast
<1>8. R!Datagram(AsBlock(frames[h + 1])) = Datagram(frames[h + 1])
  BY DEF R!Datagram, Datagram, AsBlock
<1>9. Len(handled) < Len(Blocks) /\ Blocks[Len(handled) + 1].len <= PayloadSize
  BY <1>1, <1>5, <1>7 DEF AsBlock
<1> QED
  BY <1>1, <1>2, <1>4, <1>6, <1>7, <1>8, <1>9 DEF R!Forward, Blocks

\* A step that leaves the server process alone forwards a block or does nothing.
LEMMA OthersMap ==
  ASSUME ConstantsAssumption, RelayInv, RelayInv',
         UNCHANGED vars \/ Client \/ ClientFails \/ (\E p \in {"server", "client"} : Interrupt(p))
  PROVE  R!RelayNext \/ UNCHANGED R!relayVars
<1>1. UNCHANGED <<metaint, serverVars>>
  BY DEF vars, Client, ClientFails, ReadTargetedLen, PartialRead, EmptyFrame, StopClient,
         LeaveLoop, Interrupt
<1>2. Blocks' = Blocks
  BY <1>1 DEF serverVars, Blocks, AsBlock, Complete
<1>3. CASE handled' = handled
  BY <1>1, <1>2, <1>3 DEF R!relayVars, Blocks
<1>4. ASSUME NEW payload, FinishMessage(payload), PartialRead \/ EmptyFrame
      PROVE  R!RelayNext
  <2>1. payload_len_set /\ targeted_len <= PayloadSize
    <3>1. CASE PartialRead
      BY <3>1 DEF PartialRead, Fits
    <3>2. CASE EmptyFrame
      <4>1. fill_ptr \in 0..PayloadSize /\ PayloadSize \in Nat
        BY DEF RelayInv, TypeOK, ClientTypeOK, ConstantsAssumption, UInt16
      <4> QED
        BY <3>2, <4>1 DEF EmptyFrame
    <3> QED
      BY <1>4, <3>1, <3>2
  <2> QED
    BY <1>1, <1>4, <2>1, FinishForwards DEF R!RelayNext
<1>5. CASE PartialRead
  BY <1>3, <1>4, <1>5 DEF PartialRead
<1>6. CASE EmptyFrame
  BY <1>4, <1>6 DEF EmptyFrame
<1>7. CASE ~PartialRead /\ ~EmptyFrame
  BY <1>3, <1>7 DEF vars, clientVars, Client, ClientFails, ReadTargetedLen, StopClient,
                    LeaveLoop, Interrupt
<1> QED
  BY <1>5, <1>6, <1>7

(***************************************************************************)
(* Server process, pipe and client process together are the relay: for     *)
(* every metaint, every size of chunks, buffers, message and pipe, and     *)
(* every schedule, what reaches the listeners is the body, cut into blocks *)
(* of the kinds that are due, whole, in order and once each.               *)
(***************************************************************************)
THEOREM PipeRelays == Spec => ImplementsRelay
<1>1. ConstantsAssumption
  BY ConstantsAssumption
<1>2. Init => R!RelayInit
  <2> SUFFICES ASSUME Init PROVE R!RelayInit
    OBVIOUS
  <2>1. RelayInv
    BY <1>1, RelayInvInductive
  <2>2. Complete = 0 /\ metaint \in Metaints /\ handled = <<>>
    BY DEF Init, Complete
  <2>3. Blocks = <<>>
    BY <2>1, <2>2, BlocksType, EmptySeq DEF RelayInv, InSync, BlocksAreFrames
  <2> QED
    BY <2>2, <2>3 DEF R!RelayInit, Blocks
<1>3. RelayInv => CompleteOrLast /\ BlocksAreFrames
  BY CompleteType, BlocksType DEF RelayInv, InSync
<1>4. /\ RelayInv /\ CompleteOrLast /\ BlocksAreFrames
      /\ RelayInv' /\ CompleteOrLast' /\ BlocksAreFrames'
      /\ [Next]_vars
      => [R!RelayNext]_R!relayVars
  BY <1>1, ServerMaps, OthersMap DEF Next
<1> QED
  BY <1>1, <1>2, <1>3, <1>4, RelayInvInductive, PTL DEF Spec, ImplementsRelay, R!RelaySpec

-----------------------------------------------------------------------------
(***************************************************************************)
(* The division of the body.  Frames are taken here for the set of bytes   *)
(* they carry.                                                             *)
(***************************************************************************)
Bytes(i) == frames[i].first..TakenTo(i)

\* The audio in the first n frames.
AudioOf(n) == {q \in Nat : \E i \in 1..n : frames[i].kind = "AUDIO" /\ q \in Bytes(i)}

\* Each frame ends behind all that come before it, and begins behind them.
FramesAscend ==
  /\ \A n \in 0..Len(frames) : TakenTo(n) \in Nat
  /\ \A i \in 1..Len(frames) : frames[i].first \in Nat
  /\ \A i, j \in 0..Len(frames) : i < j => TakenTo(i) < TakenTo(j)
  /\ \A i \in 0..Len(frames), j \in 1..Len(frames) : i < j => TakenTo(i) < frames[j].first

\* Every frame takes at least one byte of the body: a length byte, or its own.
LEMMA FrameAdvances ==
  ASSUME ConstantsAssumption, RelayInv, NEW i \in 1..Len(frames)
  PROVE  /\ TakenTo(i) \in Int /\ TakenTo(i - 1) \in Int
         /\ frames[i].first \in Nat /\ frames[i].len \in Nat
         /\ TakenTo(i) = frames[i].first + frames[i].len - 1
         /\ TakenTo(i - 1) < frames[i].first
         /\ TakenTo(i - 1) < TakenTo(i)
         /\ frames[i].kind = "AUDIO" => /\ frames[i].len > 0
                                       /\ frames[i].first = TakenTo(i - 1) + 1
         /\ frames[i].first > TakenTo(i - 1) + 1 =>
              frames[i].kind = "METADATA" /\ frames[i].first = TakenTo(i - 1) + 2
<1>1. TypeOK /\ i \in 0..Len(frames) /\ i - 1 \in 0..Len(frames) /\ i # 0
  BY FrameTypes DEF RelayInv
<1>2. TakenTo(i) \in Int /\ TakenTo(i - 1) \in Int
  BY <1>1, TakenType
<1>3. frames[i].first \in Nat /\ frames[i].len \in Nat
  BY <1>1, FrameTypes
<1>4. TakenTo(i) = frames[i].first + frames[i].len - 1
  BY <1>1 DEF TakenTo
<1>5. Follows(frames[i], TakenTo(i - 1))
  BY DEF RelayInv, FramesFollow
<1>6. \A c \in GarbageLens : c # 0
  BY DEF GarbageLens, FailedSize, U16, UNKNOWN_ERROR, EOT, ERRNO_ERROR, RECEIVED_SIGNAL, TIMEOUT
<1> PICK f, l, t, u \in Int : /\ f = frames[i].first /\ l = frames[i].len
                             /\ t = TakenTo(i - 1) /\ u = TakenTo(i)
  BY <1>2, <1>3
<1>7. f \in Nat /\ l \in Nat /\ u = f + l - 1
  BY <1>3, <1>4
<1>8. ASSUME f = t + 1, l # 0 PROVE t < f /\ t < u /\ l > 0 /\ ~(f > t + 1)
  BY ONLY <1>7, <1>8, t \in Int
<1>9. ASSUME f = t + 2 PROVE t < f /\ t < u /\ f # t + 1
  BY ONLY <1>7, <1>9, t \in Int
<1>10. \/ frames[i].kind = "AUDIO" /\ f = t + 1 /\ l # 0
       \/ frames[i].kind = "METADATA" /\ f = t + 2
       \/ frames[i].kind = "METADATA" /\ f = t + 1 /\ l # 0
  <2>1. \A n \in 1..ChunkSize : n # 0
    OBVIOUS
  <2> QED
    BY <1>5, <1>6, <2>1 DEF Follows
<1> QED
  BY <1>2, <1>3, <1>4, <1>8, <1>9, <1>10

LEMMA FramesAreAscending == ConstantsAssumption /\ RelayInv => FramesAscend
<1> SUFFICES ASSUME ConstantsAssumption, RelayInv PROVE FramesAscend
  OBVIOUS
<1> PICK L \in Nat : L = Len(frames)
  BY FrameTypes DEF RelayInv
<1>1. \A n \in 0..L : TakenTo(n) \in Int
  BY TakenType DEF RelayInv
<1>2. \A n \in 0..(L - 1) : TakenTo(n) < TakenTo(n + 1) /\ TakenTo(n) < frames[n + 1].first
  <2> TAKE n \in 0..(L - 1)
  <2>1. n + 1 \in 1..Len(frames) /\ (n + 1) - 1 = n
    OBVIOUS
  <2> QED
    BY <2>1, FrameAdvances
<1>3. ASSUME NEW j \in 0..L
      PROVE  /\ TakenTo(j) >= 0
             /\ \A i \in 0..L : i < j => TakenTo(i) < TakenTo(j)
  <2> DEFINE S == {n \in 0..L : TakenTo(n) >= 0 /\ \A i \in 0..L : i < n => TakenTo(i) < TakenTo(n)}
  <2>1. 0 \in S
    BY DEF TakenTo
  <2>2. ASSUME NEW n \in 0..(j - 1), n \in S PROVE n + 1 \in S
    <3>1. n \in 0..(L - 1) /\ n + 1 \in 0..L /\ n \in 0..L
      OBVIOUS
    <3>2. TakenTo(n) < TakenTo(n + 1) /\ TakenTo(n) \in Int /\ TakenTo(n + 1) \in Int
      BY <1>1, <1>2, <3>1
    <3>3. TakenTo(n + 1) >= 0
      BY <2>2, <3>2
    <3>4. ASSUME NEW i \in 0..L, i < n + 1 PROVE TakenTo(i) < TakenTo(n + 1)
      <4>1. i = n \/ i < n
        BY <3>4
      <4>2. CASE i < n
        <5>1. TakenTo(i) < TakenTo(n) /\ TakenTo(i) \in Int
          BY <1>1, <2>2, <4>2
        <5> QED
          BY ONLY <3>2, <5>1
      <4> QED
        BY <3>2, <4>1, <4>2
    <3> QED
      BY <3>1, <3>3, <3>4
  <2> HIDE DEF S
  <2>3. j \in S
    <3>1. j \in Nat
      OBVIOUS
    <3> QED
      BY <2>1, <2>2, <3>1, Induction
  <2> QED
    BY <2>3 DEF S
<1>4. ASSUME NEW i \in 0..L, NEW j \in 1..L, i < j PROVE TakenTo(i) < frames[j].first
  <2>1. j - 1 \in 0..(L - 1) /\ (j - 1) + 1 = j /\ (i = j - 1 \/ i < j - 1) /\ j - 1 \in 0..L
    BY <1>4
  <2>2. TakenTo(j - 1) < frames[j].first
    BY <1>2, <2>1
  <2>3. frames[j].first \in Nat /\ TakenTo(i) \in Int /\ TakenTo(j - 1) \in Int
    BY <1>1, <2>1, FrameTypes DEF RelayInv
  <2>4. i < j - 1 => TakenTo(i) < TakenTo(j - 1)
    BY <1>3, <2>1
  <2> QED
    BY <2>1, <2>2, <2>3, <2>4
<1>5. \A n \in 0..L : TakenTo(n) \in Nat
  BY <1>1, <1>3
<1>6. \A i \in 1..L : frames[i].first \in Nat
  BY FrameTypes DEF RelayInv
<1> QED
  BY <1>3, <1>4, <1>5, <1>6 DEF FramesAscend

\* Whole portions of audio and what has been counted since make up all the audio.
AudioCounted(n) ==
  /\ IsFiniteSet(AudioOf(n)) /\ AudioOf(n) \subseteq 1..TakenTo(n)
  /\ metaint > 0 =>
       \E c \in Nat : /\ Cardinality(AudioOf(n)) = c * metaint + Due(n).sum
                      /\ Due(n).sum \in 0..(metaint - 1)
                      /\ Due(n).kind = "METADATA" => c > 0 /\ Due(n).sum = 0

LEMMA AudioGrows ==
  ASSUME ConstantsAssumption, RelayInv, FramesAscend, NEW n \in 0..(Len(frames) - 1),
         AudioCounted(n)
  PROVE  AudioCounted(n + 1)
<1> PICK L \in Nat : L = Len(frames)
  BY FrameTypes DEF RelayInv
<1> DEFINE f == frames[n + 1]
<1>1. n + 1 \in 1..L /\ (n + 1) - 1 = n /\ n + 1 # 0 /\ n \in Nat /\ n \in 0..L /\ n + 1 \in 0..L
  OBVIOUS
<1>2. /\ TakenTo(n + 1) = f.first + f.len - 1 /\ TakenTo(n) \in Nat
      /\ f.first \in Nat /\ f.len \in Nat /\ TakenTo(n + 1) \in Nat
      /\ TakenTo(n) < TakenTo(n + 1)
      /\ f.kind = "AUDIO" => f.len > 0 /\ f.first = TakenTo(n) + 1
  BY <1>1, FrameAdvances DEF FramesAscend
<1>3. f.kind = Due(n).kind /\ f.sum = Due(n).sum /\ Due(n + 1) = After(f) /\ f.kind \in Kinds
  BY <1>1, FrameTypes DEF RelayInv, InSync, FrameKinds, Due
<1>4. Follows(f, TakenTo(n))
  BY <1>1 DEF RelayInv, FramesFollow
<1>5. metaint \in Nat
  BY DEF RelayInv, TypeOK, ConstantsAssumption
<1>6. CASE f.kind # "AUDIO"
  <2>1. AudioOf(n + 1) = AudioOf(n)
    BY <1>1, <1>6 DEF AudioOf
  <2>2. 1..TakenTo(n) \subseteq 1..TakenTo(n + 1)
    BY <1>2
  <2>3. Due(n).kind = "METADATA" /\ Due(n + 1).sum = 0 /\ Due(n + 1).kind = "AUDIO"
    BY <1>3, <1>6 DEF Kinds, After
  <2>4. IsFiniteSet(AudioOf(n + 1)) /\ AudioOf(n + 1) \subseteq 1..TakenTo(n + 1)
    BY <2>1, <2>2 DEF AudioCounted
  <2>5. ASSUME metaint > 0
        PROVE  \E c \in Nat : Cardinality(AudioOf(n + 1)) = c * metaint + 0
    BY <2>1, <2>3, <2>5 DEF AudioCounted
  <2> QED
    BY <1>5, <2>3, <2>4, <2>5 DEF AudioCounted
<1>7. CASE f.kind = "AUDIO"
  <2>1. AudioOf(n + 1) = AudioOf(n) \cup Bytes(n + 1)
    <3>1. Bytes(n + 1) \subseteq Nat
      BY <1>2 DEF Bytes
    <3>2. 1..(n + 1) = (1..n) \cup {n + 1}
      BY <1>1
    <3> QED
      BY <1>7, <3>1, <3>2 DEF AudioOf
  <2>2. IsFiniteSet(Bytes(n + 1)) /\ Cardinality(Bytes(n + 1)) = f.len
    <3> PICK a, b \in Int : a = f.first /\ b = TakenTo(n + 1) /\ b = a + f.len - 1
      BY <1>2
    <3>1. IsFiniteSet(a..b) /\ Cardinality(a..b) = IF a > b THEN 0 ELSE b - a + 1
      BY FS_Interval
    <3>2. Bytes(n + 1) = a..b
      BY DEF Bytes
    <3> QED
      BY <1>2, <1>7, <3>1, <3>2
  <2>3. AudioOf(n) \cap Bytes(n + 1) = {} /\ AudioOf(n) \subseteq 1..TakenTo(n)
    BY <1>2, <1>7 DEF AudioCounted, Bytes
  <2>4. IsFiniteSet(AudioOf(n)) /\ Cardinality(AudioOf(n)) \in Nat
    BY FS_CardinalityType DEF AudioCounted
  <2>5. IsFiniteSet(AudioOf(n + 1)) /\ Cardinality(AudioOf(n + 1)) = Cardinality(AudioOf(n)) + f.len
    <3>1. IsFiniteSet(AudioOf(n) \cup Bytes(n + 1))
          /\ Cardinality(AudioOf(n) \cup Bytes(n + 1))
               = Cardinality(AudioOf(n)) + Cardinality(Bytes(n + 1)) - Cardinality({})
      BY <2>2, <2>3, <2>4, FS_Union
    <3>2. Cardinality({}) = 0
      BY FS_EmptySet
    <3> PICK k, l \in Nat : k = Cardinality(AudioOf(n)) /\ l = f.len
      BY <1>2, <2>4
    <3>3. k + l - 0 = k + l
      OBVIOUS
    <3> QED
      BY <2>1, <2>2, <3>1, <3>2, <3>3
  <2>6. AudioOf(n + 1) \subseteq 1..TakenTo(n + 1)
    BY <1>2, <1>7, <2>1, <2>3 DEF Bytes
  <2>7. ASSUME metaint > 0
        PROVE  \E c \in Nat : /\ Cardinality(AudioOf(n + 1)) = c * metaint + Due(n + 1).sum
                              /\ Due(n + 1).sum \in 0..(metaint - 1)
                              /\ Due(n + 1).kind = "METADATA" => c > 0 /\ Due(n + 1).sum = 0
    <3> PICK c \in Nat : /\ Cardinality(AudioOf(n)) = c * metaint + Due(n).sum
                         /\ Due(n).sum \in 0..(metaint - 1)
      BY <2>7 DEF AudioCounted
    <3> PICK m \in Nat : m = metaint
      BY <1>5
    <3> PICK cm \in Nat : cm = c * m
      BY ONLY c \in Nat, m \in Nat
    <3> PICK s, l, k \in Nat : s = f.sum /\ l = f.len /\ k = Cardinality(AudioOf(n))
      BY <1>2, <1>1, <2>4, FrameTypes DEF RelayInv
    <3>1. k = cm + s
      BY <1>3
    <3>2. s + l <= m
      BY <1>4, <1>7, <2>7 DEF Follows
    <3>3. CASE s + l = m
      <4>1. Due(n + 1).kind = "METADATA" /\ Due(n + 1).sum = 0
        BY ONLY <1>3, <1>7, <2>7, <3>3, m = metaint, s = f.sum, l = f.len DEF After
      <4>2. cm + m = (c + 1) * m
        OBVIOUS
      <4>3. k + l = cm + m
        BY ONLY <3>1, <3>3, k \in Nat, l \in Nat, s \in Nat, m \in Nat, cm \in Nat
      <4>4. Cardinality(AudioOf(n + 1)) = (c + 1) * metaint + 0
        BY <2>5, <4>2, <4>3
      <4>5. c + 1 \in Nat /\ c + 1 > 0 /\ 0 \in 0..(metaint - 1)
        BY <1>5, <2>7
      <4> QED
        BY <4>1, <4>4, <4>5
    <3>4. CASE s + l # m
      <4>1. Due(n + 1).kind = "AUDIO" /\ Due(n + 1).sum = s + l
        BY ONLY <1>3, <1>7, <2>7, <3>4, m = metaint, s = f.sum, l = f.len DEF After
      <4>2. k + l = cm + (s + l) /\ s + l \in 0..(m - 1)
        BY ONLY <3>1, <3>2, <3>4, k \in Nat, l \in Nat, s \in Nat, m \in Nat, cm \in Nat
      <4>3. Cardinality(AudioOf(n + 1)) = c * metaint + (s + l)
        BY <2>5, <4>2
      <4> QED
        BY <4>1, <4>2, <4>3
    <3> QED
      BY <3>3, <3>4
  <2> QED
    BY <2>5, <2>6, <2>7 DEF AudioCounted
<1> QED
  BY <1>6, <1>7

LEMMA AudioIsCounted ==
  ASSUME ConstantsAssumption, RelayInv, FramesAscend, NEW N \in 0..Len(frames)
  PROVE  AudioCounted(N)
<1> PICK L \in Nat : L = Len(frames)
  BY FrameTypes DEF RelayInv
<1> DEFINE S == {n \in 0..L : AudioCounted(n)}
<1>1. AudioCounted(0)
  <2>1. AudioOf(0) = {}
    BY DEF AudioOf
  <2>2. Due(0).sum = 0 /\ Due(0).kind = "AUDIO" /\ metaint \in Nat
    BY DEF Due, RelayInv, TypeOK, ConstantsAssumption
  <2>3. Cardinality(AudioOf(0)) = 0 /\ IsFiniteSet(AudioOf(0))
    BY <2>1, FS_EmptySet
  <2>4. 0 * metaint + 0 = 0 /\ (metaint > 0 => 0 \in 0..(metaint - 1))
    BY <2>2
  <2>5. Cardinality(AudioOf(0)) = 0 * metaint + Due(0).sum
    BY <2>2, <2>3, <2>4
  <2> QED
    BY <2>1, <2>2, <2>3, <2>4, <2>5 DEF AudioCounted
<1>2. \A n \in 0..(N - 1) : n \in S => n + 1 \in S
  <2> SUFFICES ASSUME NEW n \in 0..(N - 1), n \in S PROVE n + 1 \in S
    OBVIOUS
  <2>1. n \in 0..(Len(frames) - 1) /\ n + 1 \in 0..L /\ AudioCounted(n)
    OBVIOUS
  <2> QED
    BY <2>1, AudioGrows
<1>3. 0 \in S /\ N \in Nat
  BY <1>1
<1> HIDE DEF S
<1>4. N \in S
  BY <1>2, <1>3, Induction
<1> QED
  BY <1>4 DEF S

\* The datagrams carry the bytes of their frames.
SentAreFrames ==
  /\ Len(handled) \in 0..Len(frames)
  /\ \A i \in 1..Len(handled) :
       /\ handled[i].kind = frames[i].kind /\ handled[i].len = frames[i].len
       /\ \A k \in 1..frames[i].len : handled[i].payload[k] = frames[i].first + k - 1
  /\ Sent("AUDIO") = AudioOf(Len(handled))
  /\ \A q : q \in Sent("METADATA") <=>
       \E i \in 1..Len(handled) : frames[i].kind = "METADATA" /\ q \in Bytes(i)

LEMMA DatagramsAreFrames == ConstantsAssumption /\ RelayInv => SentAreFrames
<1> SUFFICES ASSUME ConstantsAssumption, RelayInv PROVE SentAreFrames
  OBVIOUS
<1> PICK H \in Nat : H = Len(handled)
  BY DEF RelayInv, TypeOK, ClientTypeOK
<1>1. H \in 0..Len(frames) /\ Len(frames) \in Nat
  BY FrameTypes DEF RelayInv, InSync, ReaderInSync
<1>2. ASSUME NEW i \in 1..H
      PROVE  /\ handled[i].kind = frames[i].kind /\ handled[i].len = frames[i].len
             /\ \A k \in 1..frames[i].len : handled[i].payload[k] = frames[i].first + k - 1
             /\ {handled[i].payload[k] : k \in 1..handled[i].len} = Bytes(i)
             /\ Bytes(i) \subseteq Nat
  <2>1. handled[i] = Datagram(frames[i])
    BY DEF RelayInv, InSync, HandledFaithful
  <2>2. /\ handled[i].kind = frames[i].kind /\ handled[i].len = frames[i].len
        /\ handled[i].payload = [k \in 1..frames[i].len |-> frames[i].first + k - 1]
    BY <2>1 DEF Datagram
  <2>3. PICK a, l \in Nat : a = frames[i].first /\ l = frames[i].len
    <3>1. TypeOK /\ i \in 1..Len(frames)
      BY ONLY <1>1, RelayInv, H \in Nat, i \in 1..H DEF RelayInv
    <3>2. frames[i].first \in Nat /\ frames[i].len \in Nat
      BY ONLY <3>1, FrameTypes
    <3> QED
      BY ONLY <3>2
  <2>4. Bytes(i) = a..(a + l - 1)
    BY <1>1, <2>3 DEF Bytes, TakenTo
  <2>5. \A k \in 1..l : handled[i].payload[k] = a + k - 1
    BY <2>2, <2>3
  <2>6. {handled[i].payload[k] : k \in 1..l} = a..(a + l - 1)
    <3>1. \A k \in 1..l : a + k - 1 \in a..(a + l - 1)
      OBVIOUS
    <3>2. \A q \in a..(a + l - 1) : q - a + 1 \in 1..l /\ a + (q - a + 1) - 1 = q
      OBVIOUS
    <3>3. \A k \in 1..l : handled[i].payload[k] \in a..(a + l - 1)
      BY <2>5, <3>1
    <3>4. ASSUME NEW q \in a..(a + l - 1)
          PROVE  \E k \in 1..l : handled[i].payload[k] = q
      BY <2>5, <3>2
    <3> QED
      BY ONLY <3>3, <3>4
  <2>7. Bytes(i) \subseteq Nat
    BY ONLY <2>4, a \in Nat, l \in Nat
  <2>8. {handled[i].payload[k] : k \in 1..handled[i].len} = Bytes(i)
    BY ONLY <2>2, <2>3, <2>4, <2>6
  <2> QED
    BY ONLY <2>2, <2>3, <2>5, <2>7, <2>8
<1>3. ASSUME NEW kind, NEW q
      PROVE  q \in Sent(kind) <=> \E i \in 1..H : frames[i].kind = kind /\ q \in Bytes(i)
  BY <1>2 DEF Sent
<1>4. Sent("AUDIO") = AudioOf(H)
  BY <1>2, <1>3 DEF AudioOf
<1> QED
  BY <1>1, <1>2, <1>3, <1>4 DEF SentAreFrames

\* The facts about frames that the four parts rest on.
Divided ==
  /\ FramesAscend /\ SentAreFrames
  /\ \A n \in 0..Len(frames) : AudioCounted(n)

LEMMA FramesDivide == ConstantsAssumption /\ RelayInv => Divided
BY FramesAreAscending, DatagramsAreFrames, AudioIsCounted DEF Divided

\* Bytes of two frames come in the order of the frames.
LEMMA BytesAscend ==
  ASSUME FramesAscend, NEW i \in 1..Len(frames), NEW j \in 1..Len(frames), i < j,
         NEW p \in Bytes(i), NEW q \in Bytes(j)
  PROVE  p < q
<1>1. /\ i \in 0..Len(frames) /\ j \in 0..Len(frames)
      /\ frames[i].first \in Nat /\ frames[j].first \in Nat
      /\ TakenTo(i) \in Nat /\ TakenTo(j) \in Nat
      /\ TakenTo(i) < frames[j].first
  BY DEF FramesAscend
<1>2. p \in frames[i].first..TakenTo(i) /\ q \in frames[j].first..TakenTo(j)
  BY DEF Bytes
<1> QED
  BY ONLY <1>1, <1>2

\* The audio in front of a byte is that of the frames that end in front of it, and what the
\* frame of the byte carries in front of it.
LEMMA AudioInFront ==
  ASSUME ConstantsAssumption, RelayInv, Divided, NEW i \in 1..Len(handled),
         NEW p \in Nat, TakenTo(i - 1) < p, p <= TakenTo(i)
  PROVE  {q \in Sent("AUDIO") : q < p} =
           AudioOf(i - 1) \cup
             (IF frames[i].kind = "AUDIO" THEN frames[i].first..(p - 1) ELSE {})
<1> PICK L \in Nat : L = Len(frames)
  BY FrameTypes DEF RelayInv
<1> PICK H \in 0..L : H = Len(handled)
  BY DEF Divided, SentAreFrames
<1>1. /\ i \in 1..L /\ i - 1 \in 0..L /\ TakenTo(i - 1) \in Nat /\ TakenTo(i) \in Nat
      /\ frames[i].first \in Nat
  BY FrameTypes DEF RelayInv, Divided, FramesAscend
<1>2. Sent("AUDIO") = AudioOf(H)
  BY DEF Divided, SentAreFrames
<1>3. \A q \in AudioOf(i - 1) : q \in AudioOf(H) /\ q < p
  <2>1. AudioOf(i - 1) \subseteq 1..TakenTo(i - 1)
    BY <1>1 DEF Divided, AudioCounted
  <2>2. \A a \in 1..(i - 1) : a \in 1..H
    OBVIOUS
  <2>3. AudioOf(i - 1) \subseteq AudioOf(H)
    BY ONLY <2>2 DEF AudioOf
  <2>4. \A q \in 1..TakenTo(i - 1) : q < p
    BY ONLY <1>1, p \in Nat, TakenTo(i - 1) < p
  <2> QED
    BY ONLY <2>1, <2>3, <2>4
<1>4. ASSUME frames[i].kind = "AUDIO", NEW q \in frames[i].first..(p - 1)
      PROVE  q \in AudioOf(H) /\ q < p
  BY <1>1, <1>4 DEF AudioOf, Bytes
<1>5. ASSUME NEW q \in AudioOf(H), q < p, q \notin AudioOf(i - 1)
      PROVE  frames[i].kind = "AUDIO" /\ q \in frames[i].first..(p - 1)
  <2>1. PICK a \in 1..H : frames[a].kind = "AUDIO" /\ q \in Bytes(a)
    BY <1>5 DEF AudioOf
  <2>2. a \in 1..L /\ q \in Nat
    BY <1>5 DEF AudioOf
  <2>3. ~(a < i)
    BY <1>5, <2>1, <2>2 DEF AudioOf
  <2>4. ~(i < a)
    <3> SUFFICES ASSUME i < a PROVE FALSE
      OBVIOUS
    <3>1. TakenTo(i) < frames[a].first /\ frames[a].first \in Nat
      <4>1. FramesAscend /\ i \in 0..Len(frames) /\ a \in 1..Len(frames) /\ i < a
        <5>1. i \in 0..Len(frames) /\ a \in 1..Len(frames)
          BY ONLY <1>1, <2>2, L = Len(frames), L \in Nat
        <5> QED
          BY <5>1 DEF Divided
      <4> QED
        BY ONLY <4>1 DEF FramesAscend
    <3>2. q \in frames[a].first..TakenTo(a) /\ TakenTo(a) \in Nat
      BY <2>1, <2>2 DEF Bytes, Divided, FramesAscend
    <3>3. frames[a].first <= q
      BY ONLY <3>1, <3>2
    <3> QED
      BY <1>1, <1>5, <2>2, <3>1, <3>3
  <2>5. a = i
    BY <2>3, <2>4
  <2> QED
    BY <1>1, <1>5, <2>1, <2>2, <2>5 DEF Bytes
<1> QED
  BY <1>2, <1>3, <1>4, <1>5

LEMMA DatagramsInOrder == ConstantsAssumption /\ RelayInv /\ Divided => InOrder
<1> SUFFICES ASSUME ConstantsAssumption, RelayInv, Divided,
                    NEW i \in 1..Len(handled), NEW j \in 1..Len(handled),
                    NEW k \in 1..handled[i].len, NEW l \in 1..handled[j].len,
                    i < j \/ (i = j /\ k < l)
             PROVE  handled[i].payload[k] < handled[j].payload[l]
  BY DEF InOrder
<1>1. Len(frames) \in Nat /\ i \in 1..Len(frames) /\ j \in 1..Len(frames)
  BY FrameTypes DEF RelayInv, Divided, SentAreFrames
<1> PICK a, b, m, n \in Nat : /\ a = frames[i].first /\ b = frames[j].first
                             /\ m = frames[i].len /\ n = frames[j].len
  BY <1>1, FrameTypes DEF RelayInv
<1>2. k \in 1..m /\ l \in 1..n
  BY DEF Divided, SentAreFrames
<1>3. handled[i].payload[k] = a + k - 1 /\ handled[j].payload[l] = b + l - 1
  BY <1>2 DEF Divided, SentAreFrames
<1>4. a + k - 1 \in Bytes(i) /\ b + l - 1 \in Bytes(j)
  <2>1. Bytes(i) = a..(a + m - 1) /\ Bytes(j) = b..(b + n - 1)
    BY <1>1 DEF Bytes, TakenTo
  <2>2. a + k - 1 \in a..(a + m - 1) /\ b + l - 1 \in b..(b + n - 1)
    BY ONLY <1>2, a \in Nat, b \in Nat, m \in Nat, n \in Nat
  <2> QED
    BY <2>1, <2>2
<1>5. CASE i < j
  BY <1>1, <1>3, <1>4, <1>5, BytesAscend DEF Divided
<1>6. CASE i = j /\ k < l
  BY <1>2, <1>3, <1>6
<1> QED
  BY <1>5, <1>6

\* Every byte up to the last one sent lies in or in front of one of the frames sent.
LEMMA FrameOfByte ==
  ASSUME ConstantsAssumption, RelayInv, Divided,
         NEW last \in Sent("AUDIO") \cup Sent("METADATA"), NEW p \in 1..last
  PROVE  \E i \in 1..Len(handled) : TakenTo(i - 1) < p /\ p <= TakenTo(i)
<1> PICK L \in Nat : L = Len(frames)
  BY FrameTypes DEF RelayInv
<1> PICK H \in 0..L : H = Len(handled)
  BY DEF Divided, SentAreFrames
<1>1. PICK j \in 1..H : last \in Bytes(j)
  BY DEF Divided, SentAreFrames, AudioOf
<1>2. \A n \in 0..H : TakenTo(n) \in Nat
  BY DEF Divided, FramesAscend
<1>3. p <= TakenTo(j) /\ p \in Nat \ {0}
  <2>1. last \in frames[j].first..TakenTo(j) /\ frames[j].first \in Nat /\ TakenTo(j) \in Nat
    BY <1>1, <1>2 DEF Bytes, Divided, FramesAscend
  <2> QED
    BY <2>1
<1> DEFINE S == {n \in 0..H : p <= TakenTo(n)}
<1>4. S \in SUBSET Nat /\ S # {}
  BY <1>3
<1>5. PICK i \in S : \A n \in S : i <= n
  <2> HIDE DEF S
  <2> QED
    BY <1>4, LeastNatural
<1>6. i # 0
  BY <1>3, <1>5 DEF TakenTo
<1>7. i \in 1..H /\ i - 1 \in 0..H /\ i - 1 < i /\ p <= TakenTo(i)
  BY <1>5, <1>6
<1>8. i - 1 \notin S
  BY <1>5, <1>7
<1>9. TakenTo(i - 1) < p
  BY <1>2, <1>3, <1>7, <1>8
<1> QED
  BY <1>7, <1>9

LEMMA GapsAreLengths == ConstantsAssumption /\ RelayInv /\ Divided => OnlyLengthsMissing
<1> SUFFICES ASSUME ConstantsAssumption, RelayInv, Divided,
                    NEW last \in Sent("AUDIO") \cup Sent("METADATA"), NEW p \in 1..last,
                    p \notin Sent("AUDIO") \cup Sent("METADATA")
             PROVE  p - 1 \in Sent("AUDIO") /\ MetadataDue(p)
  BY DEF OnlyLengthsMissing
<1> PICK L \in Nat : L = Len(frames)
  BY FrameTypes DEF RelayInv
<1> PICK H \in 0..L : H = Len(handled)
  BY DEF Divided, SentAreFrames
<1>1. PICK i \in 1..H : TakenTo(i - 1) < p /\ p <= TakenTo(i)
  BY FrameOfByte
<1>2. i \in 1..L /\ i - 1 \in 0..L /\ p \in Nat \ {0}
  <2>1. last \in Nat
    BY DEF Divided, SentAreFrames, AudioOf, Bytes, FramesAscend
  <2> QED
    BY <2>1
<1>3. frames[i].kind \in Kinds
  BY <1>2, FrameTypes DEF RelayInv
<1>4. p \notin Bytes(i)
  BY <1>2, <1>3 DEF Divided, SentAreFrames, AudioOf, Kinds
<1>5. p < frames[i].first /\ frames[i].first \in Nat /\ TakenTo(i) \in Nat /\ TakenTo(i - 1) \in Nat
  BY <1>1, <1>2, <1>4 DEF Bytes, Divided, FramesAscend
<1>6. p = TakenTo(i - 1) + 1 /\ frames[i].kind = "METADATA"
  <2>1. frames[i].first > TakenTo(i - 1) + 1
    BY <1>1, <1>2, <1>5
  <2>2. frames[i].kind = "METADATA" /\ frames[i].first = TakenTo(i - 1) + 2
    BY <1>2, <2>1, FrameAdvances
  <2> QED
    BY <1>1, <1>2, <1>5, <2>2
<1>7. Due(i - 1).kind = "METADATA"
  BY <1>2, <1>6 DEF RelayInv, InSync, FrameKinds
<1>8. i - 1 \in 1..L /\ frames[i - 1].kind = "AUDIO" /\ metaint > 0
  BY <1>2, <1>7 DEF Due, After
<1>9. p - 1 \in Sent("AUDIO")
  <2>1. p - 1 = TakenTo(i - 1) /\ i - 1 \in 1..H
    BY <1>2, <1>5, <1>6, <1>8
  <2>2. TakenTo(i - 1) \in Bytes(i - 1)
    <3>1. /\ TakenTo(i - 1) = frames[i - 1].first + frames[i - 1].len - 1
          /\ frames[i - 1].first \in Nat /\ frames[i - 1].len \in Nat /\ frames[i - 1].len > 0
      BY <1>8, FrameAdvances
    <3>2. frames[i - 1].first <= TakenTo(i - 1)
      BY <3>1
    <3> QED
      BY <1>5, <3>1, <3>2 DEF Bytes
  <2> QED
    BY <1>2, <1>5, <1>8, <2>1, <2>2 DEF Divided, SentAreFrames, AudioOf
<1>10. {q \in Sent("AUDIO") : q < p} = AudioOf(i - 1)
  <2>1. {q \in Sent("AUDIO") : q < p} = AudioOf(i - 1) \cup {}
    BY <1>1, <1>2, <1>6, AudioInFront
  <2> QED
    BY <2>1
<1>11. AudioCounted(i - 1) /\ metaint \in Nat
  BY <1>2 DEF Divided, RelayInv, TypeOK, ConstantsAssumption
<1>12. PICK c \in Nat : /\ Cardinality(AudioOf(i - 1)) = c * metaint + Due(i - 1).sum
                        /\ c > 0 /\ Due(i - 1).sum = 0
  BY <1>7, <1>8, <1>11 DEF AudioCounted
<1>13. c <= p
  <2>1. Cardinality(AudioOf(i - 1)) <= TakenTo(i - 1)
    <3>1. IsFiniteSet(1..TakenTo(i - 1)) /\ Cardinality(1..TakenTo(i - 1)) = TakenTo(i - 1)
      <4> PICK t \in Nat : t = TakenTo(i - 1)
        BY <1>5
      <4>1. 1 \in Int /\ t \in Int
        OBVIOUS
      <4>2. IsFiniteSet(1..t) /\ Cardinality(1..t) = IF 1 > t THEN 0 ELSE t - 1 + 1
        BY ONLY <4>1, FS_Interval
      <4> QED
        BY <4>2
    <3>2. AudioOf(i - 1) \in SUBSET (1..TakenTo(i - 1))
      BY <1>11 DEF AudioCounted
    <3>3. Cardinality(AudioOf(i - 1)) <= Cardinality(1..TakenTo(i - 1))
      BY <3>1, <3>2, FS_Subset
    <3> QED
      BY <3>1, <3>3
  <2> PICK m \in Nat : m = metaint /\ m > 0
    BY <1>8, <1>11
  <2> PICK cm \in Nat : cm = c * m
    OBVIOUS
  <2>2. c <= cm
    BY SMTT(30)
  <2>3. cm <= TakenTo(i - 1)
    BY <1>12, <2>1
  <2> QED
    BY ONLY <1>2, <1>5, <1>6, <2>2, <2>3, c \in Nat, cm \in Nat
<1>14. MetadataDue(p)
  <2>1. c \in 1..p /\ Cardinality({q \in Sent("AUDIO") : q < p}) = c * metaint
    <3>1. c \in 1..p
      BY <1>2, <1>12, <1>13
    <3>2. c * metaint \in Nat
      BY <1>11
    <3>3. c * metaint + 0 = c * metaint
      BY <3>2
    <3> QED
      BY <1>10, <1>12, <3>1, <3>3
  <2> QED
    BY <1>8, <2>1 DEF MetadataDue
<1> QED
  BY <1>9, <1>14

\* A whole number of portions is not reached in the middle of a portion.
LEMMA BetweenMultiples ==
  ASSUME NEW c \in Nat, NEW d \in Nat, NEW m \in Nat, NEW x \in 1..(m - 1)
  PROVE  c * m + x # d * m
<1>1. CASE d <= c
  <2>1. d * m <= c * m /\ c * m \in Nat /\ d * m \in Nat
    <3> PICK e \in Nat : c = d + e
      <4>1. c - d \in Nat /\ c = d + (c - d)
        BY <1>1
      <4> QED
        BY <4>1
    <3>1. c * m = d * m + e * m
      OBVIOUS
    <3>2. d * m \in Nat /\ e * m \in Nat
      OBVIOUS
    <3> QED
      BY <3>1, <3>2
  <2> QED
    BY <2>1
<1>2. CASE c < d
  <2> PICK e \in Nat : d = c + 1 + e
    <3>1. d - c - 1 \in Nat /\ d = c + 1 + (d - c - 1)
      BY <1>2
    <3> QED
      BY <3>1
  <2>1. d * m = c * m + m + e * m
    OBVIOUS
  <2>2. c * m \in Nat /\ e * m \in Nat
    OBVIOUS
  <2> QED
    BY <2>1, <2>2
<1> QED
  BY <1>1, <1>2

LEMMA AudioStops == ConstantsAssumption /\ RelayInv /\ Divided => NoMetadataInAudio
<1> SUFFICES ASSUME ConstantsAssumption, RelayInv, Divided,
                    NEW p \in Sent("AUDIO"), p - 1 \in Sent("AUDIO"), MetadataDue(p)
             PROVE  FALSE
  BY DEF NoMetadataInAudio
<1> PICK L \in Nat : L = Len(frames)
  BY FrameTypes DEF RelayInv
<1> PICK H \in 0..L : H = Len(handled)
  BY DEF Divided, SentAreFrames
<1>1. PICK i \in 1..H : frames[i].kind = "AUDIO" /\ p \in Bytes(i)
  BY DEF Divided, SentAreFrames, AudioOf
<1>2. PICK a \in 1..H : frames[a].kind = "AUDIO" /\ p - 1 \in Bytes(a)
  BY DEF Divided, SentAreFrames, AudioOf
<1>3. p \in Nat /\ i \in 1..L /\ a \in 1..L /\ i - 1 \in 0..L
  BY DEF Divided, SentAreFrames, AudioOf
<1> PICK t, f, l \in Nat : t = TakenTo(i - 1) /\ f = frames[i].first /\ l = frames[i].len
  BY <1>3, FrameTypes DEF RelayInv, Divided, FramesAscend
<1>4. f = t + 1 /\ TakenTo(i) = f + l - 1 /\ TakenTo(i) \in Nat
  BY <1>1, <1>3, FrameAdvances DEF Divided, FramesAscend
<1>5. f <= p /\ p <= TakenTo(i)
  BY <1>1, <1>4 DEF Bytes
<1>6. PICK d \in 1..p : Cardinality({q \in Sent("AUDIO") : q < p}) = d * metaint
  BY DEF MetadataDue
<1>7. metaint \in Nat /\ metaint > 0
  BY DEF MetadataDue, RelayInv, TypeOK, ConstantsAssumption
<1>8. AudioCounted(i - 1)
  BY <1>3 DEF Divided
<1> PICK c \in Nat : Cardinality(AudioOf(i - 1)) = c * metaint + Due(i - 1).sum
  BY <1>7, <1>8 DEF AudioCounted
<1>9. frames[i].sum = Due(i - 1).sum /\ Due(i - 1).kind = "AUDIO" /\ frames[i].sum \in Nat
  BY <1>1, <1>3, FrameTypes DEF RelayInv, InSync, FrameKinds
<1> PICK s, m, cm \in Nat : s = frames[i].sum /\ m = metaint /\ cm = c * m
  <2>1. c * metaint \in Nat
    BY <1>7
  <2> QED
    BY <1>7, <1>9, <2>1
<1>10. s + l <= m
  BY <1>1, <1>3, <1>7 DEF RelayInv, FramesFollow, Follows
<1>11. Cardinality({q \in Sent("AUDIO") : q < p}) = cm + s + (p - f)
  <2>1. {q \in Sent("AUDIO") : q < p} = AudioOf(i - 1) \cup (f..(p - 1))
    <3>1. TakenTo(i - 1) < p /\ p <= TakenTo(i) /\ p \in Nat /\ i \in 1..Len(handled)
      BY <1>3, <1>4, <1>5
    <3>2. {q \in Sent("AUDIO") : q < p} =
            AudioOf(i - 1) \cup
              (IF frames[i].kind = "AUDIO" THEN frames[i].first..(p - 1) ELSE {})
      BY ONLY <3>1, ConstantsAssumption, RelayInv, Divided, AudioInFront
    <3> QED
      BY <1>1, <3>2
  <2>2. IsFiniteSet(f..(p - 1)) /\ Cardinality(f..(p - 1)) = p - f
    <3>1. f \in Int /\ p - 1 \in Int
      BY ONLY <1>3, f \in Nat
    <3>2. /\ IsFiniteSet(f..(p - 1))
          /\ Cardinality(f..(p - 1)) = IF f > p - 1 THEN 0 ELSE (p - 1) - f + 1
      BY ONLY <3>1, FS_Interval
    <3> QED
      BY <1>3, <1>5, <3>2
  <2>3. AudioOf(i - 1) \cap (f..(p - 1)) = {} /\ IsFiniteSet(AudioOf(i - 1))
    <3>1. AudioOf(i - 1) \subseteq 1..t /\ IsFiniteSet(AudioOf(i - 1))
      BY <1>8 DEF AudioCounted
    <3>2. \A q \in 1..t : q \notin f..(p - 1)
      BY ONLY <1>3, <1>4, t \in Nat, f \in Nat
    <3> QED
      BY ONLY <3>1, <3>2
  <2>4. Cardinality(AudioOf(i - 1) \cup (f..(p - 1)))
          = Cardinality(AudioOf(i - 1)) + Cardinality(f..(p - 1)) - Cardinality({})
    BY ONLY <2>2, <2>3, FS_Union
  <2>5. Cardinality({}) = 0 /\ Cardinality(AudioOf(i - 1)) = cm + s
    BY <1>9, FS_EmptySet
  <2>6. Cardinality({q \in Sent("AUDIO") : q < p}) = (cm + s) + (p - f) - 0
    BY ONLY <2>1, <2>2, <2>4, <2>5
  <2> QED
    BY ONLY <1>3, <2>6, cm \in Nat, s \in Nat, f \in Nat
<1>12. s + (p - f) = 0
  <2> SUFFICES ASSUME s + (p - f) # 0 PROVE FALSE
    OBVIOUS
  <2> PICK x \in Int : x = s + (p - f)
    BY ONLY <1>3, s \in Nat, f \in Nat
  <2>1. x \in 1..(m - 1)
    BY ONLY <1>3, <1>4, <1>5, <1>10, x \in Int, x = s + (p - f), s + (p - f) # 0,
            s \in Nat, l \in Nat, m \in Nat, f \in Nat, t \in Nat
  <2>2. d \in Nat
    BY <1>3
  <2>3. c * m + x = d * m
    <3>1. cm + s + (p - f) = cm + x
      BY ONLY <1>3, x \in Int, x = s + (p - f), s \in Nat, cm \in Nat, f \in Nat
    <3> QED
      BY <1>6, <1>11, <3>1
  <2> QED
    BY ONLY <2>1, <2>2, <2>3, BetweenMultiples, c \in Nat, m \in Nat
<1>13. s = 0 /\ p - 1 = t
  BY ONLY <1>3, <1>4, <1>5, <1>12, s \in Nat, f \in Nat, t \in Nat
<1>14. a = i - 1
  <2>1. p - 1 <= TakenTo(a) /\ frames[a].first <= p - 1 /\ TakenTo(a) \in Nat
    <3>1. frames[a].first \in Nat /\ TakenTo(a) \in Nat
      BY <1>3 DEF Divided, FramesAscend
    <3> QED
      BY <1>2, <1>3, <3>1 DEF Bytes
  <2>2. ~(a < i - 1)
    <3> SUFFICES ASSUME a < i - 1 PROVE FALSE
      OBVIOUS
    <3>1. FramesAscend /\ a \in 0..Len(frames) /\ i - 1 \in 0..Len(frames)
      BY <1>3 DEF Divided
    <3>2. TakenTo(a) < t
      BY <3>1 DEF FramesAscend
    <3> QED
      BY <1>13, <2>1, <3>2
  <2>3. ~(i - 1 < a)
    <3> SUFFICES ASSUME i - 1 < a PROVE FALSE
      OBVIOUS
    <3>1. FramesAscend /\ a \in 1..Len(frames) /\ i - 1 \in 0..Len(frames)
      BY <1>3 DEF Divided
    <3>2. t < frames[a].first /\ frames[a].first \in Nat
      BY <3>1 DEF FramesAscend
    <3> QED
      BY <1>13, <2>1, <3>2
  <2> QED
    BY <2>2, <2>3
<1>15. Due(i - 1).sum > 0
  <2>1. Due(i - 1) = After(frames[a]) /\ i - 1 # 0
    BY <1>14 DEF Due
  <2>2. frames[a].len > 0 /\ frames[a].len \in Nat /\ frames[a].sum \in Nat
    BY <1>2, <1>3, FrameAdvances, FrameTypes DEF RelayInv
  <2>3. frames[a].sum + frames[a].len # metaint
    <3>1. frames[a].kind = "AUDIO" /\ metaint > 0 /\ After(frames[a]).kind = "AUDIO"
      BY ONLY <1>2, <1>7, <1>9, <2>1
    <3> QED
      BY ONLY <3>1 DEF After
  <2>4. After(frames[a]).sum = frames[a].sum + frames[a].len
    <3>1. frames[a].kind = "AUDIO" /\ metaint > 0
      BY ONLY <1>2, <1>7
    <3> QED
      BY ONLY <2>3, <3>1 DEF After
  <2>5. Due(i - 1).sum = frames[a].sum + frames[a].len
    BY ONLY <2>1, <2>4
  <2> QED
    BY ONLY <2>2, <2>5
<1> QED
  BY <1>9, <1>13, <1>15

LEMMA LengthsStay == ConstantsAssumption /\ RelayInv /\ Divided => LengthsNotSent
<1> SUFFICES ASSUME ConstantsAssumption, RelayInv, Divided,
                    NEW p \in Sent("METADATA"), p - 1 \in Sent("AUDIO")
             PROVE  \E i \in 1..Len(handled) :
                      handled[i].kind = "METADATA" /\ handled[i].len \in GarbageLens
  BY DEF LengthsNotSent
<1> PICK L \in Nat : L = Len(frames)
  BY FrameTypes DEF RelayInv
<1> PICK H \in 0..L : H = Len(handled)
  BY DEF Divided, SentAreFrames
<1>1. PICK i \in 1..H : frames[i].kind = "METADATA" /\ p \in Bytes(i)
  BY DEF Divided, SentAreFrames
<1>2. PICK a \in 1..H : frames[a].kind = "AUDIO" /\ p - 1 \in Bytes(a)
  BY DEF Divided, SentAreFrames, AudioOf
<1>3. i \in 1..L /\ a \in 1..L /\ i - 1 \in 0..L /\ i # a
  BY <1>1, <1>2
<1>4. /\ frames[i].first \in Nat /\ TakenTo(i) \in Nat /\ TakenTo(i - 1) \in Nat
      /\ frames[a].first \in Nat /\ TakenTo(a) \in Nat
  BY <1>3 DEF Divided, FramesAscend
<1>5. p \in Int /\ frames[i].first <= p /\ p <= TakenTo(i) /\ p - 1 <= TakenTo(a)
  BY <1>1, <1>2, <1>4 DEF Bytes
<1>6. a < i
  <2> SUFFICES ASSUME i < a PROVE FALSE
    BY <1>3
  <2>1. p < p - 1
    BY <1>1, <1>2, <1>3, BytesAscend DEF Divided
  <2> QED
    BY <1>5, <2>1
<1>7. TakenTo(a) <= TakenTo(i - 1)
  <2>1. a = i - 1 \/ a < i - 1
    BY <1>6
  <2>2. CASE a < i - 1
    <3>1. FramesAscend /\ a \in 0..Len(frames) /\ i - 1 \in 0..Len(frames)
      BY <1>3 DEF Divided
    <3>2. TakenTo(a) < TakenTo(i - 1)
      BY <2>2, <3>1 DEF FramesAscend
    <3> QED
      BY <1>4, <3>2
  <2> QED
    BY <1>4, <2>1, <2>2
<1>8. frames[i].first # TakenTo(i - 1) + 2
  BY <1>4, <1>5, <1>7
<1>9. Follows(frames[i], TakenTo(i - 1))
  BY <1>3 DEF RelayInv, FramesFollow
<1>10. frames[i].len \in GarbageLens
  BY <1>1, <1>8, <1>9 DEF Follows
<1>11. handled[i].kind = "METADATA" /\ handled[i].len \in GarbageLens
  BY <1>1, <1>10 DEF Divided, SentAreFrames
<1> QED
  BY <1>11

(***************************************************************************)
(* Whatever the sizes, the length bytes and the schedule, a listener that  *)
(* gets all the datagrams has the body of the response as the radio put it *)
(* together: in order, metadata exactly where metaint bytes of audio have  *)
(* gone by, and nothing missing but the length bytes.                      *)
(***************************************************************************)
THEOREM BodyArrivesDivided == Spec => []BodyIsDivided
<1>1. ConstantsAssumption
  BY ConstantsAssumption
<1>2. RelayInv => BodyIsDivided
  BY <1>1, FramesDivide, DatagramsInOrder, GapsAreLengths, AudioStops, LengthsStay
     DEF BodyIsDivided
<1> QED
  BY <1>1, <1>2, RelayInvInductive, PTL DEF Spec
===============================================================================

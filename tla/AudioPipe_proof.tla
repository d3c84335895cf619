--------------------------- MODULE AudioPipe_proof ---------------------------
(***************************************************************************)
(* Proofs about AudioPipe, for all values of the constants: the types of   *)
(* the variables, and the invariant that keeps the two processes in step.  *)
(***************************************************************************)
EXTENDS AudioPipe, SequenceTheorems, TLAPS

(***************************************************************************)
(* The arithmetic of the frame lengths.                                    *)
(***************************************************************************)

\* Every length the server process puts in a frame fits uint16_t.
LEMMA LengthTypes ==
  ASSUME ConstantsAssumption, metaint \in Metaints
  PROVE  /\ \A n \in Nat : ChunkLen(n) \in UInt16 /\ ChunkLen(n) <= n
         /\ \A n \in Nat \ {0} : ChunkLen(n) > 0
         /\ AudioQuota \in Nat \ {0}
         /\ \A b \in LenBytes : MetadataSize(b) \in UInt16
         /\ \A c \in Int : FailedSize(c) \in UInt16
<1>1. \A b \in LenBytes : MetadataSize(b) \in UInt16
  BY DEF ConstantsAssumption, MetadataSize, UInt8, UInt16
<1>2. \A c \in Int : FailedSize(c) \in UInt16
  BY DEF FailedSize, U16, UInt16, UNKNOWN_ERROR
<1> QED
  BY <1>1, <1>2 DEF ConstantsAssumption, UInt16, ChunkLen, Least, AudioQuota

\* Ending a frame, whatever comes next, keeps the types of the loop's variables.
LEMMA FinishFrameTypes ==
  ASSUME ConstantsAssumption, TypeOK, FinishFrame
  PROVE  /\ state' \in {"AUDIO_STATE", "META_STATE"}
         /\ pc' \in {"header", "size"}
         /\ to_read' \in 0..AudioQuota /\ smallread' \in UInt16
<1>1. AudioQuota \in Nat /\ to_read \in 0..AudioQuota /\ smallread \in Nat
  BY LengthTypes DEF TypeOK, ServerTypeOK, UInt16
<1>2. CASE BeginAudio(to_read - smallread) /\ to_read > smallread
  <2>1. to_read - smallread \in 0..AudioQuota
    BY <1>1, <1>2
  <2> QED BY <1>1, <1>2, <2>1, LengthTypes DEF TypeOK, BeginAudio
<1>3. CASE BeginAudio(AudioQuota)
  BY <1>1, <1>3, LengthTypes DEF TypeOK, BeginAudio
<1>4. CASE BeginMetadata
  BY <1>1, <1>4 DEF BeginMetadata, UInt16
<1> QED BY <1>2, <1>3, <1>4 DEF FinishFrame

\* Ending a message keeps the types of the client process.
LEMMA FinishMessageTypes ==
  ASSUME ConstantsAssumption, TypeOK, NEW payload \in [1..PayloadSize -> Nat],
         FinishMessage(payload), targeted_len <= PayloadSize
  PROVE  /\ handled' \in Seq([kind : Kinds, len : Nat, payload : Seq(Nat)])
         /\ fill_ptr' \in 0..PayloadSize /\ payload_len_set' \in BOOLEAN
         /\ audio_sum' \in Nat /\ type' \in Kinds
<1> USE DEF TypeOK, ClientTypeOK
<1>1. [i \in 1..targeted_len |-> payload[i]] \in Seq(Nat)
  BY DEF UInt16, ConstantsAssumption
<1>2. handled' \in Seq([kind : Kinds, len : Nat, payload : Seq(Nat)])
  BY <1>1 DEF FinishMessage
<1>3. audio_sum' \in Nat /\ type' \in Kinds
  BY DEF FinishMessage, CountFrame, Kinds, ConstantsAssumption
<1>4. fill_ptr' \in 0..PayloadSize
  BY DEF FinishMessage, ConstantsAssumption, UInt16
<1> QED BY <1>2, <1>3, <1>4 DEF FinishMessage

(***************************************************************************)
(* Types.                                                                  *)
(***************************************************************************)
\* The processes start with variables of the right types.
LEMMA TypeInit == ConstantsAssumption /\ Init => TypeOK
<1> SUFFICES ASSUME ConstantsAssumption, Init PROVE TypeOK
  OBVIOUS
<1>1. metaint \in Metaints /\ interrupted = {}
  BY DEF Init
<1>2. to_read \in 0..AudioQuota /\ smallread \in UInt16
  BY LengthTypes DEF Init
<1>3. received \in Nat /\ read_cnt \in 0..BufSize /\ read_cnt <= received
  BY DEF Init, ConstantsAssumption, Least
<1>4. ServerTypeOK
  BY <1>2, <1>3 DEF Init, ServerTypeOK, UInt16
<1>5. ClientTypeOK
  <2>1. <<>> \in Seq([kind : Kinds, len : Nat, payload : Seq(Nat)])
    OBVIOUS
  <2>2. 0 \in 0..PayloadSize
    BY DEF ConstantsAssumption, UInt16
  <2> QED BY <2>1, <2>2 DEF Init, ClientTypeOK, Kinds
<1> QED BY <1>1, <1>4, <1>5 DEF TypeOK

\* A step that leaves one process alone keeps that process's types.
LEMMA UnchangedTypes ==
  ASSUME TypeOK
  PROVE  /\ UNCHANGED <<metaint, serverVars>> => ServerTypeOK'
         /\ UNCHANGED clientVars => ClientTypeOK'
<1>1. UNCHANGED <<metaint, serverVars>> => ServerTypeOK'
  BY DEF TypeOK, ServerTypeOK, serverVars, AudioQuota
<1>2. UNCHANGED clientVars => ClientTypeOK'
  BY DEF TypeOK, ClientTypeOK, clientVars
<1> QED BY <1>1, <1>2

\* The steps of the server process keep its types.
LEMMA ServerTypes ==
  ASSUME ConstantsAssumption, TypeOK, Server
  PROVE  ServerTypeOK' /\ UNCHANGED <<metaint, interrupted, clientVars>>
<1> USE DEF TypeOK
<1>0. AudioQuota' = AudioQuota /\ UNCHANGED <<metaint, interrupted, clientVars>>
  BY DEF Server, Fill, FillData, FillFailsInFrame, FillFailsAtSize, TakeSize,
         WriteHeader, Copy, WriteInterrupted, AudioQuota
<1>1. ASSUME NEW n \in 1..BufSize, FillData(n) PROVE ServerTypeOK'
  BY <1>0, <1>1 DEF FillData, ServerTypeOK, NeedsData, ConstantsAssumption
<1>2. CASE FillFailsInFrame
  BY <1>0, <1>2 DEF FillFailsInFrame, EndServer, FillCodes, ServerTypeOK
<1>3. CASE FillFailsAtSize
  <2>1. last_fill' \in {EOT, ERRNO_ERROR, RECEIVED_SIGNAL, TIMEOUT}
    BY <1>3 DEF FillFailsAtSize, FillCodes
  <2>2. last_fill' \in Int
    BY <2>1 DEF EOT, ERRNO_ERROR, RECEIVED_SIGNAL, TIMEOUT
  <2>3. smallread' \in UInt16
    BY <1>3, <2>2, LengthTypes DEF FillFailsAtSize
  <2> QED BY <1>0, <1>3, <2>1, <2>3 DEF FillFailsAtSize, ServerTypeOK
<1>4. ASSUME NEW b \in LenBytes, TakeSize(b) PROVE ServerTypeOK'
  <2>1. smallread' \in UInt16
    BY <1>4, LengthTypes DEF TakeSize
  <2>2. read_cnt' \in 0..BufSize /\ read_cnt' <= received
    BY <1>4 DEF TakeSize, ServerTypeOK, ConstantsAssumption
  <2> QED BY <1>0, <1>4, <2>1, <2>2 DEF TakeSize, ServerTypeOK
<1>5. CASE WriteHeader
  <2>1. written' \in Seq(Cell)
    BY <1>5 DEF WriteHeader, LenCell, Cell, ServerTypeOK, UInt16
  <2>2. /\ NextByte \in Nat /\ Len(written) + 1 \in Nat
        /\ smallread \in UInt16
    BY DEF NextByte, ServerTypeOK
  <2>3. SumNow \in Nat
    BY DEF SumNow, ServerTypeOK, AudioQuota, ConstantsAssumption
  <2>4. NewFrame \in Frame
    BY <2>2, <2>3 DEF NewFrame, KindNow, Frame, Kinds
  <2>5. frames' \in Seq(Frame)
    BY <1>5, <2>4 DEF WriteHeader, ServerTypeOK
  <2>6. /\ state' \in {"AUDIO_STATE", "META_STATE", "END_STATE"}
        /\ pc' \in {"header", "copy", "size", "done"}
        /\ to_read' \in 0..AudioQuota /\ smallread' \in UInt16
    BY <1>5, FinishFrameTypes DEF WriteHeader, ServerTypeOK
  <2> QED BY <1>0, <1>5, <2>1, <2>5, <2>6 DEF WriteHeader, ServerTypeOK
<1>6. CASE Copy
  <2>1. CopyLen \in Nat /\ CopyLen <= left /\ CopyLen <= read_cnt
    BY DEF CopyLen, Least, ServerTypeOK, UInt16
  <2>2. [k \in 1..CopyLen |-> ByteCell(NextByte + k - 1)] \in Seq(Cell)
    BY <2>1 DEF ByteCell, Cell, NextByte, ServerTypeOK
  <2>3. written' \in Seq(Cell)
    <3>1. written' = written \o [k \in 1..CopyLen |-> ByteCell(NextByte + k - 1)]
      BY <1>6 DEF Copy
    <3>2. written \in Seq(Cell)
      BY DEF ServerTypeOK
    <3> QED BY <2>2, <3>1, <3>2, ConcatProperties
  <2>4. read_cnt' \in 0..BufSize /\ read_cnt' <= received /\ left' \in UInt16
    <3>1. read_cnt' = read_cnt - CopyLen /\ left' = left - CopyLen
      BY <1>6 DEF Copy
    <3>2. read_cnt \in 0..BufSize /\ read_cnt <= received /\ received \in Nat
      BY DEF ServerTypeOK
    <3>3. left \in UInt16
      BY DEF ServerTypeOK
    <3> QED BY <2>1, <3>1, <3>2, <3>3 DEF UInt16, ConstantsAssumption
  <2>5. /\ state' \in {"AUDIO_STATE", "META_STATE", "END_STATE"}
        /\ pc' \in {"header", "copy", "size", "done"}
        /\ to_read' \in 0..AudioQuota /\ smallread' \in UInt16
    BY <1>6, FinishFrameTypes DEF Copy, ServerTypeOK
  <2> QED BY <1>0, <1>6, <2>3, <2>4, <2>5 DEF Copy, ServerTypeOK
<1>7. CASE WriteInterrupted
  BY <1>0, <1>7 DEF WriteInterrupted, EndServer, ServerTypeOK
<1> QED BY <1>0, <1>1, <1>2, <1>3, <1>4, <1>5, <1>6, <1>7 DEF Server, Fill

\* The steps of the client process keep its types.
LEMMA ClientTypes ==
  ASSUME ConstantsAssumption, TypeOK, Client \/ ClientFails
  PROVE  ClientTypeOK' /\ UNCHANGED <<metaint, interrupted, serverVars>>
<1> USE DEF TypeOK
<1>0. UNCHANGED <<metaint, interrupted, serverVars>>
  BY DEF Client, ClientFails, ReadTargetedLen, PartialRead, EmptyFrame, StopClient,
         LeaveLoop
<1>1. CASE ReadTargetedLen
  <2>1. written[consumed + 1] \in Cell
    BY <1>1 DEF ReadTargetedLen, Readable, ServerTypeOK, ClientTypeOK
  <2> QED BY <1>1, <2>1 DEF ReadTargetedLen, ClientTypeOK, Cell
<1>2. CASE PartialRead
  <2>1. ReadLen \in Nat /\ consumed + ReadLen <= Len(written)
    BY <1>2 DEF PartialRead, Readable, ReadLen, Least, ServerTypeOK, ClientTypeOK
  <2>2. data' \in [1..PayloadSize -> Nat]
    <3>1. \A i \in 1..PayloadSize : i > fill_ptr /\ i <= fill_ptr + ReadLen =>
             written[consumed + i - fill_ptr].value \in Nat
      <4> SUFFICES ASSUME NEW i \in 1..PayloadSize, i > fill_ptr, i <= fill_ptr + ReadLen
                   PROVE  written[consumed + i - fill_ptr] \in Cell
        BY DEF Cell
      <4>1. consumed + i - fill_ptr \in 1..Len(written)
        BY <2>1 DEF ServerTypeOK, ClientTypeOK, ConstantsAssumption, UInt16
      <4> QED BY <4>1 DEF ServerTypeOK
    <3> QED BY <1>2, <3>1 DEF PartialRead, DataAfter, ClientTypeOK
  <2>3. CASE fill_ptr + ReadLen = targeted_len
    <3>1. FinishMessage(data') /\ targeted_len <= PayloadSize
      BY <1>2, <2>3 DEF PartialRead, Fits
    <3>2. /\ handled' \in Seq([kind : Kinds, len : Nat, payload : Seq(Nat)])
          /\ fill_ptr' \in 0..PayloadSize /\ payload_len_set' \in BOOLEAN
          /\ audio_sum' \in Nat /\ type' \in Kinds
      BY <2>2, <3>1, FinishMessageTypes
    <3> QED BY <1>2, <2>1, <2>2, <3>2 DEF PartialRead, ClientTypeOK
  <2>4. CASE fill_ptr + ReadLen # targeted_len
    <3>1. fill_ptr + ReadLen \in 0..PayloadSize
      BY <1>2, <2>1 DEF PartialRead, Fits, ReadLen, Least, ClientTypeOK, UInt16,
         ConstantsAssumption
    <3> QED BY <1>2, <2>1, <2>2, <2>4, <3>1 DEF PartialRead, ClientTypeOK
  <2> QED BY <2>3, <2>4
<1>3. CASE EmptyFrame
  <2>1. FinishMessage(data) /\ targeted_len <= PayloadSize
    BY <1>3 DEF EmptyFrame, ClientTypeOK, ConstantsAssumption, UInt16
  <2>2. /\ handled' \in Seq([kind : Kinds, len : Nat, payload : Seq(Nat)])
        /\ fill_ptr' \in 0..PayloadSize /\ payload_len_set' \in BOOLEAN
        /\ audio_sum' \in Nat /\ type' \in Kinds
    BY <2>1, FinishMessageTypes DEF ClientTypeOK
  <2> QED BY <1>3, <2>2 DEF EmptyFrame, ClientTypeOK
<1>4. CASE LeaveLoop
  BY <1>4 DEF LeaveLoop, ClientTypeOK
<1> QED BY <1>0, <1>1, <1>2, <1>3, <1>4 DEF Client, ClientFails, StopClient

\* No step of the server process, the client process or the user leaves the types.
LEMMA TypeStep == ConstantsAssumption /\ TypeOK /\ [Next]_vars => TypeOK'
<1> SUFFICES ASSUME ConstantsAssumption, TypeOK, [Next]_vars PROVE TypeOK'
  OBVIOUS
<1>1. CASE Server
  BY <1>1, ServerTypes, UnchangedTypes DEF TypeOK
<1>2. CASE Client \/ ClientFails
  BY <1>2, ClientTypes, UnchangedTypes DEF TypeOK
<1>3. ASSUME NEW p \in {"server", "client"}, Interrupt(p) PROVE TypeOK'
  BY <1>3, UnchangedTypes DEF Interrupt, TypeOK
<1>4. CASE UNCHANGED vars
  BY <1>4, UnchangedTypes DEF vars, TypeOK
<1> QED BY <1>1, <1>2, <1>3, <1>4 DEF Next

\* The types hold in every reachable state, so no length written to the pipe is
\* ever truncated by its conversion to uint16_t.
THEOREM TypeCorrect == Spec => []TypeOK
<1>1. ConstantsAssumption
  BY ConstantsAssumption
<1> QED BY <1>1, TypeInit, TypeStep, PTL DEF Spec

(***************************************************************************)
(* The processes in step.                                                  *)
(***************************************************************************)

\* Types of the frames and of the places where they end.
LEMMA FrameTypes ==
  ASSUME TypeOK
  PROVE  /\ Len(frames) \in Nat /\ Len(written) \in Nat
         /\ \A i \in 1..Len(frames) :
              /\ frames[i].head \in Nat /\ frames[i].len \in Nat
              /\ frames[i].first \in Nat /\ frames[i].sum \in Nat
              /\ frames[i].kind \in Kinds
         /\ \A n \in 0..Len(frames) : End(n) \in Nat
<1>1. frames \in Seq(Frame) /\ written \in Seq(Cell)
  BY DEF TypeOK, ServerTypeOK
<1>2. \A f \in Frame : /\ f.head \in Nat /\ f.len \in Nat /\ f.first \in Nat
                       /\ f.sum \in Nat /\ f.kind \in Kinds
  BY DEF Frame, UInt16
<1>3. \A i \in 1..Len(frames) : frames[i] \in Frame
  BY <1>1
<1>4. \A n \in 0..Len(frames) : End(n) \in Nat
  BY <1>1, <1>2, <1>3 DEF End
<1> QED BY <1>1, <1>2, <1>3, <1>4

\* A new frame leaves the places of the earlier ones as they were.
LEMMA EarlierFrames ==
  ASSUME TypeOK, NEW f \in Frame, frames' = Append(frames, f), metaint' = metaint
  PROVE  /\ Len(frames') = Len(frames) + 1 /\ frames'[Len(frames) + 1] = f
         /\ \A i \in 1..Len(frames) : frames'[i] = frames[i]
         /\ \A n \in 0..Len(frames) : Due(n)' = Due(n) /\ End(n)' = End(n)
<1>1. frames \in Seq(Frame)
  BY DEF TypeOK, ServerTypeOK
<1>2. Len(frames') = Len(frames) + 1 /\ frames'[Len(frames) + 1] = f
  BY <1>1
<1>3. \A i \in 1..Len(frames) : frames'[i] = frames[i]
  BY <1>1
<1>4. \A n \in 0..Len(frames) : Due(n)' = Due(n) /\ End(n)' = End(n)
  <2> TAKE n \in 0..Len(frames)
  <2>1. CASE n = 0
    BY <2>1 DEF Due, End
  <2>2. CASE n # 0
    BY <1>1, <1>3, <2>2 DEF Due, End, After
  <2> QED BY <2>1, <2>2
<1> QED BY <1>2, <1>3, <1>4

\* So does a step that begins no frame.
LEMMA SameFrames ==
  ASSUME UNCHANGED <<frames, metaint>>
  PROVE  \A n \in Nat : Due(n)' = Due(n) /\ End(n)' = End(n)
BY DEF Due, End, After

\* Every frame but the last is complete in the pipe.
LEMMA FrameEnds ==
  ASSUME TypeOK, FrameLayout
  PROVE  \A i \in 1..(Len(frames) - 1) : frames[i].head + frames[i].len < Len(written)
<1> TAKE i \in 1..(Len(frames) - 1)
<1>1. i \in 1..Len(frames) /\ i + 1 \in 1..Len(frames) /\ (i + 1) - 1 = i /\ i # 0
  BY DEF TypeOK, ServerTypeOK
<1>2. frames[i + 1].head = End(i) + 1 /\ frames[i + 1].head <= Len(written)
  BY <1>1 DEF FrameLayout, LaidOut
<1>3. End(i) = frames[i].head + frames[i].len
  BY <1>1 DEF End
<1>4. frames[i].head \in Nat /\ frames[i].len \in Nat /\ Len(written) \in Nat
  BY <1>1, FrameTypes
<1> QED BY <1>2, <1>3, <1>4

\* Cells added to the pipe do not move a frame that is complete in it.
LEMMA LaidOutKept ==
  ASSUME TypeOK, FrameLayout, NEW i \in 1..Len(frames),
         frames[i].head + frames[i].len <= Len(written),
         frames'[i] = frames[i], End(i - 1)' = End(i - 1),
         Len(written') \in Nat, Len(written) <= Len(written'),
         \A j \in 1..Len(written) : written'[j] = written[j]
  PROVE  LaidOut(i)'
<1>1. i - 1 \in 0..Len(frames)
  BY FrameTypes
<1>2. LaidOut(i) /\ frames[i].head \in Nat \ {0}
  <2>1. LaidOut(i)
    BY DEF FrameLayout
  <2>2. End(i - 1) \in Nat
    BY <1>1, FrameTypes
  <2>3. frames[i].head = End(i - 1) + 1
    BY <2>1 DEF LaidOut
  <2>4. frames[i].head \in Nat \ {0}
    BY ONLY <2>2, <2>3
  <2> QED BY <2>1, <2>4
<1>3. frames[i].head \in Nat /\ frames[i].len \in Nat /\ Len(written) \in Nat
  BY FrameTypes
<1>4. ASSUME NEW k \in 1..frames[i].len
      PROVE  written'[frames[i].head + k] = ByteCell(frames[i].first + k - 1)
  <2>1. frames[i].head + k \in 1..Len(written)
    BY <1>3
  <2>2. written[frames[i].head + k] = ByteCell(frames[i].first + k - 1)
    BY <1>2, <1>3, <2>1 DEF LaidOut
  <2> QED BY <2>1, <2>2
<1>5. /\ frames[i].head = End(i - 1) + 1 /\ frames[i].head <= Len(written')
      /\ written'[frames[i].head] = LenCell(frames[i].len)
  BY <1>2, <1>3 DEF LaidOut
<1> QED BY <1>4, <1>5 DEF LaidOut

\* After a frame of the kind that was due, the loop is at the kind due next.
LEMMA FinishFrameDue ==
  ASSUME ConstantsAssumption, TypeOK, FinishFrame, metaint' = metaint,
         state # "END_STATE",
         state = "AUDIO_STATE" => to_read > 0 /\ smallread = ChunkLen(to_read),
         NEW f \in Frame, f.kind = KindNow, f.sum = SumNow, f.len = smallread
  PROVE  /\ KindNow' = After(f).kind /\ SumNow' = After(f).sum
         /\ pc' \in {"header", "size"} /\ state' # "END_STATE"
         /\ pc' = "size" => state' = "META_STATE"
         /\ state' = "AUDIO_STATE" => to_read' > 0 /\ smallread' = ChunkLen(to_read')
<1>1. /\ metaint \in Nat /\ to_read \in Nat /\ smallread \in Nat
      /\ state \in {"AUDIO_STATE", "META_STATE"}
      /\ AudioQuota \in Nat \ {0}
      /\ to_read <= AudioQuota
  BY LengthTypes DEF TypeOK, ServerTypeOK, ConstantsAssumption, UInt16
<1>2. state = "AUDIO_STATE" => smallread <= to_read
  BY <1>1, LengthTypes DEF TypeOK
<1>3. CASE state = "AUDIO_STATE" /\ to_read > smallread /\ BeginAudio(to_read - smallread)
  BY <1>1, <1>3 DEF BeginAudio, KindNow, SumNow, After
<1>4. CASE /\ state = "AUDIO_STATE" /\ to_read <= smallread /\ metaint > 0
           /\ BeginMetadata
  BY <1>1, <1>2, <1>4 DEF BeginMetadata, KindNow, SumNow, After
<1>5. CASE /\ state # "AUDIO_STATE" \/ (to_read <= smallread /\ metaint = 0)
           /\ BeginAudio(AudioQuota)
  BY <1>1, <1>5 DEF BeginAudio, KindNow, SumNow, After, AudioQuota
<1> QED BY <1>3, <1>4, <1>5 DEF FinishFrame

\* The client process does not notice what the server process adds to the pipe.
LEMMA ReaderUnmoved ==
  ASSUME TypeOK, ReaderInSync, HandledFaithful, UNCHANGED clientVars,
         Len(frames) <= Len(frames') /\ Len(written) <= Len(written'),
         Len(frames') \in Nat /\ Len(written') \in Nat,
         \A i \in 1..Len(frames) : frames'[i] = frames[i],
         \A n \in 0..Len(frames) : Due(n)' = Due(n) /\ End(n)' = End(n)
  PROVE  ReaderInSync' /\ HandledFaithful'
<1>1. Len(handled) \in 0..Len(frames) /\ Len(frames) \in Nat /\ Len(written) \in Nat
  BY DEF ReaderInSync, TypeOK, ClientTypeOK, ServerTypeOK
<1>2. ReaderInSync'
  <2>1. CASE payload_len_set
    <3>1. Len(handled) + 1 \in 1..Len(frames)
      BY <1>1, <2>1 DEF ReaderInSync
    <3>2. frames'[Len(handled) + 1] = frames[Len(handled) + 1]
      BY <3>1
    <3> QED BY <1>1, <2>1, <3>1, <3>2 DEF ReaderInSync, clientVars, TypeOK, ClientTypeOK
  <2>2. CASE ~payload_len_set
    BY <1>1, <2>2 DEF ReaderInSync, clientVars, TypeOK, ClientTypeOK
  <2> QED BY <2>1, <2>2
<1>3. HandledFaithful'
  BY <1>1 DEF HandledFaithful, Datagram, clientVars
<1> QED BY <1>2, <1>3

\* Nothing has been written or counted yet: the processes start in step.
LEMMA InSyncInit == ConstantsAssumption /\ Init => InSync
<1> SUFFICES ASSUME ConstantsAssumption, Init PROVE InSync
  OBVIOUS
<1>1. TypeOK
  BY TypeInit
<1>2. Len(frames) = 0 /\ Len(written) = 0 /\ Len(handled) = 0
  BY DEF Init
<1>3. FrameLayout /\ FrameKinds /\ HandledFaithful
  BY <1>2 DEF FrameLayout, FrameKinds, HandledFaithful, Init, End
<1>4. WriterAtDue
  <2>1. KindNow = "AUDIO" /\ SumNow = 0
    BY <1>1 DEF Init, KindNow, SumNow, AudioQuota, TypeOK, ConstantsAssumption
  <2>2. to_read > 0
    BY <1>1, LengthTypes DEF Init, TypeOK
  <2> QED BY <1>2, <2>1, <2>2 DEF WriterAtDue, Init, Due
<1>5. ReaderInSync
  BY <1>2 DEF ReaderInSync, Init, Due, End
<1> QED BY <1>3, <1>4, <1>5 DEF InSync

\* A step that writes nothing and begins no frame keeps the layout of the pipe and
\* the place of the client process.
LEMMA PipeUnmoved ==
  ASSUME TypeOK, InSync, UNCHANGED <<metaint, left, written, frames, clientVars>>
  PROVE  FrameLayout' /\ FrameKinds' /\ ReaderInSync' /\ HandledFaithful'
<1>1. FrameLayout' /\ FrameKinds'
  BY SameFrames DEF InSync, FrameLayout, LaidOut, FrameKinds, End, Due, After
<1>2. ReaderInSync' /\ HandledFaithful'
  BY SameFrames, ReaderUnmoved DEF InSync, TypeOK, ServerTypeOK
<1> QED BY <1>1, <1>2

\* The header of a frame: the layout grows by one frame, of the kind due.
LEMMA InSyncWriteHeader ==
  ASSUME ConstantsAssumption, TypeOK, InSync, WriteHeader
  PROVE  InSync'
<1> PICK L \in Nat : L = Len(frames)
  BY FrameTypes
<1> PICK W \in Nat : W = Len(written)
  BY FrameTypes
<1>1. /\ frames \in Seq(Frame) /\ written \in Seq(Cell) /\ L \in Nat /\ W \in Nat
      /\ smallread \in Nat /\ left = 0 /\ KindNow = Due(L).kind /\ SumNow = Due(L).sum
      /\ state # "END_STATE"
      /\ state = "AUDIO_STATE" => to_read > 0 /\ smallread = ChunkLen(to_read)
  BY DEF WriteHeader, InSync, WriterAtDue, TypeOK, ServerTypeOK, UInt16
<1>2. W = End(L)
  BY <1>1 DEF InSync, FrameLayout
<1>3. /\ NewFrame \in Frame /\ frames' = Append(frames, NewFrame)
      /\ metaint' = metaint /\ UNCHANGED clientVars
  <2>1. frames' = Append(frames, NewFrame) /\ metaint' = metaint /\ UNCHANGED clientVars
    BY DEF WriteHeader, clientVars
  <2>2. Len(frames') = L + 1 /\ frames'[L + 1] = NewFrame /\ frames' \in Seq(Frame)
    BY <1>1, <2>1, ServerTypes DEF Server, ServerTypeOK
  <2> QED BY <1>1, <2>1, <2>2
<1>4. /\ Len(frames') = L + 1 /\ frames'[L + 1] = NewFrame
      /\ \A i \in 1..L : frames'[i] = frames[i]
      /\ \A n \in 0..L : Due(n)' = Due(n) /\ End(n)' = End(n)
  BY <1>3, EarlierFrames
<1>5. /\ Len(written') = W + 1 /\ written'[W + 1] = LenCell(smallread)
      /\ \A j \in 1..W : written'[j] = written[j]
  BY <1>1 DEF WriteHeader
<1>6. NewFrame.head = W + 1 /\ NewFrame.len = smallread
  BY DEF NewFrame
<1>7. FrameLayout'
  <2>1. ASSUME NEW i \in 1..L PROVE LaidOut(i)'
    <3>1. frames[i].head + frames[i].len <= W
      <4>1. CASE i = L
        BY <1>1, <1>2, <4>1 DEF End
      <4>2. CASE i # L
        <5>1. i \in 1..(Len(frames) - 1)
          BY <1>1, <4>2
        <5>2. frames[i].head + frames[i].len < Len(written)
          BY <5>1, FrameEnds DEF InSync
        <5> QED BY <5>1, <5>2, FrameTypes
      <4> QED BY <4>1, <4>2
    <3>2. frames'[i] = frames[i] /\ End(i - 1)' = End(i - 1)
      BY <1>4
    <3> QED BY <1>5, <3>1, <3>2, LaidOutKept DEF InSync
  <2>2. LaidOut(L + 1)'
    BY <1>1, <1>2, <1>4, <1>5, <1>6 DEF LaidOut
  <2>3. Len(written') + left' = End(L + 1)'
    BY <1>1, <1>4, <1>5, <1>6 DEF WriteHeader, End
  <2>4. \A i \in 1..Len(frames') : i \in 1..L \/ i = L + 1
    BY <1>4
  <2> QED BY <1>4, <2>1, <2>2, <2>3, <2>4 DEF FrameLayout
<1>8. FrameKinds'
  <2>1. frames'[L + 1].kind = Due(L)'.kind /\ frames'[L + 1].sum = Due(L)'.sum
    BY <1>1, <1>4 DEF NewFrame
  <2>2. ASSUME NEW i \in 1..L
        PROVE  frames'[i].kind = Due(i - 1)'.kind /\ frames'[i].sum = Due(i - 1)'.sum
    BY <1>1, <1>4 DEF InSync, FrameKinds
  <2> QED BY <1>1, <1>4, <2>1, <2>2 DEF FrameKinds
<1>9. WriterAtDue'
  <2>1. CASE smallread = 0
    <3>1. Due(L + 1)' = After(NewFrame)
      BY <1>3, <1>4 DEF Due, After
    <3>2. /\ KindNow' = After(NewFrame).kind /\ SumNow' = After(NewFrame).sum
          /\ pc' \in {"header", "size"} /\ state' # "END_STATE"
          /\ pc' = "size" => state' = "META_STATE"
          /\ state' = "AUDIO_STATE" => to_read' > 0 /\ smallread' = ChunkLen(to_read')
      BY <1>1, <1>3, <1>6, <2>1, FinishFrameDue DEF WriteHeader, NewFrame
    <3>3. left' = 0
      BY <2>1 DEF WriteHeader
    <3> QED BY <1>4, <3>1, <3>2, <3>3 DEF WriterAtDue
  <2>2. CASE smallread # 0
    <3>1. /\ pc' = "copy" /\ left' = smallread
          /\ UNCHANGED <<metaint, state, to_read, smallread, received, read_cnt>>
      BY <2>2 DEF WriteHeader
    <3>2. KindNow' = KindNow /\ SumNow' = SumNow /\ NextByte' = NextByte
      BY <3>1 DEF KindNow, SumNow, NextByte
    <3>3. NextByte \in Int
      BY DEF NextByte, TypeOK, ServerTypeOK
    <3> QED BY <1>1, <1>4, <2>2, <3>1, <3>2, <3>3 DEF WriterAtDue, NewFrame
  <2> QED BY <2>1, <2>2
<1>10. ReaderInSync' /\ HandledFaithful'
  BY <1>1, <1>3, <1>4, <1>5, ReaderUnmoved DEF InSync
<1> QED BY <1>7, <1>8, <1>9, <1>10 DEF InSync

\* Byte k of a frame that ends missing bytes after cell W goes to the cell of the
\* byte of the stream that is its k-th.
LEMMA CopyIndex ==
  ASSUME NEW W \in Nat, NEW m \in Nat, NEW head \in Nat, NEW len \in Nat,
         NEW missing \in Nat, NEW first \in Nat, NEW next \in Int, NEW k \in 1..len,
         W + missing = head + len, first + len - missing = next,
         head + k <= W + m, ~(head + k <= W)
  PROVE  /\ head + k - W \in 1..m /\ head + k = W + (head + k - W)
         /\ next + (head + k - W) - 1 = first + k - 1
OBVIOUS

\* Payload cells: the last frame of the layout is filled further.
LEMMA InSyncCopy ==
  ASSUME ConstantsAssumption, TypeOK, InSync, Copy
  PROVE  InSync'
<1> PICK L \in Nat : L = Len(frames)
  BY FrameTypes
<1> PICK W \in Nat : W = Len(written)
  BY FrameTypes
<1> PICK m \in Nat : m = CopyLen
  BY DEF CopyLen, Least, TypeOK, ServerTypeOK, UInt16
<1>1. /\ L \in 1..Len(frames) /\ L = Len(frames) /\ W = Len(written)
      /\ left \in Nat /\ m > 0 /\ m <= left /\ m <= read_cnt
      /\ smallread \in Nat /\ received \in Nat /\ read_cnt \in Nat
      /\ frames[L].kind = KindNow /\ frames[L].sum = SumNow
      /\ frames[L].len = smallread
      /\ frames[L].first + smallread - left = NextByte
      /\ state # "END_STATE"
      /\ state = "AUDIO_STATE" => to_read > 0 /\ smallread = ChunkLen(to_read)
  BY DEF Copy, CopyLen, Least, InSync, WriterAtDue, TypeOK, ServerTypeOK, UInt16
<1>2. /\ frames[L] \in Frame /\ frames[L].head \in Nat /\ frames[L].first \in Nat
      /\ NextByte \in Int
  <2>1. frames[L] \in Frame
    BY <1>1 DEF TypeOK, ServerTypeOK
  <2>2. frames[L].head \in Nat /\ frames[L].first \in Nat
    BY <1>1, FrameTypes
  <2> QED BY <1>1, <2>1, <2>2 DEF NextByte
<1>3. W + left = frames[L].head + smallread
  BY <1>1 DEF InSync, FrameLayout, End
<1>4. /\ UNCHANGED <<metaint, frames, received, clientVars>>
      /\ left' = left - m /\ read_cnt' = read_cnt - m
      /\ written' = written \o [k \in 1..m |-> ByteCell(NextByte + k - 1)]
  BY DEF Copy, clientVars
<1>5. /\ Len(written') = W + m
      /\ \A j \in 1..W : written'[j] = written[j]
      /\ \A k \in 1..m : written'[W + k] = ByteCell(NextByte + k - 1)
  BY <1>1, <1>4 DEF TypeOK, ServerTypeOK
<1>6. \A n \in Nat : Due(n)' = Due(n) /\ End(n)' = End(n)
  BY <1>4, SameFrames
<1>7. FrameLayout'
  <2>1. ASSUME NEW i \in 1..(L - 1) PROVE LaidOut(i)'
    <3>1. frames[i].head + frames[i].len <= Len(written)
      <4>1. i \in 1..(Len(frames) - 1)
        BY <1>1
      <4>2. frames[i].head + frames[i].len < Len(written)
        BY <4>1, FrameEnds DEF InSync
      <4> QED BY <4>1, <4>2, FrameTypes
    <3>2. frames'[i] = frames[i] /\ End(i - 1)' = End(i - 1)
      BY <1>4, <1>6
    <3> QED BY <1>1, <1>5, <3>1, <3>2, LaidOutKept DEF InSync
  <2>2. LaidOut(L)'
    <3>1. LaidOut(L) /\ frames[L].head <= W
      BY <1>1 DEF InSync, FrameLayout, LaidOut
    <3>2. ASSUME NEW k \in 1..smallread, frames[L].head + k <= W + m
          PROVE  written'[frames[L].head + k] = ByteCell(frames[L].first + k - 1)
      <4>1. CASE frames[L].head + k <= W
        BY <1>1, <1>2, <1>5, <3>1, <4>1 DEF LaidOut
      <4>2. CASE ~(frames[L].head + k <= W)
        <5> DEFINE j == frames[L].head + k - W
        <5>1. /\ j \in 1..m /\ frames[L].head + k = W + j
              /\ NextByte + j - 1 = frames[L].first + k - 1
          <6>1. /\ W + left = frames[L].head + smallread
                /\ frames[L].first + smallread - left = NextByte
                /\ frames[L].head + k <= W + m /\ ~(frames[L].head + k <= W)
            BY <1>1, <1>3, <3>2, <4>2
          <6>2. /\ left \in Nat /\ smallread \in Nat /\ NextByte \in Int
                /\ frames[L].head \in Nat /\ frames[L].first \in Nat
            BY <1>1, <1>2
          <6> QED BY ONLY <6>1, <6>2, CopyIndex, W \in Nat, m \in Nat, k \in 1..smallread
        <5>2. written'[W + j] = ByteCell(NextByte + j - 1)
          BY <1>5, <5>1
        <5> QED BY <5>1, <5>2
      <4> QED BY <1>1, <1>2, <4>1, <4>2
    <3>3. /\ frames[L].head = End(L - 1)' + 1 /\ frames[L].head <= Len(written')
          /\ written'[frames[L].head] = LenCell(smallread)
      <4>1. L - 1 \in Nat /\ End(L - 1)' = End(L - 1)
        BY <1>1, <1>6
      <4>2. frames[L].head \in 1..W
        <5>1. L - 1 \in 0..Len(frames)
          BY <1>1
        <5> QED BY <5>1, <1>2, <3>1, FrameTypes DEF LaidOut
      <4> QED BY <1>1, <1>5, <3>1, <4>1, <4>2 DEF LaidOut
    <3> QED BY <1>1, <1>4, <1>5, <3>2, <3>3 DEF LaidOut
  <2>3. Len(written') + left' = End(L)'
    BY <1>1, <1>3, <1>4, <1>5 DEF End
  <2>4. \A i \in 1..Len(frames') : i \in 1..(L - 1) \/ i = L
    BY <1>1, <1>4
  <2> QED BY <1>1, <1>4, <2>1, <2>2, <2>3, <2>4 DEF FrameLayout
<1>8. FrameKinds'
  BY <1>4, <1>6 DEF InSync, FrameKinds
<1>9. WriterAtDue'
  <2>1. CASE left = m
    <3>1. Due(L)' = After(frames[L])
      BY <1>1, <1>4 DEF Due, After
    <3>2. /\ KindNow' = After(frames[L]).kind /\ SumNow' = After(frames[L]).sum
          /\ pc' \in {"header", "size"} /\ state' # "END_STATE"
          /\ pc' = "size" => state' = "META_STATE"
          /\ state' = "AUDIO_STATE" => to_read' > 0 /\ smallread' = ChunkLen(to_read')
      BY <1>1, <1>2, <1>4, <2>1, FinishFrameDue DEF Copy
    <3> QED BY <1>1, <1>4, <2>1, <3>1, <3>2 DEF WriterAtDue
  <2>2. CASE left # m
    <3>1. UNCHANGED <<state, pc, to_read, smallread>> /\ pc = "copy"
      BY <2>2 DEF Copy
    <3>2. KindNow' = KindNow /\ SumNow' = SumNow
      BY <1>4, <3>1 DEF KindNow, SumNow
    <3>3. NextByte' = NextByte + m /\ left' > 0
      BY <1>1, <1>4, <2>2 DEF NextByte
    <3>4. frames[L].first + smallread - left' = NextByte'
      BY <1>1, <1>2, <1>4, <3>3
    <3> QED BY <1>1, <1>4, <3>1, <3>2, <3>3, <3>4 DEF WriterAtDue
  <2> QED BY <2>1, <2>2
<1>10. ReaderInSync' /\ HandledFaithful'
  BY <1>1, <1>4, <1>5, <1>6, ReaderUnmoved DEF InSync
<1> QED BY <1>7, <1>8, <1>9, <1>10 DEF InSync

\* Reading from the radio, or giving up, moves the writer but not the pipe.
LEMMA InSyncFill ==
  ASSUME ConstantsAssumption, TypeOK, InSync,
         Fill \/ (\E b \in LenBytes : TakeSize(b)) \/ WriteInterrupted
  PROVE  InSync'
<1>1. UNCHANGED <<metaint, left, written, frames, clientVars>>
  BY DEF Fill, FillData, FillFailsInFrame, FillFailsAtSize, TakeSize, WriteInterrupted
<1>2. WriterAtDue /\ Due(Len(frames))' = Due(Len(frames)) /\ Len(frames) \in Nat
  BY <1>1, FrameTypes, SameFrames DEF InSync
<1>3. WriterAtDue'
  <2>1. ASSUME NEW n \in 1..BufSize, FillData(n) PROVE WriterAtDue'
    <3>1. NextByte' = NextByte
      BY <2>1 DEF FillData, NeedsData, NextByte, TypeOK, ServerTypeOK
    <3>2. UNCHANGED <<metaint, state, pc, to_read, smallread, left, frames>>
      BY <2>1 DEF FillData
    <3>3. KindNow' = KindNow /\ SumNow' = SumNow
      BY <3>2 DEF KindNow, SumNow
    <3> QED BY <1>2, <3>1, <3>2, <3>3 DEF WriterAtDue
  <2>2. CASE FillFailsInFrame \/ WriteInterrupted
    BY <2>2 DEF FillFailsInFrame, WriteInterrupted, EndServer, WriterAtDue
  <2>3. CASE FillFailsAtSize \/ (\E b \in LenBytes : TakeSize(b))
    <3>1. /\ pc = "size" /\ pc' = "header"
          /\ UNCHANGED <<metaint, state, to_read, left, frames>>
      BY <2>3 DEF FillFailsAtSize, TakeSize
    <3>2. KindNow' = KindNow /\ SumNow' = SumNow
      BY <3>1 DEF KindNow, SumNow
    <3> QED BY <1>2, <3>1, <3>2 DEF WriterAtDue
  <2> QED BY <2>1, <2>2, <2>3 DEF Fill
<1> QED BY <1>1, <1>3, PipeUnmoved DEF InSync

\* The client process leaves the writer's side of the invariant alone.
LEMMA WriterUnmoved ==
  ASSUME TypeOK, InSync, UNCHANGED <<metaint, serverVars>>
  PROVE  FrameLayout' /\ FrameKinds' /\ WriterAtDue'
BY DEF InSync, FrameLayout, LaidOut, FrameKinds, WriterAtDue, End, Due, After,
       KindNow, SumNow, NextByte, ChunkLen, Least, serverVars

\* A length read from the pipe is the length of the next frame.
LEMMA InSyncReadTargetedLen ==
  ASSUME ConstantsAssumption, TypeOK, InSync, ReadTargetedLen
  PROVE  ReaderInSync' /\ HandledFaithful'
<1> PICK h \in Nat : h = Len(handled)
  BY DEF TypeOK, ClientTypeOK
<1>1. /\ h <= Len(frames) /\ consumed = End(h) /\ fill_ptr = 0 /\ ~payload_len_set
      /\ type = Due(h).kind /\ audio_sum = Due(h).sum /\ consumed < Len(written)
  BY DEF ReadTargetedLen, Readable, InSync, ReaderInSync
<1>2. h < Len(frames)
  <2>1. Len(written) + left = End(Len(frames)) /\ left \in Nat /\ Len(written) \in Nat
    BY FrameTypes DEF InSync, FrameLayout, TypeOK, ServerTypeOK, UInt16
  <2> QED BY <1>1, <2>1, FrameTypes
<1>3. h + 1 \in 1..Len(frames) /\ (h + 1) - 1 = h
  BY <1>2, FrameTypes
<1>4. LaidOut(h + 1)
  BY <1>3 DEF InSync, FrameLayout
<1>5. /\ frames[h + 1].head = consumed + 1
      /\ written[consumed + 1] = LenCell(frames[h + 1].len)
  BY <1>1, <1>3, <1>4 DEF LaidOut
<1>6. /\ consumed' = consumed + 1 /\ targeted_len' = frames[h + 1].len
      /\ payload_len_set' = TRUE
      /\ UNCHANGED <<metaint, serverVars, fill_ptr, audio_sum, type, data, handled>>
  BY <1>5 DEF ReadTargetedLen, LenCell
<1>7. frames[h + 1].len \in Nat /\ consumed \in Nat /\ Len(written) \in Nat
  BY <1>3, FrameTypes DEF TypeOK, ClientTypeOK
<1>8. Due(h)' = Due(h) /\ frames' = frames /\ written' = written
  BY <1>6, SameFrames DEF serverVars
<1>9. ReaderInSync'
  BY <1>1, <1>2, <1>5, <1>6, <1>7, <1>8 DEF ReaderInSync
<1>10. HandledFaithful'
  BY <1>6, <1>8 DEF InSync, HandledFaithful, Datagram
<1> QED BY <1>9, <1>10

\* A message that holds the bytes of the next frame is that frame's datagram, and
\* after it the client process counts what the server process counts.
LEMMA InSyncFinishMessage ==
  ASSUME ConstantsAssumption, TypeOK, InSync, payload_len_set,
         UNCHANGED <<metaint, serverVars>>,
         NEW payload, FinishMessage(payload),
         \A k \in 1..targeted_len : payload[k] = frames[Len(handled) + 1].first + k - 1,
         consumed' = frames[Len(handled) + 1].head + targeted_len,
         consumed' <= Len(written)
  PROVE  ReaderInSync' /\ HandledFaithful'
<1> PICK h \in Nat : h = Len(handled)
  BY DEF TypeOK, ClientTypeOK
<1>1. /\ h + 1 \in 1..Len(frames) /\ (h + 1) - 1 = h
      /\ type = Due(h).kind /\ audio_sum = Due(h).sum
      /\ targeted_len = frames[h + 1].len /\ fill_ptr <= targeted_len
  BY FrameTypes DEF InSync, ReaderInSync
<1>2. frames[h + 1].kind = type /\ frames[h + 1].sum = audio_sum
  BY <1>1 DEF InSync, FrameKinds
<1>3. UNCHANGED <<metaint, frames, written>>
  BY DEF serverVars
<1>4. handled \in Seq([kind : Kinds, len : Nat, payload : Seq(Nat)])
  BY DEF TypeOK, ClientTypeOK
<1>5. handled' = Append(handled, Datagram(frames[h + 1]))
  <2>1. [i \in 1..targeted_len |-> payload[i]]
          = [i \in 1..frames[h + 1].len |-> frames[h + 1].first + i - 1]
    BY <1>1
  <2>2. handled' = Append(handled, [kind |-> type, len |-> targeted_len,
                                    payload |-> [i \in 1..targeted_len |-> payload[i]]])
    BY DEF FinishMessage
  <2> QED BY <1>1, <1>2, <2>1, <2>2 DEF Datagram
<1>6. /\ Len(handled') = h + 1 /\ handled'[h + 1] = Datagram(frames[h + 1])
      /\ \A i \in 1..h : handled'[i] = handled[i]
  BY <1>4, <1>5
<1>7. HandledFaithful'
  <2>1. \A i \in 1..h : handled[i] = Datagram(frames[i])
    BY DEF InSync, HandledFaithful
  <2>2. \A i \in 1..(h + 1) : handled'[i] = Datagram(frames[i])
    BY <1>6, <2>1
  <2> QED BY <1>3, <1>6, <2>2 DEF HandledFaithful, Datagram
<1>8. Due(h + 1)' = After(frames[h + 1]) /\ End(h + 1)' = frames[h + 1].head + targeted_len
  BY <1>1, <1>3 DEF Due, After, End
<1>9. type' = After(frames[h + 1]).kind /\ audio_sum' = After(frames[h + 1]).sum
  <2>1. ~(type = "AUDIO" /\ metaint > 0) => audio_sum = 0
    BY <1>1 DEF Due, After, TypeOK, ConstantsAssumption
  <2>2. CASE type = "AUDIO" /\ metaint > 0
    BY <1>1, <1>2, <2>2 DEF FinishMessage, CountFrame, After
  <2>3. CASE ~(type = "AUDIO" /\ metaint > 0)
    BY <1>1, <1>2, <2>1, <2>3 DEF FinishMessage, CountFrame, After
  <2> QED BY <2>2, <2>3
<1>10. ReaderInSync'
  <2>1. fill_ptr' = 0 /\ payload_len_set' = FALSE
    BY <1>1 DEF FinishMessage, TypeOK, ClientTypeOK
  <2>2. h + 1 <= Len(frames')
    BY <1>1, <1>3
  <2> QED BY <1>3, <1>6, <1>8, <1>9, <2>1, <2>2 DEF ReaderInSync
<1> QED BY <1>7, <1>10

\* A partial read brings in the bytes of the frame that follow those at hand.
LEMMA InSyncPartialRead ==
  ASSUME ConstantsAssumption, TypeOK, InSync, PartialRead
  PROVE  ReaderInSync' /\ HandledFaithful'
<1> PICK h \in Nat : h = Len(handled)
  BY DEF TypeOK, ClientTypeOK
<1>0. /\ fill_ptr \in Nat /\ targeted_len \in Nat /\ consumed \in Nat
      /\ PayloadSize \in Nat /\ Len(written) \in Nat
  <2>1. PayloadSize \in Nat
    BY DEF ConstantsAssumption, UInt16
  <2> QED BY <2>1, FrameTypes DEF TypeOK, ClientTypeOK
<1> PICK m \in Nat : /\ m = ReadLen
                     /\ m <= targeted_len - fill_ptr /\ consumed + m <= Len(written)
  <2>1. fill_ptr < targeted_len /\ consumed < Len(written)
    BY DEF PartialRead, Readable
  <2>2. /\ ReadLen \in Nat /\ ReadLen <= targeted_len - fill_ptr
        /\ consumed + ReadLen <= Len(written)
    BY ONLY <1>0, <2>1 DEF ReadLen, Least
  <2> QED BY <2>2
<1>1. /\ h + 1 \in 1..Len(frames)
      /\ targeted_len = frames[h + 1].len
      /\ targeted_len <= PayloadSize
      /\ consumed = frames[h + 1].head + fill_ptr
      /\ \A k \in 1..fill_ptr : data[k] = frames[h + 1].first + k - 1
      /\ type = Due(h).kind /\ audio_sum = Due(h).sum
      /\ payload_len_set
  BY FrameTypes DEF PartialRead, InSync, ReaderInSync, Fits
<1>2. frames[h + 1].head \in Nat /\ frames[h + 1].first \in Nat
  BY <1>1, FrameTypes
<1>4. /\ consumed' = consumed + m /\ data' = DataAfter(m)
      /\ UNCHANGED <<metaint, serverVars, targeted_len>>
  BY DEF PartialRead
<1>5. ASSUME NEW k \in 1..(fill_ptr + m) PROVE data'[k] = frames[h + 1].first + k - 1
  <2>1. k \in 1..PayloadSize /\ k \in Int
    BY ONLY <1>0, <1>1, k \in 1..(fill_ptr + m), m \in Nat, m <= targeted_len - fill_ptr
  <2>2. CASE k <= fill_ptr
    <3>1. data'[k] = data[k] /\ k \in 1..fill_ptr
      BY <1>0, <1>4, <2>1, <2>2 DEF DataAfter
    <3> QED BY <1>1, <3>1
  <2>3. CASE ~(k <= fill_ptr)
    <3>1. data'[k] = written[consumed + k - fill_ptr].value
      BY <1>0, <1>4, <2>1, <2>3 DEF DataAfter
    <3>2. /\ consumed + k - fill_ptr = frames[h + 1].head + k
          /\ frames[h + 1].head + k <= Len(written)
          /\ k \in 1..frames[h + 1].len
      <4>1. k \in 1..targeted_len
        BY ONLY <1>0, k \in 1..(fill_ptr + m), m \in Nat, m <= targeted_len - fill_ptr
      <4>2. /\ consumed + k - fill_ptr = frames[h + 1].head + k
            /\ frames[h + 1].head + k <= consumed + m
        <5>1. /\ consumed = frames[h + 1].head + fill_ptr
              /\ fill_ptr \in Nat /\ frames[h + 1].head \in Nat /\ k \in 1..(fill_ptr + m)
          BY ONLY <1>0, <1>1, <1>2, k \in 1..(fill_ptr + m)
        <5> QED
          BY ONLY <5>1, m \in Nat
      <4>3. frames[h + 1].head + k <= Len(written)
        BY ONLY <1>0, <1>2, <2>1, <4>2, m \in Nat, consumed + m <= Len(written)
      <4>4. k \in 1..frames[h + 1].len
        BY ONLY <1>1, <4>1
      <4> QED BY ONLY <4>2, <4>3, <4>4
    <3>3. LaidOut(h + 1)
      BY <1>1 DEF InSync, FrameLayout
    <3>4. written[frames[h + 1].head + k] = ByteCell(frames[h + 1].first + k - 1)
      BY <3>2, <3>3 DEF LaidOut
    <3> QED BY <3>1, <3>2, <3>4 DEF ByteCell
  <2> QED BY <2>2, <2>3
<1>6. CASE fill_ptr + m = targeted_len
  <2>1. FinishMessage(data')
    BY <1>6 DEF PartialRead
  <2>2. consumed' = frames[h + 1].head + targeted_len /\ consumed' <= Len(written)
    <3>1. consumed' = consumed + m /\ consumed + m <= Len(written)
      BY <1>4
    <3> QED BY ONLY <1>0, <1>1, <1>2, <1>6, <3>1, m \in Nat
  <2> QED BY <1>1, <1>4, <1>5, <1>6, <2>1, <2>2, InSyncFinishMessage
<1>7. CASE fill_ptr + m # targeted_len
  <2>1. /\ fill_ptr' = fill_ptr + m
        /\ UNCHANGED <<payload_len_set, audio_sum, type, handled>>
    BY <1>7 DEF PartialRead
  <2>2. UNCHANGED <<frames, written>> /\ Due(h)' = Due(h)
    BY <1>4, SameFrames DEF serverVars
  <2>3. /\ consumed' = frames[h + 1].head + fill_ptr' /\ consumed' <= Len(written)
        /\ fill_ptr' <= targeted_len /\ h < Len(frames) /\ h <= Len(frames)
    <3>1. h < Len(frames) /\ h <= Len(frames)
      BY <1>1, FrameTypes
    <3>2. consumed' = consumed + m /\ consumed + m <= Len(written) /\ written' = written
      BY <1>4, <2>2
    <3>3. fill_ptr' <= targeted_len
      BY ONLY <1>0, <2>1, m \in Nat, m <= targeted_len - fill_ptr
    <3>4. consumed' = frames[h + 1].head + fill_ptr'
      BY ONLY <1>0, <1>1, <1>2, <2>1, <3>2, m \in Nat
    <3>5. consumed' <= Len(written)
      BY ONLY <3>2
    <3> QED BY ONLY <3>1, <3>3, <3>4, <3>5
  <2>4. ReaderInSync'
    BY <1>1, <1>4, <1>5, <2>1, <2>2, <2>3 DEF ReaderInSync
  <2>5. HandledFaithful'
    BY <2>1, <2>2 DEF InSync, HandledFaithful, Datagram
  <2> QED BY <2>4, <2>5
<1> QED BY <1>6, <1>7

\* A frame without payload is counted as the server process counted it.
LEMMA InSyncEmptyFrame ==
  ASSUME ConstantsAssumption, TypeOK, InSync, EmptyFrame
  PROVE  ReaderInSync' /\ HandledFaithful'
<1>1. /\ payload_len_set /\ fill_ptr = targeted_len /\ FinishMessage(data)
      /\ consumed' = consumed /\ UNCHANGED <<metaint, serverVars>>
  BY DEF EmptyFrame
<1>2. /\ consumed = frames[Len(handled) + 1].head + fill_ptr
      /\ consumed <= Len(written)
      /\ \A k \in 1..fill_ptr : data[k] = frames[Len(handled) + 1].first + k - 1
  BY <1>1 DEF InSync, ReaderInSync
<1> QED BY <1>1, <1>2, InSyncFinishMessage

\* Every step of either process keeps the two in step.
LEMMA InSyncStep == ConstantsAssumption /\ TypeOK /\ InSync /\ [Next]_vars => InSync'
<1> SUFFICES ASSUME ConstantsAssumption, TypeOK, InSync, [Next]_vars PROVE InSync'
  OBVIOUS
<1>1. CASE Server
  BY <1>1, InSyncFill, InSyncWriteHeader, InSyncCopy DEF Server
<1>2. CASE ReadTargetedLen \/ PartialRead \/ EmptyFrame
  <2>1. UNCHANGED <<metaint, serverVars>>
    BY <1>2 DEF ReadTargetedLen, PartialRead, EmptyFrame
  <2> QED BY <1>2, <2>1, WriterUnmoved, InSyncReadTargetedLen, InSyncPartialRead,
             InSyncEmptyFrame DEF InSync
<1>3. CASE LeaveLoop \/ (\E p \in {"server", "client"} : Interrupt(p)) \/ UNCHANGED vars
  <2>1. UNCHANGED <<metaint, serverVars, consumed, payload_len_set, targeted_len, fill_ptr,
                    audio_sum, type, data, handled>>
    BY <1>3 DEF LeaveLoop, Interrupt, vars, clientVars
  <2>2. ReaderInSync' /\ HandledFaithful'
    BY <2>1 DEF InSync, ReaderInSync, HandledFaithful, Datagram, Due, End, After, serverVars
  <2> QED BY <2>1, <2>2, WriterUnmoved DEF InSync
<1> QED BY <1>1, <1>2, <1>3 DEF Next, Client, StopClient, ClientFails

\* The two processes, counting independently, agree on every frame in every
\* reachable state: no datagram carries the wrong type, length or bytes, for any
\* metaint, any sizes of the buffers and any schedule of the two.
THEOREM ProcessesInSync == Spec => []InSync
<1>1. ConstantsAssumption
  BY ConstantsAssumption
<1>2. TypeOK /\ InSync /\ [Next]_vars => InSync'
  BY <1>1, InSyncStep
<1>3. Init => InSync
  BY <1>1, InSyncInit
<1> QED BY <1>2, <1>3, TypeCorrect, PTL DEF Spec
===============================================================================

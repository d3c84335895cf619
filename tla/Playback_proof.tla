----------------------------- MODULE Playback_proof -----------------------------
(***************************************************************************)
(* Proofs about Playback, for all values of the constants: the types of    *)
(* the variables, and what the buffer and the position of writen in it     *)
(* mean, however many writes take a part or fail.                          *)
(***************************************************************************)
EXTENDS Playback, TLAPS

(***************************************************************************)
(* The arithmetic of lengths.                                              *)
(***************************************************************************)
LEMMA LeastType ==
  ASSUME NEW a \in Nat, NEW b \in Nat
  PROVE  /\ Least(a, b) \in Nat /\ Least(a, b) <= a /\ Least(a, b) <= b
         /\ a > 0 /\ b > 0 => Least(a, b) > 0
BY DEF Least

\* Every length that readto is asked for is positive and fits uint16_t.
LEMMA LengthTypes ==
  ASSUME metaint \in Metaints
  PROVE  /\ AudioQuota \in Nat \ {0}
         /\ \A n \in Nat \ {0} : ChunkLen(n) \in UInt16 \ {0} /\ ChunkLen(n) <= n
         /\ \A b \in LenBytes : MetadataSize(b) \in UInt16
         /\ \A c \in FillCodes : FailedSize(c) \in UInt16 \ {0}
<1>1. metaint \in Nat /\ ChunkSize \in UInt16 \ {0}
  BY PlaybackAssumption DEF PlaybackAssumption
<1>2. AudioQuota \in Nat \ {0}
  BY <1>1 DEF AudioQuota, UInt16
<1>3. \A n \in Nat \ {0} : ChunkLen(n) \in UInt16 \ {0} /\ ChunkLen(n) <= n
  BY <1>1 DEF ChunkLen, Least, UInt16
<1>4. \A b \in LenBytes : MetadataSize(b) \in UInt16
  BY PlaybackAssumption DEF PlaybackAssumption
<1>5. \A c \in FillCodes : FailedSize(c) \in UInt16 \ {0}
  BY DEF FillCodes, FailedSize, U16, UInt16, ERRNO_ERROR, RECEIVED_SIGNAL, TIMEOUT,
         UNKNOWN_ERROR
<1> QED
  BY <1>2, <1>3, <1>4, <1>5

-----------------------------------------------------------------------------
(***************************************************************************)
(* The invariant.                                                          *)
(***************************************************************************)
\* A copy that has begun has something to pass on, in audio no more than a chunk.
CopyHasWork ==
  pc = "copy" => /\ len > 0
                 /\ state = "AUDIO_STATE" => to_read > 0 /\ len <= ChunkLen(to_read)

PlaybackInv == TypeOK /\ BufferIsBody /\ CopyHasWork

\* What the loop is left with when a copy or the reading of the length byte begins: n bytes
\* in the buffer, from p on.
Ready(n, p) ==
  /\ state' \in {"AUDIO_STATE", "META_STATE"} /\ pc' \in {"copy", "size"}
  /\ to_read' \in 0..AudioQuota /\ len' \in UInt16
  /\ left' \in 0..n /\ ptr' \in 0..BufSize
  /\ pc' = "copy" => /\ len' > 0 /\ left' = Least(len', n) /\ ptr' = p
                     /\ state' = "AUDIO_STATE" => to_read' > 0 /\ len' <= ChunkLen(to_read')

LEMMA BeginAudioReady ==
  ASSUME metaint \in Metaints, NEW n \in Nat, NEW p \in 0..BufSize,
         NEW a \in 1..AudioQuota, BeginAudio(a, n, p)
  PROVE  Ready(n, p)
<1>1. /\ AudioQuota \in Nat \ {0} /\ a \in Nat \ {0} /\ a <= AudioQuota
      /\ ChunkLen(a) \in UInt16 \ {0} /\ ChunkLen(a) \in Nat
  BY LengthTypes DEF UInt16
<1>2. /\ state' = "AUDIO_STATE" /\ pc' = "copy" /\ to_read' = a
      /\ len' = ChunkLen(a) /\ left' = Least(ChunkLen(a), n) /\ ptr' = p
  BY DEF BeginAudio, BeginCopy
<1>3. left' \in 0..n
  BY <1>1, <1>2, LeastType
<1>4. len' > 0 /\ len' <= ChunkLen(to_read')
  BY <1>1, <1>2
<1> QED
  BY <1>1, <1>2, <1>3, <1>4 DEF Ready

LEMMA BeginMetadataReady ==
  ASSUME metaint \in Metaints, NEW n \in Nat, NEW p \in 0..BufSize,
         NEW m \in UInt16 \ {0}, BeginMetadata(m, n, p)
  PROVE  Ready(n, p)
<1>1. AudioQuota \in Nat \ {0} /\ m \in Nat /\ m > 0
  BY LengthTypes DEF UInt16
<1>2. /\ state' = "META_STATE" /\ pc' = "copy" /\ to_read' = 0
      /\ len' = m /\ left' = Least(m, n) /\ ptr' = p
  BY DEF BeginMetadata, BeginCopy
<1>3. left' \in 0..n
  BY <1>1, <1>2, LeastType
<1> QED
  BY <1>1, <1>2, <1>3 DEF Ready

LEMMA FinishCopyReady ==
  ASSUME metaint \in Metaints, to_read \in 0..AudioQuota, NEW n \in Nat, NEW p \in 0..BufSize,
         FinishCopy(n, p)
  PROVE  Ready(n, p)
<1>1. AudioQuota \in Nat \ {0}
  BY LengthTypes
<1>2. CASE to_read > ChunkLen(to_read) /\ BeginAudio(to_read - ChunkLen(to_read), n, p)
  <2>1. to_read \in Nat /\ to_read <= AudioQuota
    BY <1>1
  <2>2. ChunkSize \in Nat /\ ChunkSize > 0
    BY PlaybackAssumption DEF PlaybackAssumption, UInt16
  <2>3. ChunkLen(to_read) \in Nat
    BY <2>1, <2>2 DEF ChunkLen, Least
  <2>4. to_read - ChunkLen(to_read) \in 1..AudioQuota
    BY <1>1, <1>2, <2>1, <2>3
  <2> QED
    BY <1>2, <2>4, BeginAudioReady
<1>3. CASE BeginSize
  <2>1. BufSize \in Nat
    BY PlaybackAssumption DEF PlaybackAssumption
  <2> QED
    BY <1>1, <1>3, <2>1 DEF BeginSize, Ready, UInt16
<1>4. CASE BeginAudio(AudioQuota, n, p)
  <2>1. AudioQuota \in 1..AudioQuota
    BY <1>1
  <2> QED
    BY <1>4, <2>1, BeginAudioReady
<1> QED
  BY <1>2, <1>3, <1>4 DEF FinishCopy

-----------------------------------------------------------------------------
(***************************************************************************)
(* The initial states, and the steps action by action.                     *)
(***************************************************************************)
\* What the steps use of the invariant, with the bounds as numbers.
LEMMA InvFacts ==
  ASSUME PlaybackInv
  PROVE  /\ BufSize \in Nat \ {0} /\ MaxBytes \in Nat /\ MaxErrors \in Nat
         /\ AudioQuota \in Nat \ {0} /\ metaint \in Metaints
         /\ position \in Nat /\ read_cnt \in Nat /\ received \in Nat /\ errors \in Nat
         /\ len \in Nat /\ left \in Nat /\ ptr \in Int /\ to_read \in Nat
         /\ position + read_cnt <= BufSize
         /\ Piece \in Nat /\ Piece <= len /\ Piece <= read_cnt
<1>1. /\ BufSize \in Nat \ {0} /\ MaxBytes \in Nat /\ MaxErrors \in Nat
      /\ AudioQuota \in Nat \ {0} /\ metaint \in Metaints
  BY LengthTypes, PlaybackAssumption DEF PlaybackAssumption, PlaybackInv, TypeOK
<1>2. /\ position \in Nat /\ read_cnt \in Nat /\ received \in Nat /\ errors \in Nat
      /\ len \in Nat /\ to_read \in Nat
  BY <1>1 DEF PlaybackInv, TypeOK, UInt16
<1>3. left \in Nat /\ ptr \in Int
  BY <1>1, <1>2 DEF PlaybackInv, TypeOK
<1>4. Piece \in Nat /\ Piece <= len /\ Piece <= read_cnt
  BY <1>2, LeastType DEF Piece
<1> QED
  BY <1>1, <1>2, <1>3, <1>4 DEF PlaybackInv, BufferIsBody

\* What a step has to leave of the stream.
StreamNext ==
  /\ UNCHANGED metaint
  /\ interrupted' \in BOOLEAN /\ eot' \in BOOLEAN
  /\ buff' \in [Slots -> 0..MaxBytes]
  /\ position' \in 0..BufSize /\ read_cnt' \in 0..BufSize /\ received' \in 0..MaxBytes
  /\ errors' \in 0..MaxErrors
  /\ position' + read_cnt' <= BufSize
  /\ \A k \in 1..read_cnt' : buff'[position' + k - 1] = received' - read_cnt' + k

\* A piece that has begun is a piece that writen is at the beginning of.
LEMMA ReadyInv ==
  ASSUME PlaybackInv, StreamNext, Ready(read_cnt', position')
  PROVE  PlaybackInv'
<1>1. BufSize \in Nat \ {0} /\ MaxErrors \in Nat /\ metaint' \in Metaints
      /\ AudioQuota' = AudioQuota
  BY InvFacts DEF StreamNext, AudioQuota
<1>2. errors' \in Nat /\ read_cnt' \in Nat /\ read_cnt' <= BufSize /\ position' \in Nat
  BY <1>1 DEF StreamNext
<1>3. left' \in 0..(BufSize + errors') /\ ptr' \in (-errors')..BufSize
  <2>1. left' \in 0..read_cnt' /\ ptr' \in 0..BufSize
    BY DEF Ready
  <2>2. ASSUME NEW e \in Nat, NEW c \in Nat, c <= BufSize
        PROVE  /\ \A i \in 0..c : i \in 0..(BufSize + e)
               /\ \A i \in 0..BufSize : i \in (-e)..BufSize
    BY ONLY <1>1, <2>2
  <2> QED
    BY ONLY <1>2, <2>1, <2>2
<1>4. TypeOK'
  BY <1>1, <1>3 DEF Ready, StreamNext, TypeOK
<1>5. CopyHasWork'
  BY DEF Ready, CopyHasWork, ChunkLen, Least
<1>6. ASSUME Writing'
      PROVE  ptr' + left' = position' + Piece' /\ left' > 0 /\ ptr' >= position'
  <2>1. pc' = "copy" /\ read_cnt' > 0
    BY <1>6 DEF Writing
  <2>2. len' \in Nat /\ len' > 0 /\ left' = Least(len', read_cnt') /\ ptr' = position'
    BY <2>1 DEF Ready, UInt16
  <2>3. Piece' = left'
    BY <2>2 DEF Piece, Least
  <2>4. left' \in Nat /\ left' > 0
    BY <1>2, <2>1, <2>2, LeastType
  <2> QED
    BY <1>2, <2>2, <2>3, <2>4
<1>7. BufferIsBody'
  BY <1>6 DEF StreamNext, BufferIsBody
<1> QED
  BY <1>4, <1>5, <1>7 DEF PlaybackInv

LEMMA InvInit == Init => PlaybackInv
<1> SUFFICES ASSUME Init PROVE PlaybackInv
  OBVIOUS
<1>1. /\ BufSize \in Nat \ {0} /\ MaxBytes \in Nat /\ MaxErrors \in Nat /\ metaint \in Metaints
      /\ AudioQuota \in Nat \ {0}
      /\ ChunkLen(AudioQuota) \in UInt16 \ {0} /\ ChunkLen(AudioQuota) \in Nat
  <2>1. metaint \in Metaints
    BY DEF Init
  <2> QED
    BY <2>1, LengthTypes, PlaybackAssumption DEF PlaybackAssumption, UInt16
<1>2. /\ received \in Nat /\ received <= BufSize /\ received <= MaxBytes /\ read_cnt = received
      /\ position \in Nat /\ position + received <= BufSize
  <2>1. received \in 0..Least(BufSize, MaxBytes)
    BY DEF Init
  <2>2. received \in Nat /\ received <= BufSize /\ received <= MaxBytes
    <3>1. /\ Least(BufSize, MaxBytes) \in Nat
          /\ Least(BufSize, MaxBytes) <= BufSize /\ Least(BufSize, MaxBytes) <= MaxBytes
      BY <1>1, LeastType
    <3> QED
      BY ONLY <1>1, <2>1, <3>1
  <2>3. position \in 0..(BufSize - received) /\ read_cnt = received
    BY DEF Init
  <2>4. BufSize - received \in Nat
    BY ONLY <1>1, <2>2
  <2>5. position \in Nat /\ position <= BufSize - received
    BY ONLY <2>3, <2>4
  <2>6. position + received <= BufSize
    BY ONLY <1>1, <2>2, <2>5
  <2> QED
    BY ONLY <2>2, <2>3, <2>5, <2>6
<1>3. /\ to_read = AudioQuota /\ len = ChunkLen(AudioQuota) /\ left = Least(len, received)
      /\ ptr = position /\ state = "AUDIO_STATE" /\ pc = "copy" /\ errors = 0
      /\ buff = [i \in Slots |-> IF i \in position..(position + received - 1)
                                   THEN i - position + 1 ELSE 0]
      /\ interrupted \in BOOLEAN /\ eot \in BOOLEAN
  BY DEF Init
<1>4. left \in Nat /\ left <= received /\ (received > 0 => left > 0)
  BY <1>1, <1>2, <1>3, LeastType
<1>5. buff \in [Slots -> 0..MaxBytes]
  BY <1>1, <1>2, <1>3 DEF Slots
<1>6. TypeOK
  <2>1. /\ left \in 0..(BufSize + errors) /\ ptr \in (-errors)..BufSize
        /\ position \in 0..BufSize /\ read_cnt \in 0..BufSize /\ received \in 0..MaxBytes
        /\ errors \in 0..MaxErrors /\ to_read \in 0..AudioQuota
    BY <1>1, <1>2, <1>3, <1>4
  <2> QED
    BY <1>1, <1>3, <1>5, <2>1 DEF TypeOK
<1>7. BufferIsBody
  <2>1. ASSUME NEW k \in 1..read_cnt
        PROVE  buff[position + k - 1] = received - read_cnt + k
    BY <1>1, <1>2, <1>3, <2>1 DEF Slots
  <2>2. Piece = left
    BY <1>2, <1>3 DEF Piece
  <2> QED
    BY <1>2, <1>3, <1>4, <2>1, <2>2 DEF BufferIsBody, Writing
<1>8. CopyHasWork
  BY <1>1, <1>3 DEF CopyHasWork
<1> QED
  BY <1>6, <1>7, <1>8 DEF PlaybackInv

\* The new bytes are the next ones of the body.
LEMMA FillDataInv ==
  ASSUME PlaybackInv, NEW n \in 1..BufSize, FillData(n)
  PROVE  PlaybackInv' /\ (pc = "copy" => Ready(read_cnt', position'))
<1>1. /\ BufSize \in Nat \ {0} /\ MaxBytes \in Nat /\ received \in Nat /\ n \in Nat /\ n > 0
      /\ n <= BufSize /\ received + n <= MaxBytes
  BY InvFacts DEF FillData
<1>2. /\ buff' = [i \in Slots |-> IF i < n THEN received + i + 1 ELSE buff[i]]
      /\ position' = 0 /\ read_cnt' = n /\ received' = received + n
      /\ UNCHANGED <<metaint, interrupted, state, pc, to_read, eot, errors>>
  BY DEF FillData, outputs
<1>3. buff' \in [Slots -> 0..MaxBytes]
  <2>1. buff \in [Slots -> 0..MaxBytes]
    BY DEF PlaybackInv, TypeOK
  <2> QED
    BY <1>1, <1>2, <2>1 DEF Slots
<1>4. \A k \in 1..read_cnt' : buff'[position' + k - 1] = received' - read_cnt' + k
  BY <1>1, <1>2 DEF Slots
<1>5. StreamNext
  BY <1>1, <1>2, <1>3, <1>4 DEF StreamNext, PlaybackInv, TypeOK
<1>6. CASE pc = "copy"
  <2>1. len' = len /\ left' = Least(len, n) /\ ptr' = 0
    BY <1>6 DEF FillData, BeginCopy
  <2>2. left' \in 0..n
    BY <1>1, <2>1, InvFacts, LeastType
  <2>3. ptr' \in 0..BufSize
    BY <1>1, <2>1
  <2>4. Ready(n, 0)
    BY <1>2, <1>6, <2>1, <2>2, <2>3 DEF Ready, PlaybackInv, TypeOK, CopyHasWork
  <2> QED
    BY <1>2, <1>5, <1>6, <2>4, ReadyInv
<1>7. CASE pc # "copy"
  <2>1. UNCHANGED <<len, left, ptr>>
    BY <1>7 DEF FillData
  <2>2. TypeOK'
    BY <1>2, <1>5, <2>1 DEF StreamNext, PlaybackInv, TypeOK, AudioQuota
  <2> QED
    BY <1>2, <1>5, <1>7, <2>2
       DEF StreamNext, PlaybackInv, BufferIsBody, Writing, CopyHasWork
<1> QED
  BY <1>6, <1>7

\* Without new data, or once the process is gone, nothing moves.
LEMMA EndInv ==
  ASSUME PlaybackInv, pc' \in {"done", "killed"}, eot' \in BOOLEAN,
         UNCHANGED <<metaint, interrupted, state, to_read, len, left, ptr, buff, position,
                     read_cnt, received, errors>>
  PROVE  PlaybackInv'
<1>1. TypeOK'
  BY DEF PlaybackInv, TypeOK, AudioQuota
<1> QED
  BY <1>1 DEF PlaybackInv, BufferIsBody, Writing, CopyHasWork

LEMMA FillFailsAtSizeInv ==
  ASSUME PlaybackInv, FillFailsAtSize
  PROVE  PlaybackInv' /\ Ready(read_cnt', position')
<1>1. PICK code \in FillCodes :
        eot' = (code = 0) /\ BeginMetadata(FailedSize(code), read_cnt, position)
  BY DEF FillFailsAtSize
<1>2. UNCHANGED <<metaint, interrupted, buff, position, read_cnt, received, errors>>
  BY DEF FillFailsAtSize, outputs
<1>3. FailedSize(code) \in UInt16 \ {0}
  BY LengthTypes, InvFacts
<1>4. read_cnt \in Nat /\ position \in 0..BufSize
  BY InvFacts DEF PlaybackInv, TypeOK
<1>5. Ready(read_cnt, position)
  BY <1>1, <1>3, <1>4, InvFacts, BeginMetadataReady
<1>6. eot' \in BOOLEAN
  BY <1>1, Zenon
<1>7. StreamNext
  BY <1>2, <1>6 DEF StreamNext, PlaybackInv, TypeOK, BufferIsBody
<1> QED
  BY <1>2, <1>5, <1>7, ReadyInv

LEMMA TakeSizeInv ==
  ASSUME PlaybackInv, NEW b \in LenBytes, TakeSize(b)
  PROVE  PlaybackInv' /\ Ready(read_cnt', position')
<1>1. /\ read_cnt > 0 /\ read_cnt' = read_cnt - 1 /\ position' = position + 1
      /\ UNCHANGED <<metaint, interrupted, buff, eot, received, errors>>
  BY DEF TakeSize, HasByte, outputs
<1>2. /\ BufSize \in Nat /\ position \in Nat /\ read_cnt \in Nat /\ received \in Nat
      /\ position + read_cnt <= BufSize /\ AudioQuota \in Nat \ {0} /\ metaint \in Metaints
  BY InvFacts
<1>3. read_cnt' \in Nat /\ position' \in 0..BufSize /\ read_cnt' \in 0..BufSize
      /\ position' + read_cnt' <= BufSize
  BY ONLY <1>1, <1>2
<1>4. \A k \in 1..read_cnt' : buff'[position' + k - 1] = received' - read_cnt' + k
  <2> SUFFICES ASSUME NEW k \in 1..read_cnt'
               PROVE  buff'[position' + k - 1] = received' - read_cnt' + k
    OBVIOUS
  <2>1. /\ k + 1 \in 1..read_cnt /\ position' + k - 1 = position + (k + 1) - 1
        /\ received' - read_cnt' + k = received - read_cnt + (k + 1)
    BY <1>1, <1>2
  <2>2. buff[position + (k + 1) - 1] = received - read_cnt + (k + 1)
    BY <2>1 DEF PlaybackInv, BufferIsBody
  <2> QED
    BY ONLY <1>1, <2>1, <2>2
<1>5. StreamNext
  BY <1>1, <1>3, <1>4 DEF StreamNext, PlaybackInv, TypeOK
<1>6. CASE BeginAudio(AudioQuota, read_cnt', position')
  <2>1. AudioQuota \in 1..AudioQuota
    BY <1>2
  <2> QED
    BY <1>2, <1>3, <1>5, <1>6, <2>1, BeginAudioReady, ReadyInv
<1>7. CASE MetadataSize(b) # 0 /\ BeginMetadata(MetadataSize(b), read_cnt', position')
  <2>1. MetadataSize(b) \in UInt16 \ {0}
    BY <1>2, <1>7, LengthTypes
  <2> QED
    BY <1>2, <1>3, <1>5, <1>7, <2>1, BeginMetadataReady, ReadyInv
<1> QED
  BY <1>6, <1>7 DEF TakeSize

\* All of the piece is written: the buffer begins behind it.
LEMMA AfterPieceInv ==
  ASSUME PlaybackInv, Writing, AfterPiece,
         UNCHANGED <<metaint, interrupted, buff, eot, received, errors>>
  PROVE  PlaybackInv' /\ Ready(read_cnt', position')
<1>1. /\ BufSize \in Nat /\ position \in Nat /\ read_cnt \in Nat /\ received \in Nat
      /\ position + read_cnt <= BufSize /\ len \in Nat /\ metaint \in Metaints
      /\ Piece \in Nat /\ Piece <= len /\ Piece <= read_cnt
  BY InvFacts
<1>2. position' = position + Piece /\ read_cnt' = read_cnt - Piece
  BY DEF AfterPiece
<1>3. read_cnt' \in Nat /\ position' \in 0..BufSize /\ read_cnt' \in 0..BufSize
      /\ position' + read_cnt' <= BufSize
  BY ONLY <1>1, <1>2
<1>4. \A k \in 1..read_cnt' : buff'[position' + k - 1] = received' - read_cnt' + k
  <2> SUFFICES ASSUME NEW k \in 1..read_cnt'
               PROVE  buff'[position' + k - 1] = received' - read_cnt' + k
    OBVIOUS
  <2>1. /\ k + Piece \in 1..read_cnt /\ position' + k - 1 = position + (k + Piece) - 1
        /\ received' - read_cnt' + k = received - read_cnt + (k + Piece)
    BY <1>1, <1>2
  <2>2. buff[position + (k + Piece) - 1] = received - read_cnt + (k + Piece)
    BY <2>1 DEF PlaybackInv, BufferIsBody
  <2>3. buff' = buff
    OBVIOUS
  <2> QED
    BY ONLY <2>1, <2>2, <2>3
<1>5. StreamNext
  BY <1>1, <1>3, <1>4 DEF StreamNext, PlaybackInv, TypeOK
<1>6. CASE len > Piece /\ BeginCopy(len - Piece, read_cnt', position')
           /\ UNCHANGED <<state, pc, to_read>>
  <2>1. len' = len - Piece /\ left' = Least(len', read_cnt') /\ ptr' = position'
    BY <1>6 DEF BeginCopy
  <2>2. len' \in Nat /\ len' > 0 /\ len' <= len
    BY ONLY <1>1, <1>6, <2>1
  <2>3. left' \in 0..read_cnt'
    BY <1>3, <2>1, <2>2, LeastType
  <2>4. len' \in UInt16
    BY <2>2 DEF UInt16, PlaybackInv, TypeOK
  <2>5. pc = "copy"
    BY DEF Writing
  <2>6. state = "AUDIO_STATE" => to_read > 0 /\ len' <= ChunkLen(to_read)
    <3>1. ChunkLen(to_read) \in Int
      <4>1. ChunkSize \in Nat /\ to_read \in Nat
        BY InvFacts, PlaybackAssumption DEF PlaybackAssumption, UInt16
      <4> QED
        BY <4>1 DEF ChunkLen, Least
    <3> QED
      BY <1>1, <2>2, <2>5, <3>1 DEF PlaybackInv, CopyHasWork
  <2>7. ptr' \in 0..BufSize
    BY <1>3, <2>1
  <2>8. to_read' = to_read /\ state' = state /\ pc' = pc
    BY <1>6
  <2>9. Ready(read_cnt', position')
    BY <2>1, <2>2, <2>3, <2>4, <2>5, <2>6, <2>7, <2>8 DEF Ready, PlaybackInv, TypeOK
  <2> QED
    BY <1>5, <2>9, ReadyInv
<1>7. CASE FinishCopy(read_cnt', position')
  <2>1. to_read \in 0..AudioQuota
    BY DEF PlaybackInv, TypeOK
  <2> QED
    BY <1>1, <1>3, <1>5, <1>7, <2>1, FinishCopyReady, ReadyInv
<1> QED
  BY <1>6, <1>7 DEF AfterPiece

\* A part of the piece is written: writen still ends where the piece ends.
LEMMA PartWrittenInv ==
  ASSUME PlaybackInv, Writing, NEW w \in Nat, w < left,
         left' = left - w, ptr' = ptr + w,
         UNCHANGED <<metaint, interrupted, state, pc, to_read, len, buff, position, read_cnt,
                     eot, received, errors>>
  PROVE  PlaybackInv'
<1>1. /\ BufSize \in Nat /\ position \in Nat /\ read_cnt \in Nat /\ errors \in Nat
      /\ position + read_cnt <= BufSize /\ left \in Nat /\ ptr \in Int
      /\ Piece \in Nat /\ Piece <= read_cnt
  BY InvFacts
<1>2. ptr + left = position + Piece /\ left > 0 /\ (errors = 0 => ptr >= position)
  BY DEF PlaybackInv, BufferIsBody
<1>3. left \in 0..(BufSize + errors) /\ ptr \in (-errors)..BufSize
  BY DEF PlaybackInv, TypeOK
<1>4. left' \in 0..(BufSize + errors)
  BY ONLY <1>1, <1>3, w \in Nat, w < left, left' = left - w
<1>5. ptr' \in (-errors)..BufSize
  <2>1. ptr' <= BufSize
    BY ONLY <1>1, <1>2, w \in Nat, w < left, ptr' = ptr + w
  <2>2. -errors <= ptr
    BY ONLY <1>1, <1>3
  <2> QED
    BY ONLY <1>1, <2>1, <2>2, w \in Nat, ptr' = ptr + w
<1>6. TypeOK'
  BY <1>4, <1>5 DEF PlaybackInv, TypeOK, AudioQuota
<1>7. /\ ptr' + left' = position + Piece /\ left' > 0
      /\ (errors = 0 => ptr' >= position)
  BY ONLY <1>1, <1>2, w \in Nat, w < left, ptr' = ptr + w, left' = left - w
<1>8. Piece' = Piece
  BY DEF Piece
<1> QED
  BY <1>6, <1>7, <1>8 DEF PlaybackInv, BufferIsBody, Writing, CopyHasWork

LEMMA WriteInv ==
  ASSUME PlaybackInv, NEW w \in 1..(BufSize + MaxErrors), Write(w)
  PROVE  PlaybackInv'
<1>1. BufSize \in Nat /\ MaxErrors \in Nat /\ left \in Nat
  BY InvFacts
<1>2. w \in Nat /\ w <= left
  BY <1>1 DEF Write
<1>3. Writing /\ UNCHANGED <<metaint, interrupted, buff, eot, received, errors>>
  BY DEF Write
<1>4. CASE w = left
  BY <1>3, <1>4, AfterPieceInv DEF Write
<1>5. CASE w # left
  <2>1. /\ left' = left - w /\ ptr' = ptr + w
        /\ UNCHANGED <<state, pc, to_read, len, position, read_cnt>>
    BY <1>5 DEF Write, Onward
  <2>2. w < left
    BY ONLY <1>1, <1>2, <1>5
  <2> QED
    BY <1>2, <1>3, <2>1, <2>2, PartWrittenInv
<1> QED
  BY <1>4, <1>5

\* What is counted as -1 bytes written moves both ends of what is left, and one failure more
\* is allowed for.
LEMMA WriteFailsInv ==
  ASSUME PlaybackInv, WriteFails
  PROVE  PlaybackInv'
<1>1. /\ BufSize \in Nat /\ MaxErrors \in Nat /\ errors \in Nat /\ left \in Nat /\ ptr \in Int
      /\ position \in Nat /\ Piece \in Nat
  BY InvFacts
<1>2. /\ Writing /\ errors < MaxErrors /\ errors' = errors + 1
      /\ left' = left + 1 /\ ptr' = ptr - 1
      /\ UNCHANGED <<metaint, interrupted, state, pc, to_read, len, buff, position, read_cnt,
                     eot, received>>
  BY DEF WriteFails, streamVars
<1>3. /\ left \in 0..(BufSize + errors) /\ ptr \in (-errors)..BufSize
      /\ ptr + left = position + Piece /\ left > 0
  BY <1>2 DEF PlaybackInv, TypeOK, BufferIsBody
<1>4. errors' \in 0..MaxErrors
  BY ONLY <1>1, <1>2
<1>5. left' \in 0..(BufSize + errors')
  BY ONLY <1>1, <1>2, <1>3
<1>6. ptr' \in (-errors')..BufSize
  BY ONLY <1>1, <1>2, <1>3
<1>7. TypeOK'
  BY <1>2, <1>4, <1>5, <1>6 DEF PlaybackInv, TypeOK, AudioQuota
<1>8. ptr' + left' = position + Piece /\ left' > 0 /\ errors' # 0
  BY ONLY <1>1, <1>2, <1>3
<1>9. Piece' = Piece
  BY <1>2 DEF Piece
<1> QED
  BY <1>2, <1>7, <1>8, <1>9 DEF PlaybackInv, BufferIsBody, Writing, CopyHasWork

\* Every step keeps the invariant.
LEMMA InvNext == PlaybackInv /\ [Next]_vars => PlaybackInv'
<1> SUFFICES ASSUME PlaybackInv, [Next]_vars PROVE PlaybackInv'
  OBVIOUS
<1>1. ASSUME NEW n \in 1..BufSize, FillData(n) PROVE PlaybackInv'
  BY <1>1, FillDataInv
<1>2. CASE FillFailsInCopy
  <2>1. eot' \in BOOLEAN
    <3>1. PICK code \in FillCodes : eot' = (code = 0)
      BY <1>2 DEF FillFailsInCopy
    <3> QED
      BY <3>1, Zenon
  <2> QED
    BY <1>2, <2>1, EndInv DEF FillFailsInCopy, EndLoop, outputs
<1>3. CASE FillFailsAtSize
  BY <1>3, FillFailsAtSizeInv
<1>4. ASSUME NEW b \in LenBytes, TakeSize(b) PROVE PlaybackInv'
  BY <1>4, TakeSizeInv
<1>5. ASSUME NEW w \in 1..(BufSize + MaxErrors), Write(w) PROVE PlaybackInv'
  BY <1>5, WriteInv
<1>6. CASE WriteFails
  BY <1>6, WriteFailsInv
<1>7. CASE WriteInterrupted \/ ReaderGone
  <2>1. eot' \in BOOLEAN
    BY <1>7 DEF WriteInterrupted, ReaderGone, streamVars, PlaybackInv, TypeOK
  <2> QED
    BY <1>7, <2>1, EndInv DEF WriteInterrupted, ReaderGone, EndLoop, streamVars, outputs
<1>8. CASE Interrupt
  BY <1>8 DEF Interrupt, loopVars, streamVars, outputs, PlaybackInv, TypeOK, AudioQuota,
              BufferIsBody, Writing, Piece, CopyHasWork
<1>9. CASE UNCHANGED vars
  BY <1>9 DEF vars, loopVars, streamVars, outputs, PlaybackInv, TypeOK, AudioQuota,
              BufferIsBody, Writing, Piece, CopyHasWork
<1> QED
  BY <1>1, <1>2, <1>3, <1>4, <1>5, <1>6, <1>7, <1>8, <1>9 DEF Next, Play

(***************************************************************************)
(* The counters of readto and writen stay in their types, the negative     *)
(* codes that become lengths among them, and what is left to write exceeds *)
(* the buffer by no more than the writes that failed.                      *)
(***************************************************************************)
THEOREM PlaybackTypes == Spec => []TypeOK
<1>1. PlaybackInv => TypeOK
  BY DEF PlaybackInv
<1> QED
  BY <1>1, InvInit, InvNext, PTL DEF Spec

(***************************************************************************)
(* The buffer holds the next bytes of the body, and writen ends where its  *)
(* piece ends, through every partial and every failing write.              *)
(***************************************************************************)
THEOREM BufferHoldsBody == Spec => []BufferIsBody
<1>1. PlaybackInv => BufferIsBody
  BY DEF PlaybackInv
<1> QED
  BY <1>1, InvInit, InvNext, PTL DEF Spec

-----------------------------------------------------------------------------
(***************************************************************************)
(* The refinement of Split.                                                *)
(***************************************************************************)
\* writen is at the beginning of a piece: nothing of it is written.
LEMMA ReadyWritten ==
  ASSUME Ready(read_cnt', position'), read_cnt' \in Nat
  PROVE  Written' = 0
<1>1. CASE pc' = "copy"
  <2>1. Piece' = left' /\ left' \in Nat
    BY <1>1 DEF Ready, Piece, Least
  <2>2. \A m, n \in Nat : m = n => m - n = 0
    OBVIOUS
  <2>3. Piece' \in Nat
    BY <2>1, Zenon
  <2>4. Piece' - left' = 0
    BY ONLY <2>1, <2>2, <2>3, Zenon
  <2> QED
    BY <2>4, Zenon DEF Written
<1>2. CASE pc' = "size"
  BY <1>2 DEF Written
<1> QED
  BY <1>1, <1>2 DEF Ready

\* The same before a step.
LEMMA WrittenType ==
  ASSUME PlaybackInv, Writing, errors = 0
  PROVE  /\ Written = Piece - left /\ Written \in Nat /\ ptr = position + Written
         /\ left \in Nat /\ left > 0
<1>1. position \in Nat /\ left \in Nat /\ ptr \in Int /\ Piece \in Nat
  BY InvFacts
<1>2. ptr + left = position + Piece /\ left > 0 /\ ptr >= position
  BY DEF PlaybackInv, BufferIsBody
<1>3. Written = Piece - left
  BY DEF Writing, Written
<1> QED
  BY ONLY <1>1, <1>2, <1>3

\* What is written are the next bytes of the body.
LEMMA BytesWritten ==
  ASSUME PlaybackInv, Writing, errors = 0, NEW w \in Nat, w <= left
  PROVE  [k \in 1..w |-> Byte(ptr + k - 1)] = Promise!Bytes(w)
<1>1. /\ position \in Nat /\ read_cnt \in Nat /\ received \in Nat /\ BufSize \in Nat
      /\ position + read_cnt <= BufSize /\ Piece \in Nat /\ Piece <= read_cnt
  BY InvFacts
<1>2. /\ Written = Piece - left /\ Written \in Nat /\ ptr = position + Written
      /\ left \in Nat /\ Taken = received - read_cnt + Written
  BY WrittenType DEF Taken
<1>3. ASSUME NEW k \in 1..w
      PROVE  Byte(ptr + k - 1) = Taken + k
  <2>1. /\ Written + k \in 1..read_cnt /\ ptr + k - 1 = position + (Written + k) - 1
        /\ ptr + k - 1 \in Slots /\ received - read_cnt + (Written + k) = Taken + k
    BY <1>1, <1>2 DEF Slots
  <2>2. buff[position + (Written + k) - 1] = received - read_cnt + (Written + k)
    BY <2>1 DEF PlaybackInv, BufferIsBody
  <2>3. Byte(ptr + k - 1) = buff[ptr + k - 1]
    BY <2>1 DEF Byte
  <2> QED
    BY ONLY <2>1, <2>2, <2>3
<1> QED
  BY <1>3 DEF Promise!Bytes

\* What writing w bytes does to the place in the stream.
Advances(w) ==
  /\ Kind \in {"AUDIO", "METADATA"}
  /\ Taken' = Taken + w
  /\ Kind = "AUDIO" /\ metaint = 0 => Kind' = "AUDIO" /\ Quota' = 0
  /\ Kind = "AUDIO" /\ metaint > 0 =>
       /\ w <= Quota /\ Quota' = Quota - w
       /\ Kind' = IF w = Quota THEN "SIZE" ELSE "AUDIO"
  /\ Kind = "METADATA" =>
       /\ w <= Quota
       /\ Kind'  = IF w = Quota THEN "AUDIO" ELSE "METADATA"
       /\ Quota' = IF w = Quota THEN metaint ELSE Quota - w

\* Numbers of a copy: the audio that comes after the chunk, and the chunk.
LEMMA CopyFacts ==
  ASSUME PlaybackInv, Writing
  PROVE  /\ to_read \in Nat /\ len \in Nat /\ len > 0 /\ metaint \in Nat
         /\ state \in {"AUDIO_STATE", "META_STATE"} /\ pc = "copy"
         /\ ChunkLen(to_read) \in Nat /\ ChunkLen(to_read) <= to_read
<1>1. to_read \in Nat /\ len \in Nat /\ metaint \in Nat /\ ChunkSize \in Nat
  <2>1. Metaints \subseteq Nat /\ ChunkSize \in Nat
    BY PlaybackAssumption DEF PlaybackAssumption, UInt16
  <2> QED
    BY <2>1, InvFacts
<1>2. ChunkLen(to_read) \in Nat /\ ChunkLen(to_read) <= to_read
  BY <1>1 DEF ChunkLen, Least
<1> QED
  BY <1>1, <1>2 DEF PlaybackInv, TypeOK, CopyHasWork, Writing

LEMMA PartAdvances ==
  ASSUME PlaybackInv, Writing, errors = 0, NEW w \in Nat, w < left, left' = left - w,
         UNCHANGED <<metaint, state, pc, to_read, len, read_cnt, received>>
  PROVE  Advances(w)
<1>1. /\ read_cnt \in Nat /\ received \in Nat /\ Piece \in Nat /\ Piece <= len
  BY InvFacts
<1>2. /\ to_read \in Nat /\ len \in Nat /\ metaint \in Nat
      /\ state \in {"AUDIO_STATE", "META_STATE"} /\ pc = "copy"
      /\ ChunkLen(to_read) \in Nat /\ ChunkLen(to_read) <= to_read
  BY CopyFacts
<1>3. Written = Piece - left /\ left \in Nat
  BY WrittenType
<1>4. Writing' /\ Piece' = Piece /\ ChunkLen(to_read)' = ChunkLen(to_read)
  BY DEF Writing, Piece, ChunkLen
<1>5. Written' = Piece - left + w
  <2>1. Written' = Piece - (left - w)
    BY <1>4 DEF Written, Writing
  <2> QED
    BY ONLY <1>1, <1>3, <2>1, w \in Nat
<1>6. Taken' = Taken + w
  BY <1>1, <1>3, <1>5 DEF Taken
<1>7. CASE state = "AUDIO_STATE"
  <2>1. Kind = "AUDIO" /\ Kind' = "AUDIO"
    BY <1>2, <1>7 DEF Kind
  <2>2. /\ Quota  = IF metaint = 0 THEN 0 ELSE to_read - ChunkLen(to_read) + len - Written
        /\ Quota' = IF metaint = 0 THEN 0 ELSE to_read - ChunkLen(to_read) + len - Written'
    BY <1>4, <1>7 DEF Quota
  <2>3. metaint > 0 => w < Quota /\ Quota' = Quota - w
    BY ONLY <1>1, <1>2, <1>3, <1>5, <2>2, w \in Nat, w < left
  <2>4. metaint = 0 => Quota' = 0
    BY <2>2
  <2>5. metaint > 0 => w # Quota /\ w <= Quota
    BY <1>1, <1>2, <1>3, <2>2, <2>3
  <2> QED
    BY <1>6, <2>1, <2>3, <2>4, <2>5 DEF Advances
<1>8. CASE state = "META_STATE"
  <2>1. Kind = "METADATA" /\ Kind' = "METADATA"
    BY <1>2, <1>8 DEF Kind
  <2>2. Quota = len - Written /\ Quota' = len - Written'
    BY <1>8 DEF Quota
  <2>3. w <= Quota /\ w # Quota /\ Quota' = Quota - w
    BY ONLY <1>1, <1>2, <1>3, <1>5, <2>2, w \in Nat, w < left
  <2> QED
    BY <1>6, <2>1, <2>3 DEF Advances
<1> QED
  BY <1>2, <1>7, <1>8

LEMMA PieceAdvances ==
  ASSUME PlaybackInv, Writing, errors = 0, AfterPiece, Ready(read_cnt', position'),
         UNCHANGED <<metaint, received>>
  PROVE  Advances(left)
<1>1. /\ read_cnt \in Nat /\ received \in Nat /\ Piece \in Nat /\ Piece <= len
      /\ Piece <= read_cnt
  BY InvFacts
<1>2. /\ to_read \in Nat /\ len \in Nat /\ metaint \in Nat
      /\ state \in {"AUDIO_STATE", "META_STATE"} /\ pc = "copy"
      /\ ChunkLen(to_read) \in Nat /\ ChunkLen(to_read) <= to_read
  BY CopyFacts
<1>3. Written = Piece - left /\ left \in Nat /\ left > 0
  BY WrittenType
<1>4. read_cnt' = read_cnt - Piece /\ read_cnt' \in Nat
  BY <1>1 DEF AfterPiece
<1>5. Written' = 0
  BY <1>4, ReadyWritten
<1>6. Taken' = Taken + left
  <2>1. Taken' = received - (read_cnt - Piece) + 0 /\ Taken = received - read_cnt + (Piece - left)
    BY <1>3, <1>4, <1>5 DEF Taken
  <2> QED
    BY ONLY <1>1, <1>3, <2>1
<1>7. state = "AUDIO_STATE" =>
        /\ Kind = "AUDIO"
        /\ Quota = IF metaint = 0 THEN 0
                   ELSE to_read - ChunkLen(to_read) + len - (Piece - left)
  BY <1>2, <1>3 DEF Kind, Quota
<1>8. state = "META_STATE" => Kind = "METADATA" /\ Quota = len - (Piece - left)
  BY <1>2, <1>3 DEF Kind, Quota
<1>9. CASE len > Piece /\ UNCHANGED <<state, pc, to_read>> /\ len' = len - Piece
  <2>1. len' \in Nat /\ len' > 0
    BY ONLY <1>1, <1>2, <1>9
  <2>2. CASE state = "AUDIO_STATE"
    <3>1. Kind' = "AUDIO"
      BY <1>2, <1>9, <2>2 DEF Kind
    <3>2. ChunkLen(to_read)' = ChunkLen(to_read)
      BY <1>9 DEF ChunkLen
    <3>3. Quota' = IF metaint = 0 THEN 0 ELSE to_read - ChunkLen(to_read) + len' - 0
      BY <1>5, <1>9, <2>2, <3>2 DEF Quota
    <3>4. metaint > 0 => left <= Quota /\ left # Quota /\ Quota' = Quota - left
      BY ONLY <1>1, <1>2, <1>3, <1>7, <1>9, <2>2, <3>3
    <3> QED
      BY <1>6, <1>7, <2>2, <3>1, <3>3, <3>4 DEF Advances
  <2>3. CASE state = "META_STATE"
    <3>1. Kind' = "METADATA"
      BY <1>2, <1>9, <2>3 DEF Kind
    <3>2. Quota' = len' - 0
      BY <1>5, <1>9, <2>3 DEF Quota
    <3>3. left <= Quota /\ left # Quota /\ Quota' = Quota - left
      BY ONLY <1>1, <1>2, <1>3, <1>8, <1>9, <2>3, <3>2
    <3> QED
      BY <1>6, <1>8, <2>3, <3>1, <3>3 DEF Advances
  <2> QED
    BY <1>2, <2>2, <2>3
<1>10. CASE ~(len > Piece)
  <2>1. len = Piece
    BY ONLY <1>1, <1>2, <1>10
  <2>2. FinishCopy(read_cnt', position')
    BY <1>10 DEF AfterPiece
  <2>3. CASE /\ state = "AUDIO_STATE" /\ to_read > ChunkLen(to_read)
             /\ BeginAudio(to_read - ChunkLen(to_read), read_cnt', position')
    <3>1. /\ state' = "AUDIO_STATE" /\ pc' = "copy" /\ to_read' = to_read - ChunkLen(to_read)
          /\ len' = ChunkLen(to_read')
      BY <2>3 DEF BeginAudio, BeginCopy
    <3>2. Kind' = "AUDIO"
      BY <3>1 DEF Kind
    <3>3. Quota' = IF metaint = 0 THEN 0
                   ELSE to_read' - ChunkLen(to_read') + ChunkLen(to_read') - 0
      BY <1>5, <3>1 DEF Quota, ChunkLen
    <3>4. to_read' \in Nat /\ ChunkLen(to_read') \in Nat
      <4>1. to_read' \in Nat /\ ChunkSize \in Nat
        BY <1>2, <2>3, <3>1, PlaybackAssumption DEF PlaybackAssumption, UInt16
      <4> QED
        BY <4>1 DEF ChunkLen, Least
    <3>5. metaint > 0 => left <= Quota /\ left # Quota /\ Quota' = Quota - left
      BY ONLY <1>1, <1>2, <1>3, <1>7, <2>1, <2>3, <3>1, <3>3, <3>4
    <3> QED
      BY <1>6, <1>7, <2>3, <3>2, <3>3, <3>5 DEF Advances
  <2>4. CASE state = "AUDIO_STATE" /\ to_read = ChunkLen(to_read) /\ metaint > 0 /\ BeginSize
    <3>1. state' = "META_STATE" /\ pc' = "size" /\ len' = 0
      BY <2>4 DEF BeginSize
    <3>2. Kind' = "SIZE"
      BY <3>1 DEF Kind
    <3>3. Quota' = 0
      BY <1>5, <3>1 DEF Quota
    <3>4. left = Quota
      BY ONLY <1>1, <1>2, <1>3, <1>7, <2>1, <2>4
    <3>5. left <= Quota /\ Quota' = Quota - left
      BY ONLY <1>3, <3>3, <3>4
    <3> QED
      BY <1>6, <1>7, <2>4, <3>2, <3>4, <3>5 DEF Advances
  <2>5. CASE /\ state = "META_STATE" \/ (to_read = ChunkLen(to_read) /\ metaint = 0)
             /\ BeginAudio(AudioQuota, read_cnt', position')
    <3>1. state' = "AUDIO_STATE" /\ pc' = "copy" /\ to_read' = AudioQuota
          /\ len' = ChunkLen(to_read')
      BY <2>5 DEF BeginAudio, BeginCopy
    <3>2. Kind' = "AUDIO"
      BY <3>1 DEF Kind
    <3>3. Quota' = IF metaint = 0 THEN 0
                   ELSE to_read' - ChunkLen(to_read') + ChunkLen(to_read') - 0
      BY <1>5, <3>1 DEF Quota, ChunkLen
    <3>4. ChunkLen(to_read') \in Nat
      <4>1. to_read' \in Nat /\ ChunkSize \in Nat
        BY <3>1, InvFacts, PlaybackAssumption DEF PlaybackAssumption, UInt16
      <4> QED
        BY <4>1 DEF ChunkLen, Least
    <3>5. Quota' = metaint
      <4>1. metaint # 0 => to_read' = metaint
        BY <3>1 DEF AudioQuota
      <4> QED
        BY ONLY <1>2, <3>3, <3>4, <4>1
    <3>6. CASE state = "META_STATE"
      <4>1. left = Quota
        BY ONLY <1>1, <1>2, <1>3, <1>8, <2>1, <3>6
      <4>2. left <= Quota
        BY ONLY <1>3, <4>1
      <4> QED
        BY <1>6, <1>8, <3>2, <3>5, <3>6, <4>1, <4>2 DEF Advances
    <3>7. CASE state = "AUDIO_STATE"
      <4>1. metaint = 0
        BY <2>5, <3>7
      <4> QED
        BY <1>6, <1>7, <3>2, <3>5, <3>7, <4>1 DEF Advances
    <3> QED
      BY <1>2, <3>6, <3>7
  <2> QED
    BY <2>2, <2>3, <2>4, <2>5 DEF FinishCopy
<1> QED
  BY <1>9, <1>10 DEF AfterPiece, BeginCopy

\* The place in the stream, and what has been written.
Place == <<metaint, Taken, Kind, Quota, out, err, errors>>

LEMMA SplitInitMap == Init => Promise!SplitInit
<1> SUFFICES ASSUME Init PROVE Promise!SplitInit
  OBVIOUS
<1>1. /\ metaint \in Metaints /\ read_cnt = received /\ state = "AUDIO_STATE" /\ pc = "copy"
      /\ to_read = AudioQuota /\ len = ChunkLen(AudioQuota) /\ left = Least(len, received)
      /\ out = <<>> /\ err = <<>> /\ errors = 0
  BY DEF Init
<1>2. metaint \in Nat /\ received \in Nat /\ left \in Nat /\ ChunkLen(AudioQuota) \in Nat
  <2>1. PlaybackInv
    BY InvInit
  <2>2. metaint \in Nat /\ received \in Nat /\ left \in Nat /\ len \in Nat
    BY <2>1, InvFacts, PlaybackAssumption DEF PlaybackAssumption
  <2> QED
    BY <1>1, <2>2
<1>3. Written = 0
  <2>1. Piece = left
    BY <1>1 DEF Piece
  <2> QED
    BY <1>2, <2>1 DEF Written
<1>4. Taken = 0
  BY <1>1, <1>2, <1>3 DEF Taken
<1>5. Quota = metaint
  <2>1. Quota = IF metaint = 0 THEN 0
                ELSE AudioQuota - ChunkLen(AudioQuota) + ChunkLen(AudioQuota) - 0
    BY <1>1, <1>3 DEF Quota
  <2>2. metaint # 0 => AudioQuota = metaint
    BY DEF AudioQuota
  <2> QED
    BY ONLY <1>2, <2>1, <2>2
<1>6. Kind = "AUDIO"
  BY <1>1 DEF Kind
<1> QED
  BY <1>1, <1>4, <1>5, <1>6 DEF Promise!SplitInit

\* Writing passes bytes on.
LEMMA WritePasses ==
  ASSUME PlaybackInv, NEW w \in Nat, w > 0, Write(w), errors = 0
  PROVE  w \in 1..BufSize /\ (Promise!PassAudio(w) \/ Promise!PassMetadata(w))
<1>1. /\ Writing /\ w <= left
      /\ UNCHANGED <<metaint, interrupted, buff, eot, received, errors>>
      /\ Emit([k \in 1..w |-> Byte(ptr + k - 1)])
  BY DEF Write
<1>2. w \in 1..BufSize
  <2>1. left \in Nat /\ left <= BufSize /\ BufSize \in Nat
    BY InvFacts DEF PlaybackInv, TypeOK
  <2> QED
    BY ONLY <1>1, <2>1, w \in Nat, w > 0
<1>3. Advances(w)
  <2>1. CASE w = left
    BY <1>1, <2>1, AfterPieceInv, PieceAdvances DEF Write
  <2>2. CASE w # left
    <3>1. left' = left - w /\ UNCHANGED <<state, pc, to_read, len, position, read_cnt>>
      BY <2>2 DEF Write
    <3>2. w < left
      BY <1>1, <2>2, InvFacts
    <3> QED
      BY <1>1, <3>1, <3>2, PartAdvances
  <2> QED
    BY <2>1, <2>2
<1>4. Emit(Promise!Bytes(w))
  BY <1>1, BytesWritten
<1>5. (errors > 0) = FALSE /\ (errors' > 0) = FALSE
  BY <1>1
<1>6. CASE state = "AUDIO_STATE"
  <2>1. Kind = "AUDIO" /\ out' = out \o Promise!Bytes(w) /\ err' = err
    BY <1>1, <1>4, <1>6 DEF Kind, Emit, Writing
  <2>2. CASE metaint = 0
    <3>1. ~(metaint > 0)
      BY <2>2
    <3> QED
      BY <1>1, <1>2, <1>3, <1>5, <2>1, <2>2, <3>1 DEF Advances, Promise!PassAudio
  <2>3. CASE metaint > 0
    BY <1>1, <1>2, <1>3, <1>5, <2>1, <2>3 DEF Advances, Promise!PassAudio
  <2>4. metaint = 0 \/ metaint > 0
    <3>1. metaint \in Nat
      BY <1>1, CopyFacts
    <3> QED
      BY <3>1
  <2> QED
    BY <2>2, <2>3, <2>4
<1>7. CASE state = "META_STATE"
  <2>1. Kind = "METADATA" /\ err' = err \o Promise!Bytes(w) /\ out' = out
    BY <1>1, <1>4, <1>7 DEF Kind, Emit, Writing
  <2> QED
    BY <1>1, <1>2, <1>3, <1>5, <2>1 DEF Advances, Promise!PassMetadata
<1> QED
  BY <1>1, <1>6, <1>7, CopyFacts

\* The bytes that fill an empty buffer are not taken yet.
LEMMA FillKeepsPlace ==
  ASSUME PlaybackInv, NEW n \in 1..BufSize, FillData(n)
  PROVE  UNCHANGED Place
<1>1. /\ read_cnt = 0 /\ pc \in {"copy", "size"} /\ read_cnt' = n /\ received' = received + n
      /\ UNCHANGED <<metaint, state, pc, to_read, len, out, err, errors>>
  BY DEF FillData, NeedsData, outputs, BeginCopy
<1>2. received \in Nat /\ n \in Nat
  BY InvFacts
<1>3. Written = 0 /\ Written' = 0
  <2>1. Written = 0
    BY <1>1 DEF Written
  <2>2. CASE pc = "copy"
    <3>1. Ready(read_cnt', position')
      BY <2>2, FillDataInv
    <3>2. read_cnt' \in Nat
      BY <1>1, <1>2
    <3> QED
      BY <2>1, <3>1, <3>2, ReadyWritten
  <2>3. CASE pc = "size"
    BY <1>1, <2>3 DEF Written
  <2> QED
    BY <1>1, <2>1, <2>2, <2>3
<1>4. Taken' = Taken
  BY <1>1, <1>2, <1>3 DEF Taken
<1>5. Quota' = Quota /\ Kind' = Kind
  BY <1>1, <1>3 DEF Quota, Kind, ChunkLen
<1> QED
  BY <1>1, <1>4, <1>5 DEF Place

\* A process that has ended, and a signal, leave the place where it is.
LEMMA EndKeepsPlace ==
  ASSUME pc # "size", pc' # "size",
         UNCHANGED <<metaint, state, to_read, len, left, read_cnt, received, out, err, errors>>
  PROVE  UNCHANGED Place
<1>1. Piece' = Piece
  BY DEF Piece
<1>2. Written' = Written
  BY <1>1 DEF Written
<1> QED
  BY <1>2 DEF Place, Taken, Kind, Quota, ChunkLen

\* A length byte is dropped, or made up.
LEMMA SizeExpects ==
  ASSUME NEW m \in Nat, metaint \in Metaints, read_cnt' \in Nat,
         UNCHANGED <<metaint, out, err, errors>>, Ready(read_cnt', position'),
         IF m = 0 THEN BeginAudio(AudioQuota, read_cnt', position')
                  ELSE BeginMetadata(m, read_cnt', position')
  PROVE  Promise!Expect(m) /\ Written' = 0
<1>1. Written' = 0
  BY ReadyWritten
<1>2. (errors' > 0) = (errors > 0)
  OBVIOUS
<1>3. CASE m = 0
  <2>1. /\ state' = "AUDIO_STATE" /\ pc' = "copy" /\ to_read' = AudioQuota
        /\ len' = ChunkLen(to_read')
    BY <1>3 DEF BeginAudio, BeginCopy
  <2>2. Kind' = "AUDIO"
    BY <2>1 DEF Kind
  <2>3. Quota' = IF metaint = 0 THEN 0
                 ELSE to_read' - ChunkLen(to_read') + ChunkLen(to_read') - 0
    BY <1>1, <2>1 DEF Quota, ChunkLen
  <2>4. ChunkLen(to_read') \in Nat /\ metaint \in Nat
    <3>1. ChunkSize \in Nat /\ metaint \in Nat
      BY PlaybackAssumption DEF PlaybackAssumption, UInt16
    <3>2. to_read' \in Nat
      BY <2>1, LengthTypes
    <3> QED
      BY <3>1, <3>2 DEF ChunkLen, Least
  <2>5. Quota' = metaint
    <3>1. metaint # 0 => to_read' = metaint
      BY <2>1 DEF AudioQuota
    <3> QED
      BY ONLY <2>3, <2>4, <3>1
  <2> QED
    BY <1>1, <1>2, <1>3, <2>2, <2>5 DEF Promise!Expect
<1>4. CASE m # 0
  <2>1. state' = "META_STATE" /\ pc' = "copy" /\ len' = m
    BY <1>4 DEF BeginMetadata, BeginCopy
  <2>2. Kind' = "METADATA"
    BY <2>1 DEF Kind
  <2>3. Quota' = m
    BY <1>1, <2>1 DEF Quota
  <2> QED
    BY <1>1, <1>2, <1>4, <2>2, <2>3 DEF Promise!Expect
<1> QED
  BY <1>3, <1>4

LEMMA TakeSizeDrops ==
  ASSUME PlaybackInv, NEW b \in LenBytes, TakeSize(b)
  PROVE  Promise!DropLength(b)
<1>1. /\ pc = "size" /\ read_cnt > 0 /\ read_cnt' = read_cnt - 1
      /\ UNCHANGED <<metaint, received, out, err, errors>>
  BY DEF TakeSize, HasByte, outputs
<1>2. read_cnt \in Nat /\ received \in Nat /\ metaint \in Metaints
  BY InvFacts
<1>3. MetadataSize(b) \in Nat /\ read_cnt' \in Nat
  BY <1>1, <1>2, LengthTypes DEF UInt16
<1>4. Ready(read_cnt', position')
  BY TakeSizeInv
<1>5. IF MetadataSize(b) = 0 THEN BeginAudio(AudioQuota, read_cnt', position')
      ELSE BeginMetadata(MetadataSize(b), read_cnt', position')
  BY DEF TakeSize
<1>6. Promise!Expect(MetadataSize(b)) /\ Written' = 0
  BY <1>1, <1>2, <1>3, <1>4, <1>5, SizeExpects
<1>7. Kind = "SIZE" /\ Written = 0
  BY <1>1 DEF Kind, Written
<1>8. Taken' = Taken + 1
  BY <1>1, <1>2, <1>6, <1>7 DEF Taken
<1> QED
  BY <1>6, <1>7, <1>8 DEF Promise!DropLength, MetadataSize

LEMMA FillFailsMakesUp ==
  ASSUME PlaybackInv, FillFailsAtSize
  PROVE  \E m \in GarbageLens : Promise!MakeUpLength(m)
<1>1. PICK code \in FillCodes : BeginMetadata(FailedSize(code), read_cnt, position)
  BY DEF FillFailsAtSize
<1>2. /\ pc = "size" /\ read_cnt = 0 /\ read_cnt' = read_cnt /\ position' = position
      /\ UNCHANGED <<metaint, received, out, err, errors>>
  BY DEF FillFailsAtSize, NeedsData, outputs
<1>3. FailedSize(code) \in GarbageLens
  BY DEF FillCodes, GarbageLens
<1>4. FailedSize(code) \in Nat /\ FailedSize(code) # 0 /\ metaint \in Metaints
  BY LengthTypes, InvFacts DEF UInt16
<1>5. Ready(read_cnt', position') /\ read_cnt' \in Nat
  BY <1>2, FillFailsAtSizeInv
<1>6. Promise!Expect(FailedSize(code)) /\ Written' = 0
  <2>1. BeginMetadata(FailedSize(code), read_cnt', position')
    BY <1>1, <1>2
  <2> QED
    BY <1>2, <1>4, <1>5, <2>1, SizeExpects
<1>7. Kind = "SIZE" /\ Written = 0
  BY <1>2 DEF Kind, Written
<1>8. Taken' = Taken
  BY <1>2, <1>6, <1>7 DEF Taken
<1>9. Promise!MakeUpLength(FailedSize(code))
  BY <1>6, <1>7, <1>8 DEF Promise!MakeUpLength
<1> QED
  BY <1>3, <1>9

\* Every step is a step of Split or leaves the place in the stream where it is.
LEMMA SplitNextMap ==
  ASSUME PlaybackInv, [Next]_vars
  PROVE  [Promise!SplitNext]_Promise!splitVars
<1>1. errors \in Nat
  BY InvFacts
<1>2. UNCHANGED Place => UNCHANGED Promise!splitVars
  BY DEF Place, Promise!splitVars
<1>3. CASE errors # 0
  <2>1. UNCHANGED metaint /\ (errors' = errors \/ errors' = errors + 1)
    BY DEF Next, Play, FillData, FillFailsInCopy, FillFailsAtSize, TakeSize, Write, WriteFails,
           WriteInterrupted, ReaderGone, Interrupt, outputs, vars
  <2>2. errors' > 0
    BY <1>1, <1>3, <2>1
  <2> QED
    BY <2>1, <2>2 DEF Promise!WithoutPromise, Promise!SplitNext
<1>4. CASE errors = 0
  <2>1. ASSUME NEW n \in 1..BufSize, FillData(n) PROVE UNCHANGED Place
    BY <2>1, FillKeepsPlace
  <2>2. CASE FillFailsInCopy \/ WriteInterrupted \/ ReaderGone
    <3>1. pc = "copy" /\ pc' \in {"done", "killed"}
      BY <2>2 DEF FillFailsInCopy, WriteInterrupted, ReaderGone, EndLoop, Writing
    <3>2. UNCHANGED <<metaint, state, to_read, len, left, read_cnt, received, out, err, errors>>
      BY <2>2 DEF FillFailsInCopy, WriteInterrupted, ReaderGone, EndLoop, streamVars, outputs
    <3> QED
      BY <1>2, <3>1, <3>2, EndKeepsPlace
  <2>3. CASE FillFailsAtSize
    BY <2>3, FillFailsMakesUp DEF Promise!SplitNext
  <2>4. ASSUME NEW b \in LenBytes, TakeSize(b) PROVE Promise!SplitNext
    BY <2>4, TakeSizeDrops DEF Promise!SplitNext
  <2>5. ASSUME NEW w \in 1..(BufSize + MaxErrors), Write(w) PROVE Promise!SplitNext
    <3>1. w \in Nat /\ w > 0
      BY InvFacts
    <3> QED
      BY <1>4, <2>5, <3>1, WritePasses DEF Promise!SplitNext
  <2>6. CASE WriteFails
    <3>1. UNCHANGED metaint /\ errors' > 0
      BY <1>4, <2>6 DEF WriteFails
    <3> QED
      BY <3>1 DEF Promise!WithoutPromise, Promise!SplitNext
  <2>7. CASE Interrupt \/ UNCHANGED vars
    <3>1. UNCHANGED <<metaint, state, pc, to_read, len, left, read_cnt, received, out, err,
                      errors>>
      BY <2>7 DEF Interrupt, vars, loopVars, streamVars, outputs
    <3>2. Piece' = Piece
      BY <3>1 DEF Piece
    <3>3. Written' = Written
      BY <3>1, <3>2 DEF Written
    <3> QED
      <4>1. UNCHANGED Place
        BY <3>1, <3>3 DEF Place, Taken, Kind, Quota, ChunkLen
      <4> QED
        BY <1>2, <4>1
  <2> QED
    BY <1>2, <2>1, <2>2, <2>3, <2>4, <2>5, <2>6, <2>7 DEF Next, Play
<1> QED
  BY <1>3, <1>4

(***************************************************************************)
(* Until a write fails every byte of the stream goes where it belongs,     *)
(* once and in order, whatever the buffer, the chunks and partial writes   *)
(* do to it.                                                               *)
(***************************************************************************)
THEOREM PlaybackSplits == Spec => ImplementsSplit
<1>1. Init => Promise!SplitInit
  BY SplitInitMap
<1>2. PlaybackInv /\ [Next]_vars => [Promise!SplitNext]_Promise!splitVars
  BY SplitNextMap
<1> QED
  BY <1>1, <1>2, InvInit, InvNext, PTL DEF Spec, ImplementsSplit, Promise!SplitSpec
===============================================================================

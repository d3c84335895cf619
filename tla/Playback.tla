------------------------------- MODULE Playback -------------------------------
(***************************************************************************)
(* The radio proxy without -P: the son that plays the stream reads it      *)
(* through the buffer of struct my_stream and copies audio to standard     *)
(* output and metadata to standard error, until the stream ends, the radio *)
(* is silent for too long, a signal comes, or the reader of the output     *)
(* goes away.  The outputs are ordinary descriptors: a write(2) may take a *)
(* part of what it is given, and it may fail.                              *)
(*                                                                         *)
(* Abstractions.  A byte of the body is its position in it (1, 2, ...); 0  *)
(* stands for any other byte of memory.  metaint fits in int64_t: with a   *)
(* larger size_t, to_read of receive_audio is negative and the process     *)
(* ends before it reads anything.                                          *)
(* (X_Y is a plausible mistake in X; it is used only to see that a         *)
(* property notices it.)                                                   *)
(***************************************************************************)
EXTENDS Integers, Sequences

CONSTANTS
  Metaints,  \* the values of icy-metaint considered, below 2^63; 0 for a missing header
  ChunkSize, \* 256, the audio that one call of readto is asked for
  MetaUnit,  \* 16, metadata bytes per unit of the length byte
  LenBytes,  \* the length bytes the radio sends, a subset of 0..255
  BufSize,   \* 256, MAXLINE: sizeof(stream->buff)
  MaxBytes,  \* bound of the model: bytes the radio sends
  MaxErrors  \* bound of the model: writes that fail

UInt16 == {n \in Nat : n < 65536}

\* What the length byte b announces.
MetadataSize(b) == b * MetaUnit

ASSUME PlaybackAssumption ==
  /\ Metaints \subseteq Nat
  /\ ChunkSize \in UInt16 \ {0} /\ MetaUnit \in Nat \ {0} /\ BufSize \in Nat \ {0}
  /\ LenBytes \subseteq Nat /\ \A b \in LenBytes : MetadataSize(b) \in UInt16
  /\ MaxBytes \in Nat /\ MaxErrors \in Nat

VARIABLES
  metaint,     \* icy-metaint as negotiated
  interrupted, \* a SIGINT is pending (never consumed)
  state,       \* state of shout_read_write_loop while it runs
  pc,          \* copy (in readto), size (in get_metadata_size), done or killed
  to_read,     \* audio bytes left in receive_and_pass_loop
  len,         \* bytes that readto still has to pass on
  left,        \* bytes that writen still has to write
  ptr,         \* where they begin in stream->buff
  buff, position, read_cnt, eot, \* struct my_stream
  received,    \* bytes of the body read from the socket
  out,         \* what was written to standard output
  err,         \* what was written to standard error
  errors       \* writes that have failed

streamVars == <<buff, position, read_cnt, eot, received>>
loopVars   == <<state, pc, to_read, len, left, ptr>>
outputs    == <<out, err, errors>>
vars       == <<metaint, interrupted, loopVars, streamVars, outputs>>

-----------------------------------------------------------------------------
\* Return codes of my_error.h, and the conversion to uint16_t.
ERRNO_ERROR     == -1
RECEIVED_SIGNAL == -6
TIMEOUT         == -7
UNKNOWN_ERROR   == -128

U16(x) == x % 65536

Least(a, b) == IF a <= b THEN a ELSE b

Slots == 0..(BufSize - 1)

\* Memory around the buffer is not the body.
Byte(i) == IF i \in Slots THEN buff[i] ELSE 0

ChunkLen(n) == Least(n, ChunkSize)

\* What receive_audio asks for: 256 bytes when there is no metadata.
AudioQuota == IF metaint = 0 THEN ChunkSize ELSE metaint

\* `uint16_t metadata = get_metadata_size(stream)' when the read has failed.
FailedSize_Signed(code) == code
FailedSize(code) == U16(IF code < 0 THEN code ELSE UNKNOWN_ERROR)

-----------------------------------------------------------------------------
(***************************************************************************)
(* The calls of readto and writen.                                         *)
(***************************************************************************)

\* readto has n bytes to pass on and hands writen what the buffer holds of them:
\* cnt bytes from position pos on.
BeginCopy_All(n, cnt, pos) == len' = n /\ left' = n /\ ptr' = pos
BeginCopy(n, cnt, pos) == len' = n /\ left' = Least(n, cnt) /\ ptr' = pos

\* receive_and_pass_loop asks readto for at most 256 bytes at a time.
BeginAudio(n, cnt, pos) ==
  /\ state' = "AUDIO_STATE" /\ pc' = "copy" /\ to_read' = n
  /\ BeginCopy(ChunkLen(n), cnt, pos)

BeginMetadata(n, cnt, pos) ==
  /\ state' = "META_STATE" /\ pc' = "copy" /\ to_read' = 0
  /\ BeginCopy(n, cnt, pos)

\* Audio is followed by the length byte of the metadata, if there is metadata.
BeginSize ==
  /\ state' = "META_STATE" /\ pc' = "size" /\ to_read' = 0
  /\ len' = 0 /\ left' = 0 /\ ptr' = 0

\* readto has passed on all it was asked for.
FinishCopy(cnt, pos) ==
  \/ /\ state = "AUDIO_STATE" /\ to_read > ChunkLen(to_read)
     /\ BeginAudio(to_read - ChunkLen(to_read), cnt, pos)
  \/ /\ state = "AUDIO_STATE" /\ to_read = ChunkLen(to_read) /\ metaint > 0
     /\ BeginSize
  \/ /\ state = "META_STATE" \/ (to_read = ChunkLen(to_read) /\ metaint = 0)
     /\ BeginAudio(AudioQuota, cnt, pos)

\* END_STATE: the loop ends, and the process with it.
EndLoop == pc' = "done" /\ UNCHANGED <<state, to_read, len, left, ptr>>

-----------------------------------------------------------------------------
(***************************************************************************)
(* fill_buffer: the buffer is empty where a byte is needed.                *)
(***************************************************************************)
NeedsData == read_cnt = 0 /\ pc \in {"copy", "size"}

\* In readto the new bytes go on to writen at once.
FillData(n) ==
  /\ NeedsData /\ ~eot /\ ~interrupted /\ received + n <= MaxBytes
  /\ buff' = [i \in Slots |-> IF i < n THEN received + i + 1 ELSE buff[i]]
  /\ position' = 0 /\ read_cnt' = n /\ received' = received + n
  /\ IF pc = "copy" THEN BeginCopy(len, n, 0) ELSE UNCHANGED <<len, left, ptr>>
  /\ UNCHANGED <<metaint, interrupted, state, pc, to_read, eot, outputs>>

\* The end of the stream is remembered, a signal comes before data, and the
\* socket may be silent, closed or broken.
FillCodes ==
  IF eot THEN {0}
  ELSE IF interrupted THEN {RECEIVED_SIGNAL} ELSE {0, TIMEOUT, ERRNO_ERROR}

\* No data for readto: the loop ends.
FillFailsInCopy ==
  /\ NeedsData /\ pc = "copy"
  /\ \E code \in FillCodes : eot' = (code = 0)
  /\ EndLoop
  /\ UNCHANGED <<metaint, interrupted, buff, position, read_cnt, received, outputs>>

\* No length byte: the code becomes a length, and what comes next is metadata.
FillFailsAtSize ==
  /\ NeedsData /\ pc = "size"
  /\ \E code \in FillCodes :
       eot' = (code = 0) /\ BeginMetadata(FailedSize(code), read_cnt, position)
  /\ UNCHANGED <<metaint, interrupted, buff, position, read_cnt, received, outputs>>

\* readn takes the length byte; without metadata nothing is passed on.
HasByte_More == read_cnt > 1
HasByte == read_cnt > 0

TakeSize(b) ==
  /\ pc = "size" /\ HasByte
  /\ read_cnt' = read_cnt - 1 /\ position' = position + 1
  /\ IF MetadataSize(b) = 0
       THEN BeginAudio(AudioQuota, read_cnt', position')
       ELSE BeginMetadata(MetadataSize(b), read_cnt', position')
  /\ UNCHANGED <<metaint, interrupted, buff, eot, received, outputs>>

-----------------------------------------------------------------------------
(***************************************************************************)
(* writen.                                                                 *)
(***************************************************************************)
Writing == pc = "copy" /\ read_cnt > 0

\* smallread, what writen was asked to write.
Piece == Least(len, read_cnt)

\* `ptr = &ptr[written]'.
Onward_Again(w) == ptr
Onward(w) == ptr + w

Emit(bytes) ==
  IF state = "AUDIO_STATE" THEN out' = out \o bytes /\ err' = err
                           ELSE err' = err \o bytes /\ out' = out

\* readto goes on when writen has written all of the piece.
AfterPiece ==
  /\ position' = position + Piece /\ read_cnt' = read_cnt - Piece
  /\ IF len > Piece
       THEN /\ BeginCopy(len - Piece, read_cnt', position')
            /\ UNCHANGED <<state, pc, to_read>>
       ELSE FinishCopy(read_cnt', position')

\* write(2) takes w of the bytes it is given.
Write(w) ==
  /\ Writing /\ ~interrupted /\ w <= left
  /\ Emit([k \in 1..w |-> Byte(ptr + k - 1)])
  /\ IF w = left
       THEN AfterPiece
       ELSE /\ left' = left - w /\ ptr' = Onward(w)
            /\ UNCHANGED <<state, pc, to_read, len, position, read_cnt>>
  /\ UNCHANGED <<metaint, interrupted, buff, eot, received, errors>>

\* `written' is unsigned: the -1 of a write(2) that fails is not <= 0, and it is
\* taken for a number of bytes written.  One byte more is left, and it begins one
\* byte earlier.
WriteFails ==
  /\ Writing /\ ~interrupted /\ errors < MaxErrors
  /\ errors' = errors + 1
  /\ left' = left + 1 /\ ptr' = ptr - 1
  /\ UNCHANGED <<metaint, interrupted, state, pc, to_read, len, streamVars, out, err>>

\* The signal is pending: writen returns what it has written so far, readto -1.
WriteInterrupted_AtStart ==
  /\ Writing /\ interrupted /\ left = Piece
  /\ EndLoop
  /\ UNCHANGED <<metaint, interrupted, streamVars, outputs>>
WriteInterrupted ==
  /\ Writing /\ interrupted
  /\ EndLoop
  /\ UNCHANGED <<metaint, interrupted, streamVars, outputs>>

\* The reader of the output is gone: SIGPIPE.
ReaderGone ==
  /\ Writing /\ pc' = "killed"
  /\ UNCHANGED <<metaint, interrupted, state, to_read, len, left, ptr, streamVars,
                 outputs>>

Play == \/ \E n \in 1..BufSize : FillData(n)
        \/ FillFailsInCopy
        \/ FillFailsAtSize
        \/ \E b \in LenBytes : TakeSize(b)
        \/ \E w \in 1..(BufSize + MaxErrors) : Write(w)
        \/ WriteFails
        \/ WriteInterrupted

Interrupt ==
  /\ ~interrupted /\ interrupted' = TRUE
  /\ UNCHANGED <<metaint, loopVars, streamVars, outputs>>

\* The negotiation may leave bytes of the body, or the end of the stream, behind
\* in the buffer.
Init ==
  /\ metaint \in Metaints /\ interrupted = FALSE
  /\ received \in 0..Least(BufSize, MaxBytes) /\ read_cnt = received
  /\ position \in 0..(BufSize - received)
  /\ eot \in {FALSE, received = 0}
  /\ buff = [i \in Slots |-> IF i \in position..(position + received - 1)
                               THEN i - position + 1 ELSE 0]
  /\ state = "AUDIO_STATE" /\ pc = "copy" /\ to_read = AudioQuota
  /\ len = ChunkLen(AudioQuota) /\ left = Least(len, received) /\ ptr = position
  /\ out = <<>> /\ err = <<>> /\ errors = 0

Next == Play \/ ReaderGone \/ Interrupt

Spec == Init /\ [][Next]_vars

\* The process is scheduled; its waits for the socket end, because the stream has
\* a timeout, and those for the output end with room or with the signal.
FairSpec == Spec /\ WF_vars(Play)

-----------------------------------------------------------------------------
(***************************************************************************)
(* Properties.                                                             *)
(***************************************************************************)
Ended == pc \in {"done", "killed"}

\* What writen has written of its piece, and the bytes of the body that have left
\* the buffer altogether.
Written == IF read_cnt > 0 /\ pc # "size" THEN Piece - left ELSE 0
Taken   == received - read_cnt + Written

\* Types of the variables; what is left to write never exceeds the buffer by
\* more than the writes that failed.
TypeOK ==
  /\ metaint \in Metaints /\ interrupted \in BOOLEAN /\ eot \in BOOLEAN
  /\ state \in {"AUDIO_STATE", "META_STATE"}
  /\ pc \in {"copy", "size", "done", "killed"}
  /\ to_read \in 0..AudioQuota /\ len \in UInt16
  /\ left \in 0..(BufSize + errors) /\ ptr \in (-errors)..BufSize
  /\ buff \in [Slots -> 0..MaxBytes]
  /\ position \in 0..BufSize /\ read_cnt \in 0..BufSize /\ received \in 0..MaxBytes
  /\ errors \in 0..MaxErrors

\* What the buffer holds is the body, from the first byte that was not passed on
\* to the last that was received; writen works on the beginning of it, and however
\* many writes took a part or failed, it ends where the piece ends.
BufferIsBody ==
  /\ position + read_cnt <= BufSize
  /\ \A k \in 1..read_cnt : buff[position + k - 1] = received - read_cnt + k
  /\ Writing => /\ ptr + left = position + Piece /\ left > 0
                /\ errors = 0 => ptr >= position

\* What is due at this place of the stream.
Kind == IF pc = "size" THEN "SIZE"
        ELSE IF state = "AUDIO_STATE" THEN "AUDIO" ELSE "METADATA"
Quota ==
  IF state = "META_STATE" THEN len - Written
  ELSE IF metaint = 0 THEN 0 ELSE to_read - ChunkLen(to_read) + len - Written
GarbageLens == {FailedSize(c) : c \in {0, ERRNO_ERROR, RECEIVED_SIGNAL, TIMEOUT}}

Promise == INSTANCE Split WITH
             taken <- Taken, kind <- Kind, quota <- Quota,
             failed <- errors > 0, MaxPiece <- BufSize

\* Until a write fails every byte of the stream goes where it belongs, once and
\* in order: audio to standard output, metadata to standard error.
ImplementsSplit == Promise!SplitSpec

\* SIGINT ends the process from wherever it is, with an output that has
\* failed too.
PlaybackObeysSignal == interrupted ~> Ended

\* What was received is passed on, unless the process ends or a write fails.
BytesArePassedOn ==
  \A n \in 1..MaxBytes : received >= n ~> (Taken >= n \/ Ended \/ errors > 0)

-----------------------------------------------------------------------------
(***************************************************************************)
(* What the documentation says and the code does not do.                   *)
(***************************************************************************)

\* net_utils.h:70-75: readto takes bytes from the stream and writes them to the
\* descriptor, and returns a negative number if an error occurred.  So whatever
\* happens, the output holds bytes of the body, each of them at most once.
Increasing(s) == \A i \in 1..Len(s) : s[i] > 0 /\ (i > 1 => s[i - 1] < s[i])
PassedOnce == Increasing(out) /\ Increasing(err)
===============================================================================

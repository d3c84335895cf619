------------------------------ MODULE AudioPipe ------------------------------
(***************************************************************************)
(* The data path of the radio proxy in proxy mode (-P): the server process *)
(* reads the ICY stream of the radio (a TCP socket behind the buffer of    *)
(* struct my_stream), cuts it into frames and writes each frame, a two-byte *)
(* length followed by that many bytes, to a non-blocking pipe; the client  *)
(* process reads the pipe and turns every frame into one UDP datagram,     *)
(* counting bytes to find out whether a frame is audio or metadata.        *)
(*                                                                         *)
(* The type of a frame does not travel through the pipe: the two processes *)
(* count bytes independently, and everything depends on their agreeing.    *)
(*                                                                         *)
(* Abstractions.  A byte of the stream is its position (1, 2, ...) in the  *)
(* body of the response; the pipe carries cells, a length cell standing    *)
(* for the two bytes that one write(2) puts there and one read(2) takes.   *)
(* metaint fits in int64_t: with a larger size_t, to_read of receive_audio *)
(* is negative and the server ends before it reads anything.               *)
(* Sending the datagram to each client is ClientSet's subject.             *)
(***************************************************************************)
EXTENDS Integers, Sequences, FiniteSets

CONSTANTS
  Metaints,    \* the values of icy-metaint considered, below 2^63; 0 for a missing header
  ChunkSize,   \* 256, the largest piece of audio put in a frame
  MetaUnit,    \* 16, metadata bytes per unit of the length byte
  LenBytes,    \* the length bytes the radio sends, a subset of 0..255
  PayloadSize, \* 4080, PAYLOAD_SIZE
  BufSize,     \* 256, MAXLINE: sizeof(stream->buff)
  PipeCap,     \* cells the pipe holds
  MaxBytes     \* bound of the model: bytes the radio sends

\* uint16_t and uint8_t.
UInt16 == {n \in Nat : n < 65536}
UInt8  == {n \in Nat : n < 256}

\* What the length byte b announces.  (A definition named X_Y is a plausible
\* mistake in X; it is used only to see that a property notices it.)
MetadataSize_Raw(b) == b
MetadataSize(b) == b * MetaUnit

ASSUME ConstantsAssumption ==
  /\ Metaints \subseteq Nat
  /\ ChunkSize \in UInt16 \ {0}
  /\ MetaUnit \in Nat \ {0}
  /\ LenBytes \subseteq UInt8
  /\ PayloadSize \in UInt16 /\ ChunkSize <= PayloadSize
  /\ \A b \in LenBytes : MetadataSize(b) <= PayloadSize
  /\ BufSize \in Nat \ {0}
  /\ BufSize <= PipeCap /\ PipeCap \in Nat
  /\ MaxBytes \in Nat

VARIABLES
  metaint,         \* icy-metaint as negotiated before the processes are forked
  interrupted,     \* the processes with a SIGINT pending (never consumed)
  \* the server process
  state,           \* state of shout_read_write_loop
  pc,              \* the blocking call the process is at
  to_read,         \* audio bytes left before metadata (or of the 256 at a time)
  smallread,       \* length of the frame being written
  left,            \* its payload bytes not yet written to the pipe
  received,        \* bytes of the body read from the socket
  read_cnt,        \* those of them still in stream->buff
  last_fill,       \* what fill_buffer returned last (1 for any positive number)
  written,         \* every cell ever written to the pipe
  \* the client process
  running,         \* run_proxy_loop has not left its loop
  consumed,        \* cells read from the pipe
  payload_len_set, targeted_len, fill_ptr, audio_sum, type,
  data,            \* message->buff from byte 4 on
  \* history
  frames,          \* the frames begun by the server process
  handled          \* the frames finished by the client process

serverVars == <<state, pc, to_read, smallread, left, received, read_cnt,
                last_fill, written, frames>>
clientVars == <<running, consumed, payload_len_set, targeted_len, fill_ptr,
                audio_sum, type, data, handled>>
vars == <<metaint, interrupted, serverVars, clientVars>>

-----------------------------------------------------------------------------
\* Return codes of my_error.h, and the conversion to uint16_t.
ERRNO_ERROR     == -1
RECEIVED_SIGNAL == -6
TIMEOUT         == -7
UNKNOWN_ERROR   == -128
EOT             == 0

U16(x) == x % 65536

Least(a, b) == IF a <= b THEN a ELSE b

\* Cells of the pipe.
LenCell(n)  == [kind |-> "len", value |-> n]
ByteCell(p) == [kind |-> "byte", value |-> p]

-----------------------------------------------------------------------------
(***************************************************************************)
(* The server process.                                                     *)
(***************************************************************************)

\* Audio is passed on in frames of at most 256 bytes.
ChunkLen_Whole(n) == n
ChunkLen(n) == Least(n, ChunkSize)

\* What receive_audio asks for: 256 bytes when there is no metadata.
AudioQuota == IF metaint = 0 THEN ChunkSize ELSE metaint

\* `uint16_t metadata = get_metadata_size(stream)' when the read has failed.
FailedSize_Signed(code) == IF code < 0 THEN code ELSE UNKNOWN_ERROR
FailedSize(code) == U16(IF code < 0 THEN code ELSE UNKNOWN_ERROR)

BeginAudio(n) ==
  /\ state' = "AUDIO_STATE" /\ pc' = "header"
  /\ to_read' = n /\ smallread' = ChunkLen(n)

BeginMetadata ==
  /\ state' = "META_STATE" /\ pc' = "size"
  /\ to_read' = 0 /\ smallread' = 0

\* The frame is complete: the next chunk, the metadata, or new audio.
FinishFrame ==
  \/ /\ state = "AUDIO_STATE" /\ to_read > smallread
     /\ BeginAudio(to_read - smallread)
  \/ /\ state = "AUDIO_STATE" /\ to_read <= smallread /\ metaint > 0
     /\ BeginMetadata
  \/ /\ state # "AUDIO_STATE" \/ (to_read <= smallread /\ metaint = 0)
     /\ BeginAudio(AudioQuota)

\* The process leaves its loop, closes its socket and exits.
EndServer ==
  /\ state' = "END_STATE" /\ pc' = "done"
  /\ UNCHANGED <<to_read, smallread>>

\* What fill_buffer can return: the end of the stream is remembered, a signal
\* comes before data, and the socket may be silent, closed or broken.
FillCodes ==
  IF last_fill = EOT THEN {EOT}
  ELSE IF "server" \in interrupted THEN {RECEIVED_SIGNAL}
  ELSE {EOT, TIMEOUT, ERRNO_ERROR}

\* An empty buffer at a place that needs a byte.
NeedsData == read_cnt = 0 /\ pc \in {"copy", "size"}

FillData(n) ==
  /\ NeedsData /\ last_fill # EOT /\ "server" \notin interrupted
  /\ received + n <= MaxBytes
  /\ received' = received + n /\ read_cnt' = n /\ last_fill' = 1
  /\ UNCHANGED <<metaint, interrupted, state, pc, to_read, smallread, left,
                 written, frames, clientVars>>

\* No data while copying: readto returns -1 and the loop ends.
FillFailsInFrame ==
  /\ NeedsData /\ pc = "copy"
  /\ last_fill' \in FillCodes
  /\ EndServer
  /\ UNCHANGED <<metaint, interrupted, left, received, read_cnt, written, frames,
                 clientVars>>

\* No length byte: the negative code, truncated to uint16_t, becomes the
\* length of the frame.
FillFailsAtSize ==
  /\ NeedsData /\ pc = "size"
  /\ last_fill' \in FillCodes
  /\ smallread' = FailedSize(last_fill')
  /\ pc' = "header"
  /\ UNCHANGED <<metaint, interrupted, state, to_read, left, received, read_cnt,
                 written, frames, clientVars>>

TakeSize(b) ==
  /\ pc = "size" /\ read_cnt > 0
  /\ read_cnt' = read_cnt - 1
  /\ smallread' = MetadataSize(b)
  /\ pc' = "header"
  /\ UNCHANGED <<metaint, interrupted, state, to_read, left, received, last_fill,
                 written, frames, clientVars>>

Room(n) == Len(written) - consumed + n <= PipeCap

\* Kind and place of the frame that the loop is at.
KindNow == IF state = "AUDIO_STATE" THEN "AUDIO" ELSE "METADATA"
SumNow  == IF state = "AUDIO_STATE" /\ metaint > 0 THEN metaint - to_read ELSE 0
NextByte == received - read_cnt + 1

NewFrame ==
  [kind |-> KindNow, len |-> smallread, first |-> NextByte, sum |-> SumNow,
   head |-> Len(written) + 1]

\* The length goes first; a frame without payload is complete with it.
WriteHeader ==
  /\ pc = "header" /\ "server" \notin interrupted /\ Room(1)
  /\ written' = Append(written, LenCell(smallread))
  /\ frames' = Append(frames, NewFrame)
  /\ left' = smallread
  /\ IF smallread = 0
       THEN FinishFrame
       ELSE pc' = "copy" /\ UNCHANGED <<state, to_read, smallread>>
  /\ UNCHANGED <<metaint, interrupted, received, read_cnt, last_fill, clientVars>>

\* One turn of readto: whatever the buffer holds of the frame is written.
CopyLen == Least(left, read_cnt)

Copy ==
  /\ pc = "copy" /\ read_cnt > 0
  /\ "server" \notin interrupted /\ Room(CopyLen)
  /\ written' = written \o
       [k \in 1..CopyLen |-> ByteCell(NextByte + k - 1)]
  /\ read_cnt' = read_cnt - CopyLen
  /\ left' = left - CopyLen
  /\ IF left = CopyLen
       THEN FinishFrame
       ELSE UNCHANGED <<state, pc, to_read, smallread>>
  /\ UNCHANGED <<metaint, interrupted, received, last_fill, frames, clientVars>>

\* writen finds the signal pending and writes nothing more.
WriteInterrupted_AtHeader ==
  /\ "server" \in interrupted /\ pc = "header"
  /\ EndServer
  /\ UNCHANGED <<metaint, interrupted, left, received, read_cnt, last_fill, written,
                 frames, clientVars>>
WriteInterrupted ==
  /\ "server" \in interrupted
  /\ pc = "header" \/ (pc = "copy" /\ read_cnt > 0)
  /\ EndServer
  /\ UNCHANGED <<metaint, interrupted, left, received, read_cnt, last_fill, written,
                 frames, clientVars>>

Fill == \/ \E n \in 1..BufSize : FillData(n)
        \/ FillFailsInFrame
        \/ FillFailsAtSize

Server == \/ Fill
          \/ \E b \in LenBytes : TakeSize(b)
          \/ WriteHeader
          \/ Copy
          \/ WriteInterrupted

-----------------------------------------------------------------------------
(***************************************************************************)
(* The client process.                                                     *)
(***************************************************************************)

\* select reports the pipe readable, and not the signal.
Readable == running /\ "client" \notin interrupted /\ consumed < Len(written)

ReadTargetedLen ==
  /\ Readable /\ ~payload_len_set
  /\ consumed' = consumed + 1
  /\ targeted_len' = written[consumed + 1].value
  /\ payload_len_set' = TRUE
  /\ UNCHANGED <<metaint, interrupted, serverVars, running, fill_ptr, audio_sum, type,
                 data, handled>>

\* udp_message_read refuses a frame that does not fit the message: the cells
\* stay in the pipe.
Fits_Strict == targeted_len < PayloadSize
Fits == targeted_len <= PayloadSize

\* One read(2) takes what the pipe holds of the rest of the frame.
ReadLen == Least(targeted_len - fill_ptr, Len(written) - consumed)

DataAfter(m) ==
  [i \in 1..PayloadSize |->
     IF i > fill_ptr /\ i <= fill_ptr + m
       THEN written[consumed + i - fill_ptr].value ELSE data[i]]

\* The type of the next frame follows from the bytes of audio counted so far.
CountFrame_Chunk ==
  IF type = "AUDIO" /\ metaint > 0 /\ audio_sum + ChunkSize = metaint
    THEN type' = "METADATA" /\ audio_sum' = 0
    ELSE type' = "AUDIO" /\ audio_sum' = audio_sum + ChunkSize
CountFrame ==
  IF type = "AUDIO" /\ metaint > 0
    THEN IF audio_sum + targeted_len = metaint
           THEN type' = "METADATA" /\ audio_sum' = 0
           ELSE type' = type /\ audio_sum' = audio_sum + targeted_len
    ELSE type' = "AUDIO" /\ audio_sum' = audio_sum

\* The frame is complete; a frame without payload is not sent.
FinishMessage(payload) ==
  /\ handled' = Append(handled, [kind |-> type, len |-> targeted_len,
                                 payload |-> [i \in 1..targeted_len |-> payload[i]]])
  /\ fill_ptr' = IF targeted_len > 0 THEN 0 ELSE fill_ptr
  /\ payload_len_set' = FALSE
  /\ CountFrame

PartialRead ==
  /\ Readable /\ payload_len_set /\ fill_ptr < targeted_len /\ Fits
  /\ consumed' = consumed + ReadLen
  /\ data' = DataAfter(ReadLen)
  /\ IF fill_ptr + ReadLen = targeted_len
       THEN FinishMessage(data')
       ELSE /\ fill_ptr' = fill_ptr + ReadLen
            /\ UNCHANGED <<payload_len_set, audio_sum, type, handled>>
  /\ UNCHANGED <<metaint, interrupted, serverVars, running, targeted_len>>

\* The process learns of the end of an empty frame only when the pipe has
\* become readable again.
EmptyFrame_Sent ==
  /\ Readable /\ payload_len_set /\ fill_ptr = targeted_len /\ targeted_len > 0
  /\ FinishMessage(data)
  /\ UNCHANGED <<metaint, interrupted, serverVars, running, consumed, targeted_len,
                 data>>
EmptyFrame ==
  /\ Readable /\ payload_len_set /\ fill_ptr = targeted_len
  /\ FinishMessage(data)
  /\ UNCHANGED <<metaint, interrupted, serverVars, running, consumed, targeted_len,
                 data>>

LeaveLoop ==
  /\ running
  /\ running' = FALSE
  /\ UNCHANGED <<metaint, interrupted, serverVars, consumed, payload_len_set,
                 targeted_len, fill_ptr, audio_sum, type, data, handled>>

StopClient == "client" \in interrupted /\ LeaveLoop

\* An IAM that cannot be sent, or a failing select, also ends the process.
ClientFails == LeaveLoop

Client == ReadTargetedLen \/ PartialRead \/ EmptyFrame \/ StopClient

-----------------------------------------------------------------------------
(***************************************************************************)
(* The environment sends SIGINT; signals stay pending, nobody reads them.  *)
(***************************************************************************)
Interrupt(p) ==
  /\ p \notin interrupted
  /\ interrupted' = interrupted \cup {p}
  /\ UNCHANGED <<metaint, serverVars, clientVars>>

\* The negotiation may leave bytes of the body, or the end of the stream,
\* behind in the buffer.
Init ==
  /\ metaint \in Metaints
  /\ interrupted = {}
  /\ state = "AUDIO_STATE" /\ pc = "header"
  /\ to_read = AudioQuota /\ smallread = ChunkLen(AudioQuota) /\ left = 0
  /\ \/ received \in 0..Least(BufSize, MaxBytes) /\ last_fill = 1
     \/ received = 0 /\ last_fill = EOT
  /\ read_cnt = received
  /\ written = <<>> /\ frames = <<>>
  /\ running = TRUE /\ consumed = 0
  /\ payload_len_set = FALSE /\ targeted_len = 0 /\ fill_ptr = 0
  /\ audio_sum = 0 /\ type = "AUDIO"
  /\ data = [i \in 1..PayloadSize |-> 0]
  /\ handled = <<>>

Next == \/ Server
        \/ Client
        \/ ClientFails
        \/ \E p \in {"server", "client"} : Interrupt(p)

Spec == Init /\ [][Next]_vars

\* Each process is scheduled again and again; every select of the server
\* process on the socket ends, because the stream always has a timeout.
Fairness == WF_vars(Server) /\ WF_vars(Client)
FairSpec == Spec /\ Fairness

-----------------------------------------------------------------------------
(***************************************************************************)
(* The invariant that keeps the processes in step.                         *)
(***************************************************************************)
Kinds == {"AUDIO", "METADATA"}
Cell  == [kind : {"len", "byte"}, value : Nat]
Frame == [kind : Kinds, len : UInt16, first : Nat, sum : Nat, head : Nat]

ServerTypeOK ==
  /\ state \in {"AUDIO_STATE", "META_STATE", "END_STATE"}
  /\ pc \in {"header", "copy", "size", "done"}
  /\ to_read \in 0..AudioQuota /\ smallread \in UInt16 /\ left \in UInt16
  /\ received \in Nat /\ read_cnt \in 0..BufSize /\ read_cnt <= received
  /\ last_fill \in {1, EOT, ERRNO_ERROR, RECEIVED_SIGNAL, TIMEOUT}
  /\ written \in Seq(Cell) /\ frames \in Seq(Frame)

ClientTypeOK ==
  /\ running \in BOOLEAN /\ payload_len_set \in BOOLEAN
  /\ consumed \in Nat /\ targeted_len \in Nat /\ fill_ptr \in 0..PayloadSize
  /\ audio_sum \in Nat /\ type \in Kinds
  /\ data \in [1..PayloadSize -> Nat]
  /\ handled \in Seq([kind : Kinds, len : Nat, payload : Seq(Nat)])

\* Types of the variables of both processes, with the widths of the C fields;
\* what is left of the audio never exceeds a whole portion of it.
TypeOK ==
  /\ metaint \in Metaints /\ interrupted \subseteq {"server", "client"}
  /\ ServerTypeOK
  /\ ClientTypeOK

\* Kind of the frame after f, and the audio since the last metadata.
After(f) ==
  IF f.kind = "AUDIO" /\ metaint > 0
    THEN IF f.sum + f.len = metaint
           THEN [kind |-> "METADATA", sum |-> 0]
           ELSE [kind |-> "AUDIO", sum |-> f.sum + f.len]
    ELSE [kind |-> "AUDIO", sum |-> 0]

\* What is due once n frames are done, and the cells they occupy.
Due(n) == IF n = 0 THEN [kind |-> "AUDIO", sum |-> 0] ELSE After(frames[n])
End(n) == IF n = 0 THEN 0 ELSE frames[n].head + frames[n].len

\* Frames already complete in the pipe.
Complete == IF left > 0 THEN Len(frames) - 1 ELSE Len(frames)

\* The cells of frame i follow those of frame i - 1, as far as they are written.
LaidOut(i) ==
  /\ frames[i].head = End(i - 1) + 1 /\ frames[i].head <= Len(written)
  /\ written[frames[i].head] = LenCell(frames[i].len)
  /\ \A k \in 1..frames[i].len : frames[i].head + k <= Len(written) =>
       written[frames[i].head + k] = ByteCell(frames[i].first + k - 1)

\* The cells of the pipe are the frames, one after the other.
FrameLayout ==
  /\ \A i \in 1..Len(frames) : LaidOut(i)
  /\ Len(written) + left = End(Len(frames))

\* Every frame is of the kind that its predecessors make due.
FrameKinds ==
  \A i \in 1..Len(frames) :
    frames[i].kind = Due(i - 1).kind /\ frames[i].sum = Due(i - 1).sum

\* The server process is about to write, or is writing, the frame that is due,
\* and what it copies next is the next byte of the stream.
WriterAtDue ==
  LET n == Len(frames)
  IN /\ pc \in {"header", "size"} =>
          left = 0 /\ KindNow = Due(n).kind /\ SumNow = Due(n).sum
     /\ pc = "size" => state = "META_STATE"
     /\ pc # "done" => state # "END_STATE"
     /\ pc \in {"header", "copy"} /\ state = "AUDIO_STATE" =>
          to_read > 0 /\ smallread = ChunkLen(to_read)
     /\ pc = "copy" =>
          /\ n > 0 /\ left > 0
          /\ frames[n].kind = KindNow /\ frames[n].sum = SumNow
          /\ frames[n].len = smallread
          /\ frames[n].first + smallread - left = NextByte

\* The client process, counting on its own, is at the frame it takes itself to
\* be at: its type and length are those the server process gave that frame.
ReaderInSync ==
  LET h == Len(handled)
  IN /\ h <= Len(frames) /\ consumed <= Len(written)
     /\ type = Due(h).kind /\ audio_sum = Due(h).sum
     /\ IF payload_len_set
          THEN /\ h < Len(frames)
               /\ targeted_len = frames[h + 1].len
               /\ consumed = frames[h + 1].head + fill_ptr
               /\ fill_ptr <= targeted_len
               /\ \A k \in 1..fill_ptr : data[k] = frames[h + 1].first + k - 1
          ELSE consumed = End(h) /\ fill_ptr = 0

Datagram(f) ==
  [kind |-> f.kind, len |-> f.len, payload |-> [i \in 1..f.len |-> f.first + i - 1]]

\* Every datagram is one frame: its type, its length and its bytes, none of them
\* left over from the frame before (message->buff is never cleared).
HandledFaithful ==
  \A i \in 1..Len(handled) : handled[i] = Datagram(frames[i])

InSync == FrameLayout /\ FrameKinds /\ WriterAtDue /\ ReaderInSync /\ HandledFaithful

-----------------------------------------------------------------------------
(***************************************************************************)
(* The promise of Relay, kept.                                             *)
(***************************************************************************)
AsBlock(f) == [kind |-> f.kind, sum |-> f.sum, first |-> f.first, len |-> f.len]

GarbageLens == {FailedSize(c) : c \in {EOT, ERRNO_ERROR, RECEIVED_SIGNAL, TIMEOUT}}

\* A frame that the client process can never take, because it is longer than the
\* message (proxy-client.c:11), is not the radio's doing: its length byte could
\* not be read, and the return code became its length.
OversizeIsFailure ==
  \A i \in 1..Len(frames) :
    \/ frames[i].len <= PayloadSize
    \/ frames[i].kind = "METADATA" /\ frames[i].len \in GarbageLens

R == INSTANCE Relay WITH
       blocks <- [i \in 1..Complete |-> AsBlock(frames[i])],
       out <- handled

\* Whatever the two processes do between them is a step of the abstract relay:
\* consecutive bytes, due kinds, whole blocks, in order, once each.
ImplementsRelay == R!RelaySpec

-----------------------------------------------------------------------------
(***************************************************************************)
(* What arrives at a listener that gets all the datagrams.                 *)
(***************************************************************************)
\* The bytes of the body that were sent as this kind.
Sent(kind) ==
  UNION {{handled[i].payload[k] : k \in 1..handled[i].len} :
           i \in {j \in 1..Len(handled) : handled[j].kind = kind}}

\* In front of byte p a whole number of times metaint bytes of audio were sent.
MetadataDue(p) ==
  metaint > 0 /\ \E c \in 1..p : Cardinality({q \in Sent("AUDIO") : q < p}) = c * metaint

\* Bytes come in the order of the body, none of them twice.
InOrder ==
  \A i, j \in 1..Len(handled) : \A k \in 1..handled[i].len, l \in 1..handled[j].len :
    i < j \/ (i = j /\ k < l) => handled[i].payload[k] < handled[j].payload[l]

\* Only the length byte of metadata is left out, and only after metaint bytes of audio.
OnlyLengthsMissing ==
  \A last \in Sent("AUDIO") \cup Sent("METADATA") :
    \A p \in 1..last : p \notin Sent("AUDIO") \cup Sent("METADATA") =>
      p - 1 \in Sent("AUDIO") /\ MetadataDue(p)

\* Audio does not go on where metadata is due.
NoMetadataInAudio == \A p \in Sent("AUDIO") : p - 1 \in Sent("AUDIO") => ~MetadataDue(p)

\* A length byte is sent as metadata only if its reading failed and made up another length.
LengthsNotSent ==
  \A p \in Sent("METADATA") : p - 1 \in Sent("AUDIO") =>
    \E i \in 1..Len(handled) : handled[i].kind = "METADATA" /\ handled[i].len \in GarbageLens

(***************************************************************************)
(* The datagrams take the body of the response apart as the protocol of    *)
(* the radio puts it together: metadata with its length byte after every   *)
(* metaint bytes of audio.  The two processes never see it like this: both *)
(* count frames, one of them only what it has read from the pipe.          *)
(***************************************************************************)
BodyIsDivided == InOrder /\ OnlyLengthsMissing /\ NoMetadataInAudio /\ LengthsNotSent

-----------------------------------------------------------------------------
(***************************************************************************)
(* Liveness, under FairSpec.                                               *)
(***************************************************************************)

\* A frame that is complete in the pipe, and behind no frame larger than the
\* message, reaches the clients unless the client process ends.  (The guard of
\* the send is not asked for more than the pipe: an empty frame waits for data.)
Deliverable(n) ==
  n <= Complete /\ frames[n].len > 0 /\ \A i \in 1..n : frames[i].len <= PayloadSize
FramesReachClients ==
  \A n \in 1..MaxBytes : Deliverable(n) ~> (Len(handled) >= n \/ ~running)

\* The server process obeys the SIGINT of its parent from wherever it is: a
\* full pipe or a silent radio does not hold it up.
ServerObeysSignal == "server" \in interrupted ~> pc = "done"

\* A full pipe never blocks the server for good while its reader lives.
Stuck == pc = "copy" /\ read_cnt > 0 /\ \A i \in 1..Len(frames) : frames[i].len <= PayloadSize
PipeDrains == Stuck ~> (pc # "copy" \/ read_cnt = 0 \/ ~running)

-----------------------------------------------------------------------------
(***************************************************************************)
(* What the documentation says and the code does not do.                   *)
(***************************************************************************)

\* shout-client.h:29: the loop returns when the radio was silent too long, so
\* nothing is passed on after the timeout.
NothingAfterTimeout == [][last_fill = TIMEOUT => written' = written]_vars

===============================================================================

------------------------------ MODULE Negotiation ------------------------------
(***************************************************************************)
(* What the parent does before it forks: it tries the addresses of the     *)
(* radio one after the other, sends the request and reads the response,    *)
(* a status line, header fields and an empty line, from the same buffered  *)
(* stream that the server process reads on.                                *)
(*                                                                         *)
(* Abstractions.  The buffer holds lines; a line whose reading fails in    *)
(* the middle fails.  A piece of the request stands for its bytes: write   *)
(* takes whole pieces, and a failure goes back by one.  The name of a      *)
(* field is a sequence of parts, so that one name may be the beginning of  *)
(* another; the rest of the line is well-formed or not, and its value is a *)
(* number or not.                                                          *)
(* (X_Y is a plausible mistake in X; it is used only to see that a         *)
(* property notices it.)                                                   *)
(***************************************************************************)
EXTENDS Integers, Sequences

CONSTANTS
  Numbers,   \* numbers that radios put in fields
  SizeMod,   \* 2^64: size_t counts modulo this
  FailedRequests, \* after how many pieces of the request memory may run out
  MaxErrors, \* bound of the model: writes that fail
  Addresses, \* how many addresses the name of the radio can have
  BufLines   \* lines that the buffer holds

ASSUME NegotiationAssumption ==
  /\ Numbers \subseteq Int /\ SizeMod \in Nat \ {0}
  /\ FailedRequests \subseteq Nat /\ MaxErrors \in Nat
  /\ Addresses \in Nat \ {0} /\ BufLines \in Nat \ {0}

VARIABLES
  metadata,    \* -m yes
  interrupted, \* a SIGINT is pending (never consumed)
  pc,          \* connect, request, sending, status, headers, agreed, failed or killed
  addresses,   \* addresses not tried yet
  lines,       \* lines in stream->buff
  eot,         \* stream->eot
  metaint,     \* headers[0] of the response
  icy_name,    \* headers[1].was_set
  request,     \* the request as it was printed
  left, ptr,   \* writen: how much of it is left, and the piece where that begins
  sent,        \* history: what write(2) has taken
  errors,      \* history: writes that have failed
  ended        \* history: what ended the reading of the header fields

response == <<metaint, icy_name>>
sending  == <<request, left, ptr, sent, errors>>
vars     == <<metadata, interrupted, pc, addresses, lines, eot, response, sending, ended>>

Unset == -1

\* The names that are told apart, and what get_header_field_name calls two of them.
METAINT_NAME == <<"icy-", "metatint">>
NAME_NAME    == <<"icy-", "name">>
Names == {METAINT_NAME, NAME_NAME, <<>>, <<"icy-">>, <<"icy-", "metaint">>,
          <<"icy-", "name", "x">>, <<"server">>}

Field == [name : Names, wellFormed : BOOLEAN, isNumber : BOOLEAN, number : Numbers]

-----------------------------------------------------------------------------
(***************************************************************************)
(* tcp_connect and send_request_message.                                   *)
(***************************************************************************)
\* getaddrinfo finds nothing.
NoAddress ==
  /\ pc = "connect" /\ addresses = 0 /\ pc' = "failed"
  /\ UNCHANGED <<metadata, interrupted, addresses, lines, eot, response, sending, ended>>

ConnectOk ==
  /\ pc = "connect" /\ addresses > 0 /\ pc' = "request"
  /\ UNCHANGED <<metadata, interrupted, addresses, lines, eot, response, sending, ended>>

\* The radio refuses, or SIGINT comes; the next address is tried either way.
ConnectFails ==
  /\ pc = "connect" /\ addresses > 0 /\ addresses' = addresses - 1
  /\ pc' = IF addresses = 1 THEN "failed" ELSE "connect"
  /\ UNCHANGED <<metadata, interrupted, lines, eot, response, sending, ended>>

(***************************************************************************)
(* Printing the request into a resizable string (module Text: an append    *)
(* adds all or nothing).  A text being printed is a record of its pieces   *)
(* and the result; failing is the number of pieces that memory is left for *)
(* (as many as the request has: it does not run out).                      *)
(***************************************************************************)
CRLF == "CRLF"

PrintPiece(str, piece, failing) ==
  IF str.result # 0 THEN str
  ELSE IF Len(str.text) = failing THEN [str EXCEPT !.result = -1]
  ELSE [str EXCEPT !.text = Append(@, piece)]

PrintAll(str, pieces, failing) ==
  LET after[i \in 0..Len(pieces)] ==
        IF i = 0 THEN str ELSE PrintPiece(after[i - 1], pieces[i], failing)
  IN  after[Len(pieces)]

\* print_request_line.
PrintRequestLine(str, failing) ==
  PrintAll(str, <<"GET", " ", "target", " ", "HTTP/1.0", CRLF>>, failing)

\* print_header_field for ICY_METADATA.
FieldValue(wanted) == IF wanted THEN "1" ELSE "0"

PrintHeaderField(str, wanted, failing) ==
  PrintAll(str, <<"ICY-METADATA", ":", " ", FieldValue(wanted), CRLF>>, failing)

\* print_shoutcast_request_message.
PrintRequest(wanted, failing) ==
  LET line  == PrintRequestLine([text |-> << >>, result |-> 0], failing)
      field == PrintHeaderField(line, wanted, failing)
  IN  PrintAll(field, <<CRLF>>, failing)

\* print_shoutcast_request_message, the beginning of send_request_message: nothing is sent
\* unless all of it was printed.
PrintMessage(failing) ==
  /\ pc = "request"
  /\ LET str == PrintRequest(metadata, failing)
     IN  IF str.result # 0 THEN pc' = "failed" /\ UNCHANGED <<request, left>>
         ELSE pc' = "sending" /\ request' = str.text /\ left' = Len(str.text)
  /\ UNCHANGED <<metadata, interrupted, addresses, lines, eot, response, ptr, sent, errors,
                 ended>>

-----------------------------------------------------------------------------
(***************************************************************************)
(* writen, on a socket that my_connect has made nonblocking.               *)
(***************************************************************************)
\* Memory around the request.
Junk == "junk"
Piece(i) == IF i \in DOMAIN request THEN request[i] ELSE Junk

\* write(2) takes n of the pieces that are left.
SendPart(n) ==
  /\ pc = "sending" /\ ~interrupted
  /\ sent' = sent \o [i \in 1..n |-> Piece(ptr + i - 1)]
  /\ left' = left - n /\ ptr' = ptr + n
  /\ pc' = IF n = left THEN "status" ELSE "sending"
  /\ UNCHANGED <<metadata, interrupted, addresses, lines, eot, response, request, errors, ended>>

\* The -1 of a write(2) that fails is unsigned and taken for a number of pieces written.
SendFails ==
  /\ pc = "sending" /\ ~interrupted /\ errors < MaxErrors
  /\ errors' = errors + 1
  /\ left' = left + 1 /\ ptr' = ptr - 1
  /\ UNCHANGED <<metadata, interrupted, pc, addresses, lines, eot, response, request, sent, ended>>

\* The signal is pending: what writen returns is not the length of the request.
SendInterrupted_Unnoticed ==
  /\ pc = "sending" /\ interrupted /\ pc' = "status"
  /\ UNCHANGED <<metadata, interrupted, addresses, lines, eot, response, sending, ended>>
SendInterrupted ==
  /\ pc = "sending" /\ interrupted /\ pc' = "failed"
  /\ UNCHANGED <<metadata, interrupted, addresses, lines, eot, response, sending, ended>>

\* The radio is gone: SIGPIPE.
RadioGone ==
  /\ pc = "sending" /\ ~interrupted /\ pc' = "killed"
  /\ UNCHANGED <<metadata, interrupted, addresses, lines, eot, response, sending, ended>>

Send == (\E n \in 1..left : SendPart(n)) \/ SendFails \/ SendInterrupted \/ RadioGone

-----------------------------------------------------------------------------
(***************************************************************************)
(* read_line and the buffer.                                               *)
(***************************************************************************)
Reading == pc \in {"status", "headers"}

\* wait_for_read looks at the signal before the data.
SignalSeen_DataFirst == FALSE
SignalSeen == interrupted

FillData(n) ==
  /\ Reading /\ lines = 0 /\ ~SignalSeen /\ ~eot
  /\ lines' = n
  /\ UNCHANGED <<metadata, interrupted, pc, addresses, eot, response, sending, ended>>

\* negotiate_with_radio: metadata that nobody asked for is not wanted.
Unwanted == ~metadata /\ metaint \notin {Unset, 0}

\* receive_header_fields_CRLF stops and returns 0, whatever it was that stopped it.
EndHeaders(why) ==
  /\ ended' = why
  /\ pc' = IF Unwanted THEN "failed" ELSE "agreed"

\* A line that cannot be read ends the negotiation in the status line, and only
\* the reading of header fields after it.
LineFails(why) ==
  IF pc = "status" THEN pc' = "failed" /\ ended' = why ELSE EndHeaders(why)

FillCodes ==
  IF eot THEN {"eot"} ELSE IF SignalSeen THEN {"signal"} ELSE {"eot", "timeout", "error"}

FillFails ==
  /\ Reading /\ lines = 0
  /\ \E why \in FillCodes : LineFails(why) /\ eot' = (why = "eot")
  /\ UNCHANGED <<metadata, interrupted, addresses, lines, response, sending>>

TakeLine == lines > 0 /\ lines' = lines - 1

\* A byte that is negative or zero as a char is taken for a failure; what follows
\* in the line stays in the buffer.
BadByte ==
  /\ Reading /\ lines > 0 /\ LineFails("byte")
  /\ UNCHANGED <<metadata, interrupted, addresses, lines, eot, response, sending>>

-----------------------------------------------------------------------------
(***************************************************************************)
(* receive_HTTP_response_message.                                          *)
(***************************************************************************)
StatusLine ==
  /\ pc = "status" /\ TakeLine
  /\ pc' \in {"headers", "failed"}
  /\ UNCHANGED <<metadata, interrupted, addresses, eot, response, sending, ended>>

\* receive_field_name compares as many characters as the line has.
Begins(s, t) == Len(s) <= Len(t) /\ SubSeq(t, 1, Len(s)) = s
FieldName(name) ==
  IF Begins(name, METAINT_NAME) THEN "ICY_METAINT"
  ELSE IF Begins(name, NAME_NAME) THEN "ICY_NAME" ELSE "UNKNOWN"

\* sscanf("%zu") takes a negative number and wraps it; what has more digits than a size_t
\* becomes the largest one.
Parse_Signed(n) == n
Parse(n) == IF n \in (1 - SizeMod)..(SizeMod - 1) THEN n % SizeMod ELSE SizeMod - 1

Fail == pc' = "failed" /\ UNCHANGED <<metaint, icy_name>>

\* ALREADY_SET.
Repeated(f) ==
  IF FieldName(f.name) = "ICY_NAME" THEN icy_name ELSE metaint # Unset

SetMetaint(f) ==
  /\ FieldName(f.name) = "ICY_METAINT"
  /\ IF f.wellFormed /\ f.isNumber /\ ~Repeated(f)
       THEN metaint' = Parse(f.number) /\ UNCHANGED <<pc, icy_name>>
       ELSE Fail

SetName(f) ==
  /\ FieldName(f.name) = "ICY_NAME"
  /\ IF f.wellFormed /\ ~Repeated(f)
       THEN icy_name' = TRUE /\ UNCHANGED <<pc, metaint>>
       ELSE Fail

HeaderField(f) ==
  /\ pc = "headers" /\ TakeLine
  /\ \/ SetMetaint(f)
     \/ SetName(f)
     \/ FieldName(f.name) = "UNKNOWN" /\ UNCHANGED <<pc, metaint, icy_name>>
  /\ UNCHANGED <<metadata, interrupted, addresses, eot, sending, ended>>

EmptyLine ==
  /\ pc = "headers" /\ TakeLine /\ EndHeaders("empty line")
  /\ UNCHANGED <<metadata, interrupted, addresses, eot, response, sending>>

Negotiate == \/ NoAddress \/ ConnectOk \/ ConnectFails
             \/ \E n \in FailedRequests : PrintMessage(n)
             \/ Send
             \/ \E n \in 1..BufLines : FillData(n)
             \/ FillFails \/ BadByte \/ StatusLine \/ EmptyLine
             \/ \E f \in Field : HeaderField(f)

Interrupt ==
  /\ ~interrupted /\ interrupted' = TRUE
  /\ UNCHANGED <<metadata, pc, addresses, lines, eot, response, sending, ended>>

Init ==
  /\ metadata \in BOOLEAN /\ interrupted = FALSE
  /\ pc = "connect" /\ addresses \in 0..Addresses
  /\ lines = 0 /\ eot = FALSE
  /\ metaint = Unset /\ icy_name = FALSE
  /\ request = << >> /\ left = 0 /\ ptr = 1 /\ sent = << >> /\ errors = 0
  /\ ended = "nothing"

Next == Negotiate \/ Interrupt

Spec == Init /\ [][Next]_vars

-----------------------------------------------------------------------------
(***************************************************************************)
(* Properties.                                                             *)
(***************************************************************************)

\* writen never has more left than its failures have added.
SendTypeOK ==
  /\ left \in 0..(Len(request) + errors) /\ ptr \in (1 - errors)..(Len(request) + 1)
  /\ errors \in 0..MaxErrors

\* Types; a size_t is never negative.
TypeOK ==
  /\ metadata \in BOOLEAN /\ interrupted \in BOOLEAN /\ eot \in BOOLEAN
  /\ pc \in {"connect", "request", "sending", "status", "headers", "agreed", "failed", "killed"}
  /\ addresses \in 0..Addresses /\ lines \in 0..BufLines
  /\ metaint \in 0..(SizeMod - 1) \cup {Unset} /\ icy_name \in BOOLEAN
  /\ ended \in {"nothing", "empty line", "eot", "timeout", "error", "signal", "byte"}
  /\ SendTypeOK

\* The request of a radio, with or without metadata.
WholeRequest ==
  <<"GET", " ", "target", " ", "HTTP/1.0", CRLF,
    "ICY-METADATA", ":", " ", IF metadata THEN "1" ELSE "0", CRLF, CRLF>>

\* Until a write fails, the radio has got a beginning of one whole request, wherever memory
\* ran out, writes were split or SIGINT came; every failure makes it one piece longer, and
\* a response is awaited only when all of it was sent.
RequestIsWhole ==
  /\ Len(sent) <= Len(WholeRequest) + errors
  /\ errors = 0 => \A i \in DOMAIN sent : sent[i] = WholeRequest[i]
  /\ pc \in {"status", "headers", "agreed"} => Len(sent) = Len(WholeRequest) + errors

-----------------------------------------------------------------------------
(***************************************************************************)
(* What the documentation says and the code does not do.                   *)
(***************************************************************************)

\* shout-client.h:18-21: a response that is not complete, or did not come in time,
\* is refused.
OnlyCompleteResponses == pc = "agreed" => ended = "empty line"
===============================================================================

----------------------------- MODULE Startup_proof -----------------------------
(***************************************************************************)
(* The start of the program for every command line, every set of           *)
(* interfaces, every name of a radio, every width of a word and of size_t, *)
(* every size of the buffer and every set of numbers that radios send: the *)
(* invariants of Negotiation alone come first; they are kept when the      *)
(* command line comes before it, and the client process serves as it was   *)
(* asked to.                                                               *)
(***************************************************************************)
EXTENDS Startup, Induction_proof, SequenceTheorems, TLAPS

-----------------------------------------------------------------------------
(***************************************************************************)
(* The negotiation with the radio.                                         *)
(***************************************************************************)
\* What sscanf leaves in a size_t is one: no number of the radio gets out of its range.
LEMMA ParseType ==
  ASSUME NEW n \in Numbers
  PROVE  Parse(n) \in 0..(SizeMod - 1)
BY NegotiationAssumption, SMT DEF Parse, NegotiationAssumption

\* A line that fails ends the negotiation or the reading of the header fields.
LEMMA LineFailsType ==
  ASSUME TypeOK, NEW why \in {"empty line", "eot", "timeout", "error", "signal", "byte"},
         LineFails(why)
  PROVE  /\ pc' \in {"failed", "agreed"}
         /\ ended' \in {"empty line", "eot", "timeout", "error", "signal", "byte"}
BY Zenon DEF LineFails, EndHeaders

\* A header field changes nothing but the response, and leaves it in its type.
LEMMA HeaderFieldType ==
  ASSUME TypeOK, NEW f \in Field, HeaderField(f)
  PROVE  /\ pc' \in {"headers", "failed"}
         /\ metaint' \in 0..(SizeMod - 1) \cup {Unset}
         /\ icy_name' \in BOOLEAN
<1>1. f.number \in Numbers
  BY DEF Field
<1>2. Parse(f.number) \in 0..(SizeMod - 1)
  BY <1>1, ParseType
<1>3. CASE SetMetaint(f)
  BY <1>2, <1>3 DEF SetMetaint, Fail, HeaderField, TypeOK
<1>4. CASE SetName(f)
  BY <1>4 DEF SetName, Fail, HeaderField, TypeOK
<1>5. CASE UNCHANGED <<pc, metaint, icy_name>>
  BY <1>5 DEF HeaderField, TypeOK
<1> QED
  BY <1>3, <1>4, <1>5 DEF HeaderField

-----------------------------------------------------------------------------
(***************************************************************************)
(* Printing.                                                               *)
(***************************************************************************)
\* The function that PrintAll is defined by exists: memory runs out or not piece by piece.
IsPrinting(f, n, str, pieces, failing) ==
  f = [i \in 0..n |-> IF i = 0 THEN str ELSE PrintPiece(f[i - 1], pieces[i], failing)]

LEMMA PrintingExists ==
  ASSUME NEW str, NEW pieces, NEW failing, NEW N \in Nat
  PROVE  \E f : IsPrinting(f, N, str, pieces, failing)
<1> DEFINE S == {n \in 0..N : \E f : IsPrinting(f, n, str, pieces, failing)}
<1>1. 0 \in S
  <2> DEFINE f == [i \in 0..0 |-> str]
  <2>1. IsPrinting(f, 0, str, pieces, failing)
    BY DEF IsPrinting
  <2> QED
    BY <2>1
<1>2. ASSUME NEW n \in 0..(N - 1), n \in S PROVE n + 1 \in S
  <2>1. PICK f : IsPrinting(f, n, str, pieces, failing)
    BY <1>2
  <2> DEFINE g == [i \in 0..(n + 1) |->
                     IF i = n + 1 THEN PrintPiece(f[n], pieces[n + 1], failing) ELSE f[i]]
  <2>2. ASSUME NEW i \in 0..(n + 1)
        PROVE  g[i] = IF i = 0 THEN str ELSE PrintPiece(g[i - 1], pieces[i], failing)
    <3>1. CASE i = n + 1
      BY <3>1
    <3>2. CASE i # n + 1
      <4>1. i \in 0..n
        BY <3>2
      <4>2. g[i] = f[i] /\ (i # 0 => g[i - 1] = f[i - 1])
        BY <4>1
      <4>3. f[i] = IF i = 0 THEN str ELSE PrintPiece(f[i - 1], pieces[i], failing)
        BY ONLY <2>1, <4>1 DEF IsPrinting
      <4> QED
        BY ONLY <4>2, <4>3
    <3> QED
      BY <3>1, <3>2
  <2>3. IsPrinting(g, n + 1, str, pieces, failing)
    <3>1. g = [i \in 0..(n + 1) |-> g[i]]
      OBVIOUS
    <3> HIDE DEF g
    <3> QED
      BY ONLY <3>1, <2>2 DEF IsPrinting
  <2>4. n + 1 \in 0..N
    OBVIOUS
  <2> QED
    BY <2>3, <2>4
<1>3. N \in S
  <2> HIDE DEF S
  <2> QED
    BY <1>1, <1>2, Induction
<1> QED
  BY <1>3

\* All of a text has been printed, or memory has run out.
Printed(str, text) ==
  str = [text |-> text, result |-> 0] \/ \E t : str = [text |-> t, result |-> -1]

LEMMA PrintPieceAdds ==
  ASSUME NEW str, NEW text, NEW piece, NEW failing, Printed(str, text)
  PROVE  Printed(PrintPiece(str, piece, failing), Append(text, piece))
<1>1. CASE str = [text |-> text, result |-> 0]
  <2>1. CASE Len(str.text) = failing
    BY <1>1, <2>1 DEF PrintPiece, Printed
  <2>2. CASE Len(str.text) # failing
    BY <1>1, <2>2 DEF PrintPiece, Printed
  <2> QED
    BY <2>1, <2>2
<1>2. ASSUME NEW t, str = [text |-> t, result |-> -1]
      PROVE  Printed(PrintPiece(str, piece, failing), Append(text, piece))
  BY <1>2 DEF PrintPiece, Printed
<1> QED
  BY <1>1, <1>2 DEF Printed

\* Printing the pieces from k to m of a text of which the first k have been printed.
LEMMA PrintAllAdds ==
  ASSUME NEW S, NEW whole \in Seq(S), NEW k \in Nat, NEW m \in k..Len(whole),
         NEW pieces, Len(pieces) = m - k, \A i \in 1..(m - k) : pieces[i] = whole[k + i],
         NEW str, NEW failing, Printed(str, SubSeq(whole, 1, k))
  PROVE  Printed(PrintAll(str, pieces, failing), SubSeq(whole, 1, m))
<1> DEFINE after[i \in 0..Len(pieces)] ==
             IF i = 0 THEN str ELSE PrintPiece(after[i - 1], pieces[i], failing)
           n == m - k
           upTo(i) == SubSeq(whole, 1, k + i)
           Good == {i \in 0..n : Printed(after[i], upTo(i))}
<1>0. n \in Nat /\ k + n = m
  OBVIOUS
<1>1. IsPrinting(after, Len(pieces), str, pieces, failing)
  <2>1. Len(pieces) \in Nat
    BY <1>0
  <2>2. \E f : IsPrinting(f, Len(pieces), str, pieces, failing)
    BY ONLY <2>1, PrintingExists
  <2> QED
    BY ONLY <2>2 DEF IsPrinting
<1>2. \A i \in 0..n :
        after[i] = IF i = 0 THEN str ELSE PrintPiece(after[i - 1], pieces[i], failing)
  <2> HIDE DEF after
  <2> QED
    BY <1>1 DEF IsPrinting
<1>3. PrintAll(str, pieces, failing) = after[n]
  BY DEF PrintAll
<1> HIDE DEF after, n
<1>4. 0 \in Good
  BY <1>2, <1>0, k + 0 = k
<1>5. ASSUME NEW i \in 0..(n - 1), i \in Good PROVE i + 1 \in Good
  <2>1. i + 1 \in 1..n /\ (i + 1) - 1 = i /\ k + (i + 1) = (k + i) + 1
    BY <1>0
  <2>2. after[i + 1] = PrintPiece(after[i], whole[k + (i + 1)], failing)
    BY <1>0, <1>2, <2>1 DEF n
  <2>3. upTo(i + 1) = Append(upTo(i), whole[k + (i + 1)])
    <3>1. k + i \in 0..(Len(whole) - 1)
      BY <1>0
    <3>2. \A j \in 0..(Len(whole) - 1) :
            SubSeq(whole, 1, j + 1) = Append(SubSeq(whole, 1, j), whole[j + 1])
      OBVIOUS
    <3> QED
      BY ONLY <2>1, <3>1, <3>2
  <2>4. Printed(after[i], upTo(i)) /\ i + 1 \in 0..n
    BY <1>5, <1>0
  <2>5. Printed(after[i + 1], upTo(i + 1))
    <3> HIDE DEF upTo
    <3> QED
      BY ONLY <2>2, <2>3, <2>4, PrintPieceAdds
  <2> QED
    BY <2>4, <2>5
<1>6. n \in Good
  <2> HIDE DEF Good
  <2> QED
    BY <1>0, <1>4, <1>5, Induction
<1> QED
  BY <1>3, <1>6, <1>0

\* Three functions print it, and none of them goes on after a failure of the one before.
LEMMA RequestPrinted ==
  ASSUME NEW failing, PrintRequest(metadata, failing).result = 0
  PROVE  PrintRequest(metadata, failing).text = WholeRequest
<1> DEFINE S      == {"GET", " ", "target", "HTTP/1.0", CRLF, "ICY-METADATA", ":",
                      FieldValue(metadata)}
           W      == WholeRequest
           first  == <<"GET", " ", "target", " ", "HTTP/1.0", CRLF>>
           second == <<"ICY-METADATA", ":", " ", FieldValue(metadata), CRLF>>
           third  == <<CRLF>>
           none   == [text |-> << >>, result |-> 0]
           line   == PrintRequestLine(none, failing)
           field  == PrintHeaderField(line, metadata, failing)
           whole  == PrintAll(field, third, failing)
<1>1. W \in Seq(S) /\ Len(W) = 12
  BY DEF WholeRequest, FieldValue
<1>2. Len(first) = 6 /\ \A i \in 1..6 : first[i] = W[0 + i]
  BY DEF WholeRequest, FieldValue
<1>3. Len(second) = 5 /\ \A i \in 1..5 : second[i] = W[6 + i]
  BY DEF WholeRequest, FieldValue
<1>4. Len(third) = 1 /\ \A i \in 1..1 : third[i] = W[11 + i]
  BY DEF WholeRequest, FieldValue
<1>5. PrintRequest(metadata, failing) = whole
  BY DEF PrintRequest
<1>6. /\ line = PrintAll(none, first, failing)
      /\ field = PrintAll(line, second, failing)
  BY DEF PrintRequestLine, PrintHeaderField
<1>7. Printed(none, << >>)
  BY DEF Printed
<1> HIDE DEF S, W, first, second, third, none, line, field, whole
<1>8. SubSeq(W, 1, 0) = << >> /\ SubSeq(W, 1, 12) = W
  BY <1>1
<1>9. ASSUME NEW k \in Nat, NEW m \in k..12, NEW pieces, NEW str,
             Len(pieces) = m - k, \A i \in 1..(m - k) : pieces[i] = W[k + i],
             Printed(str, SubSeq(W, 1, k))
      PROVE  Printed(PrintAll(str, pieces, failing), SubSeq(W, 1, m))
  BY <1>1, <1>9, PrintAllAdds
<1>10. Printed(line, SubSeq(W, 1, 6))
  <2>1. 0 \in Nat /\ 6 \in 0..12 /\ 6 - 0 = 6
    OBVIOUS
  <2>2. Len(first) = 6 - 0 /\ \A i \in 1..(6 - 0) : first[i] = W[0 + i]
    BY ONLY <1>2, <2>1
  <2> QED
    BY ONLY <1>9, <2>1, <2>2, <1>6, <1>7, <1>8
<1>11. Printed(field, SubSeq(W, 1, 11))
  <2>1. 6 \in Nat /\ 11 \in 6..12 /\ 11 - 6 = 5
    OBVIOUS
  <2>2. Len(second) = 11 - 6 /\ \A i \in 1..(11 - 6) : second[i] = W[6 + i]
    BY ONLY <1>3, <2>1
  <2> QED
    BY ONLY <1>9, <2>1, <2>2, <1>6, <1>10
<1>12. Printed(whole, SubSeq(W, 1, 12))
  <2>1. 11 \in Nat /\ 12 \in 11..12 /\ 12 - 11 = 1
    OBVIOUS
  <2>2. Len(third) = 12 - 11 /\ \A i \in 1..(12 - 11) : third[i] = W[11 + i]
    BY ONLY <1>4, <2>1
  <2> QED
    BY ONLY <1>9, <2>1, <2>2, <1>11 DEF whole
<1> QED
  BY <1>5, <1>8, <1>12 DEF Printed, W

-----------------------------------------------------------------------------
(***************************************************************************)
(* Sending.                                                                *)
(***************************************************************************)
Pieces == {"GET", " ", "target", "HTTP/1.0", CRLF, "ICY-METADATA", ":", "0", "1", Junk}

LEMMA RequestPieces ==
  WholeRequest \in Seq(Pieces) /\ Len(WholeRequest) = 12
BY DEF WholeRequest, Pieces

\* The states in which a response is awaited or agreed to.
Response == {"status", "headers", "agreed"}

\* The request is printed before and sent from its first piece to its last: how far writen is
\* tells how much was sent, one piece more for each failure.
SendInv ==
  /\ request \in {<< >>, WholeRequest}
  /\ pc \in {"connect", "request"} => request = << >>
  /\ request = << >> => left = 0 /\ errors = 0
  /\ pc = "sending" => request = WholeRequest /\ left > 0
  /\ pc \in Response => request = WholeRequest /\ left = 0
  /\ left \in Nat /\ ptr \in Int /\ errors \in 0..MaxErrors
  /\ ptr + left = Len(request) + 1
  /\ sent \in Seq(Pieces) /\ Len(sent) = ptr - 1 + errors
  /\ errors = 0 => \A i \in 1..Len(sent) : sent[i] = WholeRequest[i]

LEMMA SendInvTypes ==
  ASSUME SendInv
  PROVE  SendTypeOK
<1>1. Len(request) \in Nat
  BY RequestPieces DEF SendInv
<1>2. Len(sent) \in Nat /\ MaxErrors \in Nat
  BY NegotiationAssumption DEF SendInv, NegotiationAssumption
<1>3. /\ left \in Nat /\ ptr \in Int /\ errors \in 0..MaxErrors
      /\ ptr + left = Len(request) + 1 /\ Len(sent) = ptr - 1 + errors
  BY DEF SendInv
<1> QED
  BY ONLY <1>1, <1>2, <1>3 DEF SendTypeOK

LEMMA SendInvInit == Init => SendInv
<1> SUFFICES ASSUME Init PROVE SendInv
  OBVIOUS
<1>1. Len(<< >>) = 0 /\ << >> \in Seq(Pieces) /\ MaxErrors \in Nat
  BY NegotiationAssumption DEF NegotiationAssumption
<1> QED
  BY <1>1 DEF Init, SendInv, Response

\* The other steps neither send nor make a response out of nothing.
LEMMA SendInvQuiet ==
  ASSUME SendInv, UNCHANGED <<metadata, sending>>,
         \/ pc' = pc
         \/ pc' \in {"failed", "killed"}
         \/ pc = "connect" /\ pc' = "request"
         \/ pc \in Response /\ pc' \in Response
  PROVE  SendInv'
<1>1. WholeRequest' = WholeRequest
  BY DEF WholeRequest, sending
<1>2. UNCHANGED <<request, left, ptr, sent, errors>>
  BY DEF sending
<1>3. /\ pc' \in {"connect", "request"} => pc \in {"connect", "request"}
      /\ pc' = "sending" => pc = "sending"
      /\ pc' \in Response => pc \in Response
  BY DEF Response
<1> QED
  BY <1>1, <1>2, <1>3 DEF SendInv

\* The whole of the request is printed before it is sent.
LEMMA SendInvPrint ==
  ASSUME SendInv, NEW n \in FailedRequests, PrintMessage(n)
  PROVE  SendInv'
<1> DEFINE str == PrintRequest(metadata, n)
<1>1. CASE str.result # 0
  <2>1. UNCHANGED <<metadata, sending>> /\ pc' = "failed"
    BY <1>1 DEF PrintMessage, sending
  <2> QED
    BY <2>1, SendInvQuiet
<1>2. CASE str.result = 0
  <2>1. str.text = WholeRequest
    BY <1>2, RequestPrinted
  <2>2. /\ pc' = "sending" /\ request' = WholeRequest /\ left' = 12
        /\ UNCHANGED <<metadata, ptr, sent, errors>>
    BY <1>2, <2>1, RequestPieces DEF PrintMessage
  <2>3. WholeRequest' = WholeRequest
    BY <2>2 DEF WholeRequest
  <2>4. request = << >> /\ left = 0 /\ errors = 0
    BY DEF SendInv, PrintMessage
  <2>5. ptr = 1 /\ Len(sent) = 0 /\ sent \in Seq(Pieces) /\ MaxErrors \in Nat
    BY <2>4, NegotiationAssumption DEF SendInv, NegotiationAssumption
  <2>6. /\ pc' = "sending" /\ request' = WholeRequest' /\ left' = 12 /\ ptr' = 1 /\ errors' = 0
        /\ sent' \in Seq(Pieces) /\ Len(sent') = 0 /\ Len(request') = 12
    BY <2>2, <2>3, <2>4, <2>5, RequestPieces
  <2> QED
    BY ONLY <2>5, <2>6 DEF SendInv, Response
<1> QED
  BY <1>1, <1>2

\* A part of it is sent.
LEMMA SendInvPart ==
  ASSUME SendInv, NEW n \in 1..left, SendPart(n)
  PROVE  SendInv'
<1> DEFINE part == [i \in 1..n |-> Piece(ptr + i - 1)]
<1>1. /\ request = WholeRequest /\ left \in Nat /\ ptr \in Int /\ errors \in 0..MaxErrors
      /\ ptr + left = 13 /\ Len(sent) = ptr - 1 + errors /\ sent \in Seq(Pieces)
  <2>1. request = WholeRequest
    BY DEF SendInv, SendPart
  <2>2. Len(request) = 12
    BY <2>1, RequestPieces
  <2> QED
    BY <2>1, <2>2 DEF SendInv
<1>2. /\ left' = left - n /\ ptr' = ptr + n
      /\ UNCHANGED <<metadata, request, errors>>
      /\ pc' = IF n = left THEN "status" ELSE "sending"
      /\ sent' = sent \o part
  BY DEF SendPart
<1>3. WholeRequest' = WholeRequest
  BY <1>2 DEF WholeRequest
<1>4. part \in Seq(Pieces) /\ Len(part) = n
  <2>1. ASSUME NEW i \in Int PROVE Piece(i) \in Pieces
    <3>1. CASE i \in DOMAIN request
      <4>1. request \in Seq(Pieces)
        BY <1>1, RequestPieces
      <4> QED
        BY ONLY <3>1, <4>1 DEF Piece
    <3>2. CASE i \notin DOMAIN request
      BY <3>2 DEF Piece, Pieces
    <3> QED
      BY <3>1, <3>2
  <2>2. n \in Nat /\ \A i \in 1..n : ptr + i - 1 \in Int
    BY <1>1
  <2>3. \A i \in 1..n : Piece(ptr + i - 1) \in Pieces
    BY ONLY <2>1, <2>2
  <2> HIDE DEF Piece, Pieces
  <2> QED
    BY ONLY <2>2, <2>3
<1> HIDE DEF part
<1>5. /\ sent' \in Seq(Pieces) /\ Len(sent') = Len(sent) + n
      /\ \A i \in 1..Len(sent) : sent'[i] = sent[i]
      /\ \A i \in (Len(sent) + 1)..(Len(sent) + n) : sent'[i] = part[i - Len(sent)]
  <2>1. /\ sent \o part \in Seq(Pieces) /\ Len(sent \o part) = Len(sent) + Len(part)
        /\ \A i \in 1..Len(sent) + Len(part) :
             (sent \o part)[i] = IF i <= Len(sent) THEN sent[i] ELSE part[i - Len(sent)]
    BY ONLY <1>1, <1>4, ConcatProperties
  <2>2. Len(sent) \in Nat /\ n \in Nat
    BY <1>1
  <2> QED
    BY ONLY <1>2, <1>4, <2>1, <2>2
<1>6. /\ left' \in Nat /\ ptr' \in Int /\ ptr' + left' = 13
      /\ Len(sent') = ptr' - 1 + errors
      /\ n # left => left' > 0
      /\ n = left => left' = 0
  BY ONLY <1>1, <1>2, <1>5, n \in 1..left
<1>7. ASSUME errors = 0, NEW i \in 1..Len(sent') PROVE sent'[i] = WholeRequest[i]
  <2>1. Len(sent) = ptr - 1 /\ Len(sent) \in Nat /\ i \in Nat
    BY <1>1, <1>5, <1>7
  <2>2. CASE i \in 1..Len(sent)
    BY <1>5, <1>7, <2>2 DEF SendInv
  <2>3. CASE i \notin 1..Len(sent)
    <3>1. i \in (Len(sent) + 1)..(Len(sent) + n)
      BY ONLY <1>5, <1>7, <2>1, <2>3, n \in 1..left, <1>1
    <3>2. i - Len(sent) \in 1..n /\ ptr + (i - Len(sent)) - 1 = i
      BY ONLY <1>1, <2>1, <3>1, n \in 1..left
    <3>3. part[i - Len(sent)] = Piece(i)
      BY ONLY <3>2 DEF part
    <3>4. i \in 1..12
      BY ONLY <1>1, <2>1, <3>1, n \in 1..left
    <3>5. Piece(i) = WholeRequest[i]
      BY <1>1, <3>4, RequestPieces DEF Piece
    <3> QED
      BY <1>5, <3>1, <3>3, <3>5
  <2> QED
    BY <2>2, <2>3
<1>8. /\ request' = WholeRequest' /\ Len(request') = 12 /\ WholeRequest' # << >>
      /\ errors' \in 0..MaxErrors
  <2>1. Len(WholeRequest) = 12 /\ WholeRequest # << >>
    BY DEF WholeRequest
  <2> QED
    BY <1>1, <1>2, <1>3, <2>1
<1>9. \/ pc' = "sending" /\ left' > 0
      \/ pc' = "status" /\ left' = 0
  BY ONLY <1>2, <1>6
<1>10. errors' = 0 => \A i \in 1..Len(sent') : sent'[i] = WholeRequest'[i]
  BY ONLY <1>2, <1>3, <1>7
<1>11. ptr' + left' = Len(request') + 1 /\ Len(sent') = ptr' - 1 + errors'
  BY ONLY <1>2, <1>6, <1>8
<1> QED
  BY ONLY <1>5, <1>6, <1>8, <1>9, <1>10, <1>11 DEF SendInv, Response

\* A write that fails moves the place where what is left begins.
LEMMA SendInvFails ==
  ASSUME SendInv, SendFails
  PROVE  SendInv'
<1>1. /\ request = WholeRequest /\ left \in Nat /\ ptr \in Int /\ errors \in 0..MaxErrors
      /\ ptr + left = 13 /\ Len(sent) = ptr - 1 + errors /\ sent \in Seq(Pieces)
  <2>1. request = WholeRequest
    BY DEF SendInv, SendFails
  <2>2. Len(request) = 12
    BY <2>1, RequestPieces
  <2> QED
    BY <2>1, <2>2 DEF SendInv
<1>2. /\ left' = left + 1 /\ ptr' = ptr - 1 /\ errors' = errors + 1 /\ errors < MaxErrors
      /\ pc' = "sending" /\ UNCHANGED <<metadata, request, sent>>
  BY DEF SendFails
<1>3. WholeRequest' = WholeRequest
  BY <1>2 DEF WholeRequest
<1>4. MaxErrors \in Nat
  BY NegotiationAssumption DEF NegotiationAssumption
<1>5. /\ left' \in Nat /\ left' > 0 /\ ptr' \in Int /\ errors' \in 0..MaxErrors /\ errors' # 0
      /\ ptr' + left' = 13 /\ Len(sent) = ptr' - 1 + errors'
  BY ONLY <1>1, <1>2, <1>4
<1>6. /\ request' = WholeRequest' /\ Len(request') = 12 /\ WholeRequest' # << >>
      /\ sent' \in Seq(Pieces) /\ Len(sent') = ptr' - 1 + errors'
  <2>1. Len(WholeRequest) = 12 /\ WholeRequest # << >>
    BY DEF WholeRequest
  <2> QED
    BY <1>1, <1>2, <1>3, <1>5, <2>1
<1> QED
  BY ONLY <1>2, <1>5, <1>6 DEF SendInv, Response

LEMMA SendInvNext ==
  ASSUME SendInv, [Next]_vars
  PROVE  SendInv'
<1>1. CASE NoAddress \/ ConnectOk \/ ConnectFails
  BY <1>1, SendInvQuiet DEF NoAddress, ConnectOk, ConnectFails
<1>2. ASSUME NEW n \in FailedRequests, PrintMessage(n) PROVE SendInv'
  BY <1>2, SendInvPrint
<1>3. ASSUME NEW n \in 1..left, SendPart(n) PROVE SendInv'
  BY <1>3, SendInvPart
<1>4. CASE SendFails
  BY <1>4, SendInvFails
<1>5. CASE SendInterrupted \/ RadioGone
  BY <1>5, SendInvQuiet DEF SendInterrupted, RadioGone
<1>6. ASSUME NEW n \in 1..BufLines, FillData(n) PROVE SendInv'
  BY <1>6, SendInvQuiet DEF FillData
<1>7. ASSUME NEW why, LineFails(why), pc \in {"status", "headers"},
             UNCHANGED <<metadata, sending>>
      PROVE  SendInv'
  BY <1>7, SendInvQuiet DEF LineFails, EndHeaders, Response
<1>8. CASE FillFails
  BY <1>7, <1>8 DEF FillFails, Reading
<1>9. CASE BadByte
  BY <1>7, <1>9 DEF BadByte, Reading
<1>10. CASE StatusLine \/ EmptyLine
  BY <1>10, SendInvQuiet DEF StatusLine, EmptyLine, EndHeaders, Response
<1>11. ASSUME NEW f \in Field, HeaderField(f) PROVE SendInv'
  BY <1>11, SendInvQuiet DEF HeaderField, SetMetaint, SetName, Fail, Response
<1>12. CASE Interrupt \/ UNCHANGED vars
  BY <1>12, SendInvQuiet DEF Interrupt, vars
<1> QED
  BY <1>1, <1>2, <1>3, <1>4, <1>5, <1>6, <1>8, <1>9, <1>10, <1>11, <1>12
     DEF Next, Negotiate, Send

LEMMA SendInvWhole ==
  ASSUME SendInv
  PROVE  RequestIsWhole
<1>1. Len(WholeRequest) = 12 /\ Len(request) \in {0, 12}
  BY RequestPieces DEF SendInv
<1>2. /\ left \in Nat /\ ptr \in Int /\ errors \in 0..MaxErrors /\ MaxErrors \in Nat
      /\ ptr + left = Len(request) + 1 /\ Len(sent) = ptr - 1 + errors
  BY NegotiationAssumption DEF SendInv, NegotiationAssumption
<1>3. Len(sent) <= 12 + errors
  <2>1. left \in Nat /\ ptr \in Int /\ errors \in Int
    BY <1>2
  <2>2. ptr - 1 <= 12
    <3>1. CASE Len(request) = 0
      <4>1. ptr + left = 1
        BY <1>2, <3>1
      <4> QED
        BY ONLY <2>1, <4>1
    <3>2. CASE Len(request) = 12
      <4>1. ptr + left = 13
        BY <1>2, <3>2
      <4> QED
        BY ONLY <2>1, <4>1
    <3> QED
      BY <1>1, <3>1, <3>2
  <2> DEFINE n == ptr - 1
  <2>3. n \in Int /\ n <= 12 /\ Len(sent) = n + errors
    BY <1>2, <2>1, <2>2
  <2> HIDE DEF n
  <2> QED
    BY ONLY <2>1, <2>3
<1>4. ASSUME pc \in Response PROVE Len(sent) = 12 + errors
  <2>1. left = 0 /\ Len(request) = 12
    BY <1>1, <1>4 DEF SendInv
  <2> QED
    BY ONLY <1>2, <2>1
<1>5. DOMAIN sent = 1..Len(sent)
  BY DEF SendInv
<1> QED
  BY <1>1, <1>3, <1>4, <1>5 DEF SendInv, RequestIsWhole, Response

-----------------------------------------------------------------------------
\* What the buffer and the list of addresses hold stays within their sizes.
LEMMA Counting ==
  /\ 0 \in 0..BufLines
  /\ \A n \in 1..BufLines : n \in 0..BufLines
  /\ \A n \in 0..BufLines : n > 0 => n - 1 \in 0..BufLines
  /\ \A n \in 0..Addresses : n > 0 => n - 1 \in 0..Addresses
<1>1. BufLines \in Nat /\ Addresses \in Nat
  BY NegotiationAssumption DEF NegotiationAssumption
<1> QED
  BY <1>1, SMT

LEMMA TypeOKInit == Init => TypeOK
BY Counting, SendInvInit, SendInvTypes, Zenon DEF Init, TypeOK

\* Every step preserves the types.
LEMMA TypeOKNext ==
  ASSUME TypeOK, SendTypeOK', [Next]_vars
  PROVE  TypeOK'
<1>1. CASE NoAddress
  BY <1>1 DEF NoAddress, TypeOK, response
<1>2. CASE ConnectOk
  BY <1>2 DEF ConnectOk, TypeOK, response
<1>3. CASE ConnectFails
  <2>1. addresses' \in 0..Addresses
    BY <1>3, Counting, Zenon DEF ConnectFails, TypeOK
  <2>2. pc' \in {"failed", "connect"}
    BY <1>3 DEF ConnectFails
  <2> QED
    BY <1>3, <2>1, <2>2 DEF ConnectFails, TypeOK, response
<1>4. CASE (\E n \in FailedRequests : PrintMessage(n)) \/ Send
  <2>1. /\ pc' \in {"sending", "status", "failed", "killed"}
        /\ UNCHANGED <<metadata, interrupted, addresses, lines, eot, response, ended>>
    <3>1. ASSUME NEW n \in FailedRequests, PrintMessage(n)
          PROVE  /\ pc' \in {"sending", "status", "failed", "killed"}
                 /\ UNCHANGED <<metadata, interrupted, addresses, lines, eot, response, ended>>
      BY <3>1 DEF PrintMessage
    <3>2. CASE Send
      BY <3>2 DEF Send, SendPart, SendFails, SendInterrupted, RadioGone
    <3> QED
      BY <1>4, <3>1, <3>2
  <2> QED
    BY <2>1 DEF TypeOK, response
<1>5. ASSUME NEW n \in 1..BufLines, FillData(n)
      PROVE  TypeOK'
  <2>1. lines' \in 0..BufLines
    BY <1>5, Counting, Zenon DEF FillData
  <2> QED
    BY <1>5, <2>1 DEF FillData, TypeOK, response
<1>6. CASE FillFails
  <2>1. PICK why \in FillCodes : LineFails(why) /\ eot' = (why = "eot")
    BY <1>6, Zenon DEF FillFails
  <2>2. why \in {"eot", "timeout", "error", "signal"}
    BY <2>1 DEF FillCodes
  <2>3. /\ pc' \in {"failed", "agreed"}
        /\ ended' \in {"empty line", "eot", "timeout", "error", "signal", "byte"}
    BY <2>1, <2>2, LineFailsType
  <2>4. eot' \in BOOLEAN
    BY <2>1, Zenon
  <2>5. UNCHANGED <<metadata, interrupted, addresses, lines, response>>
    BY <1>6 DEF FillFails
  <2> QED
    BY <2>3, <2>4, <2>5 DEF TypeOK, response
<1>7. CASE BadByte
  <2>1. LineFails("byte")
    BY <1>7 DEF BadByte
  <2>2. /\ pc' \in {"failed", "agreed"}
        /\ ended' \in {"empty line", "eot", "timeout", "error", "signal", "byte"}
    BY <2>1, LineFailsType
  <2> QED
    BY <1>7, <2>2 DEF BadByte, TypeOK, response
<1>8. CASE StatusLine
  <2>1. lines' \in 0..BufLines
    BY <1>8, Counting, Zenon DEF StatusLine, TakeLine, TypeOK
  <2> QED
    BY <1>8, <2>1 DEF StatusLine, TypeOK, response
<1>9. CASE EmptyLine
  <2>1. pc' \in {"failed", "agreed"} /\ ended' = "empty line"
    BY <1>9 DEF EmptyLine, EndHeaders
  <2>2. lines' \in 0..BufLines
    BY <1>9, Counting, Zenon DEF EmptyLine, TakeLine, TypeOK
  <2> QED
    BY <1>9, <2>1, <2>2 DEF EmptyLine, TypeOK, response
<1>10. ASSUME NEW f \in Field, HeaderField(f)
       PROVE  TypeOK'
  <2>1. /\ pc' \in {"headers", "failed"}
        /\ metaint' \in 0..(SizeMod - 1) \cup {Unset}
        /\ icy_name' \in BOOLEAN
    BY <1>10, HeaderFieldType
  <2>2. lines' \in 0..BufLines
    BY <1>10, Counting, Zenon DEF HeaderField, TakeLine, TypeOK
  <2>3. UNCHANGED <<metadata, interrupted, addresses, eot, ended>>
    BY <1>10 DEF HeaderField
  <2> QED
    BY <2>1, <2>2, <2>3 DEF TypeOK
<1>11. CASE Interrupt
  BY <1>11 DEF Interrupt, TypeOK, response
<1>12. CASE UNCHANGED vars
  <2>1. UNCHANGED <<metadata, interrupted, pc, addresses, lines, eot, metaint, icy_name, ended>>
    BY <1>12 DEF vars, response
  <2> QED
    BY <2>1 DEF TypeOK
<1> QED
  BY <1>1, <1>2, <1>3, <1>4, <1>5, <1>6, <1>7, <1>8, <1>9, <1>10, <1>11, <1>12
     DEF Next, Negotiate

\* The invariant of the negotiation.
NegotiationInv == TypeOK /\ SendInv

LEMMA NegotiationInvNext ==
  ASSUME NegotiationInv, [Next]_vars
  PROVE  NegotiationInv'
<1>1. SendInv'
  BY SendInvNext DEF NegotiationInv
<1>2. SendTypeOK'
  BY <1>1, SendInvTypes, PTL
<1> QED
  BY <1>1, <1>2, TypeOKNext DEF NegotiationInv

LEMMA NegotiationInvAlways == Spec => []NegotiationInv
<1>1. Init => NegotiationInv
  BY TypeOKInit, SendInvInit DEF NegotiationInv
<1>2. NegotiationInv /\ [Next]_vars => NegotiationInv'
  BY NegotiationInvNext
<1> QED
  BY <1>1, <1>2, PTL DEF Spec

(***************************************************************************)
(* Whatever numbers and however many header fields the radio sends,        *)
(* metaint stays a size_t or unset; and the counters of writen stay within *)
(* the request and its failures.                                           *)
(***************************************************************************)
THEOREM NegotiationTypes == Spec => []TypeOK
<1>1. NegotiationInv => TypeOK
  BY DEF NegotiationInv
<1> QED
  BY <1>1, NegotiationInvAlways, PTL

(***************************************************************************)
(* However memory runs out, writes are split or fail, and SIGINT comes: a  *)
(* response is awaited only after all of the request, and what was sent    *)
(* before a write failed is a beginning of it.                             *)
(***************************************************************************)
THEOREM RequestsAreWhole == Spec => []RequestIsWhole
<1>1. NegotiationInv => RequestIsWhole
  BY SendInvWhole DEF NegotiationInv
<1> QED
  BY <1>1, NegotiationInvAlways, PTL

-----------------------------------------------------------------------------
(***************************************************************************)
(* What is accepted of a command line.                                     *)
(***************************************************************************)
\* get_metadata: yes, no or refused.
LEMMA MetadataType ==
  ASSUME NEW arg
  PROVE  MetadataOf(arg) \in BOOLEAN \cup {Refused}
BY DEF MetadataOf

\* get_proxy_port: none, a port or refused.
LEMMA PortType ==
  ASSUME NEW arg
  PROVE  PortOf(arg) \in {NoPort} \cup 1..MaxPort \cup {Refused}
<1>1. CASE arg = NULL
  BY <1>1 DEF PortOf
<1>2. CASE arg # NULL
  BY <1>2, Zenon DEF PortOf
<1> QED
  BY <1>1, <1>2

\* No getter of an accepted command line has failed.
LEMMA AcceptedTypes ==
  ASSUME NEW args, ParseCommandLineArgs(args) # Refused
  PROVE  /\ ParseCommandLineArgs(args).metadata \in BOOLEAN
         /\ ParseCommandLineArgs(args).proxy_port \in {NoPort} \cup 1..MaxPort
<1> DEFINE given == [flag \in Flags |-> GetParameterString(args, flag)]
           cml   == ArgsFrom(given)
<1>1. /\ ParseCommandLineArgs(args) = cml
      /\ \A f \in DOMAIN cml : cml[f] # Refused
  BY Zenon DEF ParseCommandLineArgs
<1>2. /\ cml.metadata = MetadataOf(given["-m"])
      /\ cml.proxy_port = PortOf(given["-P"])
      /\ {"metadata", "proxy_port"} \subseteq DOMAIN cml
  <2> HIDE DEF given
  <2> QED BY DEF ArgsFrom
<1>3. cml.metadata # Refused /\ cml.proxy_port # Refused
  <2> HIDE DEF cml
  <2> QED BY <1>1, <1>2
<1>4. cml.metadata \in BOOLEAN
  <2> HIDE DEF cml, given
  <2> QED BY <1>2, <1>3, MetadataType, Zenon
<1>5. cml.proxy_port \in {NoPort} \cup 1..MaxPort
  <2> HIDE DEF cml, given
  <2> QED BY <1>2, <1>3, PortType, Zenon
<1> QED
  BY ONLY <1>1, <1>4, <1>5

-----------------------------------------------------------------------------
(***************************************************************************)
(* The negotiation as a part of the start.                                 *)
(***************************************************************************)
\* Nothing of the negotiation happens before the command line is accepted, and metadata
\* changes only where that is done.
Untouched ==
  /\ stage \in {"parse", "refused", "negotiate", "forked"}
  /\ stage \in {"parse", "refused"} => pc = "connect"

StartInv == NegotiationInv /\ Untouched

\* A step of the start is the parsing of the command line, or one that Negotiation allows.
LEMMA StartupStep ==
  ASSUME [StartupNext]_startupVars
  PROVE  \/ ParseArgs
         \/ [Next]_vars /\ UNCHANGED <<argv, cmd>>
<1>1. CASE NegotiateWithRadio
  BY <1>1 DEF NegotiateWithRadio, Next
<1>2. CASE ForkSons
  BY <1>2 DEF ForkSons
<1>3. CASE StartClient
  <2>1. UNCHANGED <<vars, stage, argv, cmd>>
    BY <1>3 DEF StartClient, OpenSocket, Bind, ParseGroup, ListInterfaces, JoinGroup,
                GroupJoined, SetIamCrashes, NoMemory, SetIam, InClient
  <2> QED
    BY <2>1
<1>4. CASE InterruptStart
  BY <1>4 DEF InterruptStart, Next
<1>5. CASE UNCHANGED startupVars
  BY <1>5 DEF startupVars
<1> QED
  BY <1>1, <1>2, <1>3, <1>4, <1>5 DEF StartupNext, Start

\* Where nothing is printed yet, nothing is sent.
LEMMA NothingSent ==
  ASSUME SendInv, pc = "connect"
  PROVE  /\ request = << >> /\ left = 0 /\ errors = 0 /\ ptr = 1
         /\ Len(sent) = 0 /\ sent \in Seq(Pieces)
<1>1. request = << >> /\ left = 0 /\ errors = 0 /\ sent \in Seq(Pieces)
  BY DEF SendInv
<1>2. ptr \in Int /\ ptr + 0 = Len(<< >>) + 1 /\ Len(sent) = ptr - 1 + 0
  BY <1>1 DEF SendInv
<1> QED
  BY <1>1, <1>2

\* The command line leaves a choice of metadata, and nothing else changes.
LEMMA ParseArgsKeeps ==
  ASSUME StartInv, ParseArgs
  PROVE  StartInv'
<1>1. metadata' \in BOOLEAN
  <2>1. CASE cmd' = Refused
    BY <2>1 DEF ParseArgs, StartInv, NegotiationInv, TypeOK
  <2>2. CASE cmd' # Refused
    BY <2>2, AcceptedTypes DEF ParseArgs
  <2> QED
    BY <2>1, <2>2
<1>2. /\ UNCHANGED <<interrupted, pc, addresses, lines, eot, metaint, icy_name, ended>>
      /\ UNCHANGED <<request, left, ptr, sent, errors>>
  BY DEF ParseArgs, response, sending
<1>3. pc = "connect" /\ stage' \in {"refused", "negotiate"}
  BY DEF ParseArgs, StartInv, Untouched
<1>4. TypeOK'
  BY <1>1, <1>2 DEF StartInv, NegotiationInv, TypeOK, SendTypeOK
<1>5. SendInv'
  <2>1. /\ request' = << >> /\ left' = 0 /\ errors' = 0 /\ ptr' = 1
        /\ Len(sent') = 0 /\ sent' \in Seq(Pieces)
    BY <1>2, <1>3, NothingSent DEF StartInv, NegotiationInv
  <2>2. pc' = "connect" /\ MaxErrors \in Nat /\ Len(<< >>) = 0
    BY <1>2, <1>3, NegotiationAssumption DEF NegotiationAssumption
  <2> QED
    BY ONLY <2>1, <2>2 DEF SendInv, Response
<1> QED
  BY <1>2, <1>3, <1>4, <1>5 DEF StartInv, NegotiationInv, Untouched

\* No other step goes back to the command line.
LEMMA UntouchedNext ==
  ASSUME Untouched, [StartupNext]_startupVars, ~ParseArgs
  PROVE  Untouched'
<1>1. CASE NegotiateWithRadio
  BY <1>1 DEF NegotiateWithRadio, Untouched
<1>2. CASE ForkSons
  BY <1>2 DEF ForkSons, Untouched
<1>3. CASE StartClient
  <2>1. UNCHANGED <<vars, stage>>
    BY <1>3 DEF StartClient, OpenSocket, Bind, ParseGroup, ListInterfaces, JoinGroup,
                GroupJoined, SetIamCrashes, NoMemory, SetIam, InClient
  <2> QED
    BY <2>1 DEF Untouched, vars
<1>4. CASE InterruptStart
  BY <1>4 DEF InterruptStart, Interrupt, Untouched
<1>5. CASE UNCHANGED startupVars
  BY <1>5 DEF startupVars, vars, Untouched
<1> QED
  BY <1>1, <1>2, <1>3, <1>4, <1>5 DEF StartupNext, Start

LEMMA StartInvAlways == StartupSpec => []StartInv
<1>1. StartupInit => StartInv
  BY TypeOKInit, SendInvInit DEF StartupInit, Init, StartInv, NegotiationInv, Untouched
<1>2. ASSUME StartInv, [StartupNext]_startupVars
      PROVE  StartInv'
  <2>1. CASE ParseArgs
    BY <1>2, <2>1, ParseArgsKeeps
  <2>2. CASE ~ParseArgs
    <3>1. [Next]_vars
      BY <1>2, <2>2, StartupStep
    <3>2. NegotiationInv'
      BY <1>2, <3>1, NegotiationInvNext DEF StartInv
    <3>3. Untouched'
      BY <1>2, <2>2, UntouchedNext DEF StartInv
    <3> QED
      BY <3>2, <3>3 DEF StartInv
  <2> QED
    BY <2>1, <2>2
<1> QED
  BY <1>1, <1>2, PTL DEF StartupSpec

(***************************************************************************)
(* The whole start keeps the types of the negotiation: the choice of       *)
(* metadata that comes out of the command line is one, whatever stands     *)
(* behind -m.                                                              *)
(***************************************************************************)
THEOREM StartupTypes == StartupSpec => []TypeOK
<1>1. StartInv => TypeOK
  BY DEF StartInv, NegotiationInv
<1> QED
  BY <1>1, StartInvAlways, PTL


-----------------------------------------------------------------------------
(***************************************************************************)
(* The scan of the arguments and their pairs.                              *)
(***************************************************************************)
LEMMA FirstIsLeast ==
  ASSUME NEW S \in SUBSET Nat, S # {}
  PROVE  First(S) \in S /\ \A j \in S : First(S) <= j
<1>1. \E i \in S : \A j \in S : i <= j
  BY LeastNatural
<1> QED
  BY ONLY <1>1 DEF First

LEMMA FirstIs ==
  ASSUME NEW S \in SUBSET Nat, NEW n \in S, \A j \in S : n <= j
  PROVE  First(S) = n
<1>1. First(S) \in S /\ First(S) <= n /\ n <= First(S)
  BY FirstIsLeast
<1>2. First(S) \in Nat /\ n \in Nat
  BY <1>1
<1> QED
  BY ONLY <1>1, <1>2

LEMMA Halves ==
  ASSUME NEW n \in Nat
  PROVE  /\ n \div 2 \in Nat
         /\ n = 2 * (n \div 2) + (n % 2) /\ n % 2 \in {0, 1}
<1>1. n \div 2 \in Nat /\ n % 2 \in 0..1
  OBVIOUS
<1>2. n = 2 * (n \div 2) + (n % 2)
  OBVIOUS
<1> QED
  BY <1>1, <1>2

\* The places of a flag as a value's neighbour: pair k is made of the arguments 2k - 1 and 2k.
LEMMA PairsInArgs ==
  ASSUME NEW args \in Seq(STRING), NEW k \in Pairs(args)
  PROVE  k \in Nat /\ 2 * k - 1 \in DOMAIN args /\ 2 * k \in DOMAIN args
<1> DEFINE n == Len(args)
           h == n \div 2
<1>1. n \in Nat /\ DOMAIN args = 1..n
  OBVIOUS
<1>2. h \in Nat /\ 2 * h <= n
  <2>1. h \in Nat /\ n = 2 * h + (n % 2) /\ n % 2 \in {0, 1}
    BY <1>1, Halves
  <2> QED
    BY <1>1, <2>1
<1>3. k \in 1..h
  BY DEF Pairs
<1> HIDE DEF n, h
<1> QED
  BY ONLY <1>1, <1>2, <1>3

\* An odd place that is not the last one begins a pair.
LEMMA PairAt ==
  ASSUME NEW args \in Seq(STRING), NEW i \in Nat, i % 2 = 1, i < Len(args)
  PROVE  \E k \in Pairs(args) : 2 * k - 1 = i
<1> DEFINE n == Len(args)
           h == n \div 2
           k == (i + 1) \div 2
<1>1. n \in Nat /\ i \in Nat /\ i < n
  OBVIOUS
<1>2. h \in Nat /\ n = 2 * h + (n % 2) /\ n % 2 \in {0, 1}
  BY <1>1, Halves
<1>3. k \in Nat /\ 2 * k = i + 1
  <2>1. i \div 2 \in Nat /\ i = 2 * (i \div 2) + 1
    BY Halves
  <2>2. k = i \div 2 + 1
    BY ONLY <2>1
  <2> QED
    BY ONLY <2>1, <2>2, i \in Nat
<1> HIDE DEF n, h, k
<1>4. k \in 1..h
  BY ONLY <1>1, <1>2, <1>3
<1>5. 2 * k - 1 = i
  BY ONLY <1>1, <1>3
<1> QED
  BY <1>4, <1>5 DEF Pairs, h, n

\* What get_parameter_string finds without an error is the value of the first pair.
LEMMA ScanFindsPair ==
  ASSUME NEW args \in Seq(STRING), NEW flag, GetParameterString(args, flag) # EMPTY_ARG
  PROVE  GetParameterString(args, flag) = PairValue(args, flag)
<1> DEFINE places == Places(args, flag)
           hits   == {k \in Pairs(args) : args[2 * k - 1] = flag}
           f      == First(places)
<1>1. places \in SUBSET Nat /\ \A i : i \in places <=> i \in DOMAIN args /\ args[i] = flag
  BY DEF Places
<1>2. hits \in SUBSET Nat /\ \A k \in hits : 2 * k - 1 \in places
  BY <1>1, PairsInArgs
<1>3. CASE places = {}
  <2>1. hits = {}
    BY <1>2, <1>3
  <2> QED
    BY <1>3, <2>1 DEF GetParameterString, PairValue
<1>4. CASE places # {}
  <2>1. f \in places /\ \A j \in places : f <= j
    <3> HIDE DEF places
    <3> QED
      BY <1>1, <1>4, FirstIsLeast
  <2>2. f < Len(args) /\ f % 2 = 1 /\ GetParameterString(args, flag) = args[f + 1]
    BY <1>4 DEF GetParameterString, IsFlag
  <2>3. f \in Nat
    BY <1>1, <2>1
  <2> HIDE DEF f
  <2>4. PICK k \in Pairs(args) : 2 * k - 1 = f
    BY <2>2, <2>3, PairAt
  <2>5. k \in Nat
    BY PairsInArgs
  <2>6. k \in hits
    BY <1>1, <2>1, <2>4
  <2>7. ASSUME NEW j \in hits PROVE k <= j
    <3>1. j \in Nat /\ 2 * k - 1 <= 2 * j - 1
      BY <1>2, <2>1, <2>4
    <3> QED
      BY ONLY <2>5, <3>1
  <2>8. First(hits) = k
    <3> HIDE DEF hits
    <3> QED
      BY <1>2, <2>6, <2>7, FirstIs
  <2>9. PairValue(args, flag) = args[2 * k]
    BY <2>6, <2>8 DEF PairValue
  <2>10. 2 * k = f + 1
    BY ONLY <2>3, <2>4, <2>5
  <2> QED
    BY <2>2, <2>9, <2>10
<1> QED
  BY <1>3, <1>4

\* No flag of plain pairs is without a value: a flag is never at the place of a value.
LEMMA PlainHasValues ==
  ASSUME NEW args \in Argvs, Plain(args), NEW flag \in Flags
  PROVE  GetParameterString(args, flag) # EMPTY_ARG
<1> DEFINE places == Places(args, flag)
           f      == First(places)
<1>1. args \in Seq(STRING) /\ \A i \in DOMAIN args : args[i] # EMPTY_ARG
  BY ArgvsAssumption DEF ArgvsAssumption
<1>2. places \in SUBSET Nat /\ \A i : i \in places <=> i \in 1..Len(args) /\ args[i] = flag
  BY <1>1 DEF Places
<1>3. CASE places = {}
  BY <1>3, EmptyArgAssumption DEF EmptyArgAssumption, GetParameterString
<1>4. CASE places # {}
  <2>1. f \in places
    <3> HIDE DEF places
    <3> QED
      BY <1>2, <1>4, FirstIsLeast
  <2>2. f \in 1..Len(args) /\ args[f] = flag
    BY <1>2, <2>1
  <2> HIDE DEF f, places
  <2>3. Len(args) \in Nat /\ f \in Nat /\ f <= Len(args)
    BY <1>1, <2>2
  <2>4. Len(args) % 2 = 0
    BY DEF Plain
  <2>5. f % 2 = 1
    <3> SUFFICES ASSUME f % 2 = 0 PROVE FALSE
      BY <2>3, Halves
    <3>1. f \div 2 \in Nat /\ f = 2 * (f \div 2)
      BY <2>3, Halves
    <3>2. Len(args) \div 2 \in Nat /\ Len(args) = 2 * (Len(args) \div 2)
      BY <2>3, <2>4, Halves
    <3>3. f \div 2 \in 1..(Len(args) \div 2)
      <4> DEFINE a == f \div 2
                 b == Len(args) \div 2
      <4>1. a \in Nat /\ b \in Nat /\ 1 <= 2 * a /\ 2 * a <= 2 * b
        BY <2>2, <2>3, <3>1, <3>2
      <4> HIDE DEF a, b
      <4>2. a \in 1..b
        BY ONLY <4>1
      <4> QED
        BY <4>2 DEF a, b
    <3>4. args[f] \notin Flags
      BY <3>1, <3>3 DEF Plain, Pairs
    <3> QED
      BY <2>2, <3>4
  <2>6. f < Len(args)
    BY <2>3, <2>4, <2>5
  <2>7. GetParameterString(args, flag) = args[f + 1]
    BY <1>4, <2>5, <2>6 DEF GetParameterString, IsFlag, f, places
  <2>8. f + 1 \in DOMAIN args
    BY <1>1, <2>3, <2>6
  <2> QED
    BY <1>1, <2>7, <2>8
<1> QED
  BY <1>3, <1>4

\* A parameter that could not be read leaves a field that is refused.
LEMMA EmptyArgIsSeen ==
  ASSUME NEW given, NEW flag \in Flags, given[flag] = EMPTY_ARG
  PROVE  \E f \in DOMAIN ArgsFrom(given) : ArgsFrom(given)[f] \in {Refused, EMPTY_ARG}
<1> DEFINE args == ArgsFrom(given)
<1>1. EMPTY_ARG \notin {NULL, "yes", "no"} \cup DOMAIN Numeral
  BY EmptyArgAssumption DEF EmptyArgAssumption
<1>2. /\ Required(EMPTY_ARG) = EMPTY_ARG /\ MetadataOf(EMPTY_ARG) = Refused
      /\ TimeoutOf(EMPTY_ARG) = Refused /\ PortOf(EMPTY_ARG) = Refused
  BY <1>1 DEF Required, MetadataOf, TimeoutOf, PortOf, IsNumber
<1>3. /\ DOMAIN args = {"host", "resource", "port", "metadata", "timeout", "proxy_port",
                        "proxy_group", "proxy_timeout"}
      /\ args.host = Required(given["-h"]) /\ args.resource = Required(given["-r"])
      /\ args.port = Required(given["-p"]) /\ args.metadata = MetadataOf(given["-m"])
      /\ args.timeout = TimeoutOf(given["-t"]) /\ args.proxy_port = PortOf(given["-P"])
      /\ args.proxy_group = given["-B"] /\ args.proxy_timeout = TimeoutOf(given["-T"])
  BY DEF ArgsFrom
<1> HIDE DEF args
<1>4. flag \in {"-h", "-r", "-p", "-m"} =>
        \E f \in DOMAIN args : args[f] \in {Refused, EMPTY_ARG}
  BY <1>2, <1>3
<1>5. flag \in {"-t", "-P", "-B", "-T"} =>
        \E f \in DOMAIN args : args[f] \in {Refused, EMPTY_ARG}
  BY <1>2, <1>3
<1> QED
  BY <1>4, <1>5 DEF Flags, args

\* Parameters that could be read leave fields that are refused only by their getters.
LEMMA EmptyArgIsAbsent ==
  ASSUME NEW given, \A flag \in Flags : given[flag] # EMPTY_ARG,
         NEW f \in DOMAIN ArgsFrom(given)
  PROVE  ArgsFrom(given)[f] # EMPTY_ARG \/ ArgsFrom(given)[f] = Refused
<1> DEFINE args == ArgsFrom(given)
<1>1. EMPTY_ARG \notin Int /\ EMPTY_ARG \notin BOOLEAN
  BY EmptyArgAssumption DEF EmptyArgAssumption
<1>2. \A arg : arg # EMPTY_ARG => Required(arg) # EMPTY_ARG \/ Required(arg) = Refused
  BY DEF Required
<1>3. \A arg : MetadataOf(arg) # EMPTY_ARG \/ MetadataOf(arg) = Refused
  BY <1>1, MetadataType
<1>4. \A arg : TimeoutOf(arg) # EMPTY_ARG \/ TimeoutOf(arg) = Refused
  <2>1. \A a \in DOMAIN Numeral : Numeral[a] \in Int
    BY CommandLineAssumption DEF CommandLineAssumption
  <2>2. DefaultTimeout \in Int
    BY DEF DefaultTimeout
  <2> QED
    BY <1>1, <2>1, <2>2 DEF TimeoutOf, IsNumber
<1>5. \A arg : PortOf(arg) # EMPTY_ARG \/ PortOf(arg) = Refused
  <2>1. \A n \in {NoPort} \cup 1..MaxPort : n \in Int
    BY CommandLineAssumption DEF CommandLineAssumption, NoPort
  <2> QED
    BY <1>1, <2>1, PortType
<1>6. /\ DOMAIN args = {"host", "resource", "port", "metadata", "timeout", "proxy_port",
                        "proxy_group", "proxy_timeout"}
      /\ args.host = Required(given["-h"]) /\ args.resource = Required(given["-r"])
      /\ args.port = Required(given["-p"]) /\ args.metadata = MetadataOf(given["-m"])
      /\ args.timeout = TimeoutOf(given["-t"]) /\ args.proxy_port = PortOf(given["-P"])
      /\ args.proxy_group = given["-B"] /\ args.proxy_timeout = TimeoutOf(given["-T"])
  BY DEF ArgsFrom
<1>7. /\ given["-h"] # EMPTY_ARG /\ given["-r"] # EMPTY_ARG /\ given["-p"] # EMPTY_ARG
      /\ given["-B"] # EMPTY_ARG
  BY DEF Flags
<1> HIDE DEF args
<1>8. f \in DOMAIN args
  BY DEF args
<1>9. CASE f \in {"host", "resource", "port", "proxy_group"}
  BY <1>2, <1>6, <1>7, <1>9 DEF args
<1>10. CASE f \in {"metadata", "timeout", "proxy_port", "proxy_timeout"}
  BY <1>3, <1>4, <1>5, <1>6, <1>10 DEF args
<1> QED
  BY <1>6, <1>8, <1>9, <1>10

-----------------------------------------------------------------------------
\* What the pairs mean, and whether they may be accepted.
Paired(args) == [flag \in Flags |-> PairValue(args, flag)]
Scanned(args) == [flag \in Flags |-> GetParameterString(args, flag)]

Fine(args) ==
  /\ Coherent(ArgsFrom(Paired(args)))
  /\ ArgsFrom(Paired(args)).proxy_port = NoPort => Paired(args)["-T"] = NULL

\* If every parameter can be read, the scan reads the pairs.
LEMMA ScannedIsPaired ==
  ASSUME NEW args \in Argvs, \A flag \in Flags : GetParameterString(args, flag) # EMPTY_ARG
  PROVE  Scanned(args) = Paired(args)
<1>1. args \in Seq(STRING)
  BY ArgvsAssumption DEF ArgvsAssumption
<1>2. \A flag \in Flags : GetParameterString(args, flag) = PairValue(args, flag)
  BY <1>1, ScanFindsPair
<1> QED
  BY <1>2 DEF Scanned, Paired

LEMMA Accepting ==
  ASSUME NEW args \in Argvs
  PROVE  /\ ParseCommandLineArgs(args) # Refused =>
              ParseCommandLineArgs(args) = ArgsFrom(Paired(args)) /\ Fine(args)
         /\ ParseCommandLineArgs(args) = Refused /\ Plain(args) => ~Fine(args)
<1> DEFINE given == Scanned(args)
           cml   == ArgsFrom(given)
<1>1. /\ ParseCommandLineArgs(args) =
           IF \/ \E f \in DOMAIN cml : cml[f] \in {Refused, EMPTY_ARG}
              \/ cml.proxy_port = NoPort /\ (cml.proxy_group # NULL \/ given["-T"] # NULL)
             THEN Refused ELSE cml
      /\ cml # Refused
  BY ArgvsAssumption DEF ParseCommandLineArgs, Scanned, ArgvsAssumption
<1>2. \A flag \in Flags : given[flag] = GetParameterString(args, flag)
  BY DEF Scanned
<1>3. ASSUME ParseCommandLineArgs(args) # Refused
      PROVE  ParseCommandLineArgs(args) = ArgsFrom(Paired(args)) /\ Fine(args)
  <2>1. /\ ParseCommandLineArgs(args) = cml
        /\ \A f \in DOMAIN cml : cml[f] \notin {Refused, EMPTY_ARG}
        /\ cml.proxy_port = NoPort => cml.proxy_group = NULL /\ given["-T"] = NULL
    <3> HIDE DEF cml, given
    <3> QED
      BY <1>1, <1>3
  <2>2. \A flag \in Flags : given[flag] # EMPTY_ARG
    BY <2>1, EmptyArgIsSeen
  <2>3. given = Paired(args)
    BY <1>2, <2>2, ScannedIsPaired
  <2> QED
    BY <2>1, <2>3 DEF Fine, Coherent
<1>4. ASSUME ParseCommandLineArgs(args) = Refused, Plain(args), Fine(args)
      PROVE  FALSE
  <2>1. \A flag \in Flags : GetParameterString(args, flag) # EMPTY_ARG
    BY <1>4, PlainHasValues
  <2>2. given = Paired(args)
    BY <2>1, ScannedIsPaired
  <2>3. /\ \A f \in DOMAIN cml : cml[f] # Refused
        /\ cml.proxy_port = NoPort => cml.proxy_group = NULL /\ given["-T"] = NULL
    BY <1>4, <2>2 DEF Fine, Coherent
  <2>4. \A f \in DOMAIN cml : cml[f] # EMPTY_ARG
    BY <1>2, <2>1, <2>3, EmptyArgIsAbsent
  <2> HIDE DEF cml, given
  <2> QED
    BY <1>1, <1>4, <2>3, <2>4
<1> QED
  BY <1>3, <1>4

(***************************************************************************)
(* Whatever the command line, the scan of get_parameter_string reads it in *)
(* pairs: what is accepted means what the pairs mean, and plain pairs are  *)
(* refused only for a bad value or for -B or -T without -P.                *)
(***************************************************************************)
THEOREM ScanReadsPairs == StartupSpec => ArgumentsArePairs
<1> DEFINE ArgvInv == argv \in Argvs
           Parsing ==
             stage = "parse" =>
               /\ stage' = "negotiate" => cmd' = ArgsFrom(Paired(argv)) /\ Fine(argv)
               /\ stage' = "refused" /\ Plain(argv) => ~Fine(argv)
<1>1. StartupInit => ArgvInv
  BY DEF StartupInit
<1>2. [StartupNext]_startupVars => argv' = argv
  BY DEF StartupNext, Start, ParseArgs, NegotiateWithRadio, ForkSons, StartClient, OpenSocket,
         Bind, ParseGroup, ListInterfaces, JoinGroup, GroupJoined, SetIamCrashes, NoMemory,
         SetIam, InClient, InterruptStart, startupVars
<1>3. ArgvInv /\ [StartupNext]_startupVars => ArgvInv'
  BY <1>2
<1>4. ASSUME ArgvInv, [StartupNext]_startupVars, stage = "parse"
      PROVE  ParseArgs \/ UNCHANGED <<stage, cmd>>
  BY <1>4 DEF StartupNext, Start, NegotiateWithRadio, ForkSons, StartClient, OpenSocket,
         Bind, ParseGroup, ListInterfaces, JoinGroup, GroupJoined, SetIamCrashes, NoMemory,
         SetIam, InClient, InterruptStart, startupVars
<1>5. ArgvInv /\ [StartupNext]_startupVars => [Parsing]_<<stage, cmd>>
  <2> SUFFICES ASSUME ArgvInv, [StartupNext]_startupVars, stage = "parse",
                      ~ UNCHANGED <<stage, cmd>>
               PROVE  /\ stage' = "negotiate" => cmd' = ArgsFrom(Paired(argv)) /\ Fine(argv)
                      /\ stage' = "refused" /\ Plain(argv) => ~Fine(argv)
    OBVIOUS
  <2>1. /\ cmd' = ParseCommandLineArgs(argv)
        /\ stage' = IF cmd' = Refused THEN "refused" ELSE "negotiate"
    BY <1>4 DEF ParseArgs
  <2>2. /\ stage' = "negotiate" => ParseCommandLineArgs(argv) # Refused
        /\ stage' = "refused" => ParseCommandLineArgs(argv) = Refused
    BY <2>1
  <2> QED
    BY <2>1, <2>2, Accepting
<1>6. [Parsing]_<<stage, cmd>> =>
        [ stage = "parse" =>
            LET given == [flag \in Flags |-> PairValue(argv, flag)]
                meant == ArgsFrom(given)
                fine  == Coherent(meant) /\ (meant.proxy_port = NoPort => given["-T"] = NULL)
            IN  /\ stage' = "negotiate" => cmd' = meant /\ fine
                /\ stage' = "refused" /\ Plain(argv) => ~fine
        ]_<<stage, cmd>>
  BY DEF Paired, Fine
<1> QED
  BY <1>1, <1>3, <1>5, <1>6, PTL DEF StartupSpec, ArgumentsArePairs

-----------------------------------------------------------------------------
(***************************************************************************)
(* What the request asks for.                                              *)
(***************************************************************************)
\* A choice of metadata that is accepted is the one that was meant.
LEMMA MetadataMeant ==
  ASSUME NEW arg, MetadataOf(arg) # Refused
  PROVE  MetadataOf(arg) = (arg = "yes")
<1>1. NULL # "yes" /\ "no" # "yes"
  BY EmptyArgAssumption DEF EmptyArgAssumption
<1>2. CASE arg = NULL
  BY <1>1, <1>2 DEF MetadataOf
<1>3. CASE arg # NULL /\ arg = "yes"
  BY <1>3 DEF MetadataOf
<1>4. CASE arg # NULL /\ arg = "no"
  BY <1>1, <1>4 DEF MetadataOf
<1>5. CASE arg \notin {NULL, "yes", "no"}
  BY <1>5 DEF MetadataOf
<1> QED
  BY <1>2, <1>3, <1>4, <1>5

\* From the time the command line is accepted metadata is what its pairs say.
AskInv ==
  /\ argv \in Argvs
  /\ stage \in {"negotiate", "forked"} => metadata = Wanted

LEMMA AskInvParse ==
  ASSUME AskInv, ParseArgs, stage' = "negotiate"
  PROVE  metadata' = Wanted
<1>1. cmd' = ParseCommandLineArgs(argv) /\ cmd' # Refused /\ metadata' = cmd'.metadata
  BY DEF ParseArgs
<1>2. cmd' = ArgsFrom(Paired(argv)) /\ Fine(argv)
  BY <1>1, Accepting DEF AskInv
<1> DEFINE args == ArgsFrom(Paired(argv))
<1>3. args.metadata = MetadataOf(PairValue(argv, "-m")) /\ "metadata" \in DOMAIN args
  BY DEF ArgsFrom, Paired, Flags
<1>4. \A f \in DOMAIN args : args[f] # Refused
  BY <1>2 DEF Fine, Coherent
<1> HIDE DEF args
<1>5. MetadataOf(PairValue(argv, "-m")) # Refused
  BY <1>3, <1>4
<1>6. metadata' = args.metadata
  BY <1>1, <1>2 DEF args
<1> QED
  BY <1>3, <1>5, <1>6, MetadataMeant DEF Wanted

LEMMA AskInvNext ==
  ASSUME AskInv, [StartupNext]_startupVars
  PROVE  AskInv'
<1>1. CASE ParseArgs
  <2>1. argv' = argv /\ stage' \in {"refused", "negotiate"}
    BY <1>1 DEF ParseArgs
  <2>2. stage' = "negotiate" => metadata' = Wanted
    BY <1>1, AskInvParse
  <2> QED
    BY <2>1, <2>2 DEF AskInv, Wanted
<1>2. CASE ~ParseArgs
  <2>1. [Next]_vars /\ argv' = argv
    BY <1>2, StartupStep
  <2>2. metadata' = metadata
    BY <2>1 DEF Next, Negotiate, NoAddress, ConnectOk, ConnectFails, PrintMessage, Send, SendPart,
       SendFails, SendInterrupted, RadioGone, FillData, FillFails, BadByte, StatusLine,
       HeaderField, EmptyLine, Interrupt, vars
  <2>3. stage' \in {"negotiate", "forked"} => stage \in {"negotiate", "forked"}
    BY <1>2 DEF StartupNext, Start, NegotiateWithRadio, ForkSons, StartClient, OpenSocket,
       Bind, ParseGroup, ListInterfaces, JoinGroup, GroupJoined, SetIamCrashes, NoMemory,
       SetIam, InClient, InterruptStart, startupVars
  <2> QED
    BY <2>1, <2>2, <2>3 DEF AskInv, Wanted
<1> QED
  BY <1>1, <1>2

(***************************************************************************)
(* Whatever the command line, however memory runs out and writes are split *)
(* or interrupted: the wish for metadata that the radio reads is the one   *)
(* that the pairs of the arguments state, unless a write has failed.       *)
(***************************************************************************)
THEOREM AsksAsMeant == StartupSpec => []AsksWhatIsMeant
<1>1. StartupInit => AskInv
  BY DEF StartupInit, AskInv
<1>2. AskInv /\ [StartupNext]_startupVars => AskInv'
  BY AskInvNext
<1>3. AskInv /\ StartInv => AsksWhatIsMeant
  <2> SUFFICES ASSUME AskInv, StartInv, errors = 0, Len(sent) >= Wish
               PROVE  sent[Wish] = "1" <=> Wanted
    BY DEF AsksWhatIsMeant
  <2>1. SendInv /\ Len(sent) \in Nat
    BY DEF StartInv, NegotiationInv, SendInv
  <2>2. Len(sent) # 0 /\ 10 \in 1..Len(sent)
    BY <2>1 DEF Wish
  <2>3. stage \in {"negotiate", "forked"}
    BY <2>1, <2>2, NothingSent DEF StartInv, Untouched
  <2>4. sent[10] = WholeRequest[10]
    BY <2>1, <2>2 DEF SendInv
  <2>5. WholeRequest[10] = IF metadata THEN "1" ELSE "0"
    BY DEF WholeRequest
  <2>6. metadata = Wanted
    BY <2>3 DEF AskInv
  <2>7. "0" # "1"
    OBVIOUS
  <2> QED
    BY <2>4, <2>5, <2>6, <2>7 DEF Wish
<1> QED
  BY <1>1, <1>2, <1>3, StartInvAlways, PTL DEF StartupSpec

-----------------------------------------------------------------------------
(***************************************************************************)
(* The client process.                                                     *)
(***************************************************************************)
\* A name that is cut makes a datagram that is too long to be sent.
LEMMA IamFits ==
  ASSUME NEW n \in NameLens, Iam(n).payload + HeaderLen <= MaxUdp
  PROVE  Iam(n).length = Iam(n).payload
<1>1. /\ n \in Nat /\ Word \in Nat /\ HeaderLen \in Nat \ {0} /\ MaxUdp \in Nat
      /\ MaxUdp < Word - HeaderLen
  BY StartupAssumption DEF StartupAssumption
<1>2. Iam(n).length = n % Word /\ Iam(n).payload = IamBuffer(n) - HeaderLen
  BY DEF Iam
<1>3. CASE n < Word - 1 - HeaderLen
  <2>1. Iam(n).payload = n
    BY <1>1, <1>2, <1>3 DEF IamBuffer
  <2>2. n % Word = n
    BY <1>1, <1>3
  <2> QED
    BY <1>2, <2>1, <2>2
<1>4. CASE ~(n < Word - 1 - HeaderLen)
  <2>1. Iam(n).payload + HeaderLen = Word - 1
    BY <1>1, <1>2, <1>4 DEF IamBuffer
  <2> QED
    BY <1>1, <2>1
<1> QED
  BY <1>3, <1>4

\* The IAM of a process that serves is the one that set_iam_message made.
IamInv == client = "serving" => \E n \in NameLens : iam = Iam(n)

(***************************************************************************)
(* Whatever name the radio has, an IAM that can be sent tells its length:  *)
(* the length field wraps only when the datagram is too long anyway.       *)
(***************************************************************************)
THEOREM IamsAreHonest == StartupSpec => []IamLengthHonest
<1>1. StartupInit => IamInv
  BY DEF StartupInit, IamInv
<1>2. IamInv /\ [StartupNext]_startupVars => IamInv'
  <2> SUFFICES ASSUME IamInv, [StartupNext]_startupVars, client' = "serving"
               PROVE  \E n \in NameLens : iam' = Iam(n)
    BY DEF IamInv
  <2>1. CASE ParseArgs \/ NegotiateWithRadio \/ InterruptStart \/ UNCHANGED startupVars
    BY <2>1 DEF ParseArgs, NegotiateWithRadio, InterruptStart, startupVars, clientVars, IamInv
  <2>2. CASE ForkSons
    BY <2>2 DEF ForkSons
  <2>3. ASSUME NEW n \in NameLens, SetIam(n)
        PROVE  \E k \in NameLens : iam' = Iam(k)
    BY <2>3 DEF SetIam
  <2>4. CASE OpenSocket \/ Bind \/ ParseGroup \/ GroupJoined \/ SetIamCrashes \/ NoMemory
    BY <2>4 DEF OpenSocket, Bind, ParseGroup, GroupJoined, SetIamCrashes, NoMemory,
                AfterBind, Dead
  <2>5. ASSUME NEW list, NEW multicast, ListInterfaces(list, multicast) PROVE FALSE
    BY <2>5 DEF ListInterfaces
  <2>6. ASSUME NEW i \in todo, JoinGroup(i) PROVE FALSE
    BY <2>6 DEF JoinGroup, Dead, InClient
  <2> QED
    BY <2>1, <2>2, <2>3, <2>4, <2>5, <2>6 DEF StartupNext, Start, StartClient
<1>3. IamInv => IamLengthHonest
  BY IamFits DEF IamInv, IamLengthHonest
<1> QED
  BY <1>1, <1>2, <1>3, PTL DEF StartupSpec

\* How far the client process has come tells what it has: a port from the command line, then
\* a bound socket, then a group that is an address, then the interfaces where it is joined,
\* which are those that mcast_join has come to.
ClientInv ==
  /\ stage # "forked" => client = "none"
  /\ stage \in {"negotiate", "forked"} => cmd.proxy_port \in {NoPort} \cup 1..MaxPort
  /\ client # "none" => cmd.proxy_port > 0
  /\ client \in {"group", "list", "join", "iam", "serving"} => bound
  /\ client \in {"list", "join"} => cmd.proxy_group \in Groups
  /\ client \in {"none", "socket", "bind", "group", "list"} => joined = {}
  /\ client = "join" =>
       todo \subseteq able /\ joined = able \ todo /\ (able = {} => listed # {})
  /\ client \in {"iam", "serving"} /\ cmd.proxy_group # NULL =>
       cmd.proxy_group \in Groups /\ joined = able /\ (able = {} => listed # {})

\* One step of the client process.
LEMMA ClientInvClient ==
  ASSUME ClientInv, StartClient
  PROVE  ClientInv'
<1>1. UNCHANGED <<stage, cmd>> /\ client # "none"
  BY DEF StartClient, OpenSocket, Bind, ParseGroup, ListInterfaces, JoinGroup,
         GroupJoined, SetIamCrashes, NoMemory, SetIam, InClient
<1>2. stage = "forked"
  BY <1>1 DEF ClientInv
<1>3. CASE client' \in {"dead", "crashed"}
  BY <1>1, <1>2, <1>3 DEF ClientInv
<1>4. CASE OpenSocket
  BY <1>1, <1>2, <1>3, <1>4 DEF OpenSocket, ClientInv, InClient, Dead, groupVars
<1>5. CASE Bind
  BY <1>1, <1>2, <1>3, <1>5
     DEF Bind, BindIgnored, AfterBind, ClientInv, InClient, Dead, groupVars
<1>6. CASE ParseGroup
  BY <1>1, <1>2, <1>3, <1>6 DEF ParseGroup, ClientInv, InClient, Dead, groupVars
<1>7. ASSUME NEW list, NEW multicast, ListInterfaces(list, multicast) PROVE ClientInv'
  <2>1. /\ able' = {} => listed' # {}
        /\ todo' = able' /\ joined' = {} /\ client' = "join" /\ bound' = bound /\ bound
        /\ cmd.proxy_group \in Groups
    BY <1>7 DEF ListInterfaces, ClientInv, InClient
  <2> QED
    BY <1>1, <1>2, <2>1 DEF ClientInv
<1>8. ASSUME NEW i \in todo, JoinGroup(i) PROVE ClientInv'
  <2>1. CASE client' = "join"
    <3>1. /\ todo' = todo \ {i} /\ joined' = joined \cup {i}
          /\ UNCHANGED <<bound, listed, able>> /\ client = "join"
      BY <1>8, <2>1 DEF JoinGroup, InClient, Dead
    <3>2. todo' \subseteq able' /\ joined' = able' \ todo' /\ (able' = {} => listed' # {})
      BY <3>1 DEF ClientInv
    <3> QED
      BY <1>1, <1>2, <2>1, <3>1, <3>2 DEF ClientInv
  <2> QED
    BY <1>3, <1>8, <2>1 DEF JoinGroup, InClient, Dead
<1>9. CASE GroupJoined
  <2>1. /\ client = "join" /\ client' = "iam" /\ todo = {} /\ UNCHANGED <<bound, groupVars>>
    BY <1>9 DEF GroupJoined, InClient
  <2>2. cmd.proxy_group \in Groups /\ joined' = able' /\ (able' = {} => listed' # {}) /\ bound'
    BY <2>1 DEF ClientInv, groupVars
  <2> QED
    BY <1>1, <1>2, <2>1, <2>2 DEF ClientInv
<1>10. CASE SetIamCrashes \/ NoMemory
  BY <1>1, <1>2, <1>3, <1>10 DEF SetIamCrashes, NoMemory, Dead
<1>11. ASSUME NEW n \in NameLens, SetIam(n) PROVE ClientInv'
  BY <1>1, <1>2, <1>11 DEF SetIam, ClientInv, InClient, groupVars
<1> QED
  BY <1>4, <1>5, <1>6, <1>7, <1>8, <1>9, <1>10, <1>11 DEF StartClient

LEMMA ClientInvInductive ==
  /\ StartupInit => ClientInv
  /\ ClientInv /\ [StartupNext]_startupVars => ClientInv'
<1>1. StartupInit => ClientInv
  BY DEF StartupInit, ClientInv
<1>2. ASSUME ClientInv, [StartupNext]_startupVars
      PROVE  ClientInv'
  <2>1. CASE ParseArgs
    <3>1. client' = "none" /\ stage' # "forked" /\ joined' = {}
      BY <1>2, <2>1 DEF ParseArgs, ClientInv, clientVars, groupVars
    <3>2. stage' = "negotiate" => cmd' = ParseCommandLineArgs(argv) /\ cmd' # Refused
      BY <2>1 DEF ParseArgs
    <3> QED
      BY <3>1, <3>2, AcceptedTypes DEF ClientInv
  <2>2. CASE NegotiateWithRadio \/ InterruptStart \/ UNCHANGED startupVars
    BY <1>2, <2>2 DEF NegotiateWithRadio, InterruptStart, startupVars, clientVars, groupVars,
                      ClientInv
  <2>3. CASE ForkSons
    BY <1>2, <2>3 DEF ForkSons, HasClient, ClientInv, groupVars
  <2>4. CASE StartClient
    BY <1>2, <2>4, ClientInvClient
  <2> QED
    BY <1>2, <2>1, <2>2, <2>3, <2>4 DEF StartupNext, Start
<1> QED
  BY <1>1, <1>2

(***************************************************************************)
(* Whichever calls fail on the way, a client process that serves has the   *)
(* port it was given.  It has joined the group on every listed interface   *)
(* with multicast, or where the kernel chose when none was listed; it has  *)
(* joined it nowhere only if all the interfaces that were listed lack      *)
(* multicast.                                                              *)
(***************************************************************************)
THEOREM ServesAsAsked == StartupSpec => []ServesWhatWasAsked
<1>1. ClientInv => ServesWhatWasAsked
  <2> SUFFICES ASSUME ClientInv, client = "serving"
               PROVE  /\ cmd.proxy_port \in 1..MaxPort
                      /\ bound
                      /\ cmd.proxy_group # NULL =>
                           cmd.proxy_group \in Groups /\ joined = able /\ (joined = {} => listed # {})
    BY DEF ServesWhatWasAsked
  <2>1. cmd.proxy_port \in {NoPort} \cup 1..MaxPort /\ cmd.proxy_port > 0
    BY DEF ClientInv
  <2>2. cmd.proxy_port \in 1..MaxPort
    BY <2>1 DEF NoPort
  <2> QED
    BY <2>2 DEF ClientInv
<1> QED
  BY <1>1, ClientInvInductive, PTL DEF StartupSpec
===============================================================================

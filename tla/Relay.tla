-------------------------------- MODULE Relay --------------------------------
(***************************************************************************)
(* What the two processes of the proxy promise together, without pipe,     *)
(* buffers or counters: the body of the response is cut into blocks that   *)
(* follow each other in it, each of the kind that is due at its place, and *)
(* the datagrams are those blocks, whole, in order and once each.          *)
(*                                                                         *)
(* A block of metadata is preceded by one length byte that is not relayed. *)
(* GarbageLens are the lengths the server process makes up when it cannot  *)
(* read that byte: no byte precedes such a block.                          *)
(***************************************************************************)
EXTENDS Integers, Sequences

CONSTANTS Metaints, ChunkSize, MetaUnit, LenBytes, PayloadSize, GarbageLens

VARIABLES
  metaint, \* bytes of audio between metadata, 0 for audio only
  blocks,  \* the blocks cut out of the body so far
  out      \* the datagrams sent, with the empty blocks that are not sent

relayVars == <<metaint, blocks, out>>

\* Kind of the block after b, and the audio since the last metadata.
After(b) ==
  IF b.kind = "AUDIO" /\ metaint > 0
    THEN IF b.sum + b.len = metaint
           THEN [kind |-> "METADATA", sum |-> 0]
           ELSE [kind |-> "AUDIO", sum |-> b.sum + b.len]
    ELSE [kind |-> "AUDIO", sum |-> 0]

Due == IF blocks = <<>> THEN [kind |-> "AUDIO", sum |-> 0]
                        ELSE After(blocks[Len(blocks)])

\* Bytes of the body accounted for.
Taken == IF blocks = <<>> THEN 0
         ELSE blocks[Len(blocks)].first + blocks[Len(blocks)].len - 1

Block(first, len) ==
  [kind |-> Due.kind, sum |-> Due.sum, first |-> first, len |-> len]

Datagram(b) ==
  [kind |-> b.kind, len |-> b.len, payload |-> [i \in 1..b.len |-> b.first + i - 1]]

Accept(first, len) ==
  /\ blocks' = Append(blocks, Block(first, len))
  /\ UNCHANGED <<metaint, out>>

AcceptAudio(len) ==
  /\ Due.kind = "AUDIO"
  /\ metaint > 0 => Due.sum + len <= metaint
  /\ Accept(Taken + 1, len)

AcceptMetadata(b) ==
  /\ Due.kind = "METADATA"
  /\ Accept(Taken + 2, b * MetaUnit)

AcceptGarbage(len) ==
  /\ Due.kind = "METADATA"
  /\ Accept(Taken + 1, len)

Forward ==
  /\ Len(out) < Len(blocks)
  /\ blocks[Len(out) + 1].len <= PayloadSize
  /\ out' = Append(out, Datagram(blocks[Len(out) + 1]))
  /\ UNCHANGED <<metaint, blocks>>

RelayInit == metaint \in Metaints /\ blocks = <<>> /\ out = <<>>

RelayNext == \/ \E len \in 1..ChunkSize : AcceptAudio(len)
             \/ \E b \in LenBytes : AcceptMetadata(b)
             \/ \E len \in GarbageLens : AcceptGarbage(len)
             \/ Forward

RelaySpec == RelayInit /\ [][RelayNext]_relayVars
===============================================================================

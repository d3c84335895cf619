-------------------------------- MODULE Split --------------------------------
(***************************************************************************)
(* What the program promises without -P: the body of the response is taken *)
(* byte after byte, audio goes to standard output, every metaint bytes of  *)
(* it the metadata goes to standard error, and the length byte before the  *)
(* metadata goes nowhere.  No buffer, no chunks, no partial writes.        *)
(*                                                                         *)
(* The promise ends with the first write(2) that fails.                    *)
(***************************************************************************)
EXTENDS Integers, Sequences

CONSTANTS Metaints, MetaUnit, LenBytes, GarbageLens,
          MaxPiece \* the most that is passed on in one step

VARIABLES
  metaint, \* bytes of audio between metadata, 0 for audio only
  taken,   \* bytes of the body passed on or dropped so far
  kind,    \* what the next byte is
  quota,   \* how many of these are due (0 for audio without end)
  out,     \* standard output
  err,     \* standard error
  failed   \* a write has failed

splitVars == <<metaint, taken, kind, quota, out, err, failed>>

Bytes(n) == [k \in 1..n |-> taken + k]

PassAudio(n) ==
  /\ kind = "AUDIO" /\ (metaint > 0 => n <= quota)
  /\ out' = out \o Bytes(n) /\ taken' = taken + n
  /\ kind' = IF metaint > 0 /\ n = quota THEN "SIZE" ELSE "AUDIO"
  /\ quota' = IF metaint > 0 THEN quota - n ELSE 0
  /\ UNCHANGED <<metaint, err, failed>>

Expect(len) ==
  /\ kind' = IF len = 0 THEN "AUDIO" ELSE "METADATA"
  /\ quota' = IF len = 0 THEN metaint ELSE len
  /\ UNCHANGED <<metaint, out, err, failed>>

DropLength(b) == kind = "SIZE" /\ taken' = taken + 1 /\ Expect(b * MetaUnit)

\* The length byte could not be read.
MakeUpLength(len) == kind = "SIZE" /\ taken' = taken /\ Expect(len)

PassMetadata(n) ==
  /\ kind = "METADATA" /\ n <= quota
  /\ err' = err \o Bytes(n) /\ taken' = taken + n
  /\ kind' = IF n = quota THEN "AUDIO" ELSE "METADATA"
  /\ quota' = IF n = quota THEN metaint ELSE quota - n
  /\ UNCHANGED <<metaint, out, failed>>

WithoutPromise == failed' /\ UNCHANGED metaint

SplitInit ==
  /\ metaint \in Metaints /\ taken = 0 /\ kind = "AUDIO" /\ quota = metaint
  /\ out = <<>> /\ err = <<>> /\ ~failed

SplitNext ==
  \/ \E n \in 1..MaxPiece : PassAudio(n) \/ PassMetadata(n)
  \/ \E b \in LenBytes : DropLength(b)
  \/ \E len \in GarbageLens : MakeUpLength(len)
  \/ WithoutPromise

SplitSpec == SplitInit /\ [][SplitNext]_splitVars
===============================================================================

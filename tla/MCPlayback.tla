------------------------------ MODULE MCPlayback ------------------------------
(***************************************************************************)
(* Metadata every third byte of audio or none at all, pieces of at most    *)
(* two bytes, metadata of zero or two bytes, a buffer of three.            *)
(***************************************************************************)
EXTENDS Playback

MCMetaints == {0, 3}
MCLenBytes == {0, 1}
===============================================================================

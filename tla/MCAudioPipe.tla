---------------------------- MODULE MCAudioPipe ----------------------------
(***************************************************************************)
(* A small proxy: metadata every third byte of audio or none at all,       *)
(* frames of at most two bytes, metadata of zero or two bytes.             *)
(***************************************************************************)
EXTENDS AudioPipe

MCMetaints == {0, 3}
MCLenBytes == {0, 1}
===============================================================================

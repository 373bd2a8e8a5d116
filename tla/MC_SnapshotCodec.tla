--------------------------- MODULE MC_SnapshotCodec ---------------------------
(* SnapshotCodec with the server's ratios scaled down (SnapshotCodec_*.cfg): *)
(* a keyframe every three ticks instead of 20, histories of three states    *)
(* for the generator (256) and, like the decoder's 120, enough decoder      *)
(* history to hold every tick of the run, and a checkpoint every two ticks  *)
(* instead of 60, so that checkpoints fall both on and between keyframes.   *)
(* The payloads those snapshots carry are DeltaCodec's.                    *)
EXTENDS SnapshotClient, DeltaCodec

\* Once the generator has encoded its first keyframe, the payloads
\* DeltaCodec makes decode to the states they encode (DeltaCodecAgrees:
\* delta.cpp's field order, widths, byte order, int16 score difference
\* and underflow checks).  DeltaCodecAgrees is a constant formula, so TLC
\* evaluates it once.
DeltaRoundTrip == hasKeyframe => DeltaCodecAgrees
=============================================================================

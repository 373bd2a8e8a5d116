---------------------------- MODULE MC_WsPongServer ----------------------------
(* WsPongServer with three connections: two players and a third that can  *)
(* reconnect with an issued id or watch as a spectator.  In SysSpec the   *)
(* third connection is the metrics client's, so only the first two are    *)
(* symmetric there.                                                        *)
EXTENDS WsPongMetricsClient, TLC
CONSTANTS s1, s2, s3
MCSession == {s1, s2, s3}
MCSymmetry == Permutations(MCSession)
MCPlayerSymmetry == Permutations({s1, s2})
=============================================================================

--------------------------- MODULE MC_UdpTransport ---------------------------
(***************************************************************************)
(* Model-checking instance of UdpTransport: two endpoints given as model  *)
(* values.  The sequence space, ack width, window, retries, timing and     *)
(* send bound are set in each cfg file.                                    *)
(***************************************************************************)
EXTENDS UdpTransport

CONSTANTS A, B

MCNode == {A, B}

=============================================================================

---------------------------- MODULE SnapshotClient ----------------------------
(***************************************************************************)
(* The snapshot path end to end (spec section 2, data flow): the server's  *)
(* tick thread and generator and the lossy, reordering network of          *)
(* SnapshotCodec feed the client's SnapshotDecoder, and every state the    *)
(* decoder yields goes on to the client's Reconciler (ClientSync), while   *)
(* the client keeps predicting ticks between authoritative updates.        *)
(***************************************************************************)
EXTENDS SnapshotCodec, ClientSync

sysVars == <<vars, client>>

SysInit == Init /\ ClientInit

\* SnapshotDecoder::apply returned a state (it stored one): the client
\* hands it to the reconciler.  A delta without its base throws before
\* anything reaches the client.
Decoded ==
    /\ Apply
    /\ IF decHistory' # decHistory
       THEN Receive(decHistory'[Len(decHistory')])
       ELSE UNCHANGED client

SysNext ==
    \/ (Tick \/ Stop \/ Lose) /\ UNCHANGED client
    \/ Decoded
    \/ Predict(tick) /\ UNCHANGED vars

SysSpec == SysInit /\ [][SysNext]_sysVars

\* The types of both halves: the server's generator, network and decoder,
\* and the client's predictor and reconciler history within its bound.
SysTypeOK == TypeOK /\ ClientTypeOK

=============================================================================

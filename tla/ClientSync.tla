----------------------------- MODULE ClientSync -----------------------------
(***************************************************************************)
(* The client half of the netcode core (C6): mini::sync::Predictor         *)
(* (src/game-server/netcode-core/sync/prediction.cpp) and                  *)
(* mini::sync::Reconciler (src/netcode-core/sync/reconciliation.cpp).      *)
(* The client that drives them is not in the repository; how it does is   *)
(* taken from the spec (section 4.6, C6): it seeds the predictor from the  *)
(* first authoritative state, predicts one tick at a time, records each    *)
(* prediction, and reconciles every authoritative state the decoder        *)
(* yields.                                                                 *)
(*                                                                         *)
(* A predicted state is represented by its tick.  Whether it is further    *)
(* than epsilon from the authoritative state of the same tick (the hypot   *)
(* and abs of reconcile) depends on the other player's input, which the    *)
(* client cannot know: it is a nondeterministic input of the reconcile.    *)
(***************************************************************************)
EXTENDS Naturals, Sequences, FiniteSets

CONSTANTS
    RecHistory,  \* the reconciler's history_size_ (120)
    MaxLead      \* bound: ticks the client predicts ahead of the server

ASSUME RecHistory \in Nat \ {0} /\ MaxLead \in Nat

VARIABLES
    seeded,      \* Predictor::predicted_ holds a state (reset was called)
    clientTick,  \* the tick of the client's last prediction
    recHistory,  \* Reconciler::history_: ticks of the predictions, oldest first
    made,        \* ghost: the ticks the client has predicted
    latest,      \* ghost: the newest authoritative tick reconciled
    lastResult   \* ghost: the last reconcile, with what it was given

client == <<seeded, clientTick, recHistory, made, latest, lastResult>>

NoResult == [auth |-> 0, newer |-> FALSE, predicted |-> FALSE, replay |-> 0,
             drift |-> FALSE, corrected |-> 0]

ClientInit ==
    /\ seeded = FALSE
    /\ clientTick = 0
    /\ recHistory = << >>
    /\ made = {}
    /\ latest = 0
    /\ lastResult = NoResult

\* Reconciler::record_prediction: push_back, then pop_front while over
\* history_size_.
record_prediction(h, t) ==
    LET a == Append(h, t)
    IN IF Len(a) > RecHistory THEN SubSeq(a, Len(a) - RecHistory + 1, Len(a)) ELSE a

\* Reconciler::find_index: the first entry with the tick (1-based here),
\* 0 when there is none.
find_index(h, t) ==
    IF \E i \in 1..Len(h) : h[i] = t
    THEN CHOOSE i \in 1..Len(h) : h[i] = t /\ \A j \in 1..(i - 1) : h[j] # t
    ELSE 0

\* Reconcile's "drop old predictions" loop: pop_front while the front is
\* older than the authoritative tick.
RECURSIVE drop_older(_, _)
drop_older(h, t) ==
    IF h # << >> /\ Head(h) < t THEN drop_older(Tail(h), t) ELSE h

\* Mutant of reconcile: corrected_ticks counts from the entry after the
\* matched one.
reconcile_OffByOne(h, t, drift) ==
    LET i == find_index(h, t)
    IN IF i = 0 THEN [history |-> drop_older(h, t), corrected |-> 0]
       ELSE [history |-> SubSeq(h, i + 1, Len(h)),
             corrected |-> IF drift THEN Len(h) - i ELSE 0]

\* Reconciler::reconcile(authoritative): without a prediction of that
\* tick, drop the older ones and report nothing; with one, report
\* corrected_ticks = size - index when the position error is over epsilon
\* (drift), and erase the history up to and including that index.
reconcile(h, t, drift) ==
    LET i == find_index(h, t)
    IN IF i = 0 THEN [history |-> drop_older(h, t), corrected |-> 0]
       ELSE [history |-> SubSeq(h, i + 1, Len(h)),
             corrected |-> IF drift THEN Len(h) - i + 1 ELSE 0]

\* Predictor::predict(tick, ...) on the client's next tick, then
\* record_prediction of the state it returns.  predict throws before
\* reset, so the client predicts only once seeded.  The client paces its
\* ticks with TimeSync's target, which keeps it at most MaxLead ticks
\* ahead of the server tick now.
Predict(now) ==
    /\ seeded
    /\ clientTick < now + MaxLead
    /\ clientTick' = clientTick + 1
    /\ recHistory' = record_prediction(recHistory, clientTick + 1)
    /\ made' = made \cup {clientTick + 1}
    /\ UNCHANGED <<seeded, latest, lastResult>>

\* The predictions a rollback to tick t must replay: the client's
\* predictions of tick t and later.
Replayed(t) == Cardinality({u \in made : u >= t})

\* The client receiving the authoritative state of tick t from the
\* decoder: the first one seeds the predictor (Predictor::reset) and the
\* client's tick; every one is reconciled, drift saying whether the
\* prediction of that tick is off by more than epsilon.
Receive(t) ==
    \E drift \in BOOLEAN :
        LET r == reconcile(recHistory, t, drift)
        IN /\ seeded' = TRUE
           /\ clientTick' = IF seeded THEN clientTick ELSE t
           /\ recHistory' = r.history
           /\ lastResult' = [auth |-> t, drift |-> drift, corrected |-> r.corrected,
                             newer |-> ~seeded \/ latest < t,
                             predicted |-> t \in made, replay |-> Replayed(t)]
           /\ latest' = IF latest < t THEN t ELSE latest
           /\ UNCHANGED made

-----------------------------------------------------------------------------

ClientTypeOK ==
    /\ seeded \in BOOLEAN
    /\ clientTick \in Nat
    /\ recHistory \in Seq(Nat) /\ Len(recHistory) <= RecHistory
    /\ made \subseteq Nat /\ latest \in Nat
    /\ lastResult \in [auth : Nat, newer : BOOLEAN, predicted : BOOLEAN, replay : Nat,
                       drift : BOOLEAN, corrected : Nat]

\* Spec 4.6 (Reconciler) and scenario 5: when an authoritative state newer
\* than every one reconciled before arrives for a tick the client had
\* predicted, corrected_ticks is the number of predictions made from that
\* tick on if the prediction drifted past epsilon, and 0 otherwise;
\* however snapshots were lost or reordered, and predictions recorded, in
\* between.
RollbackMatchesDrift ==
    (lastResult.newer /\ lastResult.predicted) =>
        lastResult.corrected = IF lastResult.drift THEN lastResult.replay ELSE 0

=============================================================================

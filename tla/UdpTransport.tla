---------------------------- MODULE UdpTransport ----------------------------
(***************************************************************************)
(* The selective-ack datagram transport net::udp::UdpTransport             *)
(* (src/game-server/netcode-core/net/udp/udp_transport.cpp), one instance  *)
(* per endpoint of a two-endpoint session.  Each endpoint keeps the        *)
(* per-peer ClientState of the code: the next 16-bit send sequence, the    *)
(* receive window (last_seq, ack_bits, has_last_seq) and the map of        *)
(* pending reliable packets keyed by sequence.                             *)
(*                                                                         *)
(* Every public operation runs under the transport mutex, so each is one   *)
(* atomic action: Send (send), Receive (handle_receive + process_packet +  *)
(* handle_ack + the handler call) and Update (update +                     *)
(* expire_pending_locked).  The network between the endpoints loses,      *)
(* duplicates and reorders datagrams.                                      *)
(*                                                                         *)
(* Abstractions.  Sequence numbers live in 0..SeqSpace-1 instead of        *)
(* 0..65535 and the ack mask has AckBits bits instead of 32; every literal *)
(* 32 of the code is AckBits and the 2^15 "is newer" window is SeqSpace\div2.*)
(* Payloads are the ghost identity <<sender, k>> of the k-th send call.    *)
(* Time is kept in milliseconds, as the ages of each pending packet: now  *)
(* - first_sent and now - last_sent (next_send is always last_sent +       *)
(* backoff_for(retries)).  The owner calls update() once per tick, so the  *)
(* clock advances by UpdateInterval only after both endpoints updated.     *)
(***************************************************************************)
EXTENDS Integers, Sequences, FiniteSets, Functions, Bitwise, TLC

CONSTANTS
    Node,        \* the two endpoints of the session
    SeqSpace,    \* size of the sequence space (2^16 in the code)
    AckBits,     \* width of ack_bits and of the duplicate window (32)
    Window,      \* kMaxWindow: pending reliable packets per peer (32)
    MaxRetries,  \* kMaxRetries (5)
    BaseRetransmit, \* kBaseRetransmit in ms (50)
    Ttl,         \* kTtl in ms (500)
    UpdateInterval, \* ms between two update() calls: one tick
    MaxSends     \* bound: send calls per endpoint in one behaviour

ASSUME Cardinality(Node) = 2
ASSUME SeqSpace \in Nat /\ SeqSpace % 2 = 0 /\ AckBits \in 1..(SeqSpace \div 2 - 1)
ASSUME Window \in Nat \ {0} /\ MaxRetries \in Nat /\ MaxSends \in Nat
ASSUME {BaseRetransmit, Ttl, UpdateInterval} \subseteq Nat \ {0}

VARIABLES
    nextSendSeq,   \* ClientState::next_send_seq, per endpoint
    receiveState,  \* ClientState::receive_state, per endpoint
    pending,       \* ClientState::pending: seq -> [id, retries]
    network,       \* datagrams in flight
    sends,         \* ghost: number of send calls made by each endpoint
    delivered,     \* ghost: payload ids handed to the receive handler
    redelivered,   \* ghost: ids handed to the handler a second time
    ackedIds,      \* ghost: ids an endpoint removed from pending on an ack
    updated        \* endpoints whose update() ran since the clock last advanced

vars == <<nextSendSeq, receiveState, pending, network, sends, delivered,
          redelivered, ackedIds, updated>>

Seqs == 0..(SeqSpace - 1)
Half == SeqSpace \div 2
Masks == 0..(2^AckBits - 1)
MsgId == Node \X (1..MaxSends)
Peer(n) == CHOOSE m \in Node : m # n

ReceiveStates == [has : BOOLEAN, last : Seqs, bits : Masks]
PendingPackets == [id : MsgId, retries : 0..MaxRetries, age : Nat, sinceLast : Nat]
Datagrams == [from : Node, to : Node, seq : Seqs, ack : Seqs, ackBits : Masks, id : MsgId]

\* uint16 subtraction a - b
Diff(a, b) == (a - b) % SeqSpace

\* backoff_for: kBaseRetransmit * 1.5^retries, truncated to whole ms (the
\* products are exact in a double for the retries the code reaches)
backoff_for(retries) == (BaseRetransmit * 3^retries) \div 2^retries

\* the mask 1u << (k - 1)
Bit(k) == 2^(k - 1)

\* UdpTransport::is_seq_newer: static_cast<int16_t>(lhs - rhs) > 0
is_seq_newer(lhs, rhs) == 0 < Diff(lhs, rhs) /\ Diff(lhs, rhs) < Half

\* Mutant of is_seq_acked: the ack_bits mask is not consulted.
is_seq_acked_NoMask(seq, ack, bits) ==
    \/ seq = ack
    \/ 0 < Diff(ack, seq) /\ Diff(ack, seq) <= AckBits

\* UdpTransport::is_seq_acked: seq is the ack itself, or 1..32 behind it
\* with its bit set
is_seq_acked(seq, ack, bits) ==
    \/ seq = ack
    \/ /\ 0 < Diff(ack, seq) /\ Diff(ack, seq) <= AckBits
       /\ (bits & Bit(Diff(ack, seq))) # 0

\* UdpTransport::has_received
has_received(st, seq) ==
    /\ st.has
    /\ \/ seq = st.last
       \/ /\ ~is_seq_newer(seq, st.last)
          /\ Diff(st.last, seq) <= AckBits
          /\ (st.bits & Bit(Diff(st.last, seq))) # 0

\* UdpTransport::update_receive_state
update_receive_state(st, seq) ==
    IF ~st.has THEN [has |-> TRUE, last |-> seq, bits |-> 0]
    ELSE IF is_seq_newer(seq, st.last)
         THEN LET d == Diff(seq, st.last) IN
              [st EXCEPT !.last = seq,
                         !.bits = IF d >= AckBits THEN 0
                                  ELSE ((@ * 2^d) % 2^AckBits) | Bit(d)]
         ELSE LET d == Diff(st.last, seq) IN
              IF 1 <= d /\ d <= AckBits THEN [st EXCEPT !.bits = @ | Bit(d)]
              ELSE st

\* UdpTransport::compose_packet: the header carries the sender's current
\* receive window, or ack = ack_bits = 0 before anything was received
compose_packet(n, seq, id) ==
    [from |-> n, to |-> Peer(n), seq |-> seq, id |-> id,
     ack |-> IF receiveState[n].has THEN receiveState[n].last ELSE 0,
     ackBits |-> IF receiveState[n].has THEN receiveState[n].bits ELSE 0]

\* Mutant of process_packet: only the last sequence counts as a duplicate.
IsDropped_NoHistory(st, seq) ==
    /\ st.has
    /\ ~is_seq_newer(seq, st.last)
    /\ \/ Diff(st.last, seq) = 0
       \/ Diff(st.last, seq) > AckBits

\* process_packet: the sequence is the last one, already in the window, or
\* older than the window
IsDropped(st, seq) ==
    /\ st.has
    /\ ~is_seq_newer(seq, st.last)
    /\ \/ Diff(st.last, seq) = 0
       \/ has_received(st, seq)
       \/ Diff(st.last, seq) > AckBits

-----------------------------------------------------------------------------

Init ==
    /\ nextSendSeq = [n \in Node |-> 1]
    /\ receiveState = [n \in Node |-> [has |-> FALSE, last |-> 0, bits |-> 0]]
    /\ pending = [n \in Node |-> << >>]
    /\ network = {}
    /\ sends = [n \in Node |-> 0]
    /\ delivered = [n \in Node |-> {}]
    /\ redelivered = [n \in Node |-> {}]
    /\ ackedIds = [n \in Node |-> {}]
    /\ updated = {}

\* Mutant of send: the kMaxWindow test is lost.
Send_NoWindow(n, reliable) ==
    /\ sends[n] < MaxSends
    /\ LET seq == nextSendSeq[n]
           id  == <<n, sends[n] + 1>>
       IN /\ nextSendSeq' = [nextSendSeq EXCEPT ![n] = (seq + 1) % SeqSpace]
          /\ network' = network \cup {compose_packet(n, seq, id)}
          /\ pending' = IF reliable
                        THEN [pending EXCEPT ![n] =
                                 (seq :> [id |-> id, retries |-> 0, age |-> 0, sinceLast |-> 0]) @@ @]
                        ELSE pending
    /\ sends' = [sends EXCEPT ![n] = @ + 1]
    /\ UNCHANGED <<receiveState, delivered, redelivered, ackedIds, updated>>

\* UdpTransport::send.  The sequence is consumed even when a reliable send
\* is refused because the window is full.
Send(n, reliable) ==
    /\ sends[n] < MaxSends
    /\ LET seq  == nextSendSeq[n]
           id   == <<n, sends[n] + 1>>
           full == reliable /\ Cardinality(DOMAIN pending[n]) >= Window
       IN /\ nextSendSeq' = [nextSendSeq EXCEPT ![n] = (seq + 1) % SeqSpace]
          /\ network' = IF full THEN network
                        ELSE network \cup {compose_packet(n, seq, id)}
          /\ pending' = IF reliable /\ ~full
                        THEN [pending EXCEPT ![n] =
                                 (seq :> [id |-> id, retries |-> 0, age |-> 0, sinceLast |-> 0]) @@ @]
                        ELSE pending
    /\ sends' = [sends EXCEPT ![n] = @ + 1]
    /\ UNCHANGED <<receiveState, delivered, redelivered, ackedIds, updated>>

\* UdpTransport::handle_receive / process_packet: drop every pending packet
\* the header acknowledges, then drop or accept the datagram; an accepted
\* payload goes to the handler.  A duplicated datagram is handled like a resent one.
Receive(n) ==
    \E d \in network :
        /\ d.to = n
        /\ LET st    == receiveState[n]
               acked == {s \in DOMAIN pending[n] : is_seq_acked(s, d.ack, d.ackBits)}
               drop  == IsDropped(st, d.seq)
           IN /\ pending' = [pending EXCEPT ![n] = Restrict(@, DOMAIN @ \ acked)]
              /\ ackedIds' = [ackedIds EXCEPT ![n] =
                                 @ \cup {pending[n][s].id : s \in acked}]
              /\ receiveState' = IF drop THEN receiveState
                                 ELSE [receiveState EXCEPT ![n] =
                                          update_receive_state(st, d.seq)]
              /\ delivered' = IF drop THEN delivered
                              ELSE [delivered EXCEPT ![n] = @ \cup {d.id}]
              /\ redelivered' = IF drop \/ d.id \notin delivered[n] THEN redelivered
                                ELSE [redelivered EXCEPT ![n] = @ \cup {d.id}]
        /\ network' = network \ {d}
        /\ UNCHANGED <<nextSendSeq, sends, updated>>

\* Mutant of expire_pending_locked: the TTL is measured from last_sent.
expire_pending_locked_FromLastSent(n) ==
    {s \in DOMAIN pending[n] : \/ pending[n][s].sinceLast >= Ttl
                              \/ pending[n][s].retries >= MaxRetries}

\* UdpTransport::expire_pending_locked: the packets whose TTL elapsed since
\* first_sent or whose retries reached kMaxRetries.
expire_pending_locked(n) ==
    {s \in DOMAIN pending[n] : \/ pending[n][s].age >= Ttl
                              \/ pending[n][s].retries >= MaxRetries}

\* UdpTransport::update: erase the expired packets, then resend every
\* remaining packet whose next_send is due with a fresh header, last_sent =
\* now and retries + 1.
Update(n) ==
    LET kept == DOMAIN pending[n] \ expire_pending_locked(n)
        due  == {s \in kept : pending[n][s].sinceLast >= backoff_for(pending[n][s].retries)}
    IN /\ pending' = [pending EXCEPT ![n] =
              [s \in kept |-> IF s \in due
                              THEN [pending[n][s] EXCEPT !.retries = @ + 1, !.sinceLast = 0]
                              ELSE pending[n][s]]]
       /\ network' = network \cup {compose_packet(n, s, pending[n][s].id) : s \in due}
       /\ updated' = updated \cup {n}
       /\ UNCHANGED <<nextSendSeq, receiveState, sends, delivered, redelivered, ackedIds>>

\* One tick of wall-clock time passes, once each endpoint has updated.
Elapse ==
    /\ updated = Node
    /\ pending' = [n \in Node |-> [s \in DOMAIN pending[n] |->
                     [pending[n][s] EXCEPT !.age = @ + UpdateInterval,
                                           !.sinceLast = @ + UpdateInterval]]]
    /\ updated' = {}
    /\ UNCHANGED <<nextSendSeq, receiveState, network, sends, delivered, redelivered, ackedIds>>

\* The network loses a datagram.
Lose ==
    \E d \in network :
        /\ network' = network \ {d}
        /\ UNCHANGED <<nextSendSeq, receiveState, pending, sends, delivered, redelivered, ackedIds, updated>>

Next ==
    \/ \E n \in Node, reliable \in BOOLEAN : Send(n, reliable)
    \/ \E n \in Node : Receive(n)
    \/ \E n \in Node : Update(n)
    \/ Elapse
    \/ Lose

Spec == Init /\ [][Next]_vars

-----------------------------------------------------------------------------

TypeOK ==
    /\ nextSendSeq \in [Node -> Seqs]
    /\ receiveState \in [Node -> ReceiveStates]
    /\ \A n \in Node : /\ DOMAIN pending[n] \subseteq Seqs
                       /\ Cardinality(DOMAIN pending[n]) <= Window
                       /\ \A s \in DOMAIN pending[n] : pending[n][s] \in PendingPackets
    /\ network \subseteq Datagrams
    /\ sends \in [Node -> 0..MaxSends]
    /\ delivered \in [Node -> SUBSET MsgId]
    /\ redelivered \in [Node -> SUBSET MsgId]
    /\ ackedIds \in [Node -> SUBSET MsgId]
    /\ updated \subseteq Node

\* Duplicate suppression (process_packet): the handler never sees the same
\* payload twice, whatever the network duplicates, reorders or retransmits.
NoDuplicateDelivery ==
    \A n \in Node : redelivered[n] = {}

\* handle_ack only forgets a reliable packet the peer has really handed to
\* its handler: an ack header never covers a sequence the peer did not accept.
AckImpliesDelivered ==
    \A n \in Node : ackedIds[n] \subseteq delivered[Peer(n)]

\* spec.md section 6: the TTL caps the lifetime of any pending resend.
\* update() runs once per tick and expire_pending_locked measures the TTL
\* from first_sent, so no reliable packet stays in the pending map (and is
\* resent) a full update interval past kTtl, whatever the retry schedule.
PendingLifetimeBounded ==
    \A n \in Node : \A s \in DOMAIN pending[n] :
        pending[n][s].age < Ttl + UpdateInterval

=============================================================================

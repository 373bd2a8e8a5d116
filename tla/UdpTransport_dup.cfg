\* Three send calls per endpoint with a two-bit ack mask: a receiver can see
\* its window jump by exactly AckBits, then a resend of the old last_seq.
CONSTANTS
    A = A
    B = B
    Node <- MCNode
    SeqSpace = 8
    AckBits = 2
    Window = 2
    MaxRetries = 1
    MaxSends = 3
    BaseRetransmit = 50
    Ttl = 500
    UpdateInterval = 50
SPECIFICATION Spec
INVARIANT NoDuplicateDelivery

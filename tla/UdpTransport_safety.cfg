\* Two endpoints each making up to MaxSends send calls over a lossy,
\* reordering network; pending packets leave on an ack, the retry cap or the
\* TTL, with the code's timing and update() every 50 ms.
CONSTANTS
    A = A
    B = B
    Node <- MCNode
    SeqSpace = 8
    AckBits = 2
    Window = 1
    MaxRetries = 5
    MaxSends = 2
    BaseRetransmit = 50
    Ttl = 500
    UpdateInterval = 50
SPECIFICATION Spec
INVARIANT TypeOK
INVARIANT AckImpliesDelivered
INVARIANT PendingLifetimeBounded

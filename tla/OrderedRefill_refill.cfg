SPECIFICATION Spec
CONSTANTS
    p1 = p1
    p2 = p2
    None = None
    Peers <- TwoPeers
    Score <- MCScore
    MaxScore = 2
    Qualified <- TwoPeers
    Outbound = {p1}
    N = 3
    W = 2
    HeadPrefix = 2
    RedundancyPrefix = 1
    MaxActive = 2
    Faults = {"close", "timeout", "null", "refuse", "preempt"}
    MaxFaults = 1
INVARIANTS SlotsBacked  CopiesBounded  PassedCovered


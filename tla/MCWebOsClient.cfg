SPECIFICATION FairSpec
CONSTANTS
    c1 = c1
    c2 = c2
    Callers = {c1, c2}
    Nobody = Nobody
    MaxConns = 3
INVARIANTS TypeOK ConnectedHasReader NoOrphan HandshakeHonest NoLeak LockSound
PROPERTIES CallAdvances CallEnds

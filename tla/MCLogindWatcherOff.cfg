SPECIFICATION Spec
CONSTANTS
    s1 = s1
    s2 = s2
    s3 = s3
    f1 = f1
    f2 = f2
    f3 = f3
    f4 = f4
    MaxWatchers = 1
    Slots = {s1, s2, s3}
    Fds = {f1, f2, f3, f4}
    None = None
SYMMETRY Symmetry
INVARIANTS TvOffFirst

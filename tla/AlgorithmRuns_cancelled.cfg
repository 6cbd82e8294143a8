CONSTANTS
    q1 = q1
    q2 = q2
    q3 = q3
    n1 = n1
    n2 = n2
    Unknown = Unknown
    None = None
    Runs = {q1, q2}
    Networks = {n1, n2}
    MaxRev = 2
SPECIFICATION Spec
INVARIANT CancelledIsCancelled

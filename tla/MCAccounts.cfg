\* Two requests of a user whose password and state change while tokens are
\* issued, refreshed and used.
SPECIFICATION Spec
CONSTANTS
    Requests = {r1, r2}
    Users = {u1}
    Passwords = {p1, p2}
    AccessTTL = 1
    RefreshTTL = 2
    MaxDuration = 1
    NoCall = NoCall
    MaxTime = 6
    MaxChanges = 2
SYMMETRY MCSymmetry
INVARIANTS
    TypeOK
    AccessLapses

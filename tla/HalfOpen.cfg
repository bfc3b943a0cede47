\* Two circuits and three callers; the comment on the half-open attempt is checked alone.
CONSTANTS
    Names = {g1, g2}
    Callers = {k1, k2, k3}
    NoCall = NoCall
    Threshold = 2
SPECIFICATION CircuitSpec
INVARIANT OneHalfOpenAttempt

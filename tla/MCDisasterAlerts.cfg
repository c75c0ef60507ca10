SPECIFICATION Spec
CONSTANTS
    a = a  b = b  p = p  h = h  i = i
    Admins <- MCAdmins
    Parents <- MCParents
    Hooks <- MCHooks
    MaxEvents = 2
    MaxCounted = 1
    MaxFailures = 1
SYMMETRY Symmetry
INVARIANTS ModeInv AnsweredIsKept CountedOnce
\* The activations are bounded.
CHECK_DEADLOCK FALSE

CONSTANTS
    Handler = {h1, h2}
    Client = {c1}
    idle_timeout = 1
    absolute_timeout = 3
    max_failed_attempts = 2
    lockout_duration = 1
    MaxToken = 3
    MaxTime = 4
SPECIFICATION Spec
INVARIANTS LockedAtLimit SeenWithinLife
PROPERTIES NeverRevived
SYMMETRY HandlerSymmetry
CHECK_DEADLOCK FALSE

SPECIFICATION Spec
CONSTANTS
    on = on
    off = off
    omitted = omitted
    Calls = {c1, c2}
    Slices = {on, off, omitted}
    Deliveries <- Arrays
    Env = Env
    None = None
    PollingBlock <- BlockOf
    EnvIsValid = TRUE
    MaxConfigures = 1
INVARIANT OnePollerPerProcess
CHECK_DEADLOCK FALSE

\* The same sessions, one attempt each, and one candidate of any of them.
\* Safety only, so that the two hosts may be swapped.
CONSTANTS
    Hosts = {h1, h2}
    Clients = {c1}
    None = None
    MaxRetries = 1
    MaxIce = 1
SPECIFICATION Spec
CHECK_DEADLOCK FALSE
SYMMETRY Symmetry
INVARIANT CandidatesReachTheirPc

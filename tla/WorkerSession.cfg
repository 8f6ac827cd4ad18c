\* Three processes with any requests, two contents of the project.
CONSTANTS
    None = None
    Call = {c1, c2, c3}
    Source = {old, new}
    Answer = {good, bad}
    Invalid = {bad}
SPECIFICATION Spec
SYMMETRY Symmetry
INVARIANTS
    PublishedWhole
    PreparedOnce
    AttemptFaithful
CHECK_DEADLOCK FALSE

SPECIFICATION Spec
CONSTANTS
    Node = {n1, n2}
    Safe = {s1, s2}
    NoSafe = NoSafe
    Reverts = Reverts
    Requirement <- Uniform
    MaxNonce = 2
INVARIANTS TypeOK CountIsExact SignatureSpentOnce EligibilityPublished
 
SYMMETRY Interchangeable
CHECK_DEADLOCK FALSE

SPECIFICATION Spec
CONSTANTS
    d1 = d1  d2 = d2
    Candidates = {c1}
    Drives = {d1, d2}
    OpensAt <- From
    ClosesAt <- Until
    Decisions = {shortlisted, on_hold, rejected}
    Typed <- First
    Requests = {r1, r2}
    Ticks = {k1}
    MaxTime = 2
    MaxSaves = 1
    MaxDecisions = 1
    Null = Null
SYMMETRY Perms
INVARIANT RecruitmentInv
PROPERTIES RecruitmentContractSpec DecisionStands
CHECK_DEADLOCK FALSE

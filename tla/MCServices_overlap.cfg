SPECIFICATION MCSpec
CONSTANTS
    Handlers = {h1, h2}
    Trails = {a, b}
    MaxEvents = 4
    small = small
    big = big
    Plans = {small, big}
    FirstPlan = small
    MaxUses = 1
    MaxSubs = 2
    People = {p1, p2}
    Roles = {custom}
    Employee = Employee
    NoRole = NoRole
    LimitOf <- Limits
    Departments = {d1}
    Teams = {team1, team2}
    Staff = {w1}
    Names = {n1}
    NoUnit = NoUnit
    NoLeader = NoLeader
    Materials = {lesson1, lesson2}
    Tests = {x1}
    MaxAssignments = 1
    Questions = {q1}
    Marks = {1, 2}
    MaxVersions = 3
    Papers = {t1}
    Pools = {0, 1}
    Keys = {k1, k2}
    TestKeys = {k2}
    Configs = {1, 2}
    Attempts = 2
    Budget = 1
    Items = 2
SYMMETRY Perms
INVARIANTS
    AuditInv BillingInv StaffInv UnitsInv
    LearningInv BankAndTestsInv GenerationInv
PROPERTIES StaffKept PublishedKeepsPaper GenerationContractSpec
CHECK_DEADLOCK FALSE

SPECIFICATION FairSpec
CONSTANTS
    p1 = p1
    p2 = p2
    r1 = r1
    NoRun = NoRun
    NoWorkflow = NoWorkflow
    Runs = {r1}
    Procs = {p1, p2}
    NJobs = 2
    NSteps = 2
    Workflows <- Small
    MaxWrites = 4
    MaxFaults = 2
INVARIANTS
    RunInv
    SuccessIsEarned
PROPERTIES
    RunsEnd
    ImplementsOneShot
CHECK_DEADLOCK FALSE

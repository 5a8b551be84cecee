SPECIFICATION Spec
CONSTANTS
    RequestIDs = {r1, r2}
    MaxGen = 2
    MaxPods = 2
    MaxRestarts = 0
INVARIANT PairedMeansApproved

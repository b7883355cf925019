SPECIFICATION FairSpec
CONSTANTS
    Procs = {p1, p2}
    Tokens = {t1}
    MaxBusy = 1
    MaxFaults = 1
    TTL = 1
    Rollout = 1
    Overlap = 2
    MaxTime = 5
INVARIANTS CleanStop TokensSurvive RunNeverBlocked
PROPERTIES Stops ServesAgain RotationEnds

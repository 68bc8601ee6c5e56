\* Two tasks on two workers under fairness: liveness.
CONSTANTS
    Tasks = {t1, t2}
    Workers = {w1, w2}
    Main = Main
    None = None
    MaxSuspensions = 1
SPECIFICATION FairSpec
PROPERTIES
    SuspendedRunsAgain
    ProgramEnds

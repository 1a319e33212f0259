CONSTANTS
    Names <- MCNames
    Interval <- MCInterval
    AvoidCatchUp = {"autoTimerSync"}
    MaxRun = 1
    MaxLateness = 0
    MaxAdds <- MCMaxAdds
    MaxChains = 2
    MaxInterrupted = 1
    MaxLate = 2
SPECIFICATION FairSpec
INVARIANT TypeOK
INVARIANT OneChain
INVARIANT OnlyRegisteredJobsRun
INVARIANT RunsAreOnTime
PROPERTY JobsKeepRunning

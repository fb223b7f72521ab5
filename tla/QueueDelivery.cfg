SPECIFICATION FairSpec
CONSTANT MaxJobs = 5
CHECK_DEADLOCK FALSE
INVARIANTS StatsAccount
PROPERTIES DeliversInOrder EachJobEnds

SPECIFICATION FairSpec
CONSTANTS
    Replicas = {r1, r2}
    MaxMigration = 4
INVARIANTS TypeOK AppliedOnce NoGap
PROPERTY EveryReplicaStarts
CHECK_DEADLOCK FALSE

SPECIFICATION FairSpec
CONSTANTS
  NBuffers = 3
  NRecords = 2
  MaxEvents = 3
  MaxFinalizes = 4
  MaxKills = 1
  MaxLoads = 2
INVARIANTS Apart DumpsLatest GapsReported LossesCounted KilledForGood
PROPERTIES AllDumped
CHECK_DEADLOCK FALSE

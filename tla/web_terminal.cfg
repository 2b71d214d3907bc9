CONSTANTS
  Tenants <- MCTenants
  Words <- MCWords
  FlagValue <- MCFlagValue
  Merged <- MCMerged
  Inherited = "unset"
  Dotenv = "t3"
  Nohup = FALSE
  Capacity = 2
  UserFrames <- MCUserFrames
  PageFrame <- MCPageFrame
  MaxFrames = 2
SPECIFICATION FairSpec
INVARIANTS
  TypeOK
  TenantOfLine
  NoOrphan
PROPERTIES
  SurvivesInterrupt
  InterruptEnds
  LeaveEnds
CHECK_DEADLOCK FALSE

SPECIFICATION FairSpec
CONSTANTS
  popup = popup
  approval = approval
  Windows = {popup, approval}
  Owner = popup
  FreeTries = 2
  Steps <- TwoSteps
  MaxGuesses = 4
  MaxFaults = 1
INVARIANTS
  TypeOK
  NoEarlyLockout
PROPERTIES
  GuessesWait
  EveryFailureLocks
  OwnerGetsIn

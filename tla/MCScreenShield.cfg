CONSTANTS
  Password = TRUE
  Refusals = TRUE
  ActivateCalls = TRUE
  UnlockCalls = TRUE
  LockEnabled = {TRUE, FALSE}
  MaxBeats = 2
  MaxOrphans = 1
SPECIFICATION Spec
INVARIANTS
  TypeOK
  BlackIsWatched
  LockedCovers
  DialogIsFresh
  ModesFollowCurtain
  GoneHoldsNothingIfCalm
CHECK_DEADLOCK TRUE

CONSTANTS
  Requested = {"LOGOUT", "SHUTDOWN", "UPGRADE_RESTART"}
  MaxAsked = 2
  MaxCalls = 3
  MaxRequests = 2
SPECIFICATION MCSpec
INVARIANTS
  TypeOK
  GrabFollowsDialog
  OneConfirmation
  CanceledMeansCanceled
  ConfirmedAsAsked
  OpenIsAnswered
  PromptsAnswer
PROPERTIES
  CountdownEnds
  WithdrawnAreAnswered
CHECK_DEADLOCK FALSE

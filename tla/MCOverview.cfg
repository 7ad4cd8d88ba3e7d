CONSTANTS
  Refusals = TRUE
  CtrlClicks = FALSE
  Modes = {}
  InnerDrags = {"item", "window"}
SPECIFICATION Spec
INVARIANTS
  TypeOK
  AtRestAsAsked
  GrabFollows
PROPERTIES
  KeepsPromise

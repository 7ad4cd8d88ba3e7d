CONSTANTS
  Refusals = TRUE
  CtrlClicks = TRUE
  Modes = {TRUE, FALSE}
  InnerDrags = {"item", "window"}
SPECIFICATION Spec
INVARIANTS
  SideEffectsBalanced
PROPERTIES
  GrabHeldUntilHidden
  UnwantedLeaves

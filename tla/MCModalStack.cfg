CONSTANTS
  dialog = dialog
  popup = popup
  padOsd = padOsd
  button = button
  NoActor = NoActor
  Modals <- MCModals
  Widgets <- MCWidgets
  Focusable = {button}
  ModeOf <- MCModeOf
  Careless = {padOsd}
  HandlerIds = {1, 2, 3}
  Normal = "NORMAL"
  MaxDepth = 3
SPECIFICATION Spec
INVARIANTS
  TypeOK
  GrabNeverLeaks
  CarefulModalHasGrab
  KeybindingsFollowTopIfShallow
  FocusGivenBackIfShallow

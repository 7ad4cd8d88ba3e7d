CONSTANTS
  Requested = {"LOGOUT"}
  MaxAsked = 2
  MaxCalls = 3
  MaxRequests = 2
SPECIFICATION MCSpec
PROPERTIES
  OpenBringsBack

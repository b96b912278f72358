\* Three handlers that all may make the first call.
SPECIFICATION Spec
CONSTANTS
  Handlers = {h1, h2, h3}
SYMMETRY Symmetry
INVARIANTS
  TypeOK
  OneBrokerPerRacer
  SettledCallsAgree
  CurrentListsLiving
CHECK_DEADLOCK FALSE

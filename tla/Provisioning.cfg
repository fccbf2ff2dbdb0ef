\* Two processes with auto_provision, one without and a migration, in two
\* schemas with two seed rows; one process dies.  Processes stop when answered.
SPECIFICATION Spec
CONSTANTS
  a1 = a1
  a2 = a2
  p1 = p1
  m1 = m1
  Processes <- MCProcesses
  Kind <- MCKind
  Names <- MCNames
  Characters = {"p", "x", "1"}
  DEFAULT_SCHEMA <- MCDefault
  Letters = {"p", "x"}
  Digits = {"1"}
  MaxNameLength = 2
  MaxMachineId = 1
  MaxKills = 1
  None = None
  Committed = Committed
SYMMETRY Symmetry
INVARIANTS TypeOK AutoProvisionSucceeds SpacesAreDistinct SeededAtOnce NoWaitingCircle
CHECK_DEADLOCK FALSE

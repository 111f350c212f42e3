SPECIFICATION Spec
CONSTANTS
  multicastGroups <- MCGroups
  Index <- MCIndex
INVARIANTS TypeOK Agrees OpenedOnce Ready HearsItsGroup
\* The constructor and the start of Run are finite.
CHECK_DEADLOCK FALSE

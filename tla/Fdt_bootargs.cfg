\* Every tree, with room from nothing to more than enough.
SPECIFICATION Spec
CONSTANTS
  Chosen <- MCChosen
  Bootargs <- MCBootargs
  Sources <- MCSources
  Args <- MCArgs
  NULL = NULL
INVARIANTS
  HeaderInStep
  BootargsReadBack
  OnlyBootargsChanges
  FailureRollsBack
  NoSpaceOnlyWhenFull
CHECK_DEADLOCK FALSE

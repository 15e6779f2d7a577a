SPECIFICATION Spec
CONSTANTS
  BaseLen = 2
  ExtLen = 1
  Slots = 3
  Capital <- MCCapital
  High <- MCHigh
  Disks <- MCDisks
  Args <- MCArgs
INVARIANT NotFoundMeansAbsent

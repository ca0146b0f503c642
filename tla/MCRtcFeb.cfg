CONSTANTS
  SetDates <- MCDates
  JoyDates = {}
  DefaultDate <- MCDefault
  MaxDays = 3
  MaxSets = 1
  MaxErrors = 0
SPECIFICATION Spec
INVARIANT DateExists

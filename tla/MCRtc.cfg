CONSTANTS
  SetDates <- MCDates
  JoyDates <- MCJoyDates
  DefaultDate <- MCDefault
  MaxDays = 5
  MaxSets = 1
  MaxErrors = 1
SPECIFICATION Spec
INVARIANTS ClockIsRight
PROPERTIES N64SetKept

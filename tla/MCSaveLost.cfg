SPECIFICATION Spec
CONSTANTS
  NSectors = 1
  CountMod = 3
PROPERTIES
  NeverLockedOut

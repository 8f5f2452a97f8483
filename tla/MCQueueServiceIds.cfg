CONSTANTS
  c1 = c1
  c2 = c2
  c3 = c3
  c4 = c4
  one = one
  two = two
  None = None
  own = own
  Names = {"emails"}
  Callers <- MCCallers
  Contents <- MCContents
  OwnIds = {own}
  MaxBuilt = 2
  MaxStored = 2

SPECIFICATION Spec
SYMMETRY Symmetry
CHECK_DEADLOCK FALSE

INVARIANT SkippedIsDuplicate

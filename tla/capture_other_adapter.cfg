\* The combo box shows an adapter that is not the one captured on.
SPECIFICATION Spec
CONSTANTS
  None = None
  Adapter = {a, b}
  MaxErrors = 2
INVARIANTS
  SourceIsChosen

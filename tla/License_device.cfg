SPECIFICATION Spec
CONSTANTS
  Procs = {p1}
  Keys = {k1}
  NoKey = NoKey
  Nobody = Nobody
PROPERTIES
  ClosesForGood
  ComesBack

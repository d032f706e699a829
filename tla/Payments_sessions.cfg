SPECIFICATION MCSpec
CONSTANTS
  Sessions = {w1, w2}
  Registrations = {r1}
  Totals = {5}
  Amounts = {2, 3}
  Fees = {0, 2}
  Opening = 0
  MaxPayments = 3
  MaxParts = 2
  MaxRequests = 6
  MaxOverlapped = 4
SYMMETRY Symmetry
INVARIANTS
  TillSound
  CancelsAlternate
PROPERTIES
  AloneAgree

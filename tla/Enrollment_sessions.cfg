SPECIFICATION MCSpec
CONSTANTS
  Sessions = {w1, w2}
  Students = {s1, s2}
  NoStudent = NoStudent
  Classes = {A, B}
  NoClass = NoClass
  Capacities = {1, 2}
  MaxRegs = 3
  MaxRequests = 5
  MaxOverlapped = 3
SYMMETRY Symmetry
PROPERTIES
  NeverReactivated
  AloneSeats

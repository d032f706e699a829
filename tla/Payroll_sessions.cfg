SPECIFICATION MCSpec
CONSTANTS
  Sessions = {w1, w2}
  Persons = {ann}
  Boxes = {main}
  NoBox = NoBox
  Amounts <- SignedAmounts
  Cash = {1}
  Opening = 4
  MaxSlips = 2
  MaxRequests = 6
SYMMETRY Symmetry
INVARIANTS
  ApprovalBacksPayment
  AlonePaid
PROPERTIES
  AloneLedger

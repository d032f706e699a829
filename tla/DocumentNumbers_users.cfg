SPECIFICATION FairSpec
CONSTANTS
  Users = {u1, u2}
  Prefixes = {PS, SPL}
  Yearless = {SPL}
  Years = {1, 2}
  MaxAttempts = 2
  MaxDocs = 3
  MaxTimeouts = 1
  MaxLosses = 1
PROPERTIES
  ServedWithoutFallback

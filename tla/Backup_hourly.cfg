SPECIFICATION StoreSpec
CONSTANTS
  Workers = {w1, w2}
  Nobody = Nobody
  Roles = {secretary, copied}
  Default = secretary
  Usernames = {admin, owner}
  Factory = admin
  Owner = owner
  MaxEvents = 3
  f2 = f2
  Files = {f1, f2}
  MaxVersion = 3
  Ships <- ShipsOne
  Dropped <- DroppedOne
  MaxFaults = 2
  MaxUploads = 1
  Commits = {x1}
  Torn = Torn
  MaxKeep = 2
  Interval = 1
INVARIANTS
  NoCommitLost
PROPERTIES
  BackedUp

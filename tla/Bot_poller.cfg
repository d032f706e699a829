SPECIFICATION Spec
CONSTANTS
  c1 = c1
  c2 = c2
  w1 = w1
  w2 = w2
  p1 = p1
  NoPhone = NoPhone
  MaxTokens = 2
  Chats = {c1, c2}
  Workers = {w1, w2}
  WorkerOf <- OwnWorker
  Kinds <- ContactOrForget
  StudentPhones = {p1}
  BatchLimit = 2
  FlushEvery = 2
  MaxStarts = 2
  MaxMessages = 2
  MaxEvents = 4
INVARIANTS
  InOrderOnce
  NothingLost
PROPERTIES
  EveryAnswered
  CastFinishes
CHECK_DEADLOCK FALSE

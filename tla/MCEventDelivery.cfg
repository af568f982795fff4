SPECIFICATION LiveSpec
CONSTANTS
  placed = placed
  paid = paid
  s1 = s1
  s2 = s2
  First = r1
  r1 = r1
  r2 = r2
  r3 = r3
  Unknown = Unknown
  None = None
  Events = {placed, paid}
  Subscribers = {s1, s2}
  Releases = {r1, r2, r3}
  Emitted <- MCEmitted
  Understood <- MCUnderstood
  Subscribed <- MCSubscribed
  Legacy = {placed}
  History <- NoHistory
  Workers = {w1, w2}
  MaxAttempts = 2
  MaxCommands = 1
  MaxDeploys = 2
CHECK_DEADLOCK FALSE
INVARIANTS
  FanOutIsAtomic
  NothingIsLost
  OneOccurrencePerRedrive
  UpgradeKeepsSubscribers
PROPERTIES
  EventsArrive

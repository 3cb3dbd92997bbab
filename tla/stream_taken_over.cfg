SPECIFICATION Spec
CONSTANTS
  Users = {u1}
  Streams = {s1, s2}
  Publishers = {p1}
  Channels = {c1}
  Nil = Nil
  BufferSize = 1
  MaxSubscribers = 2
  Restricted = TRUE
  MaxEvents = 3
  MaxChanges = 2
PROPERTY ReplacedByNewerOnly
CHECK_DEADLOCK FALSE

SPECIFICATION FairSpec
CONSTANTS
  Source = {s1, s2}
  NoSource = NoSource
  Capacity = 1
  MaxFd = 5
  Builds = {"select"}
  Creators <- AddSetCreators
PROPERTIES
  EventuallyHandled
CHECK_DEADLOCK FALSE

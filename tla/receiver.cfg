SPECIFICATION FairSpec
CONSTANTS
  Source = {s1, s2}
  NoSource = NoSource
  Capacity = 2
  MaxFd = 5
  Builds = {"select", "epoll"}
  Creators <- InformingCreators
INVARIANTS
  ReceiverInv
  EventsMatchMessages
  ReceiverNeverStuck
  WatchedHaveRings
  NoLostWakeup
PROPERTIES
  EventuallyHandled
  SendReturns

SPECIFICATION FairSpec
CONSTANTS
  RingSize = 4
  CounterMod = 8
  m1 = m1
  m2 = m2
  Msg <- MCMsg
  NoMsg = NoMsg
INVARIANTS
  TypeOK EventsMatchMessages RecvNeverSpins HandedInOrder NoNodeRace StatsWithinCapacity RingInv
PROPERTIES
  ImplementsFairChannel
  SendReturns
  EventuallyHandled

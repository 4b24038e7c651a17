CONSTANTS
  Producers = {p1, p2}
  Consumer = c
  Handles = {h1, h2}
  Unborn = unborn
  Dropped = dropped
  Free = free
  Capacity = 2
  MaxSends = 2
  MaxEmpty = 1
  MaxSpurious = 1
SPECIFICATION Spec
INVARIANTS
  TypeOK
  SendersAreWoken
  ReceiverIsWoken
  Delivery
PROPERTIES
  EveryCallReturns
  ImplementsChannelSpec

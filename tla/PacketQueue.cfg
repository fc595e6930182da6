SPECIFICATION FairQueueSpec
CONSTANTS
  p1 = p1
  p2 = p2
  c1 = c1
  a = a
  b = b
  Producers <- MCProducers
  Consumers <- MCConsumers
  Packets <- MCPackets
  Capacity = 2
INVARIANTS
  NoStrandedPusher
  NoStrandedPopper
PROPERTIES
  EofMeansDrained
  ImplementsFifo
  AbortUnblocks

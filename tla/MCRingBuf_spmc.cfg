\* One producer and two consumers: the compare-and-swaps of the pop compete,
\* and the only producer is never told that the ring is full when it is not.
CONSTANTS
  p1 = p1  p2 = p2  p3 = p3  c1 = c1  c2 = c2
  Producers = {p1}
  Consumers = {c1, c2}
  N = 3
  MaxPushes = 5
  MaxLap = 2
SPECIFICATION Spec
INVARIANTS DeliveredInOrder
PROPERTIES FullIsHonest

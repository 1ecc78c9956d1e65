SPECIFICATION FairSpec

CONSTANTS
  orders = orders
  payments = payments
  orders1 = orders1
  orders2 = orders2
  payments1 = payments1
  place = place
  pay = pay
  Unknown = Unknown
  Services = {orders, payments}
  Topics = {place, pay}
  Instances = {orders1, orders2, payments1}
  EventCount = 4
  ServiceOf <- MCServiceOf
  Requests <- MCRequests
  Provides <- MCProvides
  InstanceOf <- MCInstanceOf
  TopicOf <- MCTopicOf
  Parent <- MCParent
  BatchSize = 2
  BufferSize = 2
  Capacity = 2
  MaxIssues = 1
  MaxFaults = 1

INVARIANTS
  SentOnceInOrder
  WindowIndexed
  GraphDeclared

PROPERTIES
  CatchesUp

CHECK_DEADLOCK FALSE

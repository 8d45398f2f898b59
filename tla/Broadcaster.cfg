\* The broadcaster with two browsers and a channel of one event.
SPECIFICATION FairSpec
CONSTANTS
  Connections = {tab1, tab2}
  Capacity = 1
  EventTypes = {"ready", "reload"}
  MaxEvents = 3
INVARIANTS
  NoMissedEvent
  DeliveredInOrder
PROPERTIES
  ConnectionsEnd

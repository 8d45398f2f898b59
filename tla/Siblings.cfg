\* Three children of up to two nodes, between two other nodes. After an error
\* nothing is modelled, which is where the model may stop.
SPECIFICATION Spec
CHECK_DEADLOCK FALSE
CONSTANTS
  Nodes <- MCNodes
  Nil = Nil
  Keys <- MCKeys
  NoKey = ""
  Kinds = {"li", "text", "fragment", "Card"}
  Simple = {"li", "text"}
  Components = {"Card"}
  Lists <- MCLists
  Lead <- MCLead
  Trail <- MCTrail
  MaxBlock = 2
INVARIANTS
  NeverThrows
  ChildrenInOrder
  SiblingsStay
  KeyedStay
PROPERTY
  ImplementsChildList

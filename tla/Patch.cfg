\* Children with and without keys, and components below elements.
SPECIFICATION Spec
CONSTANTS
  Tags <- MCTags
  States <- MCStates
  Props <- MCProps
  Renders <- MCRenders
  Roots <- MCRoots
INVARIANTS
  TypeOK
  DomMatches
  CachedNodesCurrent
  NothingLeaks
PROPERTIES
  KeyedChildrenStay

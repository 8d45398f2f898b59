\* A component that renders another node by itself and is then removed.
SPECIFICATION Spec
CONSTANTS
  Tags <- MCTags
  States <- MCStates
  Props <- MCProps
  Renders <- MCRenders
  Roots <- FragmentRoots
INVARIANTS
  DomMatches

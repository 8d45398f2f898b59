\* The dev server with a component, a stylesheet that it links by a relative
\* URL, and one tab. Both are edited in their styles only, and b is scoped.
SPECIFICATION FairSpec
CONSTANTS
  Files = {component, linked}
  StyleFiles = {component, linked}
  Hashed = {linked}
  Texts = {a, b}
  Scoped = {b}
  Broken = {}
  Absent = Absent
  MaxEdits = 2
  MaxFailures = 1
  Tabs = {tab}
  Capacity = 1
  MaxEvents = 5
INVARIANTS
  BuildCoversSnapshot
  BrokenBuildShown
  StylesArrive

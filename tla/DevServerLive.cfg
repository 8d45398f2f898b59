\* Liveness of the watcher, with diagnostics, and a tab that may stop reading its
\* events.
SPECIFICATION FairSpec
CONSTANTS
  Files = {component, stylesheet}
  StyleFiles = {stylesheet}
  Hashed = {}
  Texts = {good, bad}
  Scoped = {}
  Broken = {bad}
  Absent = Absent
  MaxEdits = 2
  MaxFailures = 0
  Tabs = {tab}
  Capacity = 1
  MaxEvents = 4
PROPERTIES
  ChangesAreBuilt

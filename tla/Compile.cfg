CONSTANTS
  Symbols <- MCSymbols
  Components <- MCComponents
  ListTypes <- MCListTypes
  Structs <- MCStructs
  Projects <- MCProjects
  Environments <- MCEnvironments
SPECIFICATION Spec
INVARIANTS
  CheckedTemplatesBuild
  RendersAsWritten
\* A command ends.
CHECK_DEADLOCK FALSE

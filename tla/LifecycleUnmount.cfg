SPECIFICATION Spec
CONSTANTS
  s1 = s1
  None = None
  States = {s1}
  MaxVersion = 2
  MaxBatch = 1
  MaxDisturbed = 1
  Count = 10
  Types <- MCTypes
  TypeOf <- MCTypeOf
  Root = 1
  Input <- MCInput
  Shows <- MCShows
  WithEffect = {"Panel"}
  Missing = {"Ghost"}
INVARIANTS
  UnmountCleansUp

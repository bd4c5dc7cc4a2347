SPECIFICATION Spec
CONSTANTS
  c1 = c1  c2 = c2  c3 = c3  r1 = r1  r2 = r2  r3 = r3
  Channels = {c1, c2, c3}
  Known = {c1, c2}
  Reports = {r1, r2, r3}
  Home <- HomeOf
  MaxKey = 3
  Candidates = 2
  TopK = 3
  RrfK = 60
  DenseWeight = 1
  SparseWeight = 1
  Options <- MCOptions
  PrfTopN = 1
  MaxWrites = 1
  AnyReport = AnyReport
INVARIANTS TypeOK TenantScoped ResultsSurvive OneVersionPerReport ContextIsAdjacent BetterOnBothComesFirst

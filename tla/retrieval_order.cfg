SPECIFICATION Spec
CONSTANTS
  c1 = c1  c2 = c2  c3 = c3  r1 = r1  r2 = r2  r3 = r3
  Channels = {c1}
  Known = {c1}
  Reports = {r1, r2}
  Home <- HomeOf
  MaxKey = 2
  Candidates = 2
  TopK = 3
  RrfK = 60
  DenseWeight = 1
  SparseWeight = 1
  Options <- MCOptions
  PrfTopN = 1
  MaxWrites = 0
  AnyReport = AnyReport
INVARIANTS AnswerIsRanked

SPECIFICATION CommandSpec
CONSTANTS
  c1 = c1  c2 = c2  f1 = f1  f2 = f2  d1 = d1  d2 = d2  d3 = d3
  r1 = r1  r2 = r2  r3 = r3  j1 = j1  j2 = j2  j3 = j3
  Attempts = {j1, j2, j3}
  Choices <- MCChoices
  Batches <- MCBatches
  Channels = {c1, c2}
  Files = {f1, f2}
  ReportIds = {r1, r2, r3}
  Docs = {d1, d2, d3}
  Textless = {}
  NoRow = NoRow  NoDoc = NoDoc  NoReport = NoReport  NoFile = NoFile  Torn = Torn
SYMMETRY UploadsSymmetry
INVARIANTS TypeOK OwnDocuments ExitZeroIsTrue
PROPERTIES AnsweredDocument

SPECIFICATION Spec
CONSTANTS
  a1 = a1  a2 = a2  t1 = t1  t2 = t2  n1 = n1  n2 = n2
  g1 = g1  g2 = g2  g3 = g3
  Admins = {a1, a2}
  Tenants = {t1, t2}
  Names = {n1, n2}
  RagIds = {g1, g2, g3}
  MaxRequests = 4
  NoRow = NoRow  NoRag = NoRag  NoTenant = NoTenant  NoName = NoName
SYMMETRY TenancySymmetry
INVARIANTS TypeOK LinksStayInTenant
PROPERTIES LinkIsKept

SPECIFICATION Spec_Starts
CONSTANTS
  t1 = t1  t2 = t2  t3 = t3  l42 = l42  j1 = j1  j2 = j2  f1 = f1  f2 = f2
  s1 = s1  s2 = s2  c1 = c1  c2 = c2  A = A  g1 = g1  None = None  L35 = L35  scope1 = scope1
  Catalog = {t1, t2, t3, L35, l42}  Dynamic = {j1, j2}  CatalogDeps <- MCDeps  Kind <- MCKind
  Finals = {l42}  Files = {f1, f2}  Sessions = {s1, s2}  Commits = {c1, c2}  Descends <- TipOverBase
  Scopes = {scope1}  Chiefs = {A}  Gates = {g1}  Rewirable = {t3}
SYMMETRY Sym
INVARIANTS BuiltOnAccepted NoForgottenDependent ClaimsSound ReviewsTheCandidate
PROPERTIES FinalGate
VIEW StartView

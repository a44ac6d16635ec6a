\* one item through the whole flow; who may build an item; a chain of unions
SPECIFICATION Spec_Starts
CONSTANTS
  c1 = c1  c2 = c2  i1 = i1  i2 = i2  g1 = g1  g2 = g2
  Items = {i1, i2}
  Commits = {c1, c2}
  CommitsOf <- TwoItemCommits
  Unions = {u1, u2}
  Proofs = {p1, p2}
  Promos = {m1, m2}
  Reviewers = {r1, r2}
  UnionMarks = {}
  Groups = {g1, g2}
  WipCap = 1
  RoundCap = 2
  None = None
INVARIANTS ProvenBeforeReview ApprovedWasReviewed IntentJustified
PROPERTIES UniqueWriter
VIEW StoreView
SYMMETRY Sym
\* every item may end PROMOTED with all rows used: the store then waits
CHECK_DEADLOCK FALSE

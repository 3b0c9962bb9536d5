CONSTANTS
  Requests = {q1, q2}
  MaxVersion = 3
  MaxLinks = 1
  Tools = {t}
  Bases = {k}
  Definitions = {{t, k}, {t, "incomplete"}, {t, "placeholder"}}
  None = None
SPECIFICATION Spec
SYMMETRY Symmetry
CONSTRAINTS OneSkew OneFlaw World
INVARIANTS TypeOK HeaderMatches NeverEmpty LinksResolve PreflightSuffices
PROPERTY KeepsLifecycle

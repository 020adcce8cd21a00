CONSTANTS
  Procs = {c1}
  Names = {p, q}
SPECIFICATION Spec
INVARIANTS NothingStranded NamedIsReachable
PROPERTY ReadOnlyComesOffByConsent

CONSTANTS
  Procs = {c1, c2}
  Names = {p}
SPECIFICATION Spec
PROPERTY ReadOnlyComesOffByConsent

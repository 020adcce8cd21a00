CONSTANTS
  Procs = {c1}
  Names = {p}
SPECIFICATION Spec
INVARIANT NoProjectWithoutCredentials

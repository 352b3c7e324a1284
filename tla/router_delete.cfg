\* A route added by each of PUT and DELETE.
CONSTANTS
  Names = {a, b}
  Colons = {colon}
  Stars = {star}
  Verbs = {"PUT", "DELETE"}
  NoPattern = NoPattern
  MaxParts = 1
  MaxRoutes = 2
SPECIFICATION Spec
INVARIANTS VerbIsServed
CHECK_DEADLOCK FALSE

\* Every sequence of up to three routes of one method, with up to two parts, or of
\* one route and up to three groups with up to two middlewares.  The set-up ends.
CONSTANTS
  a = a  ab = ab  colon = colon  star = star
  Names = {a, ab}
  Colons = {colon}
  Stars = {star}
  Verbs = {"GET"}
  NoPattern = NoPattern
  MaxParts = 2
  MaxRoutes = 3
  GroupPrefixes <- MCPrefixes
  Begins <- MCBegins
  MaxGroups = 3
  MaxUses = 2
SPECIFICATION MCSpec
INVARIANTS RoutesExact ServesSafely 
CHECK_DEADLOCK FALSE

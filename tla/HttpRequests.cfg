CONSTANTS
  v1 = v1  v2 = v2  edge = edge  proxy = proxy
  r1 = r1  r2 = r2
  Requests = {r1, r2}
  Routes = {"upload", "login", "demo:restart", "products", "unknown", "health", "version", "web:entrance", "web:index", "web:lost"}
  Users = {ana}
  Visitors = {v1, v2}
  Forged <- Headers
  Edges = {edge}
  Deployments <- Placements
  MaxHits = 1
  NoUser = NoUser
  Unset = Unset  Malformed = Malformed  Refused = Refused
SPECIFICATION MCSpec
INVARIANTS HttpInv LimitsHold AnswersTell
PROPERTIES RequestsAnswered

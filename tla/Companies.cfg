CONSTANTS
  ana = ana
  bia = bia
  Invalid = Invalid
  c1 = c1
  c2 = c2
  l1 = l1
  Users = {ana, bia}
  Writings <- MCWritings
  Creations = {c1, c2}
  Listings = {l1}
  Collaborators <- MCCollaborators
  Viewers <- MCViewers
  InitialRows <- MCRows
  Limit = 1
  Numbers = {1, 2, 3}
  MaxTime = 2
  None = None
SPECIFICATION Spec
INVARIANTS CompaniesInv ListedOnce
SYMMETRY AnyCreation

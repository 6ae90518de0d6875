SPECIFICATION Spec
CONSTANTS
  Accounts = {ana}
  Services = {forms}
  Forms = forms
  RoleNames = {admin}
  SeededRoles = {admin}
  ScriptRole = admin
  Editors = {e1, e2}
  Users = {luis, eva}
  Cis = {ci}
  Jdes = {jde}
  Null = Null
  Requests = {q1, q2}
  MaxRows = 2
  Supers = {mina, planta}
  Codes = {area1}
  People = {worker1}
  Names = {norte, sur}
  None = None
  Clerks = {c1, c2}
SYMMETRY Symmetry
INVARIANTS
  DirectoryTypeOK
  HeldRolesAreOffered
  MapFollowsCatalog
  SameJdeOnlyIfRepeated
  AccessFollowsLink
  AreaNamesItsSuper
  PersonAgreesWithArea
PROPERTY
  WritesOnlyOnWhatItRead

SPECIFICATION Spec
CONSTANTS
  Accounts = {a1, a2}
  Roles = {"owner", "admin", "sales"}
  Requests = {r1, r2}
  MaxChanges = 2
  Nobody = Nobody
SYMMETRY Symmetry
INVARIANTS
  TypeOK
  OwnerRemains
  OldSessionsRefused
PROPERTY SeniorsChangedByOwners

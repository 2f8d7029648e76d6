SPECIFICATION Spec
CONSTANTS
  NoOne = NoOne
  Posts = {p1}
  Users = {u1}
  Lowly = {u1}
  Requests = {r1, r2, r3}
  Nodes = 2
  Limit = 2
  Connections = 2
  MaxIds = 2
INVARIANTS
  TypeOK
  AcceptedIsStored
PROPERTIES
  Answered

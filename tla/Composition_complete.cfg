SPECIFICATION CompositionsSpec
CONSTANTS
  session = session
  owner = owner
  result = result
  Sessions = {session}
  Users = {owner}
  Owner <- MCOwner
  Outputs = {result}
  Bodies <- MCBodies
  Blank = Blank
  None = None
INVARIANTS
  CompleteWhenCompleted

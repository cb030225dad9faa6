SPECIFICATION Spec
CONSTANTS
  Calls = {menus, submission}
  Submits = {submission}
  Services = {pizza, sushi}
  Versions = {v1}
  None = None
INVARIANTS
  NobodyIsStuck
  SendsAreSafe
  OneResultPerAdapter
PROPERTIES
  GoroutinesEnd
  ImplementsFanOut

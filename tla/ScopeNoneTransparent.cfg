CONSTANTS
  root = root
  phase1 = phase1
  op1 = op1
  op2 = op2
  inner = inner
  None = None
  Scopes = {root, phase1, op1, op2, inner}
  Root = root
  Parent <- TheParent
  Above <- TheAbove
  Name <- TheName
  Matters <- SharedMatters
  MaxWrites = 1
SPECIFICATION Spec
INVARIANTS
  NoneIsTransparent
CHECK_DEADLOCK FALSE

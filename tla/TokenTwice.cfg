SPECIFICATION Spec
CONSTANTS
  Sessions = {s1, s2}
  MaxPares = 3
  None = None
SYMMETRY Simetria
INVARIANTS TrocaUnica

SPECIFICATION FairSpec
CONSTANTS
  Sessions = {s1, s2}
  MaxPares = 3
  None = None
INVARIANT ConectadaRenovavel
PROPERTIES PerdidoSai

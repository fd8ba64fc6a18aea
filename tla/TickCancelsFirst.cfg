SPECIFICATION DelinquencySpec
CONSTANTS
  Contratos = {k1}
  Assinantes = {k1}
  MaxCobrancas = 2
  Charges = {c1, c2}
  Sessions = {s1, s2}
  None = None
  Ciclo = 1
  MaxDia = 2
INVARIANTS
  CodigoVivo
SYMMETRY Simetria

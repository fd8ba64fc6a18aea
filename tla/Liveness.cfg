SPECIFICATION FairLockingSpec
CONSTANTS
  Contratos = {k1}
  Assinantes = {}
  MaxCobrancas = 1
  Charges = {c1, c2}
  Sessions = {s1, s2}
  None = None
  Ciclo = 1
  MaxDia = 2
PROPERTIES
  PagaERecebida

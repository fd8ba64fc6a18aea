SPECIFICATION LockedSpec
CONSTANTS
  Contratos = {k1}
  Assinantes = {k1}
  MaxCobrancas = 2
  Charges = {c1, c2, c3}
  Sessions = {s1, s2}
  None = None
  Ciclo = 1
  MaxDia = 2
INVARIANTS
  UmaReceitaPorCobranca
  RecebidaTemReceita
  CodigoVivo
  PagamentoUnico
PROPERTIES
  RecebidaImutavel
  LedgerSpec
SYMMETRY Simetria

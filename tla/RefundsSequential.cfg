SPECIFICATION TodosSpec
CONSTANTS
  Valor = 5
  OrdersApi = TRUE
  Abertas = {opened}
  Perdidas = {lost}
  Sessions = {s1}
  None = None
INVARIANTS LivroExato CanceladaEsgotada ChargebackUnico

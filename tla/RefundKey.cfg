SPECIFICATION TodosSpec
CONSTANTS
  Valor = 3
  OrdersApi = TRUE
  Abertas = {opened}
  Perdidas = {lost}
  Sessions = {s1}
  None = None
INVARIANTS EstornoLastreado

SPECIFICATION WorldSpec
CONSTANTS
  Valor = 3
  OrdersApi = TRUE
  Abertas = {opened}
  Perdidas = {lost}
  Sessions = {s1, s2}
  None = None
INVARIANT DespesaCobreEstorno
PROPERTIES EstornoRefletido DisputaRefletida

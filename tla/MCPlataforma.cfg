SPECIFICATION PlataformaSpec
CONSTANTS
  Workers = {w1, w2}
  Limite = 2
  Recuperacao = 1
  Mortes = 1
  SemHora = SemHora
  Chaves = {k1, k2}
  MaxTtl = 2
  MaxValor = 1
  Sempre = Sempre
  Nil = Nil
  Tentantes = {p1, p2, p3}
  MaxFalhas = 3
  Janela = 2
  MaxQuedas = 2
  Contratos = {c1}
  Veiculos = {v1}
  Assinaturas = {a1}
  Pedidos = {q1}
  Tick = tick
  Quedas = 1
  Nada = Nada
  Operacoes = {o1}
  Usuarios = {u1, u2}
  Linhas = {}
  TipoDe <- SemTabelas
  SessoesEscopo = {}
  Raiz = u1
  SemOperacao = SemOperacao
INVARIANTS LimiteExcedido
PROPERTIES AbertoReabre ComoRedis Desbloqueia VencidoTermina ExcluidoSai
CHECK_DEADLOCK FALSE

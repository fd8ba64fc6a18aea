SPECIFICATION RetaguardaSpec
CONSTANTS
  Contratos = {c1, c2}
  Veiculos = {v1}
  Assinaturas = {}
  Pedidos = {p1}
  Tick = tick
  Quedas = 0
  Nada = Nada
  Anexos = {x1, x2}
  SessoesAnexo = {a1, a2}
  Extensoes = {jpg, png}
  Falhas = 1
  SemFoto = SemFoto
  Manutencoes = {m1}
  Lancamentos = {f1, f2, f3}
  SessoesLivro = {l1, l2}
  Valores = {1, 2}
  Nenhum = Nenhum
  Operacoes = {o1, o2}
  Usuarios = {u1, u2}
  Linhas = {"moto", "cliente", "contrato", "multa", "lancamento", "manutencao"}
  TipoDe <- Tabelas
  SessoesEscopo = {e1, e2}
  Raiz = u1
  SemOperacao = SemOperacao
  Rondas = {r1, r2}
  Carteiros = {k1, k2}
  Alugueis = {b1}
  Mensagens = 2
  MaxTentativas = 1
  Duracao = 1
  Trava = 2
  HorasDoDia = 2
  MaxDia = 1
  MaxQueda = 1
  NenhumDia = NenhumDia
  Links = {k1a, k2a, k3a}
  SessoesPortal = {g1, g2}
  VidaLink = 1
  SemLink = SemLink
  Tokens = {t1, t2}
  Locadoras = {n1, n2}
  Botoes <- BotoesDoDono
  MenuPadrao <- BotoesPadrao
  Falas = {"falar", "suporte", "horario", "menu", "menu atendente", "oi"}
  Barras = {"pix", "promessa", "status", "ajuda", "menu", "contato", "info"}
  PedemMenu = {"menu", "menu atendente"}
  PedemContato = {"falar", "suporte", "menu atendente", "contato"}
  Ninguem = Ninguem
  Mortas = {d1, d2, d3}
  Trabalhos = {w1, w2}
  Operadores = {w3}
  MaxDlq = 1
  MaxMortes = 1
  Nenhuma = Nenhuma
  Cartas = {y1, y2}
  Cadastros = {z1, z2}
  SessoesCartao = {h1, h2}
  SemCadastro = SemCadastro
  Requisicoes = {q1, q2}
  Ttl = 2
  MaxEpoca = 1
  SemToken = SemToken
INVARIANTS AlugadaTemContrato SemLixo EspelhoConfere RelacaoNaOperacao
  TickUnico LembreteUnico RevogadoNaoVolta RevogadoNaoVale
  SemRespostaSoSe PedidoAvisado FilaConfere
  CartaoPagavel
PROPERTIES ArquivoAbre
CHECK_DEADLOCK FALSE

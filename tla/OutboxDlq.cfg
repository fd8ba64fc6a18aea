SPECIFICATION Spec
CONSTANTS
  Eventos = {e1}
  Tarefas = {t1}
  Partes = 1
  MaxRetries = 2
  None = None
INVARIANTS EsgotadaNaDlq

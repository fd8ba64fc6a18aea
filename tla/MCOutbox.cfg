SPECIFICATION FairSpec
CONSTANTS
  Eventos = {e1}
  Tarefas = {t1, t2}
  Partes = 2
  MaxRetries = 2
  None = None
INVARIANT ProcessadoEntregue
PROPERTIES NadaAposProcessado TarefaTermina

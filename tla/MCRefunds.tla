------------------------------ MODULE MCRefunds ------------------------------
(***************************************************************************)
(* Small instances of Refunds: an amount of a few cents tells a partial    *)
(* refund, the one cent tolerance and a total refund apart.                *)
(***************************************************************************)
EXTENDS Refunds

(* Two worlds, so that their states add up and do not multiply: refunds of *)
(* any amount without a dispute, and a dispute beside total refunds.       *)
VARIABLE mundo

Mundos ==
  /\ UNCHANGED mundo
  /\ mundo = "estornos" => mp'.disputa = None /\ "disputas" \in recentes'
  /\ mundo = "disputas" => /\ "estornos" \in recentes'
                           /\ mp'.refunded \in {0, Valor}
                           /\ \A s \in Sessions : ses'[s].valor \in {0, Valor}

WorldInit == Init /\ mundo \in {"estornos", "disputas"}

WorldNext == Next /\ Mundos

(* No action the fairness asks for is one the worlds forbid: those only    *)
(* keep refunds and disputes from starting, and the charge from being too  *)
(* old for the pass of the other world.                                    *)
WorldSpec ==
  WorldInit /\ [][WorldNext]_<<vars, mundo>> /\ Fairness /\ Estavel

(* Refunds and disputes together, of a charge both passes still reach:     *)
(* leaving them takes steps away and adds none.                            *)
TodosInit == Init /\ mundo = "todos"

TodosNext == Next /\ UNCHANGED <<recentes, mundo>>

TodosSpec == TodosInit /\ [][TodosNext]_<<vars, mundo>>
=============================================================================

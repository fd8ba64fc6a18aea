----------------------------- MODULE PaymentLedger -----------------------------
(***************************************************************************)
(* What the payment core promises, whatever the number and the order of    *)
(* notifications: a charge is received once, in the same step that books   *)
(* its one receipt, and neither is ever taken back.  The promise covers a  *)
(* charge until its row is let go of, which may not happen to a received   *)
(* one.  (Refunds book a DESPESA of their own and are not part of this     *)
(* ledger.)                                                                *)
(***************************************************************************)
EXTENDS Sequences

CONSTANTS Cobrancas,   \* the charges
          Charges      \* the external ids a receipt may be booked under

VARIABLES pagas,       \* the covered charges received so far
          soltas,      \* the charges let go of
          livro        \* the receipts, in the order they were booked

Init == pagas = {} /\ soltas = {} /\ livro = <<>>

Lancar(i, c) == livro' = Append(livro, [cobranca |-> i, externo |-> c])

Creditar(i, c) ==
  /\ i \notin pagas \cup soltas
  /\ pagas' = pagas \cup {i}
  /\ Lancar(i, c)
  /\ UNCHANGED soltas

Soltar(i) ==
  /\ i \notin pagas
  /\ soltas' = soltas \cup {i}
  /\ UNCHANGED <<pagas, livro>>

CreditarSolta(i, c) ==
  /\ i \in soltas
  /\ Lancar(i, c)
  /\ UNCHANGED <<pagas, soltas>>

Next ==
  \E i \in Cobrancas : \/ Soltar(i)
                       \/ \E c \in Charges : Creditar(i, c) \/ CreditarSolta(i, c)

Spec == Init /\ [][Next]_<<pagas, soltas, livro>>
=============================================================================

------------------------------ MODULE EscrowClaims ------------------------------
(****************************************************************************)
(* What the repository's comments say of the escrow and its code does not do.  *)
(* Each claim is one invariant, refuted by one run.                            *)
(****************************************************************************)
EXTENDS EscrowHistory

(* instruction.rs on `duration`: "escrow can only be canceled after its          *)
(* duration expires".  process_cancel takes no clock account at all.            *)
CanceledOnlyAfterExpiry ==
  \A e \in Escrows : escrow[e].state = "Cancelled" => Expired(e)

(* instruction.rs on `duration`: "Escrow duration in seconds", and               *)
(* process_initialize "Check duration validity": a duration that passed the      *)
(* check ends after the escrow was launched.  `duration as i64` and the addition *)
(* to the timestamp wrap.                                                       *)
DurationEndsLater ==
  \A e \in Escrows : Known(e) => escrow[e].expires > 0

(* state.rs on Cancelled: "Escrow is cancelled, money returned".  Unless a       *)
(* wallet put more in, the vault of a cancelled escrow is empty.  No check keeps *)
(* the refund account apart from the vault, and new_job of the API passes the    *)
(* vault for both: the token program then moves nothing, and Cancelled is final. *)
MoneyReturned ==
  transfers = 0 =>
    \A e \in Escrows : escrow[e].state = "Cancelled" => balance[Vault(e)] = 0
=============================================================================

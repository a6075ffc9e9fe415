------------------------- MODULE TransactionService -------------------------
(***************************************************************************)
(* What a client transaction promises the transaction user, whatever its   *)
(* kind, transport and timers: provisional responses while it is open, at  *)
(* most one final outcome, and silence from then on.  A transaction may    *)
(* also end without any outcome, when its transport refuses a message.     *)
(***************************************************************************)
EXTENDS Naturals, Sequences

VARIABLES
  phase,    \* "open", "told" (the outcome has been reported), "over" (erased)
  tu        \* the notifications the last step gave to the transaction user

Init == phase = "open" /\ tu = <<>>

PassProvisional ==
  /\ phase = "open"
  /\ tu' # <<>> /\ \A i \in DOMAIN tu' : tu'[i] = "provisional"
  /\ UNCHANGED phase

ReportOutcome ==
  /\ phase = "open"
  /\ tu' \in {<<"success">>, <<"failure">>, <<"timeout">>}
  /\ phase' \in {"told", "over"}

Silent == tu' = <<>> /\ phase' \in {phase, "over"}

Next == PassProvisional \/ ReportOutcome \/ Silent

Spec == Init /\ [][Next]_<<phase, tu>>
=============================================================================

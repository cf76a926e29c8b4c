------------------------- MODULE SpendAuthorization -------------------------
(***************************************************************************)
(* What the consumed branch of multisig_v1 promises, with no word on how:  *)
(* the run of the guest ends at most once, with a journal exactly when the *)
(* witness is authorised.                                                  *)
(***************************************************************************)
CONSTANT Authorised(_)  \* which witnesses vouch for a spend

VARIABLES
  w,       \* the witness, any the host may hand to the guest
  outcome  \* "running", "committed" or "aborted"

Init == outcome = "running"

Commit ==
  /\ outcome = "running"
  /\ Authorised(w)
  /\ outcome' = "committed"
  /\ UNCHANGED w

Refuse ==
  /\ outcome = "running"
  /\ ~Authorised(w)
  /\ outcome' = "aborted"
  /\ UNCHANGED w

Next == Commit \/ Refuse

Spec == Init /\ [][Next]_<<w, outcome>>

=============================================================================

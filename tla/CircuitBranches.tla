-------------------------- MODULE CircuitBranches --------------------------
(***************************************************************************)
(* The other branches of the two guests: multisig_v1 on a created vault    *)
(* note, wrap_v1 on the consumed ephemeral of a deposit (inflow) and on    *)
(* the created ephemeral of a withdrawal (outflow).  For each, the error   *)
(* the guest panics with, or Accepted, and the instance it commits.        *)
(***************************************************************************)
EXTENDS SpendWitness

CONSTANT WRAP_FORWARDER  \* the forwarder address pinned in the wrap_v1 guest

Accepted == "none"

-----------------------------------------------------------------------------
(* constrain_multisig_created *)

\* Faults: one of the two bounds of k is forgotten.
CreatedErrorAnyK(x) ==
  IF x.label_preimage.salt = Zero THEN "ZeroSalt"
  ELSE IF x.label_preimage.n \notin 1 .. 32 \/ x.label_preimage.k = 0
    THEN "InvalidKN"
  ELSE IF x.resource.label_ref # label_ref(x.label_preimage)
    THEN "WrongLabelRef"
  ELSE Accepted

CreatedErrorZeroK(x) ==
  IF x.label_preimage.salt = Zero THEN "ZeroSalt"
  ELSE IF \/ x.label_preimage.n \notin 1 .. 32
          \/ x.label_preimage.k > x.label_preimage.n
    THEN "InvalidKN"
  ELSE IF x.resource.label_ref # label_ref(x.label_preimage)
    THEN "WrongLabelRef"
  ELSE Accepted

CreatedError(x) ==
  IF x.label_preimage.salt = Zero THEN "ZeroSalt"
  ELSE IF \/ x.label_preimage.n \notin 1 .. 32
          \/ x.label_preimage.k \notin 1 .. x.label_preimage.n
    THEN "InvalidKN"
  ELSE IF x.resource.label_ref # label_ref(x.label_preimage)
    THEN "WrongLabelRef"
  ELSE Accepted

\* Fault: the instance of the consumed branch, copied with its flag.
CreatedInstanceAsConsumed(x) ==
  LogicInstance(commitment(x.resource), TRUE, x.action_tree_root, x.app_data)

\* The instance of a created resource: both guests tag it by its commitment.
CreatedInstance(x) ==
  LogicInstance(commitment(x.resource), FALSE, x.action_tree_root, x.app_data)

-----------------------------------------------------------------------------
(* constrain_wrap_inflow.  A blob is what parse_external_call and then     *)
(* parse_wrap_call_input make of its bytes.                                *)

\* Checks 1 to 3: an ephemeral that carries the label of a vault.
InflowLabelError(x) ==
  LET label == x.paired_vault_label_preimage IN
  IF ~x.resource.is_ephemeral THEN "InflowMustBeEphemeral"
  ELSE IF x.nf_key # derive_nullifier_key_bytes(label)
    THEN "WrongNullifierKey"
  ELSE IF nk_commit(x.nf_key) # x.resource.nk_commitment
    THEN "WrongNullifierKeyCommitment"
  ELSE IF x.resource.label_ref # label_ref(label) THEN "WrongLabelRef"
  ELSE Accepted

\* Fault: a deposit of nothing is refused.
InflowCallErrorNoZero(x, blob) ==
  IF \/ ~OuterParses(blob)
     \/ blob.forwarder # WRAP_FORWARDER
     \/ ~InnerParses(blob)
    THEN "BadExternalPayload"
  ELSE IF blob.op # "WRAP" THEN "WrapInflowWrongOp"
  ELSE IF blob.token # x.paired_vault_label_preimage.token_addr
    THEN "WrapInflowTokenMismatch"
  ELSE IF blob.amount = 0 \/ blob.amount # x.paired_vault_quantity
    THEN "WrapInflowAmountMismatch"
  ELSE IF blob.from # x.depositor THEN "WrapInflowDepositorMismatch"
  ELSE Accepted

\* Fault: the token of the call is not compared.
InflowCallErrorAnyToken(x, blob) ==
  IF \/ ~OuterParses(blob)
     \/ blob.forwarder # WRAP_FORWARDER
     \/ ~InnerParses(blob)
    THEN "BadExternalPayload"
  ELSE IF blob.op # "WRAP" THEN "WrapInflowWrongOp"
  ELSE IF blob.amount # x.paired_vault_quantity
    THEN "WrapInflowAmountMismatch"
  ELSE IF blob.from # x.depositor THEN "WrapInflowDepositorMismatch"
  ELSE Accepted

\* Check 4: its one payload is a deposit of what the witness says.
InflowCallError(x, blob) ==
  IF \/ ~OuterParses(blob)
     \/ blob.forwarder # WRAP_FORWARDER
     \/ ~InnerParses(blob)
    THEN "BadExternalPayload"
  ELSE IF blob.op # "WRAP" THEN "WrapInflowWrongOp"
  ELSE IF blob.token # x.paired_vault_label_preimage.token_addr
    THEN "WrapInflowTokenMismatch"
  ELSE IF blob.amount # x.paired_vault_quantity
    THEN "WrapInflowAmountMismatch"
  ELSE IF blob.from # x.depositor THEN "WrapInflowDepositorMismatch"
  ELSE Accepted

InflowError(x) ==
  LET blobs == x.app_data.external_payload IN
  IF InflowLabelError(x) # Accepted THEN InflowLabelError(x)
  ELSE IF Len(blobs) # 1 THEN "WrongInflowPayloadCount"
  ELSE IF InflowCallError(x, blobs[1]) # Accepted
    THEN InflowCallError(x, blobs[1])
  ELSE IF TagFails(x.resource, x.nf_key) THEN "ResourceError"
  ELSE Accepted

InflowInstance(x) ==
  LogicInstance(nullifier(x.resource, x.nf_key), TRUE, x.action_tree_root,
                x.app_data)

-----------------------------------------------------------------------------
(* constrain_wrap_outflow: nothing is asked of its payloads. *)

OutflowError(x) ==
  IF ~x.resource.is_ephemeral THEN "OutflowMustBeEphemeral"
  ELSE IF x.resource.label_ref # label_ref(x.label_preimage)
    THEN "OutflowLabelMismatch"
  ELSE Accepted

=============================================================================

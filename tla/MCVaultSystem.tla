--------------------------- MODULE MCVaultSystem ---------------------------
(* A 2-of-3 vault and the 1-of-1 vault of one of its signers. *)
EXTENDS VaultSystem

MCPubkeys == "A" :> <<1, 2, 3>> @@ "B" :> <<3>>

MCLabel ==
  "A" :> LabelPreimage(Token, 2, MCPubkeys["A"], "saltA")
    @@ "B" :> LabelPreimage(Token, 1, MCPubkeys["B"], "saltB")

MCCurvePoints == {1, 2, 3}
MCSplits == {<<1, 0>>, <<0, 1>>, <<1, 1>>}
MCDepositQuantities == {2}
\* Less than the note and more than it; one of each is together enough.
MCDepositAmounts == {1, 3}

=============================================================================

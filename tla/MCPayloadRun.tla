---------------------------- MODULE MCPayloadRun ----------------------------
(***************************************************************************)
(* The encodings of a transfer and of a deposit, cut short, lengthened,    *)
(* with any one cell replaced, and with any two of the cells that hold     *)
(* offsets, lengths, addresses of the outer encoding or the amount.        *)
(***************************************************************************)
EXTENDS PayloadRun

MCCall(token, party, amount) ==
  [token |-> token, party |-> party, amount |-> amount]

MCCalls == {MCCall(7, 9, 0), MCCall(7, 9, 3), MCCall(7, 9, 127)}

MCEncodings ==
  {encode_external_transfer(20, c.token, c.party, c.amount) : c \in MCCalls}
    \cup {encode_wrap_call(21, c.token, c.party, c.amount) : c \in MCCalls}
    \cup {encode_external_transfer(22, 7, 9, 3),
          encode_external_transfer(21, 7, 9, 3),
          encode_wrap_call(20, 7, 9, 3)}

\* Boundaries: small numbers, offsets in and behind the string, the last
\* values of a usize, values that truncate to an offset, the largest cell.
MCValues ==
  {0, 1, 2, 3, 6, 7, 8, 10, 12, 18, 20, 21, 22, 24, 26, 61, 62, 63, 64, 70, 127}

MCPairValues == {0, 1, 2, 6, 20, 62, 70}

\* Cells of the outer header, the length of input, and its amount and offset.
MCPairCells == {2, 3, 4, 5, 6, 7, 8, 13, 14, 15, 16, 17, 18}

MCBlobs ==
  MCEncodings
    \cup UNION {{SubSeq(b, 1, n) : n \in 0 .. Len(b)} : b \in MCEncodings}
    \cup {b \o <<0, 1>> : b \in MCEncodings}
    \cup UNION {{[b EXCEPT ![j] = v] : j \in DOMAIN b, v \in MCValues} :
                  b \in MCEncodings}
    \cup UNION {{[b EXCEPT ![j] = v, ![l] = x] :
                   j \in MCPairCells, l \in MCPairCells,
                   v \in MCPairValues, x \in MCPairValues} :
                  b \in {encode_external_transfer(20, 7, 9, 3),
                         encode_wrap_call(21, 7, 9, 3)}}

=============================================================================

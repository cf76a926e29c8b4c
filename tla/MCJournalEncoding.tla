------------------------- MODULE MCJournalEncoding -------------------------
(* Bytes of two values, so that a uint32 ends at 15 and 16 is too long. *)
EXTENDS JournalEncoding

MCBlob(criterion, bytes) == [deletion_criterion |-> criterion, blob |-> bytes]

MCZeros(n) == [d \in 1 .. n |-> 0]

MCEmpty == MCBlob("Immediately", <<>>)

MCPayloads ==
  {<<>>,
   <<MCEmpty>>,
   <<MCBlob("Never", <<0>>)>>,
   <<MCBlob("Never", <<0, 1, 0, 0, 0>>)>>,
   <<MCEmpty, MCEmpty>>,
   <<MCBlob("Immediately", <<1, 1>>), MCEmpty, MCBlob("Never", <<1>>)>>}

\* Lengths at the limit of a uint32 and above.
MCLongPayloads ==
  {<<MCBlob("Never", MCZeros(15))>>,
   <<MCBlob("Never", MCZeros(16))>>,
   <<MCEmpty, MCBlob("Immediately", MCZeros(17))>>,
   [n \in 1 .. 15 |-> MCEmpty],
   [n \in 1 .. 16 |-> MCEmpty]}

MCInstance(tag, consumed, r, d, e, a) ==
  [tag |-> tag, is_consumed |-> consumed, action_tree_root |-> 1,
   app_data |-> [resource_payload |-> r, discovery_payload |-> d,
                 external_payload |-> e, application_payload |-> a]]

MCInstances ==
  {MCInstance(1, c, r, d, e, a) :
     c \in BOOLEAN, r \in MCPayloads, d \in MCPayloads, e \in MCPayloads,
     a \in MCPayloads}
  \cup {MCInstance(0, TRUE, r, d, e, <<>>) :
          r \in MCLongPayloads, d \in MCPayloads, e \in MCLongPayloads}
  \cup {MCInstance(0, FALSE, <<>>, d, <<>>, a) :
          d \in MCLongPayloads, a \in MCLongPayloads}

=============================================================================

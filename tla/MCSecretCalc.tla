---------------------------- MODULE MCSecretCalc ----------------------------
EXTENDS SecretCalc

CONSTANTS c1, c2, T1, T2, N1, S1, S2, R1, R2

\* The first bytes of protocolConstant, "Cy".
MCPC0 == <<67, 121>>

MCPC0Short == <<67>>

\* Sender key lists: one key, or two (as in the oracle's two envelopes).
MCKeyLists ==
  {<<[my |-> S1, peer |-> R1]>>,
   <<[my |-> S1, peer |-> R1], [my |-> S2, peer |-> R2]>>}

MCMessages ==
  [type : {T1, T2}, nonce : {N1}, keys : MCKeyLists, size : {"ok", "short"}]

MCMessagesRace ==
  [type : {T1}, nonce : {N1}, keys : MCKeyLists, size : {"ok"}]

MCCalcs1 == {c1}

MCCalcs2 == {c1, c2}
====

-------------------------- MODULE MCChatConnection --------------------------
(* Instances of ChatConnection for TLC. *)
EXTENDS ChatConnection, TLC

CONSTANTS a1, a2, g1, g2, u1, u2, s1, s2, s3, k1, k2, k3, s4

Symmetry == Permutations(Sockets) \cup Permutations(Keys)
                                 \cup Permutations(Groups)

\* u1 belongs to account a1 alone, u2 is used in both; some party of a1 forgets
\* to announce a sender id.
MixedIdentities == {<<a1, u1>>, <<a1, u2>>, <<a2, u2>>, <<a1, None>>}
ExclusiveIdentities == {<<a1, u1>>, <<a2, u2>>}
LocalIdentities == {<<a1, u1>>, <<a1, u2>>}
=============================================================================

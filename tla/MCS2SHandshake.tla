--------------------------- MODULE MCS2SHandshake ---------------------------
(* Two children -- one whose key the parent has, one that signs with another *)
(* key -- and a configured key file that cannot be read, behind theirs.      *)
EXTENDS S2SHandshake

CONSTANTS good, stranger, retired, k1, k2

MCServerIds == {good, stranger, retired}
MCTrustedKeys == <<good, stranger, retired>>
=============================================================================

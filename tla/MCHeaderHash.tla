--------------------------- MODULE MCHeaderHash ---------------------------
(* Texts of at most two bytes over {'a', 'b'}, a 16-bit hash: TLC's        *)
(* integers do not hold the 32 bits of the code, and the argument is the   *)
(* same for every power of two.                                            *)
EXTENDS HeaderHash
Bytes == {97, 98}
MCTexts == {<<>>} \cup {<<a>> : a \in Bytes} \cup {<<a, b>> : a, b \in Bytes}
MCHashSize == 65536
=============================================================================

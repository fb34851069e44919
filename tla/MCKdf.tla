------------------------------- MODULE MCKdf -------------------------------
(* An instance of KdfLoop for TLC: digests of two octets, so that a key of  *)
(* up to 40 bits takes up to three blocks.                                  *)
EXTENDS KdfLoop

\* A checksum of two octets.
Checksum(x) == << MapThenSumSet(LAMBDA i : i * x[i], DOMAIN x) % 251,
                  (7 + 31 * Len(x)) % 256 >>

\* Every length up to 40 bits; labels with and without a terminating zero.
AllDerivations ==
  [kdf : {"KDFa", "KDFe"}, key : {<<9, 200>>}, label : {<<>>, <<83>>, <<83, 0>>},
   partyU : {<<>>, <<1, 2>>}, partyV : {<<3>>}, bits : 0..40]
=============================================================================

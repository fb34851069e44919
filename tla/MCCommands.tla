----------------------------- MODULE MCCommands -----------------------------
(* An instance of Commands for TLC: digests of four octets, a group whose   *)
(* points have coordinates of one and of two octets.                        *)
EXTENDS Commands

\* A checksum that depends on every octet and its place.
Checksum(x) ==
  LET sum[i \in 0..Len(x)] ==
        IF i = 0 THEN Len(x) ELSE (sum[i - 1] * 4099 + x[i] + 7) % 65521
  IN PutU16(sum[Len(x)]) \o PutU16(sum[Len(x)] * 17 + sum[Len(x) \div 2])

DeviceNumbers == [ak |-> 77, srk |-> 300, ek |-> 19]
ThreeSecrets  == {<<>>, <<0, 1, 2>>, <<222, 5, 6, 7, 0>>}
FewEphemerals == {5, 400, 27}
Values        == << <<1, 2, 3, 4>>, <<0, 0, 0, 0>>, <<255, 0, 0, 9>> >>
=============================================================================

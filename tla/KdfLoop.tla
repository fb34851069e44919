------------------------------ MODULE KdfLoop ------------------------------
(***************************************************************************)
(* The loops of KDFa and KDFe: blocks of hash are appended until there are  *)
(* enough octets, then the last ones are cut off and the excess bits of the *)
(* last octet are cleared.                                                 *)
(***************************************************************************)
EXTENDS Kdf

CONSTANTS
  Derivations,              \* the calls
  None                      \* no result yet

ASSUME DerivationsAssumption ==
  Derivations \subseteq Derivation /\ None \notin Octets

VARIABLES
  args,                     \* the arguments of the call
  ctr,                      \* the counter of the next block
  out,                      \* the octets so far
  key                       \* what the call returned

vars == <<args, ctr, out, key>>

outLen(bits) == (bits + 7) \div 8

TypeOK ==
  /\ args \in Derivations
  /\ ctr \in Nat \ {0}
  /\ out \in Octets /\ Len(out) = DigestSize * (ctr - 1)
  /\ key \in Octets \cup {None}

Init ==
  /\ args \in Derivations
  /\ ctr = 1
  /\ out = <<>>
  /\ key = None

\* Mutant of Round: the counter stands still.
Round_SameCounter ==
  /\ key = None /\ Len(out) < outLen(args.bits)
  /\ out' = out \o Block(args, ctr)
  /\ UNCHANGED <<args, ctr, key>>

Round ==
  /\ key = None /\ Len(out) < outLen(args.bits)
  /\ out' = out \o Block(args, ctr)
  /\ ctr' = ctr + 1
  /\ UNCHANGED <<args, key>>

\* Mutant of Masked: as many bits are cleared as should be kept.
Masked_Swapped(octet, bits) ==
  IF bits % 8 = 0 THEN octet ELSE octet - (octet % 2^(bits % 8))

\* The low-order bits of the last octet are cleared: & byte(0xFF << (8 - rem)).
Masked(octet, bits) ==
  IF bits % 8 = 0 THEN octet ELSE octet - (octet % 2^(8 - (bits % 8)))

Return ==
  /\ key = None /\ Len(out) >= outLen(args.bits)
  /\ key' = [i \in 1..outLen(args.bits) |->
               IF i = outLen(args.bits) THEN Masked(out[i], args.bits)
                                        ELSE out[i]]
  /\ UNCHANGED <<args, ctr, out>>

Next == Round \/ Return

Spec == Init /\ [][Next]_vars
-----------------------------------------------------------------------------
\* A derived key is the first bits of the stream, all of them, with zeros up to
\* the next octet, whether they fill octets and blocks or not: what the device
\* derives for itself when it opens what was wrapped.
FirstBits == key # None => key = Derived(args)
=============================================================================

----------------------------- MODULE Attesting -----------------------------
(***************************************************************************)
(* Attestation with attest.go and verify.go, as README.md shows it: a      *)
(* remote verifier issues a nonce; the program beside the device reads PCRs *)
(* (PCRRead), has them quoted under the nonce (Quote), in either order, and *)
(* sends what it got; the verifier checks the parts (VerifyQuote), and the *)
(* nonce in the AttestInfo that it is handed.                              *)
(*                                                                         *)
(* Between any two steps PCRs are measured, the program crashes or the     *)
(* platform is reset.  What PCRRead and Quote returned are slices of their *)
(* own: each arrives at any verifier, any number of times or never, so that *)
(* parts may be old, or not belong together; and the verifier is also sent *)
(* what another device made.                                               *)
(*                                                                         *)
(* A signature is the key and what it was made over.  A pcrDigest is the   *)
(* sequence of the values it was computed over.                            *)
(***************************************************************************)
EXTENDS TPM, PCRSelections

CONSTANTS
  Verifiers,                \* the remote verifiers
  Nonces,                   \* what they challenge with
  Selections,               \* the index lists (PCRSelection.PCRs) in use
  OtherStates,              \* PCR states of another device
  MaxUpdates,               \* bound: measurements between two resets
  MaxReadings, MaxQuotes    \* bounds: results of PCRRead and of Quote

ASSUME AttestingAssumption ==
  /\ Selections \subseteq SUBSET Int
  /\ \A s \in Selections : s \cap (0..23) \subseteq PCRs
  /\ OtherStates \subseteq [PCRs -> Seq(Digests)]
  /\ {MaxUpdates, MaxReadings, MaxQuotes} \subseteq Nat

VARIABLES
  akHandle,                 \* the handle CreatePrimary returned
  readings,                 \* what PCRRead returned, and was sent
  quotes,                   \* what Quote returned, and was sent
  issued,                   \* the nonces issued
  challenge,                \* challenge[v]: the nonce v waits for
  verdict,                  \* verdict[v]: what v was told
  seen                      \* history, seen[v]: PCR states since its challenge

sent     == <<readings, quotes>>
verifier == <<issued, challenge, verdict>>
vars == <<device, akHandle, sent, verifier, seen>>

Attest == [extraData : Nonces, pcrSelect : SUBSET PCRs,
           pcrDigest : Seq(Seq(Digests))]
Signature == [key : Keys, over : Attest]

\* What a call returned; asked and truth are history, the selection it was
\* given and the values those PCRs had.
Reading == [digests : Seq(Seq(Digests)), asked : Selections, truth : Values]
Quoted  == [quoted : Attest, sig : Signature,
            asked : Selections, truth : Values]

\* What a verifier was told last: an error, or what the report claims.
Errors  == {"ErrShortBuffer", "ErrSigInvalid", "ErrPCRDigestMismatch",
            "another nonce"}
Verdict == [err : Errors, claim : {None}] \cup [err : {"nil"}, claim : Values]

ASSUME AttestingNoneAssumption ==
  /\ None \notin Nonces \cup Attest
  /\ None \notin Verdict

TypeOK ==
  /\ DeviceTypeOK
  /\ akHandle \in ObjectHandles \cup {None}
  /\ readings \subseteq Reading
  /\ quotes \subseteq Quoted
  /\ issued \subseteq Nonces
  /\ challenge \in [Verifiers -> issued \cup {None}]
  /\ verdict \in [Verifiers -> Verdict \cup {None}]
  /\ seen \in [Verifiers -> SUBSET [PCRs -> Seq(Digests)]]

Init ==
  /\ DeviceInit
  /\ akHandle = None
  /\ readings = {} /\ quotes = {}
  /\ issued = {}
  /\ challenge = [v \in Verifiers |-> None]
  /\ verdict = [v \in Verifiers |-> None]
  /\ seen = [v \in Verifiers |-> {}]
-----------------------------------------------------------------------------
(* The device and the program beside it.                                   *)

\* History: every verifier that waits for an answer has seen the state f too.
Witness(f) == seen' = [v \in Verifiers |->
                        IF challenge[v] = None THEN seen[v] ELSE seen[v] \cup {f}]

PCRExtend ==
  /\ updateCounter < MaxUpdates
  /\ \E p \in PCRs, d \in Digests : TPM2_PCR_Extend(p, d)
  /\ Witness(pcr')
  /\ UNCHANGED <<akHandle, sent, verifier>>

\* An AK is created, or its handle is lost with the response.  The key is the
\* same each time.
CreatePrimary ==
  /\ akHandle = None
  /\ \E h \in ObjectHandles :
       /\ TPM2_CreatePrimary(h, AttestationKey)
       /\ akHandle' \in {h, None}
  /\ UNCHANGED <<sent, verifier, seen>>

\* Exactly one reply is read, and the selection it echoes is skipped.
PCRRead ==
  /\ Cardinality(readings) < MaxReadings
  /\ \E s \in Selections :
       readings' = readings \cup
         {[digests |-> InOrder(FirstReply(bitmap(s)), pcr),
           asked |-> s, truth |-> Current(Platform(s))]}
  /\ UNCHANGED <<device, akHandle, quotes, verifier, seen>>

\* TPM2_Quote by the key k of a device whose PCRs are in the state f.
Signed(k, nonce, s, f) ==
  LET quoted == [extraData |-> nonce, pcrSelect |-> bitmap(s),
                 pcrDigest |-> InOrder(bitmap(s), f)]
  IN [quoted |-> quoted, sig |-> [key |-> k, over |-> quoted],
      asked |-> s, truth |-> ValuesIn(f, Platform(s))]

\* The program has its PCRs quoted for a nonce it was sent.  A Quote that
\* fails, or whose response is lost, changes nothing.
Quote ==
  /\ Cardinality(quotes) < MaxQuotes
  /\ akHandle # None
  /\ objects[akHandle] = AttestationKey
  /\ \E nonce \in issued, s \in Selections :
       quotes' = quotes \cup {Signed(OwnKey, nonce, s, pcr)}
  /\ UNCHANGED <<device, akHandle, readings, verifier, seen>>

\* Another device answers, with its own key and its own PCRs.
OtherDevice ==
  /\ Cardinality(quotes) < MaxQuotes
  /\ \E k \in Keys \ {OwnKey}, nonce \in issued, s \in Selections,
        f \in OtherStates : quotes' = quotes \cup {Signed(k, nonce, s, f)}
  /\ UNCHANGED <<device, akHandle, readings, verifier, seen>>

\* The program crashes; the device keeps the AK.
Crash == akHandle' = None /\ UNCHANGED <<device, sent, verifier, seen>>

\* The platform is reset, the program with it.
Reset == /\ akHandle' = None
         /\ TPM_Reset /\ Witness(pcr')
         /\ UNCHANGED <<sent, verifier>>
-----------------------------------------------------------------------------
(* The verifier.                                                           *)

\* Mutant of VerifyQuote: the digest is that of the last value.
VerifyQuote_LastOnly(akPub, quoted, sig, expectedPCRs) ==
  IF quoted = None THEN "ErrShortBuffer"
  ELSE IF sig # [key |-> akPub, over |-> quoted] THEN "ErrSigInvalid"
  ELSE IF SubSeq(expectedPCRs, Len(expectedPCRs), Len(expectedPCRs))
            # quoted.pcrDigest THEN "ErrPCRDigestMismatch"
  ELSE "nil"

\* Mutant of VerifyQuote: bytesEqual compares lengths.
VerifyQuote_LengthOnly(akPub, quoted, sig, expectedPCRs) ==
  IF quoted = None THEN "ErrShortBuffer"
  ELSE IF sig # [key |-> akPub, over |-> quoted] THEN "ErrSigInvalid"
  ELSE IF Len(expectedPCRs) # Len(quoted.pcrDigest) THEN "ErrPCRDigestMismatch"
  ELSE "nil"

\* The checks in their order.  None is a quoted that does not parse.
VerifyQuote(akPub, quoted, sig, expectedPCRs) ==
  IF quoted = None THEN "ErrShortBuffer"
  ELSE IF sig # [key |-> akPub, over |-> quoted] THEN "ErrSigInvalid"
  ELSE IF expectedPCRs # quoted.pcrDigest THEN "ErrPCRDigestMismatch"
  ELSE "nil"

\* What expected values say of the PCRs of the selection that was quoted.
Claim(S, expectedPCRs) ==
  [p \in PCRs |-> IF p \in S THEN expectedPCRs[Rank(S, p)] ELSE None]

Challenge(v) ==
  /\ \E nonce \in Nonces \ issued :
       /\ issued' = issued \cup {nonce}
       /\ challenge' = [challenge EXCEPT ![v] = nonce]
  /\ verdict' = [verdict EXCEPT ![v] = None]
  /\ seen' = [seen EXCEPT ![v] = {pcr}]
  /\ UNCHANGED <<device, akHandle, sent>>

\* A verifier takes an error as no answer, and goes on waiting.
Reject(v, why) ==
  /\ verdict' = [verdict EXCEPT ![v] = [err |-> why, claim |-> None]]
  /\ UNCHANGED <<challenge, seen>>

Accept(v, claim) ==
  /\ verdict' = [verdict EXCEPT ![v] = [err |-> "nil", claim |-> claim]]
  /\ challenge' = [challenge EXCEPT ![v] = None]
  /\ seen' = [seen EXCEPT ![v] = {}]

Verify(v) ==
  /\ challenge[v] # None
  /\ \E q \in quotes, signed \in quotes, r \in readings :
     \E quoted \in {q.quoted, None} :
       LET err == VerifyQuote(OwnKey, quoted, signed.sig, r.digests)
       IN IF err # "nil" THEN Reject(v, err)
          ELSE IF quoted.extraData # challenge[v] THEN Reject(v, "another nonce")
          ELSE Accept(v, Claim(quoted.pcrSelect, r.digests))
  /\ UNCHANGED <<device, akHandle, sent, issued>>

Next ==
  \/ PCRExtend \/ CreatePrimary \/ PCRRead \/ Quote \/ OtherDevice
  \/ Crash \/ Reset
  \/ \E v \in Verifiers : Challenge(v) \/ Verify(v)

Spec == Init /\ [][Next]_vars
-----------------------------------------------------------------------------
(* Properties.                                                             *)

\* PCRRead and Quote agree (README.md: the expected values are those of the
\* selection that was quoted): digests read and a quote made for the same list,
\* whose digests fit in one reply, verify together exactly if the PCRs had the
\* same values both times.
SteadyReportVerifies ==
  \A q \in quotes, r \in readings :
    (/\ q.sig.key = OwnKey
     /\ r.asked = q.asked
     /\ Cardinality(Platform(q.asked)) <= MaxDigests)
    => (VerifyQuote(OwnKey, q.quoted, q.sig, r.digests) = "nil"
          <=> r.truth = q.truth)

\* An error is no verdict yet.
TheAttestation == INSTANCE Attestation WITH
  verdict <- [v \in Verifiers |-> IF verdict[v] = None THEN None
                                                     ELSE verdict[v].claim]

\* An accepted report tells values that the PCRs had at one moment after the
\* nonce was issued, whatever was measured, replayed or mixed up meanwhile.
ImplementsAttestation == TheAttestation!Spec
=============================================================================

# TLA+ models of go-tpm2/tpm2

The library turns typed calls into TPM 2.0 commands over a `common.Transport`
and parses the replies. It keeps no state of its own: what makes it hard is
what lies between two commands of a call (other goroutines, measurements, lost
replies, resets), what the device keeps after a call has failed, and how far
the parsers trust the octets that come back. The modules below are about that.

## 1. Inventory

| Component | Source | State | Operations | Correct when |
|---|---|---|---|---|
| Command layer | `tpm.go` | per call: attempt | `execute`: send, parse the response code, pause, send again | a command takes effect at most once; errors tell the truth about whether it did; every call returns |
| PCR commands | `commands.go`, `pcr.go` | PCRs, update counter (device) | `PCRRead`, `PCRExtend`, `bitmap`, `pcrsFromBitmap`, selection lists | the selection on the wire is the one the caller meant, wherever it is used |
| Sealing | `seal.go` | object and session slots (device), blobs (caller) | `CreateStoragePrimary(Pub)`, `Create`, `Load`, `StartAuthSession`, `PolicyPCR`, `PolicyGetDigest`, `Unseal`, `PolicyPCRDigest`, `SealToPCR`, `UnsealWithPCR` | a secret comes out exactly while the PCRs have the values it was sealed to; handles are not confused |
| Off-line wrap | `import.go` | wraps (three slices each) | `WrapToPCR`, `Import`, `ImportAndUnseal` | the same, for the storage key and object the wrap names |
| Reply parsers | all command files | offset, buffer end, values kept | one per command, `parseTPMTPublicECCPoint`, `ParseAttest`, `parseNVPublic`, `parsePCRSelectionList`, `getCapabilityData` | a whole reply decodes, a cut one is an error, none is a panic |
| Attestation | `attest.go`, `verify.go` | AK handle; nonces and verdicts (verifier) | `CreatePrimary(Public)`, `Quote`, `ParseAttest`, `VerifyQuote` | an accepted quote tells PCR values at a moment after the challenge |
| Credential activation | `ek.go`, `makecred.go`, `activate.go`, `name.go` | EK, AK, policy session | `CreateEK`, `MakeCredential`, `PolicySecret`, `ActivateCredential`, `ActivateAKWithEK`, `ObjectName` | the credential comes back only from the device that holds both keys |
| NV storage | `nv.go` | NV indices (device) | define, write, read, read public, undefine | a read returns what was last written; a lost reply leaves the write open |
| Capabilities | `capability.go`, `commands.go` | none | `GetCapability` and the typed decoders | a list is complete, or known not to be |
| Housekeeping | `commands.go` | none | `Startup`, `Shutdown`, `SelfTest`, `GetRandom` | one command each |
| Command bodies | all command files | none | one per command; `marshalAuthArea`, the public areas | the device reads what the caller meant, and accepts it |
| Key derivation | `kdf.go` | none | `KDFa`, `KDFe` | the right number of octets, distinct inputs distinct outputs |
| Package common | outside | device, transport | `Send`, `BuildCommand`, `ParseResponse`, integers, TPM2B | modelled from how the library uses it |

Interactions: everything goes through `execute`. The sealing and activation
chains are sequences of commands whose only link is a handle, a number the
device gave out. Parsers take the parameter octets `execute` returns; off-line
functions (`PolicyPCRDigest`, `WrapToPCR`, `MakeCredential`, `VerifyQuote`)
compute what the device must compute too, from the same wire forms.

## 2. Modules

| Module | Models | Instantiated by |
|---|---|---|
| `CommandOnce` | what a caller of one command may rely on (abstract) | `Execute` (refinement) |
| `Execute` | `TPM.execute`, goroutines, transport, a device that may be busy | `MCExecute` |
| `TPM` | the device as the code uses it: PCRs, slots, command effects | `Sealing`, `Attesting`, `Activating` (EXTENDS) |
| `PCRSelections` | selections as `pcr.go` sends them | `Sealing`, `Attesting` (EXTENDS) |
| `Vault` | what sealing promises (abstract) | `Sealing` (refinement) |
| `Sealing` | the chains of `seal.go` and `import.go` | `MCSealing` |
| `Attestation` | what attestation promises (abstract) | `Attesting` (refinement) |
| `Attesting` | `Quote`, `VerifyQuote`, a program beside the device, remote verifiers | `MCAttesting` |
| `Activation` | what credential activation promises (abstract) | `Activating` (refinement) |
| `Activating` | the chain of `makecred.go` and `activate.go` | `MCActivating` |
| `NvMemory` | an atomic memory of NV indices (abstract) | `Nv` (refinement) |
| `Nv` | the commands of `nv.go` over `Execute` | `MCNv` |
| `Wire` | octets of integers, TPM2B, selection lists, public areas | `Layouts`, `Kdf` (EXTENDS) |
| `Layouts` | the layout of every reply, and what a device writes that follows one | `Replies` (EXTENDS) |
| `Replies` | all parsers, as layouts read field by field | `MCReplies` |
| `Kdf` | what `KDFa` and `KDFe` return | `KdfLoop`, `Wraps` (EXTENDS) |
| `KdfLoop` | the loops that compute it | `MCKdf` |
| `Wraps` | the wraps, policy digest and Names, octet by octet | `Commands` (EXTENDS) |
| `Commands` | every body the library sends, and a device that reads it | `MCCommands` |
| `ExecuteProofs` | theorems about `Execute` and `Nv` | |
| `SealingProofs`, `AttestingProofs`, `ActivatingProofs` | theorems about the chains | |
| `RepliesProofs`, `KdfProofs`, `WrapsProofs`, `CommandsProofs` | theorems about octets | |

The library meets the same device twice: in `Sealing`, `Attesting` and
`Activating`, where commands interleave and fail and data are terms, and in
`Commands`, where one goroutine runs without losses and data are octets. What
the first kind takes for granted, that library and device derive the same
digest, Name or key from the same arguments, is what the second kind shows.

**Execute.** `pc`, `attempt`, `reply` are the local state of one call;
`outcome` is what it returned, split by kind of error. `Answer` is
`Transport.Send` followed by `ParseResponse`; the device side says whether the
command ran, was refused, met a busy device or never arrived, and in each case
the answer may be lost or garbled. `Again` is the negation of the condition of
tpm.go:79. `executed`, `refusals` and `slept` are history.

**Sealing.** A call of `UnsealWithPCR` is the actions `Load`,
`StartAuthSession`, `PolicyPCR`, `Unseal` in that order, one device command
each; `ImportAndUnseal` starts with `Import`. Every command of a chain may also
run and have its response lost (the call fails, the effect stays), or fail
without effect (`CommandFails`). `PCRExtend` may come at any time, `Crash` ends
the program and leaves the device alone, `TPM_Reset` clears the device and
ends the program. A call carries its own arguments and handles (`call`); a
parent is created once per run of the program. PCR values are the sequences of
digests extended into them, policy digests the sequences of assertions folded
into them, names are public areas: hashes are injective, which the code relies
on too. A wrap is three slices, as `WrapToPCR` returns them and `ImportAndUnseal`
takes them: the public area, the duplicate (a term of the seed it is encrypted
under, the Name its HMAC covers and the secret) and the encrypted seed (a term of
the ephemeral key, from which the device computes what its own storage key makes
of it). A caller gets any three of them. `leftObjects` and `leftSessions` are
history: they count what calls that have ended had loaded and opened.

**Attesting.** A verifier issues a nonce (`Challenge`) and later calls
`VerifyQuote` and compares the nonce in the `AttestInfo` it gets (`Verify`), as
the repository's README and `TestVerifyQuoteRoundTrip` do. Beside the device,
`PCRRead` and `Quote` are one command each, in either order, with measurements,
crashes and resets anywhere. What they return are slices that reach any
verifier, late, repeatedly or never, and in any combination: `readings` and
`quotes` are what was sent so far, `OtherDevice` adds what another device
signed. A signature is a term that holds its key and what it was made over. A
`pcrDigest` is the sequence of values it was computed over: PCR values of one
bank all have the same length, so their concatenation determines them. It
carries no PCR numbers; `Rank` and `Claim` are how a reader puts values and
quoted selection together. `asked`, `truth` and `seen` are history.

**Layouts, Replies.** A parser of the source reads a fixed layout from left to right
and returns `ErrShortBuffer` as soon as a field does not fit. So a parser is a
layout, a sequence of fields, in `Parsers`; the actions are those of one field
each: `GetInt` (`GetU8`, `GetU16`, `GetU32`), `UnmarshalTPM2B`, `GetBitmap` and
`GetCount`/`Iterate` (the loops over counted lists), `GetDetail` (the optional
parameters of `parseTPMTPublicECCPoint`), `GetExpected` (magic, tag, algorithm
and capability tests), `Enter`/`Leave` (a structure inside a TPM2B parsed as a
buffer of its own), `ErrShortBuffer`, `Return`.
Beside each layout stands what a device may say in it. `said` gives the octet
strings of every field, row by row for lists and buffers; `Whole` is what comes
of that on the wire, together with the values a caller has to be given, and is
written by folding, apart from the parsers. `Sent` says which replies are such a
whole, a whole with anything after it, or a whole cut short, and how their
parse has to end.

**Activating.** `Challenge` is a verifier that calls `MakeCredential`; its two
slices reach any goroutine of the program, any number of times, and not always
both (`ActivateChallenge`). `ActivateAKWithEK` binds the credential itself. From
there on both are the commands `StartAuthSession`, `PolicySecret` and
`ActivateCredential`, one step each, with the faults of `Sealing`: an effect
whose response is lost, a failure without effect, a crash, a reset. Handles are
numbers that callers pass, so they pass any. A seed is the term of what it is
derived from, label included, and the MAC covers ciphertext and Name; the
device derives the same from its own EK and from the Name of the object it has
under the handle (`CertInfo`). `OwnKey` is the device, other members of `Keys` are
other devices. `bound` and `activated` are history.

**Nv.** Each action of `Execute` is taken over and says what it does to the
memory: `Call` picks a request, `Run` is the device carrying it out, `Finish`
what the method makes of reply and error. The device's rules (a defined index,
owner access, a range that fits, a read after a write) are those of
`NvMemory`, which the library neither knows nor checks.

**Kdf, KdfLoop.** `Derived` says what is returned, the first bits of a stream of
blocks, for any `Hash`; `Round` and `Return` are the two loops with their
counter, cut and mask.

**Wraps, Commands.** The Go functions, with concatenation for `append`. Outside
the repository are the hash (a parameter), the cipher (adds a hash of its key)
and the curve (the additive group of a prime, whose coordinates have different
lengths as integers, as those of P-256 do). `Device` splits a body into handles,
authorizations and parameters by the `Forms` of the commands, checks who
authorizes what and the rules on attributes, and carries the command out on the octets it has read.
`request.meant` is what the caller wanted to say. The commands come in every
order the library's own flows allow. Fields are read with a recursive function
of how many have been read, so that what is read can be proved.

## 3. Runs

| Run | Instance | Shows |
|---|---|---|
| `execute_two` | 2 goroutines, retry limit 2 | `OutcomeTruthful`, `BackoffAccounting`, `PromiseKept` (refinement of `CommandOnce`) |
| `execute_returns` | 1 goroutine, the code's limit 6 | `EveryCallReturns`, although the device may stay busy for ever |
| `execute_quarter_second` | the code's limit and pause | a disagreement, see 6 |
| `seal_two` | 2 callers, 1 secret, PCRs 0 and 23, 3 object and 2 session slots, 2 measurements per boot | `CallsOwnHandles`, `SealedStateUnseals`, `SlotsSpent`, `ImplementsVault` |
| `wrap_one` | 1 caller, 2 wrapped secrets, 2 storage keys, 2 golden states | the same promise (`SealedStateUnseals`, `ImplementsVault`) for wraps whose three slices are mixed in every way, and for wrong keys |
| `truncated_read` | 2 PCRs, 1 digest per reply | a disagreement, see 6 |
| `attest_two` | 2 verifiers, 2 nonces, 2 devices, 2 quotes and 1 reading, 1 measurement per boot | `SteadyReportVerifies`, `ImplementsAttestation` |
| `activate_two` | 2 goroutines, 2 credentials, 2 object and 2 session slots, keys of this device and of another, a public area that is refused | `CallsOwnSessions`, `SameDeviceActivates`, `SlotsSpent`, `ImplementsActivation` |
| `nv_two` | 2 goroutines, 1 index of 2 cells, retry limit 1 | `NvTypeOK`, `ImplementsMemory` |
| `kdf_bits` | both functions, 0 to 40 bits, a hash of 2 octets, labels with and without a final zero | `FirstBits` |
| `bodies_one` | every command; digests of 4 octets, 3 secrets, 3 ephemeral keys, a group of order 509 | `Understood`, `NoneRefused`, `SecretsIntact` |
| `parse_replies` | 32 replies, each whole, cut at every octet, and with one octet set to 0, 5 or 255 | `InBounds`, `KeptIsPaidFor`, `Decodes`, `Finishes` |

Why the bounds are enough. Two goroutines are the least that interleave, and
the retry limit enters only through comparisons with `attempt`, so that 2 meets
the first, a middle and the last attempt. PCRs 0 and 23 are the ends of the
three-octet window, and a selection reaches over its end to 24. Three object
slots are a parent and one item for each caller, so that slots run out and are
fought over; two sessions likewise. Two measurements per boot let a PCR change
before and after each step of a chain, and resets bring equal values back. An
acceptance looks at one reading and at no more than two quotes, one for the
statement and one for the signature, so that one and two of them are all that
can be mixed; the second verifier has a challenge open that is older or newer
than the first one's. In
`parse_replies` there is a reply for every parser, with every kind of optional
field present and absent; a cut is tried at every place, and 0, 5 and 255 in an
octet empty, shrink and inflate every size, count and algorithm.
In `activate_two` two credentials are the least whose slices can be mixed, and
two slots of each kind the least that two calls fight over and use up; the
bindings are all pairs of the given keys, also of an AK sent where an EK
belongs. In `nv_two` two cells let a write cover all of an index or a part, a
range end at its edge or past it, and the retry limit of 1 meets the first and
the last attempt. 40 bits over blocks of 16 meet no block, one, two and three, whole or
not, and every remainder of bits. In `bodies_one` numbers below and above 256
give coordinates with and without a leading zero, for which the padding is;
secrets are empty, shorter than a digest, with a leading zero, and longer than a
digest, which a credential may not be. For `PCRExtend` there are digests of
the length of the algorithm, of an octet less and more, and an empty one.

Every bound: `RetryLimit`, `MaxUpdates` (measurements between two resets),
`MaxReadings` and `MaxQuotes` (what was sent), the sets of slots, secrets, keys,
credentials, public areas, nonces, selections and golden states, the indices,
offsets, sizes and data of NV commands, `DigestSize` and `Prime`, the
derivations of `MCKdf`, the argument values written in the actions of
`Commands`, the replies of `MCReplies`, and 2^24 for a 32-bit count of a reply
(`MaxCount`, in `Count` and for what `Layouts` writes), which is more elements than any of those replies has octets.

**Fairness.** `execute_returns` assumes weak fairness of the device's answer
(`Send` returns), of the goroutine's own steps and of the timer; not of the
device becoming ready. `parse_replies` assumes that sequential code runs on
(weak fairness of `Next`). The safety runs assume nothing. `Sealing` states no
liveness, nor do `Activating` and `Nv`: a chain may fail at any command, and the
library promises nothing that must eventually happen there; that each of its
commands returns is `EveryCallReturns`.

**Symmetry** is used where values are only compared (goroutines, slots,
credentials, nonces and the like), and in no run with a liveness property.

**Deadlock** is checked but for `parse_replies` and `kdf_bits`, where a function
that has returned has nothing more to do.

## 4. What is proved

For every value of the constants, under the assumptions named in the modules.

*Execute* (`RetryAssumption`; `PauseAssumption`, which says that the shift
doubles, because the prover has no powers). The inductive invariant adds to the
type what each goroutine *knows* (an unanswered command has run at most once,
a command that was refused has not run, and it is sent again only after a
refusal) and what it has *counted* (refusals, attempts and pauses move
together). Without the first, a resend could follow a command that ran.
`Truthful` and `Accounting` follow; `Implements` maps calls to calls, runs to
effects, and everything else to stuttering steps of `CommandOnce`.

*Sealing* (`SealingAssumption`, `DeviceAssumption`, `NoneAssumption`,
`CallAssumption`: what a selection and a device are, and that `None` is no
value). `VaultRefined` needs to know that whatever carries a secret (a blob, a
wrap, the arguments of a call, a loaded object) has a policy that is *bound* to
a condition under which the secret was kept: one assertion, with the PCRs and
values of that condition, or of a part of what was asked when a read was cut.
That is one invariant per carrier. With `Snapshots` (a session whose
counter is the present one holds the present values) an authorized unseal then
finds the PCRs as they were promised. `Releases` and `Keeps` map the two
steps that matter; `StepVault` the rest. `Places` says which handles a call
holds at which command, and is needed for type correctness only.

*Attesting* (`AttestingAssumption`, `DeviceAssumption`,
`AttestingNoneAssumption`). `Ranks` shows that the ranks number a selection
without gaps, from which `InOrderAt` and `SameOrder` have that values in order
say which PCR had which value. The invariant: what this device signed for the
nonce of an open challenge was true at a moment since (`Genuine`, because a
nonce is issued once and a quote needs it); who waits has seen the present
state (`Waiting`); a quote and a reading are each of one PCR state (`Parts`).
`AttestationRefined` maps an acceptance to learning one of those states
(`Accepted`) and an error to nothing. `SteadyReports` is the converse service:
an honest reading and quote verify if and only if nothing moved between them;
it needs that the reading fits in one reply, which the property states.

*Replies* (`InputsAssumption`: a reply is octets, and one that is called whole
or short is what `Sent` calls so; TLC checks that the replies of `MCReplies`
are). The invariant of the first theorems says that what is still to be
read is a layout and that the parser is within its buffer. That the size a
field needs is a number depends on the octets of the size being there, which is
what `Has` tests first. `NoReadPastEnd` is the absence of a slice panic for
every reply of any length; `CountsArePaidFor` bounds what is kept.

`RepliesDecoded` is about every reply that a device may give, with any strings,
any selections and lists of any length below 2^24 (`MaxCount`), and about every
place where it may be cut. Its invariant, `Following`, says that while a parse
lasts, what the device says is what has been read, whose values are what the
parser has kept and whose octets it has passed (`Beginning`), followed by what
the rest of the layout calls for (`Matches`). A list is read as one structure
after another, so the rest of a list matches the rest of its rows. Outside of a
sized buffer (`Outside`) the parse ends with the reply; inside (`Inside`) there
are also the fields that are left of the buffer, and these end where its size
said. `Follows` gives that for the first state, and `Stands` that the next
octets are those of what the device says next, as far as they are there. So
`PlainStep` has a field of one string either read as it was said or, where the
reply is cut, end the parse with an error; there is one lemma each for lists,
for both ends of a buffer, for a value the parser insists on and for the test
of the first value. That counts, sizes and bits read back as written are
`CountHalves`, `OctetMade` and `BitmapSelects`; `RowHead` and `RowJoin` are what
the proof needs of folding, by `Induction` over the number of rows.

`SelectionsAgree` joins the two kinds of modules: the octets `bitmap` of
`Wire` sends for a selection, read as the TPM reads them, select the set that
`bitmap` of `PCRSelections`, and with it `Sealing` and `Attesting`, takes the
selection for, whatever indices the caller gave.

*Handles* (in `SealingProofs`, on top of the invariant of *Sealing*; `SealingAssumption` has finitely
many callers, to count them). `HandlesOwned` adds what a call has not opened
yet (`Unopened`) to `CallsOwnHandles`, which is then inductive: a slot the device
gives out was free, and every handle a call holds names a slot that is not.
`SlotsRunOut` counts slots: nothing frees one before a reset, and no two calls
share one, so that the loaded objects are exactly those of the calls under way
and of the calls that have ended, whether they unsealed, failed, lost a response
or died with the program; and the open sessions likewise. For that it needs that
what a call holds is there (`HandlesOwned`) and that what it has not opened it does not hold. `SealedUnseals`
assumes `Fits`, that the platform PCRs of every selection fit in one reply
(`truncated_read` shows why). Then readings are whole, so are the policies made
from them (`WholeCarriers`), and a promise made to a secret is the only one
(`KeptOnce`) and the one its carrier names (`Matched`); a session has folded in
what the call `Asked` for. So library and device have the same digest whenever
the PCRs have the promised values.

*Activating* (`ActivatingAssumption`, `ActivatingCallAssumption`, `DeviceAssumption`,
`NoneAssumption`). What calls hold was made for some binding (`Honest`), a
session is held by one call (`CallsOwnSessions`, which `Places` makes
inductive), and slots hold keys (`Loaded`). `Recovers` is the heart: from two slices
`CertInfo` gets something only if both are of the same wrap, the Name is the
one it was made for and the EK this device's. `ActivationRefined`,
`Activates` (with `RoundTrip`, the converse) and `SlotsBoundActivations`, which
counts the sessions of all calls as `SlotsRunOut` does, follow.

*Nv* (in `ExecuteProofs`; `NvAssumption` and those of *Execute*). Over the invariant of
*Execute*: a request is pending exactly during a call, and a command has taken
effect exactly if it was executed, for a caller that knows it ran at most
once. `NvStepMemory` maps `Run` to the effect, `Finish` to the end of a
call, and everything else to stuttering.

*Kdf* (`DigestSizeAssumption`, `DerivationsAssumption`; `Hashes`, that every
string has a digest, is the hypothesis of the theorems). What has been appended
after any round is a beginning of the stream (`Beginning`); `DerivesFirstBits` follows
from that and from what a cut and a mask do.

*Wraps* (`PrimeAssumption`, `NoneAssumption`, `DigestAssumption`, those of
*Kdf*, and `Hashes`). Octets are read by a function of the number of fields, so
that what is read of a string needs an induction. `Induction` is that, for a
set of numbers, from the well-foundedness of the naturals: a step about a
recursive function is then an ordinary lemma. With it, `Starts` says that a string
starts with fields of given kinds and values *whatever follows*. It holds of
each field that the library writes and is kept by concatenation, as bodies are
made by concatenation; a string that starts with fields and has nothing after
them consists of them. `WrapOpens` puts together that padding keeps a number and
gives it its two octets, that both sides compute the same point
(`(k * e) % Prime` from either side), that the cipher is undone, and that every
size fits in its two octets: for any hash, label, Name, numbers and any plaintext of up to
65465 octets. `Prime` need not be one for that.

*Commands* (`CommandsAssumption`, `AnswersAssumption`, those of *Wraps*, and
`Hashes`). `Hashes` quantifies over all strings, which TLC cannot enumerate; it
is a hypothesis of the theorems for that reason, and any hash function satisfies
it. `Understood`, `NoneRefused` and `SecretsIntact` look at a request or at its
answer, but whether a request is refused depends on what the device holds by
then, and on whether the program is right about it. So `Consistent` says four
things: when no answer is due the objects and the session are those the program
believes in (`World`: the object loaded is the sealed or wrapped one, with the
secret and the policy it was made with, and the session has what the program
has satisfied in it); a request is read as it was meant (`Matches`); the device
will do with it what the program counts on (`Served`); an answer is what the
program counts on, and leaves a world that fits (`Answered`). There is one lemma
for what is read of each kind of command and of each public area, and one for each action.
Three requests are refused, and `Acceptable` says which: a digest for a PCR that
has not the length of its algorithm (the list it is in cannot be read, so
`Understood` says nothing of it), the creation of an object for an empty secret,
and the activation of a credential longer than a digest (the limit
makecred.go:101 states). An empty secret that is wrapped is accepted and comes out empty.
`Served` is proved when the request is made, from `World`; the steps of the
device and of the program that gets the answer then follow from the invariant
alone. The theorem goes beyond the run in
what matters for octets: the run has digests of 4 octets, a group of order 509
and secrets of a few octets, the theorem any digest of up to 64, any group and
secrets of 0 to 65000 octets. TLC has checked `Consistent` on the instance of
`bodies_one`, in all its 2160 states (but for the membership in `Outputs`, which
is infinite).

Only model-checked: liveness (`EveryCallReturns`, `Finishes`), which is out of
the prover's reach. Every other property of a passing run is proved.

## 5. Not modelled, and abstractions

One PCR bank in the chains; several banks differ only in what is concatenated,
and their selections are sent in `Commands`. Every extend counts in the update
counter. In the chains cryptography is symbolic: no key or secret is found by
computing, signatures and wraps are terms. In `Wraps` and `Commands` it is
computed, but with a toy cipher and group, so that those show that the two
sides agree, never that a third is kept out; that is what the chains show.
`Startup`, `Shutdown`, `SelfTest`, `GetRandom` and `PolicyGetDigest` change
nothing the chains look at and are in `Commands` only. Losses and interleavings are in the chains
and in `Nv`, not in `Commands`. A command whose `Send` returns an error has ended
in every model: that a transport gives up on a command which the device still
carries out later is excluded by assumption, as tpm.go leaves framing and
concurrency to the transport. A reset always ends the program, as it does where the
TPM is that of the platform the program runs on. The error
returns of the random source and of the key generator in `WrapToPCR` and
`MakeCredential` are left out: nothing has been sent or returned by then. `Commands` takes `ekAuthPolicy` to be the policy
digest of one `PolicySecret` over the endorsement hierarchy; that the constant
of ek.go is this value under SHA-256 was computed outside of TLC.
Each secret is sealed once and each credential bound once, so that a release
says which promise it honours.

The capacity `GetHandles` asks for before it reads (capability.go:201) is not
part of what is kept. The typed capability decoders drop moreData
(capability.go:70), so a list can be a part of what the device has; no caller
in the repository does anything with such a list, and a model would have to
invent one. Benchmarks, logging and formatting are left out.

## 6. Disagreements found

* The comment at tpm.go:97 has the six retries take "about a quarter of a
  second in total"; they take 2 + 4 + ... + 64 = 126 ms
  (`execute_quarter_second`).
* seal.go:519 says a secret is sealed to values that are "typically the result
  of PCRRead"; PCRRead returns the digests of one reply and drops the echoed
  selection, so that for a selection that takes more replies the secret is
  sealed to a policy that no state satisfies (`truncated_read`).

## 7. Plan

Done: the command layer, sealing and wraps with their handles, attestation,
credential activation, NV, key derivation, the bodies of all commands, the
parsers; every safety property of a passing run is proved.

Open:

1. Capability lists that take several replies, once there is a caller that
   asks again.

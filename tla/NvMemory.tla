------------------------------ MODULE NvMemory ------------------------------
(***************************************************************************)
(* What the callers of the NV commands may rely on: an atomic memory of    *)
(* indices.  A command takes effect at one moment of its call, or never;   *)
(* one that succeeded took effect and returns what it found then; one that *)
(* was refused did not; after any other error it may have, but it will not *)
(* any more.                                                               *)
(*                                                                         *)
(* Module Nv (nv.go over tpm.go) implements this specification.            *)
(***************************************************************************)
EXTENDS Integers, Sequences

CONSTANTS
  Callers,                  \* the goroutines that use NV
  Requests,                 \* the commands they may issue
  Indices,                  \* the NV indices
  Erased,                   \* what a cell holds before it is written
  None                      \* no index, no command, no value

VARIABLES
  memory,                   \* memory[i]: the defined index, or None
  pending,                  \* pending[c]: the command of c's call, or None
  taken,                    \* taken[c]: that command has taken effect
  found,                    \* found[c]: what it found when it did
  result                    \* result[c]: what the last call told c

memoryVars == <<memory, pending, taken, found, result>>

\* Every command needs its index defined, except the one that defines it.  The
\* library authorizes them as the owner, which the attributes of the index must
\* permit, and a range must lie in the index; an index that has not been
\* written cannot be read.
Possible(q, m) ==
  IF q.cc = "NV_DefineSpace" THEN m[q.index] = None
  ELSE /\ m[q.index] # None
       /\ q.cc = "NV_Write" =>
            /\ "OwnerWrite" \in m[q.index].attributes
            /\ q.offset + Len(q.data) <= m[q.index].dataSize
       /\ q.cc = "NV_Read" =>
            /\ "OwnerRead" \in m[q.index].attributes
            /\ m[q.index].written
            /\ q.offset + q.size <= m[q.index].dataSize

\* The memory after a command.
After(q, m) ==
  CASE q.cc = "NV_DefineSpace" ->
         [m EXCEPT ![q.index] = [attributes |-> q.attributes, dataSize |-> q.dataSize,
                                 written |-> FALSE,
                                 cells |-> [k \in 1..q.dataSize |-> Erased]]]
    [] q.cc = "NV_UndefineSpace" -> [m EXCEPT ![q.index] = None]
    [] q.cc = "NV_Write" ->
         [m EXCEPT ![q.index].written = TRUE,
                   ![q.index].cells = [k \in DOMAIN @ |->
                      IF k - q.offset \in DOMAIN q.data THEN q.data[k - q.offset] ELSE @[k]]]
    [] OTHER -> m

\* What a command finds: its range, or the public area.
Value(q, m) ==
  CASE q.cc = "NV_Read" -> SubSeq(m[q.index].cells, q.offset + 1, q.offset + q.size)
    [] q.cc = "NV_ReadPublic" -> <<m[q.index].attributes, m[q.index].dataSize,
                                   m[q.index].written>>
    [] OTHER -> <<>>

Told(verdict, value) == [verdict |-> verdict, value |-> value]

MemoryInit ==
  /\ memory = [i \in Indices |-> None]
  /\ pending = [c \in Callers |-> None]
  /\ taken = [c \in Callers |-> FALSE]
  /\ found = [c \in Callers |-> None]
  /\ result = [c \in Callers |-> Told("none", None)]

\* c issues a command.
Issue(c, q) ==
  /\ pending[c] = None
  /\ pending' = [pending EXCEPT ![c] = q]
  /\ result' = [result EXCEPT ![c] = Told("none", None)]
  /\ UNCHANGED <<memory, taken, found>>

\* It takes effect, once.
TakeEffect(c) ==
  /\ pending[c] # None /\ ~taken[c]
  /\ Possible(pending[c], memory)
  /\ taken' = [taken EXCEPT ![c] = TRUE]
  /\ memory' = After(pending[c], memory)
  /\ found' = [found EXCEPT ![c] = Value(pending[c], memory)]
  /\ UNCHANGED <<pending, result>>

\* The call returns.
Complete(c) ==
  /\ pending[c] # None
  /\ \/ taken[c] /\ result' = [result EXCEPT ![c] = Told("ok", found[c])]
     \/ ~taken[c] /\ result' = [result EXCEPT ![c] = Told("refused", None)]
     \/ result' = [result EXCEPT ![c] = Told("unknown", None)]
  /\ pending' = [pending EXCEPT ![c] = None]
  /\ taken' = [taken EXCEPT ![c] = FALSE]
  /\ found' = [found EXCEPT ![c] = None]
  /\ UNCHANGED memory

MemoryNext ==
  \E c \in Callers : (\E q \in Requests : Issue(c, q)) \/ TakeEffect(c) \/ Complete(c)

MemorySpec == MemoryInit /\ [][MemoryNext]_memoryVars
=============================================================================

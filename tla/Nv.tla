--------------------------------- MODULE Nv ---------------------------------
(***************************************************************************)
(* The NV commands of nv.go, issued by several goroutines through           *)
(* TPM.execute (module Execute), whose transport loses commands and        *)
(* responses and whose device is at times busy.                            *)
(***************************************************************************)
EXTENDS Execute, Sequences

CONSTANTS
  Indices,                  \* the NV indices
  Offsets,                  \* where callers write and read
  Data,                     \* what they write
  Sizes,                    \* how much they read, and define
  Erased,                   \* what a cell holds before it is written
  None                      \* no index, no command, no value

\* The commands, with the fields their bodies carry.
NVDefineSpace   == [cc : {"NV_DefineSpace"}, index : Indices, dataSize : Sizes,
                    attributes : {{"OwnerWrite", "OwnerRead"}, {"OwnerWrite"}}]
NVUndefineSpace == [cc : {"NV_UndefineSpace"}, index : Indices]
NVWrite         == [cc : {"NV_Write"}, index : Indices, data : Data, offset : Offsets]
NVRead          == [cc : {"NV_Read"}, index : Indices, size : Sizes, offset : Offsets]
NVReadPublic    == [cc : {"NV_ReadPublic"}, index : Indices]

Requests == NVDefineSpace \cup NVUndefineSpace \cup NVWrite \cup NVRead \cup NVReadPublic

ASSUME NvAssumption ==
  /\ Offsets \subseteq Nat /\ Sizes \subseteq Nat
  /\ Data \subseteq Seq(Nat)
  /\ None \notin Requests

VARIABLES
  memory,                   \* the device: the defined indices
  request,                  \* request[c]: the command c is in, or None
  found,                    \* found[c]: what the device found when it ran it
  returned                  \* returned[c]: what the method returned to c

nvVars == <<memory, request, found, returned>>
allVars == <<vars, nvVars>>

Memory == INSTANCE NvMemory WITH
  pending <- request,
  taken   <- [c \in Callers |-> request[c] # None /\ executed[c] = 1],
  result  <- [c \in Callers |->
                [verdict |-> VerdictOf[outcome[c]], value |-> returned[c]]]

NvInit ==
  /\ Init
  /\ memory = [i \in Indices |-> None]
  /\ request = [c \in Callers |-> None]
  /\ found = [c \in Callers |-> None]
  /\ returned = [c \in Callers |-> None]

\* A method builds its body and calls execute.
Call(c, q) ==
  /\ Begin(c)
  /\ request' = [request EXCEPT ![c] = q]
  /\ returned' = [returned EXCEPT ![c] = None]
  /\ UNCHANGED <<memory, found>>

\* The device runs the command.
Run(c) ==
  /\ DeviceRuns(c)
  /\ Memory!Possible(request[c], memory)
  /\ memory' = Memory!After(request[c], memory)
  /\ found' = [found EXCEPT ![c] = Memory!Value(request[c], memory)]
  /\ UNCHANGED <<request, returned>>

\* It does not run.
Fail(c) ==
  /\ Undelivered(c) \/ DeviceBusy(c) \/ DeviceRefuses(c)
  /\ UNCHANGED nvVars

\* execute sleeps and sends the command again.
Retry(c) == (Sleep(c) \/ Resend(c)) /\ UNCHANGED nvVars

\* Mutant of Finish: a value is returned beside the error.
Finish_ErrorIgnored(c) ==
  /\ Return(c)
  /\ returned' = [returned EXCEPT ![c] = found[c]]
  /\ request' = [request EXCEPT ![c] = None]
  /\ found' = [found EXCEPT ![c] = None]
  /\ UNCHANGED memory

\* execute returns, and the method the error or what it takes from the reply.
Finish(c) ==
  /\ Return(c)
  /\ returned' = [returned EXCEPT ![c] = IF reply[c] = "success" THEN found[c] ELSE None]
  /\ request' = [request EXCEPT ![c] = None]
  /\ found' = [found EXCEPT ![c] = None]
  /\ UNCHANGED memory

NvNext ==
  \/ Flip /\ UNCHANGED nvVars
  \/ \E c \in Callers :
       \/ \E q \in Requests : Call(c, q)
       \/ Run(c) \/ Fail(c) \/ Retry(c) \/ Finish(c)

NvSpec == NvInit /\ [][NvNext]_allVars
-----------------------------------------------------------------------------
NvTypeOK ==
  /\ TypeOK
  /\ request \in [Callers -> Requests \cup {None}]
  /\ \A c \in Callers : /\ request[c] = None <=> pc[c] = "idle"
                        /\ outcome[c] # "ok" => returned[c] = None

\* The NV commands are an atomic memory, whatever the transport loses and
\* however often execute sends: a command that ran and lost its response is
\* over when its call returns, so that no write comes after a later one.
ImplementsMemory == Memory!MemorySpec
=============================================================================

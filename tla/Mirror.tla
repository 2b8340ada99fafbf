------------------------------- MODULE Mirror -------------------------------
(***************************************************************************)
(* What the driver of a PLC promises of every register, whatever happens   *)
(* on the network: the local copy follows the device, and a command stored *)
(* in the local copy is handed to the device at least once, unless set_reg *)
(* and the polling thread have met over it.                                *)
(*                                                                         *)
(* Module MbMaster, with its connections, retries, failures and loops,     *)
(* implements this.                                                        *)
(***************************************************************************)

CONSTANTS
  Reg,       \* the registers
  Writable,  \* those that take commands
  Value,     \* what a register can hold
  Unread,    \* what the local copy holds before any reading
  None       \* no command

VARIABLES
  local,     \* the local copy
  remote,    \* the device
  asked,     \* 1 while the driver has been asked to write the register
  want,      \* the command that no write has carried yet
  raced      \* the driver and the operator have met over that command

mirror == <<local, remote, asked, want, raced>>

Init ==
  /\ local = [r \in Reg |-> Unread]
  /\ remote \in [Reg -> Value]
  /\ asked = [r \in Reg |-> 0]
  /\ want = [r \in Reg |-> None]
  /\ raced = [r \in Reg |-> FALSE]

\* The two may meet at any time.
Meet(r) == \E b \in BOOLEAN : raced' = [raced EXCEPT ![r] = @ \/ b]

\* An operator's command goes into the local copy ...
Give(r, v) ==
  /\ r \in Writable
  /\ local' = [local EXCEPT ![r] = v]
  /\ want' = [want EXCEPT ![r] = v]
  /\ \E b \in BOOLEAN : raced' = [raced EXCEPT ![r] = b]
  /\ UNCHANGED <<remote, asked>>

\* ... and asks for a write.
Ask(r) ==
  /\ r \in Writable
  /\ asked' = [asked EXCEPT ![r] = 1]
  /\ Meet(r)
  /\ UNCHANGED <<local, remote, want>>

\* A reading replaces the local copy: never one that waits to be written.
Follow(r, v) ==
  /\ (want[r] = None /\ asked[r] = 0) \/ raced[r]
  /\ local' = [local EXCEPT ![r] = v]
  /\ UNCHANGED <<remote, asked, want, raced>>

\* What is sent is the local copy, and only on request.  The command is done
\* with when the answer comes; without one it will be sent again.
Deliver(r) ==
  /\ r \in Writable /\ asked[r] = 1
  /\ remote' = [remote EXCEPT ![r] = local[r]]
  /\ \/ UNCHANGED want
     \/ want[r] = local[r] /\ want' = [want EXCEPT ![r] = None]
  /\ UNCHANGED <<local, asked, raced>>

\* The request is over when the command is.
Answered(r) ==
  /\ want[r] = None \/ raced[r]
  /\ asked' = [asked EXCEPT ![r] = 0]
  /\ UNCHANGED <<local, remote, want, raced>>

Drift(r, v) ==
  /\ remote' = [remote EXCEPT ![r] = v]
  /\ UNCHANGED <<local, asked, want, raced>>

Next ==
  \E r \in Reg :
    \/ \E v \in Value : Give(r, v) \/ Follow(r, v) \/ Drift(r, v)
    \/ Ask(r) \/ Deliver(r) \/ Answered(r)
    \/ Meet(r) /\ UNCHANGED <<local, remote, asked, want>>

Spec == Init /\ [][Next]_mirror

=============================================================================

----------------------------- MODULE Enrollment -----------------------------
(***************************************************************************)
(* What pairing promises, whatever the protocol behind it                  *)
(* (docs/device-pairing.md, "Initial defaults" and "Device management"):   *)
(* a device is authorized only through a code that is still good at that   *)
(* instant, a code authorizes at most one device, at most one code is good *)
(* at a time, and a revoked device is never authorized again.              *)
(***************************************************************************)
EXTENDS Naturals

CONSTANTS
    Devices,
    Generations, \* identities of codes
    None

VARIABLES
    status,      \* the standing of each device
    live,        \* the codes that may still authorize a device: none or one
    via          \* the code each device was authorized through

vars == <<status, live, via>>

TypeOK ==
    /\ status \in [Devices -> {"none", "active", "revoked"}]
    /\ live \in SUBSET Generations
    /\ via \in [Devices -> Generations \cup {None}]

Init ==
    /\ status = [d \in Devices |-> "none"]
    /\ live = {}
    /\ via = [d \in Devices |-> None]

\* A new code replaces the one before it.
Issue(g) ==
    /\ g \notin live
    /\ \A d \in Devices : via[d] # g
    /\ live' = {g}
    /\ UNCHANGED <<status, via>>

\* A code lapses: it expires, or the core restarts.
Withdraw ==
    /\ live' = {}
    /\ UNCHANGED <<status, via>>

\* A device is authorized, which uses the code up.
Enroll(d, g) ==
    /\ status[d] = "none"
    /\ g \in live
    /\ status' = [status EXCEPT ![d] = "active"]
    /\ via' = [via EXCEPT ![d] = g]
    /\ live' = live \ {g}

\* Revoking the device that created the live code also withdraws that code.
Revoke(d) ==
    /\ status[d] = "active"
    /\ status' = [status EXCEPT ![d] = "revoked"]
    /\ live' \in {live, {}}
    /\ UNCHANGED via

Next ==
    \/ \E g \in Generations : Issue(g)
    \/ Withdraw
    \/ \E d \in Devices, g \in Generations : Enroll(d, g)
    \/ \E d \in Devices : Revoke(d)

Spec == Init /\ [][Next]_vars

\* Two devices are never authorized through the same code.
OneDevicePerCode ==
    \A d, e \in Devices : via[d] = via[e] /\ via[d] # None => d = e
=============================================================================

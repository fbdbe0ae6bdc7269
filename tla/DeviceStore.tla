---------------------------- MODULE DeviceStore ----------------------------
(***************************************************************************)
(* The device records of a core (core/internal/node/devices.go): the map   *)
(* held in memory by DeviceStore and the devices.json file it is saved to. *)
(* A device identity is the hash of its public key, so a member of Devices *)
(* stands for one key pair.  Every operation runs under DeviceStore.mu and *)
(* is one step.  saveLocked writes a temporary file and renames it, so the *)
(* file holds either the old records or the new ones: an operation either  *)
(* saves, or fails and restores the map.                                   *)
(***************************************************************************)
EXTENDS Naturals, FiniteSets

CONSTANTS
    Devices,     \* device identities
    MaxDevices   \* records kept, revoked ones included (128)

ASSUME DevicesAssumption == IsFiniteSet(Devices)
ASSUME MaxDevicesAssumption == MaxDevices \in Nat \ {0}

VARIABLES
    devices,     \* the map in memory: the standing of each identity
    disk         \* the same records in devices.json

storeVars == <<devices, disk>>

Standing == {"none", "active", "revoked"}

StoreTypeOK ==
    /\ devices \in [Devices -> Standing]
    /\ disk \in [Devices -> Standing]

StoreInit ==
    /\ devices = [d \in Devices |-> "none"]
    /\ disk = devices

Active(d) == d \in Devices /\ devices[d] = "active"

Recorded == {d \in Devices : devices[d] # "none"}

\* What Add requires besides a successful save: a key never recorded before,
\* not even as a revoked device, and room for one more record.
Addable(d) ==
    /\ devices[d] = "none"
    /\ Cardinality(Recorded) < MaxDevices

Add(d) ==
    /\ Addable(d)
    /\ devices' = [devices EXCEPT ![d] = "active"]
    /\ disk' = devices'

\* Add refuses, or its save fails and the new record is taken out again.
AddUnsaved(d) == UNCHANGED storeVars

\* Revoke succeeds at once on a device already revoked.
Revoke(d) ==
    /\ devices[d] # "none"
    /\ devices' = [devices EXCEPT ![d] = "revoked"]
    /\ disk' = devices'

\* The save fails and the record is put back as it was.
RevokeUnsaved(d) ==
    /\ devices[d] = "active"
    /\ UNCHANGED storeVars

\* A process that starts reads the records back.
OpenDeviceStore ==
    /\ devices' = disk
    /\ UNCHANGED disk
=============================================================================

-------------------------- MODULE StoragePressure --------------------------
(***************************************************************************)
(* The quota arithmetic of the relay's custody store                       *)
(* (StoragePressureContext in core/src/store/relay_custody.rs): how many   *)
(* bytes the store may hold, given the size of the device and what the     *)
(* rest of the device uses.  Pure operators on natural numbers; the code's *)
(* intermediate products are u128 and its sums saturate, so nothing wraps. *)
(***************************************************************************)
EXTENDS Naturals

CONSTANT DeviceTotal        \* total_bytes of the device that holds the store

ASSUME DeviceAssumption == DeviceTotal \in Nat \ {0}

\* u64::saturating_sub and u64::min
Monus(a, b) == IF a > b THEN a - b ELSE 0
Lesser(a, b) == IF a < b THEN a ELSE b

DEVICE_USAGE_CEILING_PERCENT == 90

\* Bytes used by everything but the store, as the filesystem probe's snapshot
\* (elsewhere + scm bytes in use, cut at the total) gives it.
from_snapshot(elsewhere, scm) ==
    Monus(Lesser(elsewhere + scm, DeviceTotal), scm)

\* Percentage of the free bytes the store may use in each band of device
\* usage; the last band is the emergency.
BandPercent(basisPoints) ==
    CASE basisPoints <= 2000 -> 70
      [] basisPoints > 2000 /\ basisPoints <= 5000 -> 45
      [] basisPoints > 5000 /\ basisPoints <= 7000 -> 25
      [] basisPoints > 7000 /\ basisPoints <= 8000 -> 10
      [] basisPoints > 8000 /\ basisPoints <= 9000 -> 3
      [] OTHER -> 0

hard_ceiling_bytes(nonScm) ==
    Monus((DeviceTotal * DEVICE_USAGE_CEILING_PERCENT) \div 100, nonScm)

used_basis_points(nonScm, scm) == ((nonScm + scm) * 10000) \div DeviceTotal

emergency_mode(nonScm, scm) == used_basis_points(nonScm, scm) > 9000

target_quota_bytes(nonScm, scm) ==
    LET free == Monus(DeviceTotal, nonScm + scm)
        dynamic == IF emergency_mode(nonScm, scm)
                   THEN hard_ceiling_bytes(nonScm)
                   ELSE (free * BandPercent(used_basis_points(nonScm, scm))) \div 100
    IN  Lesser(dynamic, hard_ceiling_bytes(nonScm))
=============================================================================

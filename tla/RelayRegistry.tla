--------------------------- MODULE RelayRegistry ---------------------------
(***************************************************************************)
(* The registration registry of a relay (RelayRegistry in                  *)
(* core/src/store/relay_custody.rs): which device of an identity is the    *)
(* one that messages are kept for.  A device registers, hands the identity *)
(* over to another device or abandons it; an active registration not       *)
(* refreshed for 15 days may be taken over, and a handover not completed   *)
(* within 15 days is turned into an abandonment by whoever reads it.       *)
(*                                                                         *)
(* Time is kept as the age of each registration (now - updated_at_ms for   *)
(* Active, now - initiated_at for Handover), which stops growing once it   *)
(* exceeds both windows: the code only compares it with them.              *)
(***************************************************************************)
EXTENDS Naturals

CONSTANTS Identities, Devices,
          NoDevice,          \* None, where an Option<device id> is expected
          TakeoverStale,     \* REGISTRATION_STALE_TAKEOVER_MS
          CollapseStale,     \* HANDOVER_STALE_COLLAPSE_MS
          Readers            \* identities whose state the app also queries

ASSUME RegistryAssumption ==
    /\ NoDevice \notin Devices
    /\ TakeoverStale \in Nat
    /\ CollapseStale \in Nat
    /\ Readers \subseteq Identities

VARIABLES
    regs,       \* the persisted registration record of each identity
    reader,     \* what a query on an application thread is about to write back
    owner       \* history: the last device that registered, whether it let go

regVars == <<regs, reader, owner>>

AgeCap == 1 + (IF TakeoverStale > CollapseStale THEN TakeoverStale ELSE CollapseStale)

Registrations == [kind: {"None", "Active", "Handover", "Abandoned"},
                  dev: Devices \cup {NoDevice},    \* from_device_id of a Handover
                  to: Devices \cup {NoDevice},
                  age: 0..AgeCap]

Registration(kind, dev, to) == [kind |-> kind, dev |-> dev, to |-> to, age |-> 0]

Effects == [kind: {"none", "migrate", "purge"},
            from: Devices \cup {NoDevice},         \* NoDevice: every device
            to: Devices \cup {NoDevice}]

Effect(kind, from, to) == [kind |-> kind, from |-> from, to |-> to]
NoEffect == Effect("none", NoDevice, NoDevice)

\* A registration names its device, and a handover, alone, another device to go to.
RegTypeOK ==
    /\ regs \in [Identities -> Registrations]
    /\ \A i \in Identities :
        /\ regs[i].kind # "None" => regs[i].dev \in Devices
        /\ regs[i].kind = "Handover" <=> regs[i].to \in Devices \ {regs[i].dev}
    /\ reader \in [Identities -> Devices \cup {NoDevice}]
    /\ owner \in [Identities -> [dev: Devices \cup {NoDevice}, freed: BOOLEAN]]

RegInit ==
    /\ regs = [i \in Identities |-> Registration("None", NoDevice, NoDevice)]
    /\ reader = [i \in Identities |-> NoDevice]
    /\ owner = [i \in Identities |-> [dev |-> NoDevice, freed |-> TRUE]]
-----------------------------------------------------------------------------
StaleHandover(reg) == reg.kind = "Handover" /\ reg.age > CollapseStale

\* Every read of a registration goes through get_record_by_identity_id, which
\* persists the collapse of a stale handover; nothing is purged with it.
get_record_by_identity_id(reg) ==
    IF StaleHandover(reg) THEN Registration("Abandoned", reg.dev, NoDevice) ELSE reg

\* Defect: >= for > in the takeover window, any device completes a handover.
register_allowed_MUT(reg, d) ==
    reg.kind = "Active" => reg.dev = d \/ reg.age >= TakeoverStale

\* register succeeds: first registration, refresh, stale takeover, handover
\* completed by its target, or reactivation.
register_allowed(reg, d) ==
    \/ reg.kind \in {"None", "Abandoned"}
    \/ reg.kind = "Active" /\ (reg.dev = d \/ reg.age > TakeoverStale)
    \/ reg.kind = "Handover" /\ reg.to = d

\* A takeover purges what is queued for the device it displaces.
register_effect(reg, d) ==
    IF reg.kind = "Active" /\ reg.dev # d THEN Effect("purge", reg.dev, NoDevice)
    ELSE NoEffect

\* Defect: the caller is not compared with the registered device.
deregister_allowed_MUT(reg, from, target) == target # from /\ reg.kind # "None"

deregister_allowed(reg, from, target) ==
    /\ target # from
    /\ reg.dev = from
    /\ \/ reg.kind \in {"Active", "Abandoned"}
       \/ reg.kind = "Handover" /\ reg.to = target

\* Defect: a deregistration without a target starts a handover.
deregister_state_MUT(reg, from, target) ==
    IF reg.kind = "Active" THEN Registration("Handover", from, target) ELSE reg

\* Reaffirming a handover keeps initiated_at; reaffirming an abandonment
\* ignores the target.
deregister_state(reg, from, target) ==
    IF reg.kind # "Active" THEN reg
    ELSE IF target # NoDevice THEN Registration("Handover", from, target)
    ELSE Registration("Abandoned", from, NoDevice)

deregister_effect(reg, from, target) ==
    IF reg.kind # "Active" THEN NoEffect
    ELSE IF target # NoDevice THEN Effect("migrate", from, target)
    ELSE Effect("purge", NoDevice, NoDevice)

\* enforce_custody: may a message for device d of this identity be kept, and
\* against which device does resolve_custody_metadata then store it?
enforce_custody(reg, d) ==
    \/ reg.kind = "Active" /\ reg.dev = d
    \/ reg.kind = "Handover" /\ d \in {reg.dev, reg.to}

enforced_device(reg, d) == IF reg.kind = "Handover" THEN reg.to ELSE d
-----------------------------------------------------------------------------
\* The registration record that the swarm's handlers see for i.
Current(i) == get_record_by_identity_id(regs[i])

\* A refused request has still read, hence collapsed, the record.
Refused(i) ==
    /\ regs' = [regs EXCEPT ![i] = Current(i)]
    /\ UNCHANGED <<reader, owner>>

register(i, d) ==
    /\ register_allowed(Current(i), d)
    /\ regs' = [regs EXCEPT ![i] = Registration("Active", d, NoDevice)]
    /\ owner' = [owner EXCEPT ![i] = [dev |-> d, freed |-> FALSE]]

deregister(i, from, target) ==
    /\ deregister_allowed(Current(i), from, target)
    /\ regs' = [regs EXCEPT ![i] = deregister_state(Current(i), from, target)]
    /\ owner' = [owner EXCEPT ![i].freed = @ \/ from = owner[i].dev]

\* get_registration_state called by the app: the read and the write of the
\* collapsed record are two steps, on a thread that the swarm does not wait for.
LookupRead(i) ==
    /\ i \in Readers
    /\ reader[i] = NoDevice
    /\ StaleHandover(regs[i])
    /\ reader' = [reader EXCEPT ![i] = regs[i].dev]
    /\ UNCHANGED <<regs, owner>>

LookupCollapse(i) ==
    /\ reader[i] # NoDevice
    /\ regs' = [regs EXCEPT ![i] = Registration("Abandoned", reader[i], NoDevice)]
    /\ reader' = [reader EXCEPT ![i] = NoDevice]
    /\ UNCHANGED owner

\* Time passes for the registrations whose age is ever compared.
Ages(reg) == reg.kind \in {"Active", "Handover"} /\ reg.age < AgeCap

Tick ==
    /\ \E i \in Identities : Ages(regs[i])
    /\ regs' = [i \in Identities |->
                    IF Ages(regs[i]) THEN [regs[i] EXCEPT !.age = @ + 1] ELSE regs[i]]
    /\ UNCHANGED <<reader, owner>>

RegNext ==
    \/ \E i \in Identities, d \in Devices : register(i, d) /\ UNCHANGED reader
    \/ \E i \in Identities, d \in Devices, t \in Devices \cup {NoDevice} :
            deregister(i, d, t) /\ UNCHANGED reader
    \/ \E i \in Identities : StaleHandover(regs[i]) /\ Refused(i)
    \/ \E i \in Identities : LookupRead(i)
    \/ \E i \in Identities : LookupCollapse(i)
    \/ Tick

RegSpec == RegInit /\ [][RegNext]_regVars
-----------------------------------------------------------------------------
\* Which steps may give identity i another owner: its device has let go of it
\* (by a handover or an abandonment) or has been silent for the takeover window.
PassesByConsent(i) ==
    owner'[i].dev # owner[i].dev => owner[i].freed \/ regs[i].age > TakeoverStale

\* An identity nobody queries from an application thread passes from one device
\* to another only with the consent of the device that holds it, or after that
\* device's silence: no sequence of register, deregister, refused requests and
\* stale-handover collapses takes it from a device that refreshes in time.
IdentityPassesByConsent ==
    [][\A i \in Identities \ Readers : PassesByConsent(i)]_regVars

\* The same, for every identity: a query of the registration state, which only
\* means to collapse a stale handover, never dislodges an active device.
LookupNeverDislodges == [][\A i \in Identities : PassesByConsent(i)]_regVars

\* What makes it inductive: an active registration is the owner's, and a
\* registration leaves Active only after the owner let go; only identities in
\* Readers have a query in progress.
OwnerHolds ==
    /\ \A i \in Identities \ Readers :
        /\ regs[i].kind = "None" => owner[i].freed
        /\ regs[i].kind = "Active" => owner[i].dev = regs[i].dev
        /\ regs[i].kind \in {"Handover", "Abandoned"} => owner[i].freed
    /\ \A i \in Identities \ Readers : reader[i] = NoDevice
=============================================================================

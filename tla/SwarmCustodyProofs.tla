------------------------- MODULE SwarmCustodyProofs -------------------------
(***************************************************************************)
(* Proofs about a relay and its two stores, for every set of messages,     *)
(* destinations, identities and devices, every limit, every verdict of the *)
(* storage policy and any number of crashes: the registry, what the        *)
(* operations of the custody store preserve, what every step of SwarmRelay *)
(* does to the store, and what the relay promises about the messages in    *)
(* its custody: that none is lost, that what it logs, answers and          *)
(* publishes of them is true, and that it implements CustodyContract.      *)
(***************************************************************************)
EXTENDS SwarmContract, TLAPS

\* The bound on ages is a natural number that exceeds both windows.
LEMMA AgeCapType == AgeCap \in Nat /\ AgeCap > TakeoverStale /\ AgeCap > CollapseStale
BY RegistryAssumption DEF AgeCap

\* A registration written by the registry is well typed.
LEMMA RegistrationType ==
    ASSUME NEW k \in {"None", "Active", "Handover", "Abandoned"},
           NEW d \in Devices \cup {NoDevice}, NEW t \in Devices \cup {NoDevice}
    PROVE  Registration(k, d, t) \in Registrations
BY AgeCapType DEF Registration, Registrations

\* The part of the type invariant that concerns one registration.
WellFormed(reg) ==
    /\ reg \in Registrations
    /\ reg.kind # "None" => reg.dev \in Devices
    /\ reg.kind = "Handover" <=> reg.to \in Devices \ {reg.dev}

\* What a reader sees is well formed if what is stored is.
LEMMA CurrentWellFormed ==
    ASSUME NEW reg, WellFormed(reg)
    PROVE  WellFormed(get_record_by_identity_id(reg))
<1>1. CASE StaleHandover(reg)
  BY RegistrationType, RegistryAssumption DEF WellFormed, StaleHandover, get_record_by_identity_id,
     Registration
<1>2. CASE ~StaleHandover(reg)
  BY <1>2 DEF get_record_by_identity_id
<1> QED BY <1>1, <1>2

\* The state that a deregistration leaves is well formed.
LEMMA DeregisterWellFormed ==
    ASSUME NEW reg, WellFormed(reg), NEW f \in Devices, NEW t \in Devices \cup {NoDevice},
           deregister_allowed(reg, f, t)
    PROVE  WellFormed(deregister_state(reg, f, t))
<1>1. CASE reg.kind # "Active"
  BY <1>1 DEF deregister_state
<1>2. CASE reg.kind = "Active" /\ t # NoDevice
  BY RegistrationType, <1>2 DEF deregister_state, WellFormed, Registration, deregister_allowed
<1>3. CASE reg.kind = "Active" /\ t = NoDevice
  BY RegistrationType, <1>3, RegistryAssumption DEF deregister_state, WellFormed, Registration
<1> QED BY <1>1, <1>2, <1>3

\* RegTypeOK, restated with WellFormed.
LEMMA TypeRestated ==
    RegTypeOK <=> /\ regs \in [Identities -> Registrations]
                  /\ \A i \in Identities : WellFormed(regs[i])
                  /\ reader \in [Identities -> Devices \cup {NoDevice}]
                  /\ owner \in [Identities -> [dev: Devices \cup {NoDevice}, freed: BOOLEAN]]
BY DEF RegTypeOK, WellFormed
-----------------------------------------------------------------------------
\* Writing one registration, well formed, and at most the rest of the registry's
\* variables within their types, keeps the type invariant.
LEMMA WriteKeepsType ==
    ASSUME RegTypeOK, NEW i \in Identities, NEW reg, WellFormed(reg),
           regs' = [regs EXCEPT ![i] = reg],
           reader' \in [Identities -> Devices \cup {NoDevice}],
           owner' \in [Identities -> [dev: Devices \cup {NoDevice}, freed: BOOLEAN]]
    PROVE  RegTypeOK'
<1>1. reg \in Registrations
  BY DEF WellFormed
<1>2. regs' \in [Identities -> Registrations]
  BY <1>1 DEF RegTypeOK
<1> QED BY <1>2 DEF RegTypeOK, WellFormed

\* What is stored, and what a handler reads, is well formed.
LEMMA CurrentType ==
    ASSUME RegTypeOK, NEW i \in Identities
    PROVE  WellFormed(Current(i)) /\ WellFormed(regs[i])
BY TypeRestated, CurrentWellFormed DEF Current

\* A registration keeps the types.
LEMMA RegisterType ==
    ASSUME RegTypeOK, NEW i \in Identities, NEW d \in Devices, register(i, d),
           reader' \in [Identities -> Devices \cup {NoDevice}]
    PROVE  RegTypeOK'
<1>1. WellFormed(Registration("Active", d, NoDevice))
  BY RegistrationType, RegistryAssumption DEF WellFormed, Registration
<1>2. owner' \in [Identities -> [dev: Devices \cup {NoDevice}, freed: BOOLEAN]]
  BY Zenon DEF RegTypeOK, register
<1> QED BY <1>1, <1>2, WriteKeepsType, Zenon DEF register

\* A deregistration keeps the types.
LEMMA DeregisterType ==
    ASSUME RegTypeOK, NEW i \in Identities, NEW d \in Devices,
           NEW t \in Devices \cup {NoDevice}, deregister(i, d, t),
           reader' \in [Identities -> Devices \cup {NoDevice}]
    PROVE  RegTypeOK'
<1>1. WellFormed(deregister_state(Current(i), d, t))
  BY CurrentType, DeregisterWellFormed DEF deregister
<1>2. owner' \in [Identities -> [dev: Devices \cup {NoDevice}, freed: BOOLEAN]]
  <2> DEFINE own == [owner[i] EXCEPT !.freed = @ \/ d = owner[i].dev]
  <2>1. owner \in [Identities -> [dev: Devices \cup {NoDevice}, freed: BOOLEAN]]
    BY DEF RegTypeOK
  <2>2. owner[i] \in [dev: Devices \cup {NoDevice}, freed: BOOLEAN]
    BY <2>1
  <2>3. own \in [dev: Devices \cup {NoDevice}, freed: BOOLEAN]
    BY <2>2, Zenon
  <2>4. owner' = [owner EXCEPT ![i] = own]
    BY Zenon DEF deregister
  <2> HIDE DEF own
  <2> QED BY <2>1, <2>3, <2>4
<1> QED BY <1>1, <1>2, WriteKeepsType, Zenon DEF deregister

\* A refused request keeps the types.
LEMMA RefusedType ==
    ASSUME RegTypeOK, NEW i \in Identities, Refused(i)
    PROVE  RegTypeOK'
BY CurrentType, WriteKeepsType, Zenon DEF Refused, RegTypeOK

\* A query from an application thread keeps the types.
LEMMA LookupType ==
    ASSUME RegTypeOK, NEW i \in Identities, LookupRead(i) \/ LookupCollapse(i)
    PROVE  RegTypeOK'
<1>1. CASE LookupRead(i)
  BY <1>1 DEF WellFormed, Registrations, LookupRead, RegTypeOK
<1>2. CASE LookupCollapse(i)
  <2>1. reader[i] \in Devices
    BY <1>2 DEF LookupCollapse, RegTypeOK
  <2>2. Registration("Abandoned", reader[i], NoDevice) \in Registrations
    BY <2>1, RegistrationType
  <2>3. WellFormed(Registration("Abandoned", reader[i], NoDevice))
    BY <2>1, <2>2, RegistryAssumption DEF WellFormed, Registration
  <2>4. reader' \in [Identities -> Devices \cup {NoDevice}]
    BY <1>2, Zenon DEF LookupCollapse, RegTypeOK
  <2>5. owner' \in [Identities -> [dev: Devices \cup {NoDevice}, freed: BOOLEAN]]
    BY <1>2 DEF LookupCollapse, RegTypeOK
  <2> QED BY <1>2, <2>3, <2>4, <2>5, WriteKeepsType, Zenon DEF LookupCollapse
<1> QED BY <1>1, <1>2

\* The passage of time keeps the types.
LEMMA TickType ==
    ASSUME RegTypeOK, Tick
    PROVE  RegTypeOK'
<1>1. ASSUME NEW i \in Identities
      PROVE  WellFormed(regs'[i])
  BY CurrentType, AgeCapType DEF Tick, Ages, WellFormed, Registrations
<1>2. regs' \in [Identities -> Registrations]
  BY <1>1 DEF Tick, WellFormed
<1> QED BY <1>2 DEF Tick, RegTypeOK, WellFormed

\* The type invariant of the registry: a registration other than None names its
\* device, and exactly a handover names another device to go to.
THEOREM RegTyping == RegSpec => []RegTypeOK
<1>1. RegInit => RegTypeOK
  BY RegistrationType, RegistryAssumption DEF RegInit, RegTypeOK, Registration
<1>2. RegTypeOK /\ [RegNext]_regVars => RegTypeOK'
  <2> SUFFICES ASSUME RegTypeOK, [RegNext]_regVars PROVE RegTypeOK'
    OBVIOUS
  <2>1. reader \in [Identities -> Devices \cup {NoDevice}]
    BY DEF RegTypeOK
  <2>2. ASSUME NEW i \in Identities, NEW d \in Devices, register(i, d), UNCHANGED reader
        PROVE  RegTypeOK'
    BY <2>1, <2>2, RegisterType
  <2>3. ASSUME NEW i \in Identities, NEW d \in Devices, NEW t \in Devices \cup {NoDevice},
               deregister(i, d, t), UNCHANGED reader
        PROVE  RegTypeOK'
    BY <2>1, <2>3, DeregisterType
  <2>4. ASSUME NEW i \in Identities, Refused(i) PROVE RegTypeOK'
    BY <2>4, RefusedType
  <2>5. ASSUME NEW i \in Identities, LookupRead(i) \/ LookupCollapse(i) PROVE RegTypeOK'
    BY <2>5, LookupType
  <2>6. CASE Tick
    BY <2>6, TickType
  <2>7. CASE UNCHANGED regVars
    BY <2>7, Zenon DEF RegTypeOK, regVars
  <2> QED BY <2>2, <2>3, <2>4, <2>5, <2>6, <2>7 DEF RegNext
<1> QED BY <1>1, <1>2, PTL DEF RegSpec
-----------------------------------------------------------------------------
\* OwnerHolds, for one identity.
Holds(i) ==
    /\ regs[i].kind = "None" => owner[i].freed
    /\ regs[i].kind = "Active" => owner[i].dev = regs[i].dev
    /\ regs[i].kind \in {"Handover", "Abandoned"} => owner[i].freed
    /\ reader[i] = NoDevice

\* Collapsing a stale handover on read does not disturb what OwnerHolds says.
LEMMA CollapseHolds ==
    ASSUME NEW i \in Identities, Holds(i)
    PROVE  /\ Current(i).kind = "None" => owner[i].freed
           /\ Current(i).kind = "Active" => Current(i) = regs[i] /\ owner[i].dev = regs[i].dev
           /\ Current(i).kind \in {"Handover", "Abandoned"} => owner[i].freed
BY Zenon DEF Holds, Current, get_record_by_identity_id, StaleHandover, Registration

\* A step that writes the registration of another identity leaves Holds(j) alone.
LEMMA OthersHold ==
    ASSUME NEW i \in Identities, NEW j \in Identities, i # j, RegTypeOK, Holds(j),
           NEW reg, regs' = [regs EXCEPT ![i] = reg],
           owner'[j] = owner[j], reader'[j] = reader[j]
    PROVE  Holds(j)'
BY Zenon DEF Holds, RegTypeOK

\* A registration keeps Holds: the new owner is the registered device.
LEMMA RegisterHolds ==
    ASSUME RegTypeOK, NEW i \in Identities, NEW d \in Devices, register(i, d), UNCHANGED reader,
           NEW j \in Identities, Holds(j)
    PROVE  Holds(j)'
<1>1. CASE i = j
  BY DEF register, Registration, RegTypeOK, Holds
<1>2. CASE i # j
  <2>1. owner'[j] = owner[j]
    BY <1>2, Zenon DEF register, RegTypeOK
  <2> QED BY <1>2, <2>1, OthersHold, Zenon DEF register
<1> QED BY <1>1, <1>2

\* A deregistration keeps Holds: only the owner can make it leave Active.
LEMMA DeregisterHolds ==
    ASSUME RegTypeOK, NEW i \in Identities, NEW d \in Devices, NEW t \in Devices \cup {NoDevice},
           deregister(i, d, t), UNCHANGED reader, NEW j \in Identities, Holds(j)
    PROVE  Holds(j)'
<1>1. CASE i = j
  <2>1. regs'[i] = deregister_state(Current(i), d, t)
    BY DEF deregister, RegTypeOK
  <2>2. /\ owner'[i].dev = owner[i].dev
        /\ owner'[i].freed <=> owner[i].freed \/ d = owner[i].dev
    <3>1. owner'[i] = [owner[i] EXCEPT !.freed = @ \/ d = owner[i].dev]
      BY Zenon DEF deregister, RegTypeOK
    <3>2. owner[i] \in [dev: Devices \cup {NoDevice}, freed: BOOLEAN]
      BY Zenon DEF RegTypeOK
    <3> QED BY <3>1, <3>2, Zenon
  <2>3. Current(i).dev = d
    BY DEF deregister, deregister_allowed
  <2>4. CASE Current(i).kind = "Active"
    BY <1>1, <2>2, <2>3, CollapseHolds, <2>1 DEF deregister_state, Registration, Holds
  <2>5. CASE Current(i).kind # "Active"
    BY <2>5, <2>2, CollapseHolds DEF deregister_state, deregister, deregister_allowed, Holds
  <2> QED BY <2>4, <2>5, Zenon
<1>2. CASE i # j
  <2>1. owner'[j] = owner[j]
    BY <1>2, Zenon DEF deregister, RegTypeOK
  <2> QED BY <1>2, <2>1, OthersHold, Zenon DEF deregister
<1> QED BY <1>1, <1>2, Zenon

\* A refused request keeps Holds.
LEMMA RefusedHolds ==
    ASSUME RegTypeOK, NEW i \in Identities, Refused(i), NEW j \in Identities, Holds(j)
    PROVE  Holds(j)'
<1>1. CASE i = j
  BY CollapseHolds DEF Refused, RegTypeOK, Holds
<1>2. CASE i # j
  BY <1>2, OthersHold, Zenon DEF Refused
<1> QED BY <1>1, <1>2

\* A query keeps Holds for the identities that are not queried.
LEMMA LookupHolds ==
    ASSUME RegTypeOK, NEW i \in Identities, LookupRead(i) \/ LookupCollapse(i),
           NEW j \in Identities \ Readers, Holds(j)
    PROVE  Holds(j)'
<1>1. CASE LookupRead(i)
  BY <1>1, Zenon DEF LookupRead, Holds, RegTypeOK
<1>2. CASE LookupCollapse(i)
  BY <1>2, Zenon DEF LookupCollapse, Holds, RegTypeOK
<1> QED BY <1>1, <1>2, Zenon

\* Time passing keeps Holds.
LEMMA TickHolds ==
    ASSUME RegTypeOK, Tick, NEW j \in Identities, Holds(j)
    PROVE  Holds(j)'
<1> QED BY DEF Tick, Holds

\* OwnerHolds is an invariant: whoever the registry calls active is the device
\* that registered last, and a registration leaves Active only when its own
\* device says so.
THEOREM Ownership == RegSpec => []OwnerHolds
<1>1. RegInit => OwnerHolds
  BY DEF RegInit, OwnerHolds, Registration
<1>2. RegTypeOK /\ OwnerHolds /\ [RegNext]_regVars => OwnerHolds'
  <2> SUFFICES ASSUME RegTypeOK, OwnerHolds, [RegNext]_regVars,
                      NEW j \in Identities \ Readers
               PROVE  Holds(j)'
    BY Zenon DEF OwnerHolds, Holds
  <2>1. Holds(j)
    BY Zenon DEF OwnerHolds, Holds
  <2>2. ASSUME NEW i \in Identities, NEW d \in Devices, register(i, d), UNCHANGED reader
        PROVE  Holds(j)'
    BY <2>1, <2>2, RegisterHolds
  <2>3. ASSUME NEW i \in Identities, NEW d \in Devices, NEW t \in Devices \cup {NoDevice},
               deregister(i, d, t), UNCHANGED reader
        PROVE  Holds(j)'
    BY <2>1, <2>3, DeregisterHolds, Zenon
  <2>4. ASSUME NEW i \in Identities, Refused(i) PROVE Holds(j)'
    BY <2>1, <2>4, RefusedHolds, Zenon
  <2>5. ASSUME NEW i \in Identities, LookupRead(i) \/ LookupCollapse(i) PROVE Holds(j)'
    BY <2>1, <2>5, LookupHolds
  <2>6. CASE Tick
    BY <2>1, <2>6, TickHolds, Zenon
  <2>7. CASE UNCHANGED regVars
    BY <2>1, <2>7, Zenon DEF Holds, regVars
  <2> QED BY <2>2, <2>3, <2>4, <2>5, <2>6, <2>7, Zenon DEF RegNext
<1> QED BY <1>1, <1>2, RegTyping, PTL DEF RegSpec

\* No sequence of requests takes an identity from a device that neither let go
\* of it nor stayed silent beyond the takeover window.
THEOREM Consent == RegSpec => IdentityPassesByConsent
<1>1. RegTypeOK /\ OwnerHolds /\ [RegNext]_regVars
        => [\A i \in Identities \ Readers : PassesByConsent(i)]_regVars
  <2> SUFFICES ASSUME RegTypeOK, OwnerHolds, RegNext, NEW j \in Identities \ Readers,
                      owner'[j].dev # owner[j].dev
               PROVE  owner[j].freed \/ regs[j].age > TakeoverStale
    BY Zenon DEF PassesByConsent
  <2>1. Holds(j)
    BY Zenon DEF OwnerHolds, Holds
  <2>2. ASSUME NEW i \in Identities, NEW d \in Devices, register(i, d)
        PROVE  owner[j].freed \/ regs[j].age > TakeoverStale
    BY <2>2, <2>1, CollapseHolds DEF register, RegTypeOK, register_allowed
  <2>3. ASSUME NEW i \in Identities, NEW d \in Devices, NEW t \in Devices \cup {NoDevice},
               deregister(i, d, t)
        PROVE  FALSE
    BY <2>3 DEF deregister, RegTypeOK
  <2>4. ASSUME NEW i \in Identities, Refused(i) \/ LookupRead(i) \/ LookupCollapse(i) \/ Tick
        PROVE  FALSE
    BY <2>4, Zenon DEF Refused, LookupRead, LookupCollapse, Tick
  <2> QED BY <2>2, <2>3, <2>4, Zenon DEF RegNext
<1> QED BY <1>1, RegTyping, Ownership, PTL DEF RegSpec, IdentityPassesByConsent
-----------------------------------------------------------------------------
\* Store t may follow store s without a new message being taken: records are
\* only removed, keep what identifies them, and are removed with a log entry.
Follows(s, t) ==
    /\ DOMAIN t.recs \subseteq DOMAIN s.recs
    /\ \A c \in DOMAIN t.recs :
        /\ t.recs[c].dest = s.recs[c].dest
        /\ t.recs[c].msg = s.recs[c].msg
        /\ t.recs[c].ident = s.recs[c].ident
    /\ s.closed \subseteq t.closed
    /\ \A c \in DOMAIN s.recs \ DOMAIN t.recs : \E e \in t.closed : e.id = c

\* ... and the records that stay are kept for the same device
SameDevices(s, t) == \A c \in DOMAIN t.recs : t.recs[c].dev = s.recs[c].dev

\* ... or are not changed at all
SameRecords(s, t) == \A c \in DOMAIN t.recs : t.recs[c] = s.recs[c]

\* Nothing happening is a special case.
LEMMA FollowsReflexive ==
    ASSUME NEW s
    PROVE  Follows(s, s) /\ SameDevices(s, s) /\ SameRecords(s, s)
BY Zenon DEF Follows, SameDevices, SameRecords

\* Handlers call several operations in a row.
LEMMA FollowsTransitive ==
    ASSUME NEW s, NEW t, NEW u, Follows(s, t), Follows(t, u)
    PROVE  /\ Follows(s, u)
           /\ SameDevices(s, t) /\ SameDevices(t, u) => SameDevices(s, u)
           /\ SameRecords(s, t) /\ SameRecords(t, u) => SameRecords(s, u)
<1> QED BY DEF Follows, SameDevices, SameRecords
-----------------------------------------------------------------------------
\* Removing records, each logged first, however far the removal gets.
LEMMA CloseCutFollows ==
    ASSUME NEW s, StoreTypeOK(s), NEW C, C \subseteq DOMAIN s.recs, NEW L,
           NEW how \in {"delivered", "purged"}
    PROVE  LET t == CloseCut(s, C, L, how)
           IN  StoreTypeOK(t) /\ Follows(s, t) /\ SameDevices(s, t) /\ SameRecords(s, t)
<1> DEFINE t == CloseCut(s, C, L, how)
<1>1. /\ t.recs = [x \in DOMAIN s.recs \ (C \ L) |-> s.recs[x]]
      /\ t.closed = s.closed \cup Closing(s, C, how)
      /\ t = [recs |-> t.recs, closed |-> t.closed]
  BY Zenon DEF CloseCut
<1>2. DOMAIN t.recs = DOMAIN s.recs \ (C \ L) /\ \A x \in DOMAIN t.recs : t.recs[x] = s.recs[x]
  BY <1>1, Zenon
<1>3. Closing(s, C, how) \subseteq Closings
  BY DEF StoreTypeOK, Closings, CustodyRecords, Closing
<1>4. ASSUME NEW c \in C
      PROVE  \E e \in t.closed : e.id = c
  <2> DEFINE e == [id |-> c, dest |-> s.recs[c].dest, msg |-> s.recs[c].msg, how |-> how]
  <2>1. e \in Closing(s, C, how)
    BY Zenon DEF Closing
  <2>2. e \in t.closed /\ e.id = c
    BY <1>1, <2>1, Zenon
  <2> QED BY <2>2, Zenon
<1> HIDE DEF t
<1>5. StoreTypeOK(t)
  BY <1>1, <1>3, Zenon DEF StoreTypeOK
<1>6. Follows(s, t)
  BY <1>1, <1>4 DEF Follows
<1>7. SameDevices(s, t) /\ SameRecords(s, t)
  BY <1>2 DEF SameDevices, SameRecords
<1> QED BY <1>5, <1>6, <1>7, Zenon DEF t

\* Removing all of them.
LEMMA CloseFollows ==
    ASSUME NEW s, StoreTypeOK(s), NEW C, C \subseteq DOMAIN s.recs,
           NEW how \in {"delivered", "purged"}
    PROVE  LET t == Close(s, C, how)
           IN  /\ StoreTypeOK(t) /\ Follows(s, t) /\ SameDevices(s, t) /\ SameRecords(s, t)
               /\ DOMAIN t.recs = DOMAIN s.recs \ C
BY CloseCutFollows, ZenonT(30) DEF Close, CloseCut

\* Delivery, reported by the destination or by a marker.
LEMMA DeliveredFollows ==
    ASSUME NEW s, StoreTypeOK(s), NEW C
    PROVE  LET t == mark_delivered(s, C)
           IN  StoreTypeOK(t) /\ Follows(s, t) /\ SameDevices(s, t) /\ SameRecords(s, t)
BY CloseFollows DEF mark_delivered

\* ... and delivery of whatever is held of a message.
LEMMA ConvergeFollows ==
    ASSUME NEW s, StoreTypeOK(s), NEW d, NEW m
    PROVE  LET t == converge_delivered_for_message(s, d, m)
           IN  StoreTypeOK(t) /\ Follows(s, t) /\ SameDevices(s, t) /\ SameRecords(s, t)
<1>1. RecordsOf(s, d, m) \subseteq DOMAIN s.recs
  BY DEF RecordsOf
<1> QED BY <1>1, CloseFollows, Zenon DEF converge_delivered_for_message

\* Changing some fields of some records, as the following operations do.
LEMMA UpdateFollows ==
    ASSUME NEW s, StoreTypeOK(s), NEW f \in [DOMAIN s.recs -> CustodyRecords],
           \A c \in DOMAIN s.recs : /\ f[c].dest = s.recs[c].dest
                                    /\ f[c].msg = s.recs[c].msg
                                    /\ f[c].ident = s.recs[c].ident
    PROVE  LET t == [s EXCEPT !.recs = f]
           IN  StoreTypeOK(t) /\ Follows(s, t) /\ t.recs = f /\ t.closed = s.closed
<1> DEFINE t == [s EXCEPT !.recs = f]
<1>1. t = [recs |-> f, closed |-> s.closed]
  BY DEF StoreTypeOK
<1>2. t.recs = f /\ t.closed = s.closed /\ t = [recs |-> t.recs, closed |-> t.closed]
  BY <1>1
<1> HIDE DEF t
<1>3. StoreTypeOK(t)
  BY <1>2, Zenon DEF StoreTypeOK
<1>4. Follows(s, t)
  BY <1>2, Zenon DEF Follows
<1> QED BY <1>3, <1>4 DEF t

\* Dispatching records that are below the attempt limit.
LEMMA DispatchingFollows ==
    ASSUME NEW s, StoreTypeOK(s), NEW C, \A c \in C : c \in DOMAIN s.recs /\ can_dispatch(s, c)
    PROVE  LET t == mark_dispatching(s, C)
           IN  StoreTypeOK(t) /\ Follows(s, t) /\ SameDevices(s, t) /\ DOMAIN t.recs = DOMAIN s.recs
<1> DEFINE f == [x \in DOMAIN s.recs |->
                    IF x \in C THEN [s.recs[x] EXCEPT !.state = "Dispatching", !.attempts = @ + 1]
                    ELSE s.recs[x]]
<1>1. ASSUME NEW x \in DOMAIN s.recs
      PROVE  /\ f[x] \in CustodyRecords
             /\ f[x].dest = s.recs[x].dest /\ f[x].msg = s.recs[x].msg
             /\ f[x].ident = s.recs[x].ident /\ f[x].dev = s.recs[x].dev
  <2>1. s.recs[x] \in CustodyRecords
    BY DEF StoreTypeOK
  <2>2. CASE x \in C
    <3>1. s.recs[x].attempts + 1 \in 0..MaxAttempts
      BY <2>1, <2>2, StoreAssumption DEF can_dispatch, CustodyRecords
    <3> QED BY <2>1, <3>1, Zenon DEF CustodyRecords
  <2>3. CASE x \notin C
    BY <2>1, <2>3, ZenonT(30)
  <2> QED BY <2>2, <2>3, Zenon
<1>2. f \in [DOMAIN s.recs -> CustodyRecords]
  BY <1>1, Zenon
<1>3. mark_dispatching(s, C) = [s EXCEPT !.recs = f]
  BY DEF mark_dispatching
<1> HIDE DEF f
<1> QED BY <1>1, <1>2, <1>3, UpdateFollows DEF SameDevices

\* Returning records to the queue.
LEMMA FailedFollows ==
    ASSUME NEW s, StoreTypeOK(s), NEW C
    PROVE  LET t == mark_dispatch_failed(s, C)
           IN  StoreTypeOK(t) /\ Follows(s, t) /\ SameDevices(s, t) /\ DOMAIN t.recs = DOMAIN s.recs
<1> DEFINE f == [x \in DOMAIN s.recs |->
                    IF x \in C THEN [s.recs[x] EXCEPT !.state = "Accepted"] ELSE s.recs[x]]
<1>1. ASSUME NEW x \in DOMAIN s.recs
      PROVE  /\ f[x] \in CustodyRecords
             /\ f[x].dest = s.recs[x].dest /\ f[x].msg = s.recs[x].msg
             /\ f[x].ident = s.recs[x].ident /\ f[x].dev = s.recs[x].dev
  <2>1. s.recs[x] \in CustodyRecords
    BY DEF StoreTypeOK
  <2> QED BY <2>1, Zenon DEF CustodyRecords
<1>2. f \in [DOMAIN s.recs -> CustodyRecords]
  BY <1>1, Zenon
<1>3. mark_dispatch_failed(s, C) = [s EXCEPT !.recs = f]
  BY DEF mark_dispatch_failed
<1> HIDE DEF f
<1> QED BY <1>1, <1>2, <1>3, UpdateFollows DEF SameDevices
-----------------------------------------------------------------------------
\* A record of the queue of identity i.
LEMMA IdentityRecordsType ==
    ASSUME NEW s, NEW i, NEW dev
    PROVE  IdentityRecords(s, i, dev) \subseteq DOMAIN s.recs
BY DEF IdentityRecords

\* Migrating records to the target of a handover.
LEMMA MigrateFollows ==
    ASSUME NEW s, StoreTypeOK(s), NEW C, NEW to \in Devices \cup {NoDevice}
    PROVE  LET t == migrate_pending_identity_device(s, C, to)
           IN  /\ StoreTypeOK(t) /\ Follows(s, t) /\ DOMAIN t.recs = DOMAIN s.recs
               /\ \A c \in DOMAIN s.recs : t.recs[c].dev = IF c \in C THEN to ELSE s.recs[c].dev
<1> DEFINE f == [x \in DOMAIN s.recs |->
                    IF x \in C THEN [s.recs[x] EXCEPT !.dev = to] ELSE s.recs[x]]
<1>1. ASSUME NEW x \in DOMAIN s.recs
      PROVE  /\ f[x] \in CustodyRecords
             /\ f[x].dest = s.recs[x].dest /\ f[x].msg = s.recs[x].msg
             /\ f[x].ident = s.recs[x].ident
             /\ f[x].dev = IF x \in C THEN to ELSE s.recs[x].dev
  BY DEF StoreTypeOK, CustodyRecords
<1>2. f \in [DOMAIN s.recs -> CustodyRecords]
  BY <1>1, Zenon
<1>3. migrate_pending_identity_device(s, C, to) = [s EXCEPT !.recs = f]
  BY DEF migrate_pending_identity_device
<1> HIDE DEF f
<1> QED BY <1>1, <1>2, <1>3, UpdateFollows

\* The side effect of a registration change, done or cut by a crash, keeps the
\* types, removes nothing unlogged, and leaves other identities' records alone.
LEMMA SideEffectFollows ==
    ASSUME NEW s, StoreTypeOK(s), NEW i, NEW e \in Effects,
           NEW t \in SideEffectPrefixes(s, i, e) \cup {apply_registry_side_effect(s, i, e)}
    PROVE  /\ StoreTypeOK(t) /\ Follows(s, t)
           /\ \A c \in DOMAIN t.recs : s.recs[c].ident # i => t.recs[c].dev = s.recs[c].dev
<1> DEFINE C == IdentityRecords(s, i, e.from)
<1>0. C \subseteq DOMAIN s.recs /\ \A c \in C : s.recs[c].ident = i
  BY Zenon DEF IdentityRecords
<1> HIDE DEF C
<1>1. CASE e.kind = "migrate"
  <2>1. PICK A \in SUBSET C : t = migrate_pending_identity_device(s, A, e.to)
    BY <1>1, Zenon DEF SideEffectPrefixes, apply_registry_side_effect, C
  <2>2. e.to \in Devices \cup {NoDevice}
    BY Zenon DEF Effects
  <2>3. /\ StoreTypeOK(t) /\ Follows(s, t) /\ DOMAIN t.recs = DOMAIN s.recs
        /\ \A c \in DOMAIN s.recs : t.recs[c].dev = IF c \in A THEN e.to ELSE s.recs[c].dev
    BY <2>1, <2>2, MigrateFollows
  <2>4. ASSUME NEW c \in DOMAIN t.recs, s.recs[c].ident # i
        PROVE  t.recs[c].dev = s.recs[c].dev
    BY <1>0, <2>4, <2>3, Zenon
  <2> QED BY <2>3, <2>4, Zenon
<1>2. CASE e.kind = "purge"
  <2>1. PICK A, L : A \in SUBSET C /\ t = CloseCut(s, A, L, "purged")
    BY <1>2 DEF SideEffectPrefixes, apply_registry_side_effect, ClosePrefixes, Close, C
  <2>2. A \subseteq DOMAIN s.recs
    BY <1>0, <2>1
  <2> QED BY <2>1, <2>2, CloseCutFollows DEF SameDevices
<1>3. CASE e.kind = "none"
  BY <1>3, FollowsReflexive, Zenon DEF SideEffectPrefixes, apply_registry_side_effect
<1> QED BY <1>1, <1>2, <1>3, Zenon DEF Effects

\* After the side effect, the queue of the identity is where the effect says: a
\* migration leaves nothing for the device left, a purge nothing of what it names.
LEMMA SideEffectDone ==
    ASSUME NEW s, StoreTypeOK(s), NEW i, NEW e \in Effects
    PROVE  LET t == apply_registry_side_effect(s, i, e)
           IN  /\ e.kind = "migrate" => \A c \in DOMAIN s.recs : t.recs[c].dev =
                        IF c \in IdentityRecords(s, i, e.from) THEN e.to ELSE s.recs[c].dev
               /\ e.kind = "purge" => DOMAIN t.recs = DOMAIN s.recs \ IdentityRecords(s, i, e.from)
               /\ e.kind # "migrate" => SameDevices(s, t)
<1> DEFINE C == IdentityRecords(s, i, e.from)
<1>0. C \subseteq DOMAIN s.recs
  BY IdentityRecordsType
<1>1. CASE e.kind = "migrate"
  BY <1>1, MigrateFollows DEF Effects, apply_registry_side_effect
<1>2. CASE e.kind = "purge"
  BY <1>0, <1>2, CloseFollows, Zenon DEF apply_registry_side_effect
<1>3. CASE e.kind = "none"
  BY <1>3, FollowsReflexive, Zenon DEF apply_registry_side_effect
<1> QED BY <1>1, <1>2, <1>3, Zenon DEF Effects

\* A new record joins the others.
LEMMA PutType ==
    ASSUME NEW s, StoreTypeOK(s), NEW c \in Nat, NEW rec \in CustodyRecords
    PROVE  LET t == put_message(s, c, rec)
           IN  /\ StoreTypeOK(t) /\ t.closed = s.closed
               /\ DOMAIN t.recs = DOMAIN s.recs \cup {c}
               /\ t.recs[c] = rec
               /\ \A x \in DOMAIN s.recs \ {c} : t.recs[x] = s.recs[x]
<1> DEFINE f == [x \in DOMAIN s.recs \cup {c} |-> IF x = c THEN rec ELSE s.recs[x]]
           t == put_message(s, c, rec)
<1>1. t = [recs |-> f, closed |-> s.closed]
  BY DEF put_message, StoreTypeOK
<1>2. t.recs = f /\ t.closed = s.closed /\ t = [recs |-> t.recs, closed |-> t.closed]
  BY <1>1
<1>3. f \in [DOMAIN s.recs \cup {c} -> CustodyRecords]
  BY Zenon DEF StoreTypeOK
<1>4. /\ DOMAIN f = DOMAIN s.recs \cup {c} /\ f[c] = rec
      /\ \A x \in DOMAIN s.recs \ {c} : f[x] = s.recs[x]
  BY Zenon
<1> HIDE DEF f, t
<1>5. StoreTypeOK(t)
  BY <1>2, <1>3, Zenon DEF StoreTypeOK
<1> QED BY <1>2, <1>4, <1>5, Zenon DEF t

-----------------------------------------------------------------------------
\* A step that takes no new message: records only leave, with a log entry.
Steady ==
    /\ nextId' = nextId
    /\ StoreTypeOK(store')
    /\ Follows(store, store')

\* A step that takes message m for d, after whatever was purged for it (s), and
\* may go on to dispatch it.
TakesFrom(s, rec) ==
    /\ nextId \in 1..MaxCustodyIds
    /\ nextId' = nextId + 1
    /\ RecordsOf(store, rec.dest, rec.msg) = {}
    /\ StoreTypeOK(s) /\ Follows(store, s) /\ SameDevices(store, s)
    /\ rec \in CustodyRecords
    /\ StoreTypeOK(store')
    /\ Follows(put_message(s, nextId, rec), store')
    /\ SameDevices(put_message(s, nextId, rec), store')

Takes == \E s, rec : TakesFrom(s, rec)

\* The requests and answers are well typed.
RequestsOK ==
    /\ dispatches \subseteq Requests
    /\ DOMAIN answers \subseteq Requests
    /\ answers \in [DOMAIN answers -> {"none", "accepted", "rejected"}]
-----------------------------------------------------------------------------
\* What is dispatched was Accepted and below the attempt limit.
LEMMA ServedPending ==
    ASSUME NEW s, NEW ds, NEW n, NEW T \in Served(s, ds, n)
    PROVE  \A c \in T : c \in DOMAIN s.recs /\ s.recs[c].state = "Accepted" /\ can_dispatch(s, c)
<1>1. T \subseteq UNION {Pulled(s, d) : d \in ds}
  BY Zenon DEF Served
<1>2. ASSUME NEW d, NEW c \in Pulled(s, d)
      PROVE  c \in DOMAIN s.recs /\ s.recs[c].state = "Accepted" /\ can_dispatch(s, c)
  BY Zenon DEF Pulled, Oldest, Pending
<1> QED BY <1>1, <1>2, Zenon

\* New requests are well typed.
LEMMA NewRequestsType ==
    ASSUME NEW s, StoreTypeOK(s), NEW T, T \subseteq DOMAIN s.recs
    PROVE  NewRequests(s, T) \subseteq Requests
<1>1. ASSUME NEW c \in T
      PROVE  [id |-> c, attempt |-> s.recs[c].attempts + 1,
              dest |-> s.recs[c].dest, msg |-> s.recs[c].msg] \in Requests
  BY DEF StoreTypeOK, CustodyRecords, Requests
<1> QED BY <1>1, Zenon DEF NewRequests

\* Dispatching changes no more than states and attempts, and tracks requests.
LEMMA DispatchStep ==
    ASSUME NEW s, StoreTypeOK(s), NEW ds, dispatch_pending_custody(s, ds), RequestsOK
    PROVE  /\ StoreTypeOK(store') /\ Follows(s, store') /\ SameDevices(s, store')
           /\ RequestsOK'
<1>1. PICK T \in Served(s, ds, Slots) :
        /\ store' = mark_dispatching(s, T)
        /\ dispatches' = dispatches \cup NewRequests(s, T)
        /\ answers' = [r \in DOMAIN answers \cup NewRequests(s, T) |->
                          IF r \in DOMAIN answers THEN answers[r] ELSE "none"]
  BY Zenon DEF dispatch_pending_custody
<1>2. \A c \in T : c \in DOMAIN s.recs /\ can_dispatch(s, c)
  BY ServedPending, Zenon
<1>3. StoreTypeOK(store') /\ Follows(s, store') /\ SameDevices(s, store')
  BY <1>1, <1>2, DispatchingFollows, Zenon
<1>4. NewRequests(s, T) \subseteq Requests
  BY <1>2, NewRequestsType, Zenon
<1>5. RequestsOK'
  BY <1>1, <1>4 DEF RequestsOK
<1> QED BY <1>3, <1>5, Zenon

\* Forgetting requests keeps their types.
LEMMA SettleType ==
    ASSUME RequestsOK, NEW R, Settle(R)
    PROVE  RequestsOK'
BY DEF RequestsOK, Settle
-----------------------------------------------------------------------------
\* No message is taken, no record changes its device, no registration changes.
Quiet == Steady /\ SameDevices(store, store') /\ UNCHANGED <<regs, orphaned>>

\* A message is taken for a device that its identity's registration allows, with
\* the consent of the storage policy.
TakeStep ==
    /\ UNCHANGED <<regs, orphaned, elsewhere>>
    /\ \E d \in Destinations, m \in Messages, t \in Targets :
        /\ custody_allowed(t[1], t[2])
        /\ Verdict(d, m).ok
        /\ TakesFrom(Unpressed(d, m), NewRecord(d, m, t[1], resolve_custody_metadata(t[1], t[2])))

\* A handler changes a registration, and perhaps the queue with it.
RegistryStep ==
    \/ \E i \in Identities, d \in Devices : RegistrationRegister(i, d) \/ CrashRegistering(i, d)
    \/ \E i \in Identities, d \in Devices, t \in Devices \cup {NoDevice} :
            RegistrationDeregister(i, d, t) \/ CrashDeregistering(i, d, t)
    \/ \E i \in Identities : RegistrationRefused(i) \/ RegistrationQuery(i)
    \/ TimePasses

\* Making room: what the storage policy does not keep is removed and logged.
LEMMA UnpressedFollows ==
    ASSUME StoreTypeOK(store), NEW d, NEW m
    PROVE  LET t == Unpressed(d, m)
           IN  StoreTypeOK(t) /\ Follows(store, t) /\ SameDevices(store, t)
<1> QED BY CloseFollows, Zenon DEF Unpressed

\* A delivery marker removes what it names, and logs it.
LEMMA ConvergedFollows ==
    ASSUME NEW s, StoreTypeOK(s), NEW R, NEW d, NEW m
    PROVE  LET t == Converged(s, R, d, m)
           IN  StoreTypeOK(t) /\ Follows(s, t) /\ SameDevices(s, t)
<1> DEFINE C == Ids({r \in R : r.dest = d /\ r.msg = m})
           u == mark_delivered(s, C)
           t == converge_delivered_for_message(u, d, m)
<1>1. StoreTypeOK(u) /\ Follows(s, u) /\ SameDevices(s, u)
  BY DeliveredFollows, Zenon
<1>2. StoreTypeOK(t) /\ Follows(u, t) /\ SameDevices(u, t)
  <2> HIDE DEF u
  <2> QED BY <1>1, ConvergeFollows, Zenon
<1>3. Follows(s, t) /\ SameDevices(s, t)
  <2> HIDE DEF u, t
  <2> QED BY <1>1, <1>2, FollowsTransitive, Zenon
<1> QED BY <1>2, <1>3, Zenon DEF Converged

\* The record of a request is well typed, and kept for a device of the identity.
LEMMA NewRecordType ==
    ASSUME RegTypeOK, NEW d \in Destinations, NEW m \in Messages, NEW t \in Targets
    PROVE  NewRecord(d, m, t[1], resolve_custody_metadata(t[1], t[2])) \in CustodyRecords
<1>1. t[1] \in Identities \cup {NoIdentity} /\ t[2] \in Devices \cup {NoDevice}
  BY SwarmAssumption, Zenon
<1>2. resolve_custody_metadata(t[1], t[2]) \in Devices \cup {NoDevice}
  BY <1>1, CurrentType, Zenon DEF resolve_custody_metadata, WellFormed, Registrations, enforced_device
<1>3. 0 \in 0..MaxAttempts
  BY StoreAssumption
<1> HIDE DEF resolve_custody_metadata
<1> QED BY <1>1, <1>2, <1>3, Zenon DEF NewRecord, CustodyRecords

\* A message is taken, whatever of it is dispatched in the same handler.
LEMMA TakenStep ==
    ASSUME TypeOK, NEW src, NEW d \in Destinations, NEW m \in Messages, NEW t \in Targets,
           NewCustody(src, d, m, t[1], t[2]), Verdict(d, m).ok, nextId' = nextId + 1,
           StoreTypeOK(Taken(d, m, t[1], t[2])) =>
                StoreTypeOK(store') /\ Follows(Taken(d, m, t[1], t[2]), store')
                    /\ SameDevices(Taken(d, m, t[1], t[2]), store'),
           UNCHANGED <<regs, orphaned, elsewhere>>
    PROVE  TakeStep
<1> DEFINE rec == NewRecord(d, m, t[1], resolve_custody_metadata(t[1], t[2]))
           s == Unpressed(d, m)
<1>1. rec \in CustodyRecords
  BY NewRecordType, Zenon DEF TypeOK
<1>2. StoreTypeOK(s) /\ Follows(store, s) /\ SameDevices(store, s)
  BY UnpressedFollows, Zenon DEF TypeOK
<1>3. nextId \in Nat /\ nextId \in 1..MaxCustodyIds
  BY DEF NewCustody, TypeOK
<1>4. Taken(d, m, t[1], t[2]) = put_message(s, nextId, rec)
  BY Zenon DEF Taken
<1>5. rec.dest = d /\ rec.msg = m
  BY Zenon DEF NewRecord
<1>6. RecordsOf(store, d, m) = {} /\ custody_allowed(t[1], t[2])
  BY Zenon DEF NewCustody, Admitted
<1> HIDE DEF rec, s
<1>7. StoreTypeOK(put_message(s, nextId, rec))
  BY <1>1, <1>2, <1>3, PutType, Zenon
<1>8. TakesFrom(s, rec)
  BY <1>1, <1>2, <1>3, <1>4, <1>5, <1>6, <1>7, Zenon DEF TakesFrom
<1> QED BY <1>6, <1>8, Zenon DEF TakeStep, s, rec
-----------------------------------------------------------------------------
\* The effect of a registration change is well typed.
LEMMA EffectType ==
    ASSUME RegTypeOK, NEW i \in Identities, NEW d \in Devices, NEW t \in Devices \cup {NoDevice}
    PROVE  /\ register_effect(Current(i), d) \in Effects
           /\ deregister_effect(Current(i), d, t) \in Effects
<1>1. Current(i).dev \in Devices \cup {NoDevice}
  BY CurrentType, Zenon DEF WellFormed, Registrations
<1> QED BY <1>1, Zenon DEF register_effect, deregister_effect, NoEffect, Effect, Effects

\* A registration change removes records only with a log entry.
LEMMA RegistrySteady ==
    ASSUME TypeOK, RegistryStep
    PROVE  Steady
<1> USE DEF TypeOK
<1>1. ASSUME NEW i \in Identities, NEW d \in Devices, RegistrationRegister(i, d)
      PROVE  Steady
  BY <1>1, EffectType, SideEffectFollows, Zenon DEF RegistrationRegister, Steady
<1>2. ASSUME NEW i \in Identities, NEW d \in Devices, CrashRegistering(i, d)
      PROVE  Steady
  BY <1>2, EffectType, SideEffectFollows, Zenon DEF CrashRegistering, Restart, Steady
<1>3. ASSUME NEW i \in Identities, NEW d \in Devices, NEW t \in Devices \cup {NoDevice},
             RegistrationDeregister(i, d, t)
      PROVE  Steady
  BY <1>3, EffectType, SideEffectFollows, Zenon DEF RegistrationDeregister, Steady
<1>4. ASSUME NEW i \in Identities, NEW d \in Devices, NEW t \in Devices \cup {NoDevice},
             CrashDeregistering(i, d, t)
      PROVE  Steady
  BY <1>4, EffectType, SideEffectFollows, Zenon DEF CrashDeregistering, Restart, Steady
<1>5. ASSUME NEW i \in Identities, RegistrationRefused(i) \/ RegistrationQuery(i)
      PROVE  Steady
  BY <1>5, FollowsReflexive, Zenon DEF RegistrationRefused, RegistrationQuery, custodyVars, Steady
<1>6. CASE TimePasses
  BY <1>6, FollowsReflexive, Zenon DEF TimePasses, custodyVars, Steady
<1> QED BY <1>1, <1>2, <1>3, <1>4, <1>5, <1>6, Zenon DEF RegistryStep

\* Every handler takes a message, changes a registration, or is quiet.
LEMMA HandlerKinds ==
    ASSUME TypeOK, Handler
    PROVE  Quiet \/ TakeStep \/ RegistryStep
<1> USE DEF TypeOK, Steady, Quiet, regVars
<1>0. RequestsOK
  BY Zenon DEF RequestsOK
<1>1. ASSUME NEW src \in Sources, NEW d \in Destinations, NEW m \in Messages, NEW t \in Targets,
             RelayRequestKnown(src, d, m, t[1], t[2])
      PROVE  Quiet
  BY <1>0, <1>1, DispatchStep, Zenon DEF RelayRequestKnown
<1>2. ASSUME NEW src \in Sources, NEW d \in Destinations, NEW m \in Messages, NEW t \in Targets,
             RelayRequestTaken(src, d, m, t[1], t[2])
      PROVE  TakeStep
  BY <1>0, <1>2, DispatchStep, TakenStep, Zenon DEF RelayRequestTaken, worldVars
<1>3. ASSUME NEW src \in Sources, NEW d \in Destinations, NEW m \in Messages, NEW t \in Targets,
             RelayRequestPressed(src, d, m, t[1], t[2])
      PROVE  Quiet
  BY <1>3, UnpressedFollows, Zenon DEF RelayRequestPressed
<1>4. CASE CustodyPull
  BY <1>0, <1>4, DispatchStep, Zenon DEF CustodyPull
<1>5. ASSUME NEW d \in Destinations, ConnectionEstablished(d)
      PROVE  Quiet
  BY <1>0, <1>5, DispatchStep, Zenon DEF ConnectionEstablished
<1>6. ASSUME NEW d \in Destinations, ConnectionClosed(d)
      PROVE  Quiet
  BY <1>6, FailedFollows, Zenon DEF ConnectionClosed
<1>7. ASSUME NEW r \in DOMAIN answers, DispatchDelivered(r)
      PROVE  Quiet
  <2> DEFINE s == mark_delivered(store, {r.id})
             t == Converged(s, dispatches \ {r}, r.dest, r.msg)
  <2>1. StoreTypeOK(s) /\ Follows(store, s) /\ SameDevices(store, s)
    BY DeliveredFollows, Zenon
  <2>2. StoreTypeOK(t) /\ Follows(s, t) /\ SameDevices(s, t)
    <3> HIDE DEF s
    <3> QED BY <2>1, ConvergedFollows, Zenon
  <2>3. Follows(store, t) /\ SameDevices(store, t)
    <3> HIDE DEF s, t
    <3> QED BY <2>1, <2>2, FollowsTransitive, Zenon
  <2>4. store' \in {s, t} /\ UNCHANGED <<regs, nextId, orphaned>>
    BY <1>7, Zenon DEF DispatchDelivered
  <2> HIDE DEF s, t
  <2> QED BY <2>1, <2>2, <2>3, <2>4, Zenon
<1>8. ASSUME NEW r \in DOMAIN answers, DispatchFailed(r)
      PROVE  Quiet
  BY <1>8, FailedFollows, Zenon DEF DispatchFailed
<1>9. ASSUME NEW r \in DOMAIN answers, LateOutcome(r)
      PROVE  Quiet
  BY <1>9, FollowsReflexive, Zenon DEF LateOutcome, custodyVars
<1>10. ASSUME NEW d \in Destinations, NEW m \in Messages, MarkerReceived(d, m)
       PROVE  Quiet
  BY <1>10, ConvergedFollows, Zenon DEF MarkerReceived
<1>11. ASSUME \/ \E i \in Identities, d \in Devices : RegistrationRegister(i, d)
              \/ \E i \in Identities, d \in Devices, t \in Devices \cup {NoDevice} :
                    RegistrationDeregister(i, d, t)
              \/ \E i \in Identities : RegistrationRefused(i)
       PROVE  RegistryStep
  BY <1>11, Zenon DEF RegistryStep
<1> HIDE DEF TypeOK, Steady, Quiet, regVars
<1> QED BY <1>1, <1>2, <1>3, <1>4, <1>5, <1>6, <1>7, <1>8, <1>9, <1>10, <1>11, Zenon DEF Handler

\* So does every step of the environment.
LEMMA EnvironmentKinds ==
    ASSUME TypeOK, Environment
    PROVE  Quiet \/ RegistryStep
<1>1. UNCHANGED custodyVars
  BY Zenon DEF Environment, DestinationAnswers, DeliveredElsewhere, RegistrationQuery, TimePasses,
     WindowExpires, SetBlocked, SetUsage
<1>2. RegistryStep \/ UNCHANGED <<regs, orphaned>>
  BY Zenon DEF Environment, DestinationAnswers, DeliveredElsewhere, RegistryStep, WindowExpires,
     SetBlocked, SetUsage, regVars
<1> QED BY <1>1, <1>2, FollowsReflexive, Zenon DEF TypeOK, custodyVars, Steady, Quiet

\* And every crash, wherever it cuts a handler.
LEMMA CrashKinds ==
    ASSUME TypeOK, Crashing
    PROVE  Quiet \/ TakeStep \/ RegistryStep
<1> USE DEF TypeOK, Steady, Quiet, Restart
<1>1. CASE Crash
  BY <1>1, FollowsReflexive, Zenon DEF Crash
<1>2. ASSUME NEW d \in connected, CrashDispatching(d)
      PROVE  Quiet
  BY <1>2, ServedPending, DispatchingFollows DEF CrashDispatching
<1>3. ASSUME NEW src \in Sources, NEW d \in Destinations, NEW m \in Messages, NEW t \in Targets,
             CrashPurging(src, d, m, t[1], t[2])
      PROVE  Quiet
  BY <1>3, CloseCutFollows DEF CrashPurging
<1>4. ASSUME NEW src \in Sources, NEW d \in Destinations, NEW m \in Messages, NEW t \in Targets,
             CrashTaking(src, d, m, t[1], t[2])
      PROVE  TakeStep
  <2> DEFINE s == Taken(d, m, t[1], t[2])
  <2>1. PICK n, T : T \in Served(s, {d} \cap connected, n) /\ Restart(mark_dispatching(s, T))
    BY <1>4, Zenon DEF CrashTaking
  <2> HIDE DEF s
  <2>2. StoreTypeOK(s) => StoreTypeOK(store') /\ Follows(s, store') /\ SameDevices(s, store')
    BY <2>1, ServedPending, DispatchingFollows, Zenon
  <2>3. /\ UNCHANGED <<regs, orphaned, elsewhere>> /\ nextId' = nextId + 1
        /\ NewCustody(src, d, m, t[1], t[2]) /\ Verdict(d, m).ok
    BY <1>4, Zenon DEF CrashTaking
  <2> QED BY <2>2, <2>3, TakenStep, Zenon DEF s
<1>5. ASSUME NEW d \in Destinations, NEW m \in Messages, CrashClosing(d, m)
      PROVE  Quiet
  <2>1. PICK A, L : A \in SUBSET RecordsOf(store, d, m) /\ Restart(CloseCut(store, A, L, "delivered"))
    BY <1>5 DEF CrashClosing, ClosePrefixes
  <2>2. A \subseteq DOMAIN store.recs
    BY <2>1, Zenon DEF RecordsOf
  <2> QED BY <1>5, <2>1, <2>2, CloseCutFollows, Zenon DEF CrashClosing
<1>6. ASSUME \/ \E i \in Identities, d \in Devices : CrashRegistering(i, d)
             \/ \E i \in Identities, d \in Devices, t \in Devices \cup {NoDevice} :
                    CrashDeregistering(i, d, t)
      PROVE  RegistryStep
  BY <1>6, Zenon DEF RegistryStep
<1> HIDE DEF TypeOK, Steady, Quiet, Restart
<1> QED BY <1>1, <1>2, <1>3, <1>4, <1>5, <1>6, Zenon DEF Crashing

\* All of Next, with stuttering.
LEMMA StepKinds ==
    ASSUME TypeOK, [Next]_vars
    PROVE  Quiet \/ TakeStep \/ RegistryStep
<1>1. CASE UNCHANGED vars
  BY <1>1, FollowsReflexive, Zenon DEF vars, regVars, TypeOK, Steady, Quiet
<1> QED BY <1>1, HandlerKinds, EnvironmentKinds, CrashKinds DEF Next
-----------------------------------------------------------------------------
\* The types of the store and the ids it gives.
LEMMA StoreTyping ==
    ASSUME TypeOK, [Next]_vars
    PROVE  StoreTypeOK(store') /\ nextId' \in 1..MaxCustodyIds + 1
<1>1. CASE Steady
  BY <1>1, Zenon DEF Steady, TypeOK
<1>2. CASE TakeStep
  BY <1>2, SwarmAssumption DEF TakeStep, TakesFrom
<1> QED BY <1>1, <1>2, StepKinds, RegistrySteady, Zenon DEF Quiet

\* Every crash restarts the relay.
LEMMA CrashRestarts ==
    ASSUME Crashing
    PROVE  \E s : Restart(s)
<1>1. ASSUME NEW src, NEW d, NEW m, NEW i, NEW dev, CrashPurging(src, d, m, i, dev)
      PROVE  \E s : Restart(s)
  BY <1>1, Zenon DEF CrashPurging
<1>2. ASSUME NEW src, NEW d, NEW m, NEW i, NEW dev, CrashTaking(src, d, m, i, dev)
      PROVE  \E s : Restart(s)
  BY <1>2, Zenon DEF CrashTaking
<1>3. ASSUME NEW d, NEW m, Crash \/ CrashDispatching(d) \/ CrashClosing(d, m)
      PROVE  \E s : Restart(s)
  BY <1>3, Zenon DEF Crash, CrashDispatching, CrashClosing
<1>4. ASSUME NEW i, NEW d, NEW t, CrashRegistering(i, d) \/ CrashDeregistering(i, d, t)
      PROVE  \E s : Restart(s)
  BY <1>4, Zenon DEF CrashRegistering, CrashDeregistering
<1> QED BY <1>1, <1>2, <1>3, <1>4, Zenon DEF Crashing

\* The types of the registry.
LEMMA RegistryTyping ==
    ASSUME TypeOK, [Next]_vars
    PROVE  RegTypeOK'
<1> USE DEF TypeOK
<1>0. reader \in [Identities -> Devices \cup {NoDevice}]
  BY Zenon DEF RegTypeOK
<1>1. CASE UNCHANGED regVars
  BY <1>1, Zenon DEF regVars, RegTypeOK
<1>2. CASE UNCHANGED <<regs, owner>> /\ reader' = [i \in Identities |-> NoDevice]
  BY <1>2, Zenon DEF RegTypeOK
<1>3. ASSUME NEW i \in Identities, NEW d \in Devices,
             RegistrationRegister(i, d) \/ CrashRegistering(i, d)
      PROVE  RegTypeOK'
  BY <1>0, <1>3, RegisterType, Zenon DEF RegistrationRegister, CrashRegistering, Restart
<1>4. ASSUME NEW i \in Identities, NEW d \in Devices, NEW t \in Devices \cup {NoDevice},
             RegistrationDeregister(i, d, t) \/ CrashDeregistering(i, d, t)
      PROVE  RegTypeOK'
  BY <1>0, <1>4, DeregisterType, Zenon DEF RegistrationDeregister, CrashDeregistering, Restart
<1>5. ASSUME NEW i \in Identities, RegistrationRefused(i) \/ RegistrationQuery(i)
      PROVE  RegTypeOK'
  BY <1>5, RefusedType, LookupType, Zenon DEF RegistrationRefused, RegistrationQuery
<1>6. CASE TimePasses
  BY <1>6, TickType, Zenon DEF TimePasses
<1> HIDE DEF TypeOK
<1>7. CASE Handler
  <2>1. ASSUME NEW src, NEW d, NEW m, NEW i, NEW dev,
               \/ RelayRequestKnown(src, d, m, i, dev)
               \/ RelayRequestTaken(src, d, m, i, dev)
               \/ RelayRequestPressed(src, d, m, i, dev)
        PROVE  UNCHANGED regVars
    BY <2>1, Zenon DEF RelayRequestKnown, RelayRequestTaken, RelayRequestPressed
  <2>2. ASSUME NEW d, NEW m, ConnectionEstablished(d) \/ ConnectionClosed(d) \/ MarkerReceived(d, m)
        PROVE  UNCHANGED regVars
    BY <2>2, Zenon DEF ConnectionEstablished, ConnectionClosed, MarkerReceived
  <2>3. ASSUME NEW r, DispatchDelivered(r) \/ DispatchFailed(r) \/ LateOutcome(r)
        PROVE  UNCHANGED regVars
    BY <2>3, Zenon DEF DispatchDelivered, DispatchFailed, LateOutcome
  <2>4. CustodyPull => UNCHANGED regVars
    BY Zenon DEF CustodyPull
  <2> QED BY <1>1, <1>3, <1>4, <1>5, <1>7, <2>1, <2>2, <2>3, <2>4, Zenon DEF Handler
<1>8. CASE Environment
  BY <1>1, <1>5, <1>6, <1>8, Zenon DEF Environment, DestinationAnswers, DeliveredElsewhere,
     WindowExpires, SetBlocked, SetUsage
<1>9. CASE Crashing
  <2>1. reader' = [i \in Identities |-> NoDevice]
    BY <1>9, CrashRestarts, Zenon DEF Restart
  <2>2. ASSUME NEW src, NEW d, NEW m, NEW i, NEW dev,
               \/ Crash \/ CrashDispatching(d) \/ CrashClosing(d, m)
               \/ CrashPurging(src, d, m, i, dev) \/ CrashTaking(src, d, m, i, dev)
        PROVE  UNCHANGED <<regs, owner>>
    BY <2>2, Zenon DEF Crash, CrashDispatching, CrashPurging, CrashTaking, CrashClosing
  <2> QED BY <1>2, <1>3, <1>4, <1>9, <2>1, <2>2 DEF Crashing
<1> QED BY <1>1, <1>7, <1>8, <1>9, Zenon DEF Next, vars

\* The types of what the loop and the world keep.
LoopTypeOK ==
    /\ RequestsOK
    /\ connected \subseteq Destinations
    /\ window \subseteq Sources \X Destinations \X Messages
    /\ seen \subseteq Markers
    /\ gossip \subseteq Markers
    /\ blocked \subseteq Blockable
    /\ elsewhere \in Usages
    /\ received \subseteq Markers
    /\ orphaned \subseteq Identities
    /\ crashes \in 0..MaxCrashes

\* ... and the type invariant from its three parts
LEMMA TypeParts ==
    TypeOK <=> RegTypeOK /\ StoreTypeOK(store) /\ nextId \in 1..MaxCustodyIds + 1 /\ LoopTypeOK
BY Zenon DEF TypeOK, LoopTypeOK, RequestsOK
-----------------------------------------------------------------------------
\* The handlers keep the types of the loop's variables.
LEMMA HandlerTyping ==
    ASSUME TypeOK, Handler
    PROVE  LoopTypeOK'
<1> USE DEF LoopTypeOK, worldVars, loopVars
<1>0. StoreTypeOK(store) /\ LoopTypeOK
  BY TypeParts, Zenon
<1>1. ASSUME NEW src \in Sources, NEW d \in Destinations, NEW m \in Messages, NEW t \in Targets,
             RelayRequestKnown(src, d, m, t[1], t[2])
      PROVE  LoopTypeOK'
  BY <1>0, <1>1, DispatchStep DEF RelayRequestKnown, RecordAccepted
<1>2. ASSUME NEW src \in Sources, NEW d \in Destinations, NEW m \in Messages, NEW t \in Targets,
             RelayRequestTaken(src, d, m, t[1], t[2])
      PROVE  LoopTypeOK'
  <2>1. StoreTypeOK(Taken(d, m, t[1], t[2]))
    BY UnpressedFollows, NewRecordType, PutType DEF TypeOK, Taken
  <2>2. RequestsOK'
    BY <1>0, <1>2, <2>1, DispatchStep, Zenon DEF RelayRequestTaken
  <2> QED BY <1>0, <1>2, <2>2 DEF RelayRequestTaken, RecordAccepted
<1>3. ASSUME NEW src \in Sources, NEW d \in Destinations, NEW m \in Messages, NEW t \in Targets,
             RelayRequestPressed(src, d, m, t[1], t[2])
      PROVE  LoopTypeOK'
  BY <1>0, <1>3, Zenon DEF RelayRequestPressed, RequestsOK
<1>4. CASE CustodyPull
  BY <1>0, <1>4, DispatchStep, Zenon DEF CustodyPull
<1>5. ASSUME NEW d \in Destinations, ConnectionEstablished(d)
      PROVE  LoopTypeOK'
  BY <1>0, <1>5, DispatchStep, Zenon DEF ConnectionEstablished
<1>6. ASSUME NEW d \in Destinations, ConnectionClosed(d)
      PROVE  LoopTypeOK'
  BY <1>0, <1>6, SettleType, Zenon DEF ConnectionClosed
<1>7. ASSUME NEW r \in DOMAIN answers, DispatchDelivered(r)
      PROVE  LoopTypeOK'
  BY <1>0, <1>7 DEF RequestsOK, Requests, Markers, DispatchDelivered
<1>8. ASSUME NEW r \in DOMAIN answers, DispatchFailed(r) \/ LateOutcome(r)
      PROVE  LoopTypeOK'
  BY <1>0, <1>8, SettleType, Zenon DEF DispatchFailed, LateOutcome
<1>9. ASSUME NEW d \in Destinations, NEW m \in Messages, MarkerReceived(d, m)
      PROVE  LoopTypeOK'
  BY <1>0, <1>9, Zenon DEF MarkerReceived, RequestsOK, Markers
<1>10. ASSUME NEW i \in Identities, NEW d \in Devices, RegistrationRegister(i, d)
       PROVE  LoopTypeOK'
  BY <1>0, <1>10, Zenon DEF RegistrationRegister, CollapseOrphans, RequestsOK
<1>11. ASSUME NEW i \in Identities, NEW d \in Devices, NEW t \in Devices \cup {NoDevice},
              RegistrationDeregister(i, d, t)
       PROVE  LoopTypeOK'
  BY <1>0, <1>11, Zenon DEF RegistrationDeregister, CollapseOrphans, RequestsOK
<1>12. ASSUME NEW i \in Identities, RegistrationRefused(i)
       PROVE  LoopTypeOK'
  BY <1>0, <1>12, Zenon DEF RegistrationRefused, CollapseOrphans, RequestsOK
<1> HIDE DEF LoopTypeOK, worldVars, loopVars
<1> QED BY <1>1, <1>2, <1>3, <1>4, <1>5, <1>6, <1>7, <1>8, <1>9, <1>10, <1>11, <1>12, Zenon DEF Handler

\* So do the environment and crashes.
LEMMA OtherTyping ==
    ASSUME TypeOK, Environment \/ Crashing
    PROVE  LoopTypeOK'
<1> USE DEF LoopTypeOK, worldVars, loopVars, RequestsOK
<1>0. LoopTypeOK
  BY TypeParts, Zenon
<1>1. ASSUME NEW r \in DOMAIN answers, NEW how \in {"accepted", "rejected"},
             DestinationAnswers(r, how)
      PROVE  LoopTypeOK'
  BY <1>0, <1>1 DEF Requests, Markers, DestinationAnswers
<1>2. ASSUME NEW d \in Destinations, NEW m \in Messages, DeliveredElsewhere(d, m)
      PROVE  LoopTypeOK'
  BY <1>0, <1>2 DEF DeliveredElsewhere, Markers
<1>3. ASSUME NEW i \in Identities, RegistrationQuery(i)
      PROVE  LoopTypeOK'
  BY <1>0, <1>3, Zenon DEF RegistrationQuery
<1>4. ASSUME \/ TimePasses
             \/ \E k \in window : WindowExpires(k)
             \/ \E B \in SUBSET Blockable : SetBlocked(B)
             \/ \E u \in Usages : SetUsage(u)
      PROVE  LoopTypeOK'
  BY <1>0, <1>4, Zenon DEF TimePasses, WindowExpires, SetBlocked, SetUsage
<1>5. ASSUME NEW s, Restart(s), orphaned' \subseteq Identities
      PROVE  LoopTypeOK'
  BY <1>0, <1>5, SwarmAssumption DEF Restart
<1>6. CASE Crashing
  <2>1. orphaned' \subseteq Identities
    BY <1>0, <1>6, ZenonT(30) DEF Crashing, Crash, CrashDispatching, CrashPurging, CrashTaking,
       CrashClosing, CrashRegistering, CrashDeregistering
  <2>2. \E s : Restart(s)
    BY <1>6, CrashRestarts
  <2> QED BY <1>5, <2>1, <2>2, Zenon
<1> HIDE DEF LoopTypeOK, worldVars, loopVars, RequestsOK
<1> QED BY <1>1, <1>2, <1>3, <1>4, <1>6, Zenon DEF Environment

\* The composed model is well typed: the relay's handlers, whatever their
\* interleaving with the network and with crashes, only ever write registrations,
\* custody records and log entries of the declared shape.
THEOREM Typing == Spec => []TypeOK
<1>1. Init => TypeOK
  BY RegistrationType, RegistryAssumption, SwarmAssumption DEF RegInit, RegTypeOK, Registration,
     StoreTypeOK, EmptyStore, Init, TypeOK
<1>2. TypeOK /\ [Next]_vars => TypeOK'
  <2> SUFFICES ASSUME TypeOK, [Next]_vars PROVE TypeOK'
    OBVIOUS
  <2>1. LoopTypeOK'
    BY TypeParts, HandlerTyping, OtherTyping, Zenon DEF vars, LoopTypeOK, RequestsOK, Next
  <2>2. RegTypeOK' /\ StoreTypeOK(store') /\ nextId' \in 1..MaxCustodyIds + 1
    BY StoreTyping, RegistryTyping, Zenon
  <2> QED BY <2>1, <2>2, Zenon DEF TypeOK, LoopTypeOK, RequestsOK
<1> QED BY <1>1, <1>2, PTL DEF Spec
-----------------------------------------------------------------------------
\* What makes the next results inductive: only ids already given are held.
HeldBelow == \A c \in Held : c \in 1..nextId - 1

\* Taking a message: the other records stay or are logged, the new one has an id
\* of its own.
LEMMA TakesSummary ==
    ASSUME TypeOK, HeldBelow, NEW s, NEW rec, TakesFrom(s, rec)
    PROVE  /\ Held' \subseteq Held \cup {nextId} /\ nextId \notin Held
           /\ \A c \in Held' \ {nextId} : /\ store'.recs[c].dest = store.recs[c].dest
                                          /\ store'.recs[c].msg = store.recs[c].msg
                                          /\ store'.recs[c].ident = store.recs[c].ident
                                          /\ store'.recs[c].dev = store.recs[c].dev
           /\ nextId \in Held' => /\ store'.recs[nextId].dest = rec.dest
                                 /\ store'.recs[nextId].msg = rec.msg
                                 /\ store'.recs[nextId].ident = rec.ident
                                 /\ store'.recs[nextId].dev = rec.dev
           /\ store.closed \subseteq store'.closed
           /\ \A c \in (Held \cup {nextId}) \ Held' : \E e \in store'.closed : e.id = c
<1> DEFINE t == put_message(s, nextId, rec)
<1>1. nextId \in Nat /\ nextId \notin Held
  BY DEF TypeOK, HeldBelow
<1>2. /\ t.closed = s.closed /\ DOMAIN t.recs = DOMAIN s.recs \cup {nextId} /\ t.recs[nextId] = rec
      /\ \A x \in DOMAIN s.recs \ {nextId} : t.recs[x] = s.recs[x]
  BY PutType DEF TakesFrom
<1>3. Follows(store, s) /\ SameDevices(store, s) /\ Follows(t, store') /\ SameDevices(t, store')
  BY DEF TakesFrom
<1> HIDE DEF t
<1>4. Held' \subseteq Held \cup {nextId} /\ store.closed \subseteq store'.closed
  BY <1>2, <1>3, Zenon DEF Follows, Held
<1>5. ASSUME NEW c \in Held' \ {nextId}
      PROVE  /\ store'.recs[c].dest = store.recs[c].dest
             /\ store'.recs[c].msg = store.recs[c].msg
             /\ store'.recs[c].ident = store.recs[c].ident
             /\ store'.recs[c].dev = store.recs[c].dev
  <2>1. c \in DOMAIN t.recs /\ c \in DOMAIN s.recs /\ t.recs[c] = s.recs[c]
    BY <1>2, <1>3, Zenon DEF Follows, Held
  <2> QED BY <1>3, <2>1 DEF Follows, Held, SameDevices
<1>6. ASSUME nextId \in Held'
      PROVE  /\ store'.recs[nextId].dest = rec.dest
             /\ store'.recs[nextId].msg = rec.msg
             /\ store'.recs[nextId].ident = rec.ident
             /\ store'.recs[nextId].dev = rec.dev
  BY <1>2, <1>3, <1>6, Zenon DEF Follows, SameDevices, Held
<1>7. ASSUME NEW c \in (Held \cup {nextId}) \ Held'
      PROVE  \E e \in store'.closed : e.id = c
  <2>1. CASE c \in DOMAIN t.recs
    BY <1>3, <2>1 DEF Follows, Held
  <2>2. CASE c \notin DOMAIN t.recs
    <3>1. c \in Held \ DOMAIN s.recs
      BY <1>2, <2>2
    <3>2. PICK e \in s.closed : e.id = c
      BY <1>3, <3>1, Zenon DEF Follows, Held
    <3>3. e \in store'.closed
      BY <1>2, <1>3, <3>2, Zenon DEF Follows
    <3> QED BY <3>2, <3>3
  <2> QED BY <2>1, <2>2
<1> QED BY <1>1, <1>4, <1>5, <1>6, <1>7, Zenon

\* Ids are given once, in order.
LEMMA HeldStep ==
    ASSUME TypeOK, HeldBelow, [Next]_vars
    PROVE  HeldBelow' /\ \A c \in 1..nextId - 1 : c \in Held' => c \in Held
<1>0. nextId \in Nat
  BY DEF TypeOK
<1>1. CASE Steady
  BY <1>1, Zenon DEF Steady, Follows, Held, HeldBelow
<1>2. ASSUME NEW s, NEW rec, TakesFrom(s, rec)
      PROVE  HeldBelow' /\ \A c \in 1..nextId - 1 : c \in Held' => c \in Held
  BY <1>2, TakesSummary, <1>0 DEF TakesFrom, HeldBelow
<1> QED BY <1>1, <1>2, StepKinds, RegistrySteady DEF Quiet, TakeStep

\* No id is given twice and none is held before it is given.
LEMMA HeldBelowAlways == Spec => []HeldBelow
<1>1. Init => HeldBelow
  BY DEF Init, EmptyStore, HeldBelow, Held
<1> QED BY <1>1, HeldStep, Typing, PTL DEF Spec

\* A custody id is never revived: no late answer, failure, disconnect, retry or
\* restart writes back a record that is gone.
THEOREM NeverRevived == Spec => GoneForGood
<1>1. TypeOK /\ HeldBelow /\ [Next]_vars
        => [\A c \in 1..nextId - 1 : c \in Held' => c \in Held]_vars
  BY HeldStep
<1> QED BY <1>1, Typing, HeldBelowAlways, PTL DEF Spec, GoneForGood

\* Custody is never lost silently: every message the relay ever took is held, or
\* logged as delivered or purged, whatever removed it and wherever a crash cut
\* the removal.
THEOREM NothingLost == Spec => []NoSilentLoss
<1> DEFINE Gone(c) == \E e \in store.closed : e.id = c
<1>1. StoreTypeOK(store) =>
        (NoSilentLoss <=> \A c \in 1..nextId - 1 : c \in Held \/ Gone(c))
  BY DEF StoreTypeOK, Closings, NoSilentLoss, Logged
<1>2. Init => NoSilentLoss
  BY DEF Init, NoSilentLoss
<1>3. TypeOK /\ TypeOK' /\ HeldBelow /\ NoSilentLoss /\ [Next]_vars => NoSilentLoss'
  <2> SUFFICES ASSUME TypeOK, TypeOK', HeldBelow, NoSilentLoss, [Next]_vars,
                      NEW c \in 1..nextId' - 1
               PROVE  c \in Held' \/ Gone(c)'
    BY DEF TypeOK, StoreTypeOK, Closings, NoSilentLoss, Logged
  <2>0. nextId \in Nat /\ \A b \in 1..nextId - 1 : b \in Held \/ Gone(b)
    BY <1>1 DEF TypeOK
  <2>1. CASE Steady
    BY <2>0, <2>1, Zenon DEF Steady, Follows, Held
  <2>2. ASSUME NEW s, NEW rec, TakesFrom(s, rec)
        PROVE  c \in Held' \/ Gone(c)'
    <3>1. nextId' = nextId + 1
      BY <2>2, Zenon DEF TakesFrom
    <3>2. c \in 1..nextId - 1 \/ c = nextId
      BY <2>0, <3>1
    <3>3. c \in (Held \cup {nextId}) \ Held' => Gone(c)'
      BY <2>2, TakesSummary, Zenon
    <3>4. Gone(c) => Gone(c)'
      BY <2>2, TakesSummary, Zenon
    <3> QED BY <2>0, <3>2, <3>3, <3>4, Zenon
  <2> QED BY <2>1, <2>2, StepKinds, RegistrySteady DEF Quiet, TakeStep
<1> QED BY <1>2, <1>3, Typing, HeldBelowAlways, PTL DEF Spec

\* One message, one record: no retry, crash or restart makes a second custody
\* record for the same message and destination.
THEOREM OneRecord == Spec => []OneRecordPerMessage
<1>1. Init => OneRecordPerMessage
  BY DEF Init, EmptyStore, OneRecordPerMessage, Held
<1>2. TypeOK /\ HeldBelow /\ OneRecordPerMessage /\ [Next]_vars => OneRecordPerMessage'
  <2> SUFFICES ASSUME TypeOK, HeldBelow, OneRecordPerMessage, [Next]_vars
               PROVE  OneRecordPerMessage'
    OBVIOUS
  <2>1. CASE Steady
    BY <2>1 DEF Steady, Follows, Held, OneRecordPerMessage
  <2>2. ASSUME NEW s, NEW rec, TakesFrom(s, rec)
        PROVE  OneRecordPerMessage'
    <3>1. \A c \in Held : ~(store.recs[c].dest = rec.dest /\ store.recs[c].msg = rec.msg)
      BY <2>2, Zenon DEF TakesFrom, RecordsOf, Held
    <3>2. /\ Held' \subseteq Held \cup {nextId}
          /\ \A c \in Held' \ {nextId} : /\ store'.recs[c].dest = store.recs[c].dest
                                         /\ store'.recs[c].msg = store.recs[c].msg
          /\ nextId \in Held' => /\ store'.recs[nextId].dest = rec.dest
                                /\ store'.recs[nextId].msg = rec.msg
      BY <2>2, TakesSummary, Zenon
    <3> QED BY <3>1, <3>2 DEF OneRecordPerMessage
  <2> QED BY <2>1, <2>2, StepKinds, RegistrySteady DEF Quiet, TakeStep
<1> QED BY <1>1, <1>2, Typing, HeldBelowAlways, PTL DEF Spec
-----------------------------------------------------------------------------
\* A record is kept for the device its identity's registration names.
AtDevice(rec) ==
    rec.ident \in Identities \ orphaned /\ rec.dev # NoDevice =>
        \/ regs[rec.ident].kind = "Active" /\ regs[rec.ident].dev = rec.dev
        \/ regs[rec.ident].kind = "Handover" /\ regs[rec.ident].to = rec.dev

\* A message is taken only for the device that the registration names.
LEMMA TakenAtDevice ==
    ASSUME RegTypeOK, NEW d, NEW m, NEW t \in Targets, custody_allowed(t[1], t[2])
    PROVE  AtDevice(NewRecord(d, m, t[1], resolve_custody_metadata(t[1], t[2])))
<1> DEFINE i == t[1]
           dev == resolve_custody_metadata(i, t[2])
<1> SUFFICES ASSUME i \in Identities, dev # NoDevice
             PROVE  \/ regs[i].kind = "Active" /\ regs[i].dev = dev
                    \/ regs[i].kind = "Handover" /\ regs[i].to = dev
  BY Zenon DEF AtDevice, NewRecord
<1>1. i # NoIdentity /\ t[2] # NoDevice
  BY StoreAssumption DEF resolve_custody_metadata
<1>2. enforce_custody(Current(i), t[2]) /\ dev = enforced_device(Current(i), t[2])
  BY <1>1 DEF custody_allowed, resolve_custody_metadata
<1>3. Current(i) = regs[i]
  BY <1>2, Zenon DEF Current, get_record_by_identity_id, enforce_custody, Registration
<1> QED BY <1>2, <1>3, Zenon DEF enforce_custody, enforced_device

\* A registration change on i leaves the records of other identities where they
\* were, and where their registrations say.
LEMMA OthersAtDevice ==
    ASSUME TypeOK, NEW i \in Identities, NEW e \in Effects,
           store' \in SideEffectPrefixes(store, i, e) \cup {apply_registry_side_effect(store, i, e)},
           \A j \in Identities \ {i} : regs'[j] = regs[j],
           orphaned \subseteq orphaned' \cup {i},
           NEW c \in Held', c \in Held => AtDevice(store.recs[c]), store.recs[c].ident # i
    PROVE  AtDevice(store.recs[c])'
<1>1. /\ Follows(store, store')
      /\ store.recs[c].ident # i => store'.recs[c].dev = store.recs[c].dev
  BY SideEffectFollows DEF TypeOK, Held
<1>2. c \in Held /\ store'.recs[c].ident = store.recs[c].ident
  BY <1>1, Zenon DEF Follows, Held
<1>3. store'.recs[c].dev = store.recs[c].dev
  BY <1>1, Zenon
<1> QED BY <1>2, <1>3, Zenon DEF AtDevice

\* A new record of the registry has the fields it was made with.
LEMMA RegistrationFields ==
    ASSUME NEW k, NEW d, NEW t, NEW r, r = Registration(k, d, t)
    PROVE  r.kind = k /\ r.dev = d /\ r.to = t
BY DEF Registration

\* A registration of i moves its whole queue to the new device, or purges it.
LEMMA RegisterAtDevice ==
    ASSUME TypeOK, QueueFollowsDevice, NEW i \in Identities, NEW d \in Devices,
           RegistrationRegister(i, d), NEW c \in Held', store.recs[c].ident = i
    PROVE  AtDevice(store.recs[c])'
<1> DEFINE e == register_effect(Current(i), d)
<1>0. Follows(store, store')
  <2>1. StoreTypeOK(store) /\ e \in Effects /\ store' = apply_registry_side_effect(store, i, e)
    BY EffectType, Zenon DEF TypeOK, RegistrationRegister
  <2> HIDE DEF e
  <2> QED BY <2>1, SideEffectFollows, Zenon
<1> SUFFICES ASSUME i \notin orphaned' PROVE AtDevice(store.recs[c])'
  BY <1>0, Zenon DEF Follows, Held, AtDevice
<1>1. i \notin orphaned /\ Current(i) = regs[i]
  BY Zenon DEF RegistrationRegister, CollapseOrphans, Current, get_record_by_identity_id
<1>2. e \in Effects /\ WellFormed(regs[i])
  BY EffectType, CurrentType, Zenon DEF TypeOK
<1>3. /\ regs'[i] = Registration("Active", d, NoDevice) /\ register_allowed(regs[i], d)
      /\ store' = apply_registry_side_effect(store, i, e)
  BY <1>1, Zenon DEF RegistrationRegister, register, TypeOK, RegTypeOK
<1>4. StoreTypeOK(store)
  BY DEF TypeOK
<1> HIDE DEF e
<1>5. c \in Held /\ store'.recs[c].ident = i
  BY <1>0, Zenon DEF Follows, Held
<1>6. e.kind # "migrate"
  BY Zenon DEF register_effect, NoEffect, Effect, e
<1>7. store'.recs[c].dev = store.recs[c].dev
  <2>1. SameDevices(store, store')
    BY <1>2, <1>3, <1>4, <1>6, SideEffectDone, Zenon
  <2> QED BY <2>1, Zenon DEF SameDevices, Held
<1>8. store.recs[c].dev # NoDevice =>
        \/ regs[i].kind = "Active" /\ regs[i].dev = store.recs[c].dev
        \/ regs[i].kind = "Handover" /\ regs[i].to = store.recs[c].dev
  BY <1>1, <1>5, Zenon DEF QueueFollowsDevice
<1>9. store.recs[c].dev \in {NoDevice, d}
  <2>1. CASE regs[i].kind = "Active" /\ regs[i].dev # d
    <3>1. e.kind = "purge" /\ e.from = regs[i].dev
      BY <1>1, <2>1, Zenon DEF register_effect, Effect, e
    <3>2. DOMAIN store'.recs = DOMAIN store.recs \ IdentityRecords(store, i, e.from)
      BY <1>2, <1>3, <1>4, <3>1, SideEffectDone, Zenon
    <3>3. c \notin IdentityRecords(store, i, regs[i].dev)
      BY <3>1, <3>2, Zenon DEF Held
    <3> QED BY <1>5, <1>8, <2>1, <3>3, Zenon DEF IdentityRecords, Held
  <2> QED BY <1>3, <1>8, <2>1, Zenon DEF register_allowed
<1>10. regs'[i].kind = "Active" /\ regs'[i].dev = d
  BY <1>3, RegistrationFields
<1> QED BY <1>5, <1>7, <1>9, <1>10, Zenon DEF AtDevice

\* A handover of i migrates its queue, an abandonment purges it.
LEMMA DeregisterAtDevice ==
    ASSUME TypeOK, QueueFollowsDevice, NEW i \in Identities, NEW d \in Devices,
           NEW t \in Devices \cup {NoDevice}, RegistrationDeregister(i, d, t),
           NEW c \in Held', store.recs[c].ident = i
    PROVE  AtDevice(store.recs[c])'
<1> DEFINE e == deregister_effect(Current(i), d, t)
<1>1. e \in Effects /\ store' = apply_registry_side_effect(store, i, e)
  BY EffectType, Zenon DEF TypeOK, RegistrationDeregister
<1>2. StoreTypeOK(store)
  BY DEF TypeOK
<1>3. c \in Held /\ store'.recs[c].ident = i
  <2> HIDE DEF e
  <2>1. Follows(store, store')
    BY <1>2, <1>1, SideEffectFollows, Zenon
  <2> QED BY <2>1, Zenon DEF Follows, Held
<1>4. /\ deregister_allowed(Current(i), d, t)
      /\ regs'[i] = deregister_state(Current(i), d, t)
  BY DEF RegistrationDeregister, deregister, TypeOK, RegTypeOK
<1>5. e.kind # "purge"
  <2>1. SUFFICES ASSUME e.kind = "purge" PROVE FALSE
    OBVIOUS
  <2>2. e.from = NoDevice
    BY <2>1, Zenon DEF deregister_effect, NoEffect, Effect
  <2> HIDE DEF e
  <2>3. DOMAIN store'.recs = DOMAIN store.recs \ IdentityRecords(store, i, e.from)
    BY <1>2, <1>1, <2>1, SideEffectDone, Zenon
  <2>4. c \notin IdentityRecords(store, i, NoDevice)
    BY <2>2, <2>3, Zenon DEF Held
  <2> QED BY <1>3, <2>4 DEF IdentityRecords, Held
<1> SUFFICES ASSUME i \notin orphaned', store'.recs[c].dev # NoDevice
             PROVE  \/ regs'[i].kind = "Active" /\ regs'[i].dev = store'.recs[c].dev
                    \/ regs'[i].kind = "Handover" /\ regs'[i].to = store'.recs[c].dev
  BY <1>3, Zenon DEF AtDevice
<1>6. i \notin orphaned /\ Current(i) = regs[i]
  BY <1>5, Zenon DEF RegistrationDeregister, CollapseOrphans, Current, get_record_by_identity_id
<1>7. store.recs[c].dev # NoDevice =>
        \/ regs[i].kind = "Active" /\ regs[i].dev = store.recs[c].dev
        \/ regs[i].kind = "Handover" /\ regs[i].to = store.recs[c].dev
  BY <1>3, <1>6, Zenon DEF QueueFollowsDevice
<1>8. CASE regs[i].kind # "Active"
  BY <1>4, <1>6, <1>8, <1>1, <1>7, Zenon DEF deregister_state, deregister_effect, NoEffect, Effect,
     apply_registry_side_effect
<1>9. CASE regs[i].kind = "Active"
  <2>1. t # NoDevice /\ e = Effect("migrate", d, t)
    BY <1>5, <1>6, <1>9, Zenon DEF deregister_effect, Effect
  <2>2. regs'[i] = Registration("Handover", d, t) /\ regs[i].dev = d
    BY <1>4, <1>6, <1>9, <2>1, Zenon DEF deregister_state, deregister_allowed
  <2>3. store'.recs[c].dev = IF c \in IdentityRecords(store, i, d) THEN t ELSE store.recs[c].dev
    <3>1. e.kind = "migrate" /\ e.from = d /\ e.to = t
      BY <2>1 DEF Effect
    <3> HIDE DEF e
    <3>2. \A x \in DOMAIN store.recs : store'.recs[x].dev =
              IF x \in IdentityRecords(store, i, e.from) THEN e.to ELSE store.recs[x].dev
      BY <1>2, <1>1, <3>1, SideEffectDone
    <3> QED BY <1>3, <3>1, <3>2, Zenon DEF Held
  <2>4. store.recs[c].dev # NoDevice => c \in IdentityRecords(store, i, d)
    BY <1>3, <1>7, <1>9, <2>2, Zenon DEF IdentityRecords, Held
  <2>5. regs'[i].kind = "Handover" /\ regs'[i].to = t
    BY <2>2, RegistrationFields
  <2> QED BY <2>3, <2>4, <2>5, Zenon
<1> QED BY <1>8, <1>9, Zenon

\* Messages follow the identity: whatever registrations, handovers, abandonments,
\* takeovers, queries and relay requests come in whatever order, a queued record
\* is kept for the device the registration names, unless a collapse or a crash
\* cut the queue off.
THEOREM QueueFollows == Spec => []QueueFollowsDevice
<1>1. Init => QueueFollowsDevice
  <2>1. Init => store = EmptyStore
    BY Zenon DEF Init
  <2>2. DOMAIN EmptyStore.recs = {}
    BY DEF EmptyStore
  <2> QED BY <2>1, <2>2, Zenon DEF Held, QueueFollowsDevice
<1>2. TypeOK /\ HeldBelow /\ QueueFollowsDevice /\ [Next]_vars => QueueFollowsDevice'
  <2> SUFFICES ASSUME TypeOK, HeldBelow, QueueFollowsDevice, [Next]_vars, NEW c \in Held'
               PROVE  AtDevice(store.recs[c])'
    BY Zenon DEF QueueFollowsDevice, AtDevice, Held
  <2>0. c \in Held => AtDevice(store.recs[c])
    BY Zenon DEF QueueFollowsDevice, AtDevice
  <2>1. CASE Quiet
    BY <2>0, <2>1, Zenon DEF Quiet, Steady, Follows, SameDevices, Held, AtDevice
  <2>2. CASE TakeStep
    <3>1. PICK d \in Destinations, m \in Messages, t \in Targets :
            /\ custody_allowed(t[1], t[2])
            /\ TakesFrom(Unpressed(d, m), NewRecord(d, m, t[1], resolve_custody_metadata(t[1], t[2])))
      BY <2>2, Zenon DEF TakeStep
    <3> DEFINE rec == NewRecord(d, m, t[1], resolve_custody_metadata(t[1], t[2]))
    <3>2. AtDevice(rec)
      BY <3>1, TakenAtDevice, Zenon DEF TypeOK
    <3>3. TakesFrom(Unpressed(d, m), rec) /\ UNCHANGED <<regs, orphaned>>
      BY <2>2, <3>1, Zenon DEF TakeStep
    <3> HIDE DEF rec
    <3>4. CASE c = nextId
      <4>1. store'.recs[c].ident = rec.ident /\ store'.recs[c].dev = rec.dev
        BY <3>3, <3>4, TakesSummary, Zenon
      <4> QED BY <3>2, <3>3, <4>1, Zenon DEF AtDevice
    <3>5. CASE c # nextId
      <4>1. /\ c \in Held /\ store'.recs[c].ident = store.recs[c].ident
            /\ store'.recs[c].dev = store.recs[c].dev
        BY <3>3, <3>5, TakesSummary, Zenon
      <4> QED BY <2>0, <3>3, <4>1, Zenon DEF AtDevice
    <3> QED BY <3>4, <3>5, Zenon
  <2>3. ASSUME NEW i \in Identities, NEW d \in Devices, RegistrationRegister(i, d)
        PROVE  AtDevice(store.recs[c])'
    <3>1. register_effect(Current(i), d) \in Effects
      BY EffectType, Zenon DEF TypeOK
    <3>2. /\ store' = apply_registry_side_effect(store, i, register_effect(Current(i), d))
          /\ \A j \in Identities \ {i} : regs'[j] = regs[j]
          /\ orphaned \subseteq orphaned'
      BY <2>3, Zenon DEF RegistrationRegister, register, CollapseOrphans, TypeOK, RegTypeOK
    <3> QED BY <2>0, <2>3, <3>1, <3>2, OthersAtDevice, RegisterAtDevice, Zenon
  <2>4. ASSUME NEW i \in Identities, NEW d \in Devices, NEW t \in Devices \cup {NoDevice},
               RegistrationDeregister(i, d, t)
        PROVE  AtDevice(store.recs[c])'
    <3>1. deregister_effect(Current(i), d, t) \in Effects
      BY EffectType, Zenon DEF TypeOK
    <3>2. /\ store' = apply_registry_side_effect(store, i, deregister_effect(Current(i), d, t))
          /\ \A j \in Identities \ {i} : regs'[j] = regs[j]
          /\ orphaned \subseteq orphaned' \cup {i}
      BY <2>4, Zenon DEF RegistrationDeregister, deregister, CollapseOrphans, TypeOK, RegTypeOK
    <3> QED BY <2>0, <2>4, <3>1, <3>2, OthersAtDevice, DeregisterAtDevice, Zenon
  <2>5. ASSUME NEW i \in Identities, NEW e \in Effects,
               \E s \in SideEffectPrefixes(store, i, e) : Restart(s),
               \A j \in Identities \ {i} : regs'[j] = regs[j],
               orphaned' = orphaned \cup {i}
        PROVE  AtDevice(store.recs[c])'
    <3>1. store' \in SideEffectPrefixes(store, i, e)
      BY <2>5, Zenon DEF Restart
    <3>2. store'.recs[c].ident = store.recs[c].ident
      BY <3>1, SideEffectFollows DEF TypeOK, Follows, Held
    <3>3. CASE store.recs[c].ident = i
      BY <2>5, <3>2, <3>3, Zenon DEF AtDevice
    <3>4. CASE store.recs[c].ident # i
      BY <2>0, <2>5, <3>1, <3>4, OthersAtDevice, Zenon
    <3> QED BY <3>3, <3>4, Zenon
  <2>6. ASSUME NEW i \in Identities, NEW d \in Devices, CrashRegistering(i, d)
        PROVE  AtDevice(store.recs[c])'
    BY EffectType, <2>6, <2>5, Zenon DEF TypeOK, CrashRegistering, register, RegTypeOK
  <2>7. ASSUME NEW i \in Identities, NEW d \in Devices, NEW t \in Devices \cup {NoDevice},
               CrashDeregistering(i, d, t)
        PROVE  AtDevice(store.recs[c])'
    <3>1. deregister_effect(Current(i), d, t) \in Effects
      BY EffectType DEF TypeOK
    <3>2. \A j \in Identities \ {i} : regs'[j] = regs[j]
      BY <2>7 DEF CrashDeregistering, deregister, TypeOK, RegTypeOK
    <3> QED BY <2>5, <2>7, <3>1, <3>2, Zenon DEF CrashDeregistering
  <2>8. ASSUME NEW i \in Identities, RegistrationRefused(i) \/ RegistrationQuery(i)
        PROVE  AtDevice(store.recs[c])'
    <3>1. store' = store /\ orphaned \subseteq orphaned'
      BY <2>8, Zenon DEF RegistrationRefused, RegistrationQuery, CollapseOrphans, custodyVars
    <3>2. \A j \in Identities : regs'[j] = regs[j] \/ j \in orphaned'
      BY <2>8, Zenon DEF RegistrationRefused, RegistrationQuery, CollapseOrphans, Refused, LookupRead,
         LookupCollapse, TypeOK, RegTypeOK
    <3> QED BY <2>0, <3>1, <3>2, Zenon DEF AtDevice, Held
  <2>9. CASE TimePasses
    <3>1. store' = store /\ orphaned' = orphaned
      BY <2>9 DEF TimePasses, custodyVars
    <3>2. ASSUME NEW j \in Identities
          PROVE  regs'[j].kind = regs[j].kind /\ regs'[j].dev = regs[j].dev /\ regs'[j].to = regs[j].to
      BY <2>9 DEF TypeOK, RegTypeOK, TimePasses, Tick, Registrations
    <3> QED BY <2>0, <3>1, <3>2, Zenon DEF AtDevice, Held
  <2> QED BY <2>1, <2>2, <2>3, <2>4, <2>6, <2>7, <2>8, <2>9, StepKinds, Zenon DEF RegistryStep
<1> QED BY <1>1, <1>2, Typing, HeldBelowAlways, PTL DEF Spec
-----------------------------------------------------------------------------
\* Store t is store s with the records of C logged and removed, except for those
\* of L.
GivesUp(s, t, C, L, how) ==
    /\ C \subseteq DOMAIN s.recs
    /\ KeysOf(t) = [c \in DOMAIN s.recs \ (C \ L) |-> KeysOf(s)[c]]
    /\ LogOf(t) = LogOf(s) \cup {<<c, KeysOf(s)[c], how>> : c \in C}

\* Two stores that differ in nothing the contract is about.
Alike(s, t) == KeysOf(t) = KeysOf(s) /\ LogOf(t) = LogOf(s)

\* A removal, done or cut short by a crash (record_transition, remove_message).
LEMMA CloseCutGivesUp ==
    ASSUME NEW s, NEW C, C \subseteq DOMAIN s.recs, NEW L, NEW how
    PROVE  GivesUp(s, CloseCut(s, C, L, how), C, L, how)
<1> DEFINE t == CloseCut(s, C, L, how)
<1>1. /\ t.recs = [x \in DOMAIN s.recs \ (C \ L) |-> s.recs[x]]
      /\ t.closed = s.closed \cup Closing(s, C, how)
  BY Zenon DEF CloseCut
<1> HIDE DEF t
<1>2. DOMAIN t.recs = DOMAIN s.recs \ (C \ L) /\ \A x \in DOMAIN t.recs : t.recs[x] = s.recs[x]
  BY <1>1, Zenon
<1>3. KeysOf(t) = [c \in DOMAIN s.recs \ (C \ L) |-> KeysOf(s)[c]]
  BY <1>2, Zenon DEF KeysOf
<1>4. LogOf(t) = LogOf(s) \cup {<<c, KeysOf(s)[c], how>> : c \in C}
  <2> DEFINE e(c) == [id |-> c, dest |-> s.recs[c].dest, msg |-> s.recs[c].msg, how |-> how]
             g(x) == <<x.id, KeyOf(x), x.how>>
  <2>1. Closing(s, C, how) = {e(c) : c \in C}
    BY Zenon DEF Closing
  <2>2. \A c \in C : g(e(c)) = <<c, KeysOf(s)[c], how>>
    BY Zenon DEF KeyOf, KeysOf
  <2> HIDE DEF e
  <2>3. LogOf(t) = {g(x) : x \in s.closed} \cup {g(x) : x \in {e(c) : c \in C}}
    BY <1>1, <2>1, Zenon DEF LogOf
  <2>4. {g(x) : x \in {e(c) : c \in C}} = {<<c, KeysOf(s)[c], how>> : c \in C}
    BY <2>2
  <2> QED BY <2>3, <2>4, Zenon DEF LogOf
<1> QED BY <1>3, <1>4, Zenon DEF GivesUp, t

\* Two removals for the same reason are one.
LEMMA GivesUpTwice ==
    ASSUME NEW s, NEW t, NEW u, NEW C, NEW D, NEW how,
           GivesUp(s, t, C, {}, how), GivesUp(t, u, D, {}, how)
    PROVE  GivesUp(s, u, C \cup D, {}, how)
<1>1. DOMAIN KeysOf(t) = DOMAIN t.recs /\ DOMAIN KeysOf(s) = DOMAIN s.recs
  BY DEF KeysOf
<1>2. DOMAIN t.recs = DOMAIN s.recs \ C /\ \A c \in DOMAIN t.recs : KeysOf(t)[c] = KeysOf(s)[c]
  BY <1>1, Zenon DEF GivesUp
<1>3. LogOf(u) = LogOf(s) \cup {<<c, KeysOf(s)[c], how>> : c \in C \cup D}
  <2>1. {<<c, KeysOf(t)[c], how>> : c \in D} = {<<c, KeysOf(s)[c], how>> : c \in D}
    <3>1. \A c \in D : KeysOf(t)[c] = KeysOf(s)[c]
      BY <1>2, Zenon DEF GivesUp
    <3> QED BY <3>1, Zenon
  <2> QED BY <2>1, ZenonT(30) DEF GivesUp
<1> QED BY <1>2, <1>3, Zenon DEF GivesUp

\* Nothing given up.
LEMMA AlikeGivesUp ==
    ASSUME NEW s, NEW t, Alike(s, t), NEW how
    PROVE  GivesUp(s, t, {}, {}, how)
<1>1. KeysOf(s) = [c \in DOMAIN s.recs |-> KeysOf(s)[c]]
  BY Zenon DEF KeysOf
<1> QED BY <1>1 DEF Alike, GivesUp

\* Changing fields other than the destination and the message.
LEMMA UpdateAlike ==
    ASSUME NEW s, StoreTypeOK(s), NEW f, DOMAIN f = DOMAIN s.recs,
           \A c \in DOMAIN f : f[c].dest = s.recs[c].dest /\ f[c].msg = s.recs[c].msg
    PROVE  Alike(s, [s EXCEPT !.recs = f])
<1> DEFINE t == [s EXCEPT !.recs = f]
<1>1. t.recs = f /\ t.closed = s.closed
  BY DEF StoreTypeOK
<1> HIDE DEF t
<1>2. KeysOf(t) = KeysOf(s)
  BY <1>1, Zenon DEF KeysOf, KeyOf
<1>3. LogOf(t) = LogOf(s)
  BY <1>1, Zenon DEF LogOf
<1> QED BY <1>2, <1>3 DEF Alike, t

\* Dispatching records, returning them to the queue and migrating them.
LEMMA FieldsAlike ==
    ASSUME NEW s, StoreTypeOK(s), NEW C, NEW to
    PROVE  /\ Alike(s, mark_dispatching(s, C))
           /\ Alike(s, mark_dispatch_failed(s, C))
           /\ Alike(s, migrate_pending_identity_device(s, C, to))
<1>0. \A x \in DOMAIN s.recs : s.recs[x] \in CustodyRecords
  BY Zenon DEF StoreTypeOK
<1>1. Alike(s, mark_dispatching(s, C))
  <2> DEFINE f == [x \in DOMAIN s.recs |->
        IF x \in C THEN [s.recs[x] EXCEPT !.state = "Dispatching", !.attempts = @ + 1]
        ELSE s.recs[x]]
  <2>1. DOMAIN f = DOMAIN s.recs /\ mark_dispatching(s, C) = [s EXCEPT !.recs = f]
    BY DEF mark_dispatching
  <2>2. \A c \in DOMAIN s.recs : f[c].dest = s.recs[c].dest /\ f[c].msg = s.recs[c].msg
    BY <1>0, Zenon DEF CustodyRecords
  <2> HIDE DEF f
  <2> QED BY <2>1, <2>2, UpdateAlike
<1>2. Alike(s, mark_dispatch_failed(s, C))
  <2> DEFINE f == [x \in DOMAIN s.recs |->
        IF x \in C THEN [s.recs[x] EXCEPT !.state = "Accepted"] ELSE s.recs[x]]
  <2>1. DOMAIN f = DOMAIN s.recs /\ mark_dispatch_failed(s, C) = [s EXCEPT !.recs = f]
    BY DEF mark_dispatch_failed
  <2>2. \A c \in DOMAIN s.recs : f[c].dest = s.recs[c].dest /\ f[c].msg = s.recs[c].msg
    BY DEF CustodyRecords
  <2> HIDE DEF f
  <2> QED BY <2>1, <2>2, UpdateAlike
<1>3. Alike(s, migrate_pending_identity_device(s, C, to))
  <2> DEFINE f == [x \in DOMAIN s.recs |->
        IF x \in C THEN [s.recs[x] EXCEPT !.dev = to] ELSE s.recs[x]]
  <2>1. DOMAIN f = DOMAIN s.recs /\ migrate_pending_identity_device(s, C, to) = [s EXCEPT !.recs = f]
    BY DEF migrate_pending_identity_device
  <2>2. \A c \in DOMAIN s.recs : f[c].dest = s.recs[c].dest /\ f[c].msg = s.recs[c].msg
    BY DEF CustodyRecords
  <2> HIDE DEF f
  <2> QED BY <2>1, <2>2, UpdateAlike
<1> QED BY <1>1, <1>2, <1>3, Zenon
-----------------------------------------------------------------------------
\* A request was made for a record under the id it names, and if that record is
\* still held, it is about its message and destination.
RequestTrue(r) == r.id \in 1..nextId - 1 /\ (r.id \in Held => KeyOf(store.recs[r.id]) = KeyOf(r))

\* What the loop believes of deliveries is true: an accepting answer, and a marker
\* in the mesh, is about a message that its destination has.
LoopTrue ==
    /\ dispatches \subseteq DOMAIN answers
    /\ \A r \in DOMAIN answers : answers[r] = "accepted" => KeyOf(r) \in received
    /\ gossip \subseteq received

Truthful == LoopTrue /\ \A r \in DOMAIN answers : RequestTrue(r)

\* No step turns a request into one about another message: records keep what they
\* are about, and ids are not given again.
LEMMA RequestStays ==
    ASSUME TypeOK, HeldBelow, [Next]_vars, NEW r, RequestTrue(r)
    PROVE  RequestTrue(r)'
<1>0. nextId \in Nat
  BY DEF TypeOK
<1>1. CASE Steady
  BY <1>1, Zenon DEF Steady, Follows, Held, RequestTrue, KeyOf
<1>2. ASSUME NEW s, NEW rec, TakesFrom(s, rec)
      PROVE  RequestTrue(r)'
  <2>1. nextId' = nextId + 1
    BY <1>2, Zenon DEF TakesFrom
  <2>2. /\ Held' \subseteq Held \cup {nextId}
        /\ \A c \in Held' \ {nextId} : /\ store'.recs[c].dest = store.recs[c].dest
                                       /\ store'.recs[c].msg = store.recs[c].msg
    BY <1>2, TakesSummary, Zenon
  <2>3. r.id \in 1..nextId - 1 /\ r.id # nextId
    BY DEF RequestTrue
  <2>4. r.id \in 1..nextId' - 1
    BY <1>0, <2>1, <2>3
  <2> QED BY <2>2, <2>3, <2>4, Zenon DEF RequestTrue, KeyOf
<1> QED BY <1>1, <1>2, StepKinds, RegistrySteady, Zenon DEF Quiet, TakeStep

\* A dispatch makes requests for the records it dispatches.
LEMMA DispatchTrue ==
    ASSUME NEW s, StoreTypeOK(s), NEW ds, dispatch_pending_custody(s, ds), HeldBelow',
           LoopTrue, UNCHANGED <<gossip, received>>
    PROVE  /\ LoopTrue' /\ Alike(s, store')
           /\ \A r \in DOMAIN answers' \ DOMAIN answers : RequestTrue(r)'
<1>1. PICK T \in Served(s, ds, Slots) :
        /\ store' = mark_dispatching(s, T)
        /\ dispatches' = dispatches \cup NewRequests(s, T)
        /\ answers' = [r \in DOMAIN answers \cup NewRequests(s, T) |->
                          IF r \in DOMAIN answers THEN answers[r] ELSE "none"]
  BY Zenon DEF dispatch_pending_custody
<1>2. \A c \in T : c \in DOMAIN s.recs /\ can_dispatch(s, c)
  BY ServedPending, Zenon
<1>3. Follows(s, store') /\ DOMAIN store'.recs = DOMAIN s.recs
  BY <1>1, <1>2, DispatchingFollows, Zenon
<1>4. LoopTrue'
  BY <1>1, Zenon DEF LoopTrue
<1>5. ASSUME NEW r \in NewRequests(s, T)
      PROVE  RequestTrue(r)'
  <2>1. PICK c \in T : r = [id |-> c, attempt |-> s.recs[c].attempts + 1,
                            dest |-> s.recs[c].dest, msg |-> s.recs[c].msg]
    BY Zenon DEF NewRequests
  <2>2. c \in DOMAIN s.recs /\ c \in Held' /\ r.id = c /\ KeyOf(r) = KeyOf(s.recs[c])
    BY <1>2, <1>3, <2>1, Zenon DEF Held, KeyOf
  <2>3. KeyOf(store'.recs[c]) = KeyOf(s.recs[c])
    BY <1>3, <2>2, Zenon DEF Follows, KeyOf
  <2> QED BY <2>2, <2>3, Zenon DEF RequestTrue, HeldBelow
<1> QED BY <1>1, <1>4, <1>5, FieldsAlike, Zenon

\* Forgetting requests does not make any other untrue.
LEMMA LoopForgets ==
    ASSUME LoopTrue, DOMAIN answers' \subseteq DOMAIN answers,
           \A r \in DOMAIN answers' : answers'[r] = answers[r],
           dispatches' \subseteq DOMAIN answers', gossip' \subseteq received',
           received \subseteq received'
    PROVE  LoopTrue'
BY Zenon DEF LoopTrue

\* Every step keeps what the loop believes true.  (The requests themselves are
\* covered by RequestStays.)
TruthKept == LoopTrue' /\ \A r \in DOMAIN answers' \ DOMAIN answers : RequestTrue(r)'

\* ... which the handlers do.
LEMMA HandlerTruth ==
    ASSUME TypeOK, Truthful, HeldBelow', Handler
    PROVE  TruthKept
<1> USE DEF TruthKept, worldVars, loopVars
<1>0. StoreTypeOK(store) /\ LoopTrue /\ dispatches \subseteq DOMAIN answers /\ gossip \subseteq received
  BY Zenon DEF TypeOK, Truthful, LoopTrue
<1>1. ASSUME NEW src \in Sources, NEW d \in Destinations, NEW m \in Messages, NEW t \in Targets,
             RelayRequestKnown(src, d, m, t[1], t[2])
      PROVE  TruthKept
  BY <1>0, <1>1, DispatchTrue, Zenon DEF RelayRequestKnown
<1>2. ASSUME NEW src \in Sources, NEW d \in Destinations, NEW m \in Messages, NEW t \in Targets,
             RelayRequestTaken(src, d, m, t[1], t[2])
      PROVE  TruthKept
  <2>1. StoreTypeOK(Taken(d, m, t[1], t[2]))
    <3>1. StoreTypeOK(Unpressed(d, m)) /\ RegTypeOK
      BY <1>0, UnpressedFollows, Zenon DEF TypeOK
    <3>2. nextId \in Nat
      BY DEF TypeOK
    <3> QED BY <3>1, <3>2, NewRecordType, PutType, Zenon DEF Taken
  <2> QED BY <1>0, <1>2, <2>1, DispatchTrue, Zenon DEF RelayRequestTaken
<1>3. ASSUME NEW src \in Sources, NEW d \in Destinations, NEW m \in Messages, NEW t \in Targets,
             RelayRequestPressed(src, d, m, t[1], t[2])
      PROVE  TruthKept
  BY <1>0, <1>3, LoopForgets, Zenon DEF RelayRequestPressed
<1>4. CASE CustodyPull
  BY <1>0, <1>4, DispatchTrue, Zenon DEF CustodyPull
<1>5. ASSUME NEW d \in Destinations, ConnectionEstablished(d)
      PROVE  TruthKept
  BY <1>0, <1>5, DispatchTrue, Zenon DEF ConnectionEstablished
<1>6. ASSUME NEW d \in Destinations, ConnectionClosed(d)
      PROVE  TruthKept
  BY <1>0, <1>6, LoopForgets, Zenon DEF ConnectionClosed, Settle
<1>7. ASSUME NEW r \in DOMAIN answers, DispatchDelivered(r)
      PROVE  TruthKept
  <2>1. <<r.dest, r.msg>> \in received
    BY <1>7, Zenon DEF DispatchDelivered, Truthful, LoopTrue, KeyOf
  <2>2. /\ answers' = [x \in DOMAIN answers \ {r} |-> answers[x]]
        /\ dispatches' \subseteq dispatches \ {r} /\ received' = received
        /\ gossip' \subseteq gossip \cup {<<r.dest, r.msg>>}
    BY <1>7, Zenon DEF DispatchDelivered
  <2> QED BY <1>0, <2>1, <2>2, LoopForgets, Zenon
<1>8. ASSUME NEW r \in DOMAIN answers, DispatchFailed(r) \/ LateOutcome(r)
      PROVE  TruthKept
  BY <1>0, <1>8, LoopForgets, Zenon DEF DispatchFailed, LateOutcome, Settle
<1>9. ASSUME NEW d \in Destinations, NEW m \in Messages, MarkerReceived(d, m)
      PROVE  TruthKept
  BY <1>0, <1>9, LoopForgets, Zenon DEF MarkerReceived
<1>10. ASSUME \/ \E i \in Identities, d \in Devices : RegistrationRegister(i, d)
              \/ \E i \in Identities, d \in Devices, t \in Devices \cup {NoDevice} :
                    RegistrationDeregister(i, d, t)
              \/ \E i \in Identities : RegistrationRefused(i)
       PROVE  TruthKept
  BY <1>0, <1>10, LoopForgets, Zenon DEF RegistrationRegister, RegistrationDeregister, RegistrationRefused
<1> HIDE DEF TruthKept, worldVars, loopVars
<1> QED BY <1>1, <1>2, <1>3, <1>4, <1>5, <1>6, <1>7, <1>8, <1>9, <1>10, Zenon DEF Handler

\* The world and the crashes keep it true as well: a destination has what it
\* accepts, another node's marker is about something received, and a restarted
\* relay knows no request.
LEMMA OtherTruth ==
    ASSUME Truthful, Environment \/ Crashing \/ UNCHANGED vars
    PROVE  TruthKept
<1>0. LoopTrue /\ gossip \subseteq received
  BY Zenon DEF Truthful, LoopTrue
<1>1. ASSUME NEW r \in DOMAIN answers, NEW how, DestinationAnswers(r, how)
      PROVE  TruthKept
  BY <1>1, <1>0, Zenon DEF DestinationAnswers, TruthKept, LoopTrue, KeyOf
<1>2. ASSUME NEW d, NEW m, DeliveredElsewhere(d, m)
      PROVE  TruthKept
  BY <1>0, <1>2, Zenon DEF DeliveredElsewhere, loopVars, TruthKept, LoopTrue
<1>3. ASSUME NEW s, Restart(s)
      PROVE  TruthKept
  BY <1>0, <1>3, Zenon DEF Restart, TruthKept, LoopTrue
<1>4. CASE UNCHANGED <<dispatches, answers, gossip, received>>
  BY <1>0, <1>4 DEF TruthKept, LoopTrue
<1>5. CASE \/ \E i \in Identities : RegistrationQuery(i)
           \/ TimePasses
           \/ \E k \in window : WindowExpires(k)
           \/ \E B \in SUBSET Blockable : SetBlocked(B)
           \/ \E u \in Usages : SetUsage(u)
  BY <1>4, <1>5, Zenon DEF RegistrationQuery, TimePasses, WindowExpires, SetBlocked, SetUsage, loopVars
<1>6. CASE UNCHANGED vars
  BY <1>4, <1>6, Zenon DEF vars
<1> QED BY <1>1, <1>2, <1>3, <1>5, <1>6, CrashRestarts, Zenon DEF Environment

\* Truthful is an invariant of the relay.
LEMMA TruthfulAlways == Spec => []Truthful
<1>1. Init => Truthful
  BY Zenon DEF Init, Truthful, LoopTrue
<1>2. TypeOK /\ HeldBelow /\ HeldBelow' /\ Truthful /\ [Next]_vars => Truthful'
  <2> SUFFICES ASSUME TypeOK, HeldBelow, HeldBelow', Truthful, [Next]_vars
               PROVE  Truthful'
    OBVIOUS
  <2>1. TruthKept
    BY HandlerTruth, OtherTruth DEF Next
  <2>2. \A r \in DOMAIN answers : RequestTrue(r)'
    BY RequestStays DEF Truthful
  <2> QED BY <2>1, <2>2, Zenon DEF Truthful, TruthKept
<1> QED BY <1>1, <1>2, Typing, HeldBelowAlways, PTL DEF Spec
-----------------------------------------------------------------------------
\* The steps of the contract, on the relay's state.
Gives(how) ==
    /\ UNCHANGED <<nextId, received>>
    /\ \E C, L : /\ GivesUp(store, store', C, L, how)
                 /\ how = "delivered" => \A c \in C : KeysOf(store)[c] \in received

Receives == UNCHANGED <<nextId, store>> /\ \E k \in Markers : received' = received \cup {k}

TakesKey ==
    /\ nextId' = nextId + 1
    /\ UNCHANGED received
    /\ \E k \in Markers : \E P, s :
        /\ \A c \in DOMAIN KeysOf(store) : KeysOf(store)[c] # k
        /\ GivesUp(store, s, P, {}, "purged")
        /\ KeysOf(store') = [c \in DOMAIN s.recs \cup {nextId} |->
                                IF c = nextId THEN k ELSE KeysOf(s)[c]]
        /\ LogOf(store') = LogOf(s)

Kept == Gives("delivered") \/ Gives("purged") \/ Receives \/ TakesKey

\* A step that changes nothing the contract is about.
LEMMA AlikeKept ==
    ASSUME Alike(store, store'), UNCHANGED <<nextId, received>>
    PROVE  Kept
<1>1. GivesUp(store, store', {}, {}, "purged")
  BY AlikeGivesUp
<1> QED BY <1>1, Zenon DEF Kept, Gives

\* A purge, done or cut short.
LEMMA PurgeKept ==
    ASSUME NEW C, C \subseteq DOMAIN store.recs, NEW L, store' = CloseCut(store, C, L, "purged"),
           UNCHANGED <<nextId, received>>
    PROVE  Kept
<1>1. GivesUp(store, store', C, L, "purged")
  BY CloseCutGivesUp, Zenon
<1> QED BY <1>1, Zenon DEF Kept, Gives

\* A marker closes only records of its own message.
LEMMA ConvergedGivesUp ==
    ASSUME NEW s, NEW R, NEW d, NEW m,
           \A r \in R : r.dest = d /\ r.msg = m /\ r.id \in DOMAIN s.recs => KeysOf(s)[r.id] = <<d, m>>
    PROVE  \E C : /\ GivesUp(s, Converged(s, R, d, m), C, {}, "delivered")
                  /\ \A c \in C : KeysOf(s)[c] = <<d, m>>
<1> DEFINE I == Ids({r \in R : r.dest = d /\ r.msg = m}) \cap DOMAIN s.recs
           u == mark_delivered(s, Ids({r \in R : r.dest = d /\ r.msg = m}))
           D == RecordsOf(u, d, m)
           t == converge_delivered_for_message(u, d, m)
<1>1. GivesUp(s, u, I, {}, "delivered")
  <2>1. u = CloseCut(s, I, {}, "delivered") /\ I \subseteq DOMAIN s.recs
    BY Zenon DEF mark_delivered, Close
  <2> QED BY <2>1, CloseCutGivesUp, Zenon
<1>2. GivesUp(u, t, D, {}, "delivered")
  <2> HIDE DEF u
  <2>1. t = CloseCut(u, D, {}, "delivered") /\ D \subseteq DOMAIN u.recs
    BY Zenon DEF converge_delivered_for_message, Close, RecordsOf
  <2> QED BY <2>1, CloseCutGivesUp, Zenon
<1>3. \A c \in I : KeysOf(s)[c] = <<d, m>>
  BY Zenon DEF Ids
<1>4. \A c \in D : KeysOf(s)[c] = <<d, m>>
  <2> HIDE DEF u, I
  <2>1. \A c \in D : c \in DOMAIN u.recs /\ KeysOf(u)[c] = <<d, m>>
    BY Zenon DEF RecordsOf, KeysOf, KeyOf
  <2>2. DOMAIN KeysOf(u) = DOMAIN u.recs
    BY Zenon DEF KeysOf
  <2>3. \A c \in DOMAIN u.recs : KeysOf(u)[c] = KeysOf(s)[c]
    BY <1>1, <2>2, Zenon DEF GivesUp
  <2> QED BY <2>1, <2>3, Zenon
<1>5. t = Converged(s, R, d, m)
  BY Zenon DEF Converged
<1> HIDE DEF I, u, D, t
<1>6. GivesUp(s, t, I \cup D, {}, "delivered")
  BY <1>1, <1>2, GivesUpTwice, Zenon
<1> QED BY <1>3, <1>4, <1>5, <1>6, Zenon

\* An accepted answer, and a marker, close records of messages received.
LEMMA DeliveryKept ==
    ASSUME TypeOK, Truthful,
           \/ \E r \in DOMAIN answers : DispatchDelivered(r)
           \/ \E d \in Destinations, m \in Messages : MarkerReceived(d, m)
    PROVE  Kept
<1>0. \A r \in dispatches : r.id \in DOMAIN store.recs => KeysOf(store)[r.id] = <<r.dest, r.msg>>
  BY Zenon DEF Truthful, LoopTrue, RequestTrue, Held, KeysOf, KeyOf
<1>1. ASSUME NEW d \in Destinations, NEW m \in Messages, MarkerReceived(d, m)
      PROVE  Kept
  <2>1. /\ store' = Converged(store, dispatches, d, m) /\ UNCHANGED <<nextId, received>>
        /\ <<d, m>> \in received
    BY <1>1, Zenon DEF MarkerReceived, Truthful, LoopTrue
  <2>2. \A r \in dispatches : r.dest = d /\ r.msg = m /\ r.id \in DOMAIN store.recs =>
            KeysOf(store)[r.id] = <<d, m>>
    BY <1>0, Zenon
  <2>3. PICK C : /\ GivesUp(store, store', C, {}, "delivered")
                 /\ \A c \in C : KeysOf(store)[c] = <<d, m>>
    BY <2>1, <2>2, ConvergedGivesUp
  <2> QED BY <2>1, <2>3, Zenon DEF Kept, Gives
<1>2. ASSUME NEW r \in DOMAIN answers, DispatchDelivered(r)
      PROVE  Kept
  <2> DEFINE I == {r.id} \cap DOMAIN store.recs
             s == mark_delivered(store, {r.id})
             d == r.dest
             m == r.msg
             t == Converged(s, dispatches \ {r}, d, m)
  <2>1. /\ store' \in {s, t} /\ UNCHANGED <<nextId, received>>
        /\ r \in dispatches /\ <<d, m>> \in received
    BY <1>2, Zenon DEF DispatchDelivered, Truthful, LoopTrue, KeyOf
  <2>2. GivesUp(store, s, I, {}, "delivered") /\ \A c \in I : KeysOf(store)[c] = <<d, m>>
    <3>1. s = CloseCut(store, I, {}, "delivered") /\ I \subseteq DOMAIN store.recs
      BY Zenon DEF mark_delivered, Close
    <3> QED BY <1>0, <2>1, <3>1, CloseCutGivesUp, Zenon
  <2> HIDE DEF I, s
  <2>3. DOMAIN s.recs \subseteq DOMAIN store.recs /\ \A c \in DOMAIN s.recs : KeysOf(s)[c] = KeysOf(store)[c]
    <3>1. DOMAIN KeysOf(s) = DOMAIN s.recs
      BY Zenon DEF KeysOf
    <3> QED BY <2>2, <3>1, Zenon DEF GivesUp
  <2>4. PICK D : GivesUp(s, t, D, {}, "delivered") /\ \A c \in D : KeysOf(s)[c] = <<d, m>>
    <3>1. \A q \in dispatches \ {r} : q.dest = d /\ q.msg = m /\ q.id \in DOMAIN s.recs =>
              KeysOf(s)[q.id] = <<d, m>>
      BY <1>0, <2>3, Zenon
    <3> HIDE DEF d, m
    <3> QED BY <3>1, ConvergedGivesUp
  <2> HIDE DEF t
  <2>5. GivesUp(store, t, I \cup D, {}, "delivered") /\ \A c \in I \cup D : KeysOf(store)[c] = <<d, m>>
    <3>1. D \subseteq DOMAIN s.recs
      BY <2>4, Zenon DEF GivesUp
    <3> QED BY <2>2, <2>3, <2>4, <3>1, GivesUpTwice, Zenon
  <2> QED BY <2>1, <2>2, <2>5, Zenon DEF Kept, Gives
<1> QED BY <1>1, <1>2, Zenon

\* The store t is s with the record rec added, or replaced, under id c.
PutIn(s, t, c, rec) ==
    /\ StoreTypeOK(t) /\ t.closed = s.closed
    /\ DOMAIN t.recs = DOMAIN s.recs \cup {c} /\ t.recs[c] = rec
    /\ \A x \in DOMAIN s.recs \ {c} : t.recs[x] = s.recs[x]

\* put_message does that.
LEMMA PutShape ==
    ASSUME NEW s, StoreTypeOK(s), NEW c \in Nat, NEW rec \in CustodyRecords
    PROVE  PutIn(s, put_message(s, c, rec), c, rec)
BY PutType DEF PutIn

\* A message is taken under a new id, after the purge that made room for it.
LEMMA TakingKept ==
    ASSUME TypeOK, HeldBelow, NEW src, NEW d \in Destinations, NEW m \in Messages, NEW t \in Targets,
           NewCustody(src, d, m, t[1], t[2]), nextId' = nextId + 1, UNCHANGED received,
           StoreTypeOK(Taken(d, m, t[1], t[2])) => Alike(Taken(d, m, t[1], t[2]), store')
    PROVE  Kept
<1> DEFINE P == DOMAIN store.recs \ Verdict(d, m).keep
           s == Unpressed(d, m)
           rec == NewRecord(d, m, t[1], resolve_custody_metadata(t[1], t[2]))
           u == put_message(s, nextId, rec)
           k == <<d, m>>
<1>1. GivesUp(store, s, P, {}, "purged")
  BY CloseCutGivesUp, Zenon DEF Unpressed, Close
<1>2. rec \in CustodyRecords /\ rec.dest = d /\ rec.msg = m
  BY NewRecordType, Zenon DEF TypeOK, NewRecord
<1>3. StoreTypeOK(s) /\ nextId \in Nat
  BY UnpressedFollows DEF TypeOK
<1>4. u = Taken(d, m, t[1], t[2])
  BY Zenon DEF Taken
<1>5. \A c \in DOMAIN KeysOf(store) : KeysOf(store)[c] # k
  BY Zenon DEF NewCustody, RecordsOf, KeysOf, KeyOf
<1> HIDE DEF s, rec, P, k
<1>6. /\ StoreTypeOK(u) /\ u.closed = s.closed
      /\ DOMAIN u.recs = DOMAIN s.recs \cup {nextId} /\ u.recs[nextId] = rec
      /\ \A x \in DOMAIN s.recs \ {nextId} : u.recs[x] = s.recs[x]
  <2>1. PutIn(s, u, nextId, rec)
    BY <1>2, <1>3, PutShape, Zenon
  <2> HIDE DEF u
  <2> QED BY <2>1, Zenon DEF PutIn
<1> HIDE DEF u
<1>7. KeysOf(u) = [c \in DOMAIN s.recs \cup {nextId} |-> IF c = nextId THEN k ELSE KeysOf(s)[c]]
  BY <1>2, <1>6, Zenon DEF KeysOf, KeyOf, k
<1>8. LogOf(u) = LogOf(s)
  BY <1>6, Zenon DEF LogOf
<1>9. Alike(u, store')
  BY <1>4, <1>6, Zenon
<1>10. k \in Markers
  BY Zenon DEF Markers, k
<1> QED BY <1>1, <1>5, <1>7, <1>8, <1>9, <1>10, Zenon DEF Alike, TakesKey, Kept

\* A registration moves the records of an identity, or purges them.
LEMMA SideEffectKept ==
    ASSUME TypeOK, NEW i, NEW e \in Effects, UNCHANGED <<nextId, received>>,
           store' \in SideEffectPrefixes(store, i, e) \cup {apply_registry_side_effect(store, i, e)}
    PROVE  Kept
<1> DEFINE C == IdentityRecords(store, i, e.from)
<1>0. C \subseteq DOMAIN store.recs /\ StoreTypeOK(store)
  BY Zenon DEF IdentityRecords, TypeOK
<1> HIDE DEF C
<1>1. CASE e.kind = "migrate"
  <2>1. PICK A \in SUBSET C : store' = migrate_pending_identity_device(store, A, e.to)
    BY <1>1, Zenon DEF SideEffectPrefixes, apply_registry_side_effect, C
  <2> QED BY <1>0, <2>1, FieldsAlike, AlikeKept, Zenon
<1>2. CASE e.kind = "purge"
  <2>1. PICK A, L : A \in SUBSET C /\ store' = CloseCut(store, A, L, "purged")
    BY <1>2 DEF SideEffectPrefixes, apply_registry_side_effect, ClosePrefixes, Close, C
  <2> QED BY <1>0, <2>1, PurgeKept, Zenon
<1>3. CASE e.kind = "none"
  BY <1>3, AlikeKept, Zenon DEF SideEffectPrefixes, apply_registry_side_effect, Alike
<1> QED BY <1>1, <1>2, <1>3, Zenon DEF Effects

\* Every handler keeps the contract.
LEMMA HandlerKept ==
    ASSUME TypeOK, HeldBelow, HeldBelow', Truthful, Handler
    PROVE  Kept
<1>0. StoreTypeOK(store) /\ LoopTrue /\ Alike(store, store) /\ RegTypeOK
  BY Zenon DEF TypeOK, Truthful, Alike
<1> USE DEF worldVars, loopVars, custodyVars
<1>1. ASSUME NEW src \in Sources, NEW d \in Destinations, NEW m \in Messages, NEW t \in Targets,
             RelayRequestKnown(src, d, m, t[1], t[2])
      PROVE  Kept
  BY <1>0, <1>1, DispatchTrue, AlikeKept, Zenon DEF RelayRequestKnown
<1>2. ASSUME NEW src \in Sources, NEW d \in Destinations, NEW m \in Messages, NEW t \in Targets,
             RelayRequestTaken(src, d, m, t[1], t[2])
      PROVE  Kept
  <2> DEFINE s == Taken(d, m, t[1], t[2])
  <2>1. /\ NewCustody(src, d, m, t[1], t[2]) /\ nextId' = nextId + 1
        /\ dispatch_pending_custody(s, {d} \cap connected) /\ UNCHANGED <<gossip, received>>
    BY <1>2, Zenon DEF RelayRequestTaken
  <2> HIDE DEF s
  <2>2. StoreTypeOK(s) => Alike(s, store')
    BY <1>0, <2>1, DispatchTrue, Zenon
  <2> QED BY <2>1, <2>2, TakingKept, Zenon DEF s
<1>3. ASSUME NEW src \in Sources, NEW d \in Destinations, NEW m \in Messages, NEW t \in Targets,
             RelayRequestPressed(src, d, m, t[1], t[2])
      PROVE  Kept
  <2> DEFINE P == DOMAIN store.recs \ Verdict(d, m).keep
  <2>1. store' = CloseCut(store, P, {}, "purged") /\ UNCHANGED <<nextId, received>>
    BY <1>3, Zenon DEF RelayRequestPressed, Unpressed, Close
  <2> QED BY <2>1, PurgeKept, Zenon
<1>4. CASE CustodyPull
  BY <1>0, <1>4, DispatchTrue, AlikeKept, Zenon DEF CustodyPull
<1>5. ASSUME NEW d \in Destinations, ConnectionEstablished(d)
      PROVE  Kept
  BY <1>0, <1>5, DispatchTrue, AlikeKept, Zenon DEF ConnectionEstablished
<1>6. ASSUME NEW d \in Destinations, ConnectionClosed(d)
      PROVE  Kept
  BY <1>0, <1>6, FieldsAlike, AlikeKept, Zenon DEF ConnectionClosed
<1>7. ASSUME NEW r \in DOMAIN answers, DispatchFailed(r) \/ LateOutcome(r)
      PROVE  Kept
  BY <1>0, <1>7, FieldsAlike, AlikeKept, Zenon DEF DispatchFailed, LateOutcome
<1>8. ASSUME NEW i \in Identities, NEW d \in Devices, RegistrationRegister(i, d)
      PROVE  Kept
  BY <1>0, <1>8, EffectType, SideEffectKept, Zenon DEF RegistrationRegister
<1>9. ASSUME NEW i \in Identities, NEW d \in Devices, NEW t \in Devices \cup {NoDevice},
             RegistrationDeregister(i, d, t)
      PROVE  Kept
  BY <1>0, <1>9, EffectType, SideEffectKept, Zenon DEF RegistrationDeregister
<1>10. ASSUME NEW i \in Identities, RegistrationRefused(i)
       PROVE  Kept
  BY <1>0, <1>10, AlikeKept, Zenon DEF RegistrationRefused
<1> QED BY <1>1, <1>2, <1>3, <1>4, <1>5, <1>6, <1>7, <1>8, <1>9, <1>10, DeliveryKept, Zenon DEF Handler

\* So do the world, and every crash, wherever it cuts a handler.
LEMMA OtherKept ==
    ASSUME TypeOK, HeldBelow, Truthful, Environment \/ Crashing \/ UNCHANGED vars
    PROVE  Kept
<1>0. StoreTypeOK(store) /\ Alike(store, store) /\ RegTypeOK
  BY Zenon DEF TypeOK, Alike
<1>1. ASSUME NEW r \in DOMAIN answers, NEW how, DestinationAnswers(r, how)
      PROVE  Kept
  BY <1>1, <1>0, AlikeKept, Zenon DEF TypeOK, Requests, Markers, DestinationAnswers, custodyVars, Receives,
     Kept
<1>2. ASSUME NEW d \in Destinations, NEW m \in Messages, DeliveredElsewhere(d, m)
      PROVE  Kept
  BY <1>2, Zenon DEF DeliveredElsewhere, custodyVars, Receives, Kept, Markers
<1>3. CASE UNCHANGED <<store, nextId, received>>
  BY <1>0, <1>3, AlikeKept, Zenon
<1>4. CASE \/ \E i \in Identities : RegistrationQuery(i)
           \/ TimePasses
           \/ \E k \in window : WindowExpires(k)
           \/ \E B \in SUBSET Blockable : SetBlocked(B)
           \/ \E u \in Usages : SetUsage(u)
  BY <1>3, <1>4, Zenon DEF RegistrationQuery, TimePasses, WindowExpires, SetBlocked, SetUsage, custodyVars
<1>5. CASE UNCHANGED vars
  BY <1>3, <1>5, Zenon DEF vars
<1>6. CASE Crash
  BY <1>3, <1>6, Zenon DEF Crash, Restart
<1>7. ASSUME NEW d, CrashDispatching(d)
      PROVE  Kept
  <2>1. PICK T : Restart(mark_dispatching(store, T))
    BY <1>7, Zenon DEF CrashDispatching
  <2> QED BY <1>0, <1>7, <2>1, FieldsAlike, AlikeKept, Zenon DEF CrashDispatching, Restart
<1>8. ASSUME NEW src, NEW d, NEW m, NEW i, NEW dev, CrashPurging(src, d, m, i, dev)
      PROVE  Kept
  BY <1>8, PurgeKept, Zenon DEF CrashPurging, Restart
<1>9. ASSUME NEW src, NEW d \in Destinations, NEW m \in Messages, NEW t \in Targets,
             CrashTaking(src, d, m, t[1], t[2])
      PROVE  Kept
  <2> DEFINE s == Taken(d, m, t[1], t[2])
  <2>1. PICK T : Restart(mark_dispatching(s, T))
    BY <1>9, Zenon DEF CrashTaking
  <2>2. NewCustody(src, d, m, t[1], t[2]) /\ nextId' = nextId + 1
    BY <1>9, Zenon DEF CrashTaking
  <2> HIDE DEF s
  <2>3. UNCHANGED received /\ (StoreTypeOK(s) => Alike(s, store'))
    BY <2>1, FieldsAlike, Zenon DEF Restart
  <2> QED BY <2>2, <2>3, TakingKept, Zenon DEF s
<1>10. ASSUME NEW d, NEW m, CrashClosing(d, m)
       PROVE  Kept
  <2>0. PICK s \in ClosePrefixes(store, RecordsOf(store, d, m), "delivered") : Restart(s)
    BY <1>10, Zenon DEF CrashClosing
  <2>a. PICK A \in SUBSET RecordsOf(store, d, m), L \in AtMostOneOf(RecordsOf(store, d, m)) :
          s = CloseCut(store, A, L, "delivered")
    BY DEF ClosePrefixes
  <2>1. A \in SUBSET RecordsOf(store, d, m) /\ Restart(CloseCut(store, A, L, "delivered"))
    BY <2>0, <2>a, Zenon
  <2>2. store' = CloseCut(store, A, L, "delivered") /\ UNCHANGED <<nextId, received>>
    BY <1>10, <2>1, Zenon DEF CrashClosing, Restart
  <2>3. <<d, m>> \in received
    BY <1>10, Zenon DEF CrashClosing, Truthful, LoopTrue, KeyOf
  <2>4. A \subseteq DOMAIN store.recs /\ \A c \in A : KeysOf(store)[c] = <<d, m>>
    BY Zenon DEF RecordsOf, KeysOf, KeyOf
  <2>5. GivesUp(store, store', A, L, "delivered")
    BY <2>2, <2>4, CloseCutGivesUp, Zenon
  <2> QED BY <2>2, <2>3, <2>4, <2>5, Zenon DEF Kept, Gives
<1>11. ASSUME NEW i \in Identities, NEW d \in Devices, CrashRegistering(i, d)
       PROVE  Kept
  BY <1>0, <1>11, EffectType, SideEffectKept, Zenon DEF CrashRegistering, Restart
<1>12. ASSUME NEW i \in Identities, NEW d \in Devices, NEW t \in Devices \cup {NoDevice},
              CrashDeregistering(i, d, t)
       PROVE  Kept
  BY <1>0, <1>12, EffectType, SideEffectKept, Zenon DEF CrashDeregistering, Restart
<1>13. CASE Crashing
  BY <1>6, <1>7, <1>8, <1>9, <1>10, <1>11, <1>12, <1>13, Zenon DEF Crashing
<1> QED BY <1>1, <1>2, <1>4, <1>5, <1>13, Zenon DEF Environment

\* Every step of the relay is a step of the contract, or changes nothing that the
\* contract is about.
LEMMA EveryStepKept ==
    ASSUME TypeOK, HeldBelow, HeldBelow', Truthful, [Next]_vars
    PROVE  Kept
BY HandlerKept, OtherKept, Zenon DEF Next
-----------------------------------------------------------------------------
\* What the entries of the log say of deliveries, as the contract sees them.
LogTrue(s, R) == \A x \in LogOf(s) : x[3] = "delivered" => x[2] \in R

\* It is what DeliveredIsTrue says of them.
LEMMA LogTruth ==
    ASSUME NEW s, NEW R
    PROVE  LogTrue(s, R) <=> \A e \in s.closed : e.how = "delivered" => KeyOf(e) \in R
<1>1. ASSUME LogTrue(s, R), NEW e \in s.closed, e.how = "delivered"
      PROVE  KeyOf(e) \in R
  <2> DEFINE x == <<e.id, KeyOf(e), e.how>>
  <2>1. x \in LogOf(s) /\ x[3] = e.how /\ x[2] = KeyOf(e)
    BY Zenon DEF LogOf
  <2> HIDE DEF x
  <2> QED BY <1>1, <2>1, Zenon DEF LogTrue
<1>2. ASSUME \A e \in s.closed : e.how = "delivered" => KeyOf(e) \in R,
             NEW x \in LogOf(s), x[3] = "delivered"
      PROVE  x[2] \in R
  <2>1. PICK e \in s.closed : x = <<e.id, KeyOf(e), e.how>>
    BY Zenon DEF LogOf
  <2>2. x[3] = e.how /\ x[2] = KeyOf(e)
    BY <2>1, Zenon
  <2> QED BY <1>2, <2>2, Zenon
<1> QED BY <1>1, <1>2, Zenon DEF LogTrue

\* The custody log tells the truth: what it says was delivered, by an answer or a
\* marker, before or after a crash, was received by its destination.
THEOREM DeliveredTrue == Spec => []DeliveredIsTrue
<1> DEFINE True == LogTrue(store, received)
<1>1. DeliveredIsTrue <=> True
  BY LogTruth, Zenon DEF DeliveredIsTrue, KeyOf
<1>2. Init => DeliveredIsTrue
  BY DEF Init, EmptyStore, DeliveredIsTrue
<1>3. TypeOK /\ HeldBelow /\ HeldBelow' /\ Truthful /\ DeliveredIsTrue /\ [Next]_vars
        => DeliveredIsTrue'
  <2> SUFFICES ASSUME TypeOK, HeldBelow, HeldBelow', Truthful, DeliveredIsTrue, [Next]_vars
               PROVE  True'
    BY LogTruth, Zenon DEF DeliveredIsTrue, KeyOf
  <2>1. True
    BY <1>1
  <2>2. ASSUME NEW how \in {"delivered", "purged"}, Gives(how)
        PROVE  True'
    <3>1. PICK C, L : /\ GivesUp(store, store', C, L, how)
                      /\ how = "delivered" => \A c \in C : KeysOf(store)[c] \in received
      BY <2>2, Zenon DEF Gives
    <3> QED BY <2>1, <2>2, <3>1 DEF Gives, GivesUp, LogTrue
  <2>3. CASE Receives
    BY <2>1, <2>3, Zenon DEF Receives, LogTrue
  <2>4. CASE TakesKey
    BY <2>1, <2>4 DEF TakesKey, GivesUp, LogTrue
  <2> QED BY <2>2, <2>3, <2>4, EveryStepKept, Zenon DEF Kept
<1> QED BY <1>2, <1>3, Typing, HeldBelowAlways, TruthfulAlways, PTL DEF Spec

\* The relay keeps the contract of custody, for every value of the constants.
THEOREM ContractKept == Spec => ImplementsContract
<1>1. Init => Contract!Init
  BY DEF Init, EmptyStore, Contract!Init, KeysOf, LogOf
<1>2. TypeOK /\ HeldBelow /\ HeldBelow' /\ Truthful /\ [Next]_vars
        => [Contract!Next]_(Contract!contractVars)
  <2> SUFFICES ASSUME TypeOK, HeldBelow, HeldBelow', Truthful, [Next]_vars
               PROVE  Contract!Next
    OBVIOUS
  <2>0. DOMAIN KeysOf(store) = DOMAIN store.recs /\ nextId \in Nat
    BY DEF KeysOf, TypeOK
  <2>1. ASSUME NEW how \in {"delivered", "purged"}, Gives(how)
        PROVE  Contract!Next
    <3>1. PICK C, L : /\ GivesUp(store, store', C, L, how)
                      /\ how = "delivered" => \A c \in C : KeysOf(store)[c] \in received
      BY <2>1, Zenon DEF Gives
    <3>2. Contract!GiveUp(C, L \cap C, how)
      BY <2>0, <2>1, <3>1, Zenon DEF Gives, GivesUp, Contract!GiveUp, Contract!Entries
    <3>3. C \in SUBSET DOMAIN KeysOf(store) /\ L \cap C \in SUBSET C
      BY <2>0, <3>1, Zenon DEF GivesUp
    <3> QED BY <3>2, <3>3, Zenon DEF Contract!Next
  <2>2. CASE Receives
    BY <2>2, Zenon DEF Receives, Contract!Receive, Contract!Next, KeysOf, LogOf
  <2>3. CASE TakesKey
    <3>1. PICK k \in Markers : \E P, s :
            /\ \A c \in DOMAIN KeysOf(store) : KeysOf(store)[c] # k
            /\ GivesUp(store, s, P, {}, "purged")
            /\ KeysOf(store') = [c \in DOMAIN s.recs \cup {nextId} |->
                                    IF c = nextId THEN k ELSE KeysOf(s)[c]]
            /\ LogOf(store') = LogOf(s)
      BY <2>3, Zenon DEF TakesKey
    <3>2. PICK P, s :
            /\ \A c \in DOMAIN KeysOf(store) : KeysOf(store)[c] # k
            /\ GivesUp(store, s, P, {}, "purged")
            /\ KeysOf(store') = [c \in DOMAIN s.recs \cup {nextId} |->
                                    IF c = nextId THEN k ELSE KeysOf(s)[c]]
            /\ LogOf(store') = LogOf(s)
      BY <3>1, Zenon
    <3>3. DOMAIN s.recs = DOMAIN KeysOf(store) \ P /\ \A c \in DOMAIN s.recs : KeysOf(s)[c] = KeysOf(store)[c]
      <4>1. DOMAIN KeysOf(s) = DOMAIN s.recs
        BY Zenon DEF KeysOf
      <4> QED BY <2>0, <3>2, <4>1, Zenon DEF GivesUp
    <3>4. KeysOf(store') = [c \in (DOMAIN KeysOf(store) \ P) \cup {nextId} |->
                               IF c = nextId THEN k ELSE KeysOf(store)[c]]
      BY <3>2, <3>3, Zenon
    <3>5. nextId = (nextId - 1) + 1 /\ nextId' - 1 = (nextId - 1) + 1 /\ UNCHANGED received
      BY <2>3, <2>0 DEF TakesKey
    <3>6. Contract!Take(k, P)
      BY <3>2, <3>4, <3>5 DEF GivesUp, Contract!Take, Contract!Entries
    <3>7. P \in SUBSET DOMAIN KeysOf(store)
      BY <2>0, <3>2, Zenon DEF GivesUp
    <3> QED BY <3>6, <3>7, Zenon DEF Contract!Next
  <2> QED BY <2>1, <2>2, <2>3, EveryStepKept, Zenon DEF Kept
<1> QED BY <1>1, <1>2, Typing, HeldBelowAlways, TruthfulAlways, PTL
        DEF Spec, ImplementsContract, Contract!ContractSpec
=============================================================================

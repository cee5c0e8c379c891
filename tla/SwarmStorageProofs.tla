------------------------ MODULE SwarmStorageProofs -------------------------
(***************************************************************************)
(* The storage of a relay, for every device, every message size and every  *)
(* usage of the rest of the device: that a message taken into custody      *)
(* leaves the device below its ceiling, and which messages make room for   *)
(* it.                                                                     *)
(***************************************************************************)
EXTENDS SwarmCustodyProofs, FiniteSetTheorems

\* A record has as many bytes as its message needs.
LEMMA RecordBytes ==
    ASSUME NEW s, StoreTypeOK(s), NEW c \in DOMAIN s.recs
    PROVE  LET n == Bytes[s.recs[c].msg]
               N == {c} \X (1..n)
           IN  n \in Nat \ {0} /\ IsFiniteSet(N) /\ Cardinality(N) = n
<1> DEFINE n == Bytes[s.recs[c].msg]
<1>1. n \in Nat \ {0}
  BY StoreAssumption, Zenon DEF StoreTypeOK, CustodyRecords
<1> HIDE DEF n
<1>2. IsFiniteSet(1..n) /\ Cardinality(1..n) = n
  BY <1>1, FS_Interval
<1>3. IsFiniteSet({c}) /\ Cardinality({c}) = 1
  BY FS_Singleton, Zenon
<1>4. /\ IsFiniteSet({c} \X (1..n))
      /\ Cardinality({c} \X (1..n)) = Cardinality({c}) * Cardinality(1..n)
  BY <1>2, <1>3, FS_Product, Zenon
<1> QED BY <1>1, <1>2, <1>3, <1>4 DEF n

\* The bytes of finitely many records can be counted, ...
LEMMA BytesCounted ==
    ASSUME NEW s, StoreTypeOK(s), NEW K, K \subseteq DOMAIN s.recs, IsFiniteSet(K)
    PROVE  IsFiniteSet(BytesStored(s, K)) /\ BytesOf(s, K) \in Nat
<1> DEFINE f == [c \in K |-> {c} \X (1..Bytes[s.recs[c].msg])]
           S == {{c} \X (1..Bytes[s.recs[c].msg]) : c \in K}
<1>1. f \in Surjection(K, S)
  BY Zenon DEF Surjection
<1>2. IsFiniteSet(S)
  BY <1>1, FS_Surjection, Zenon
<1>3. ASSUME NEW c \in K
      PROVE  IsFiniteSet({c} \X (1..Bytes[s.recs[c].msg]))
  BY RecordBytes, Zenon
<1>4. IsFiniteSet(UNION S)
  BY <1>2, <1>3, FS_UNION, Zenon
<1> QED BY <1>4, FS_CardinalityType, Zenon DEF BytesStored, BytesOf

\* ... fewer records have no more bytes, ...
LEMMA FewerBytes ==
    ASSUME NEW s, StoreTypeOK(s), NEW K, K \subseteq DOMAIN s.recs, IsFiniteSet(K),
           NEW A, A \subseteq K
    PROVE  IsFiniteSet(A) /\ BytesOf(s, A) \in Nat /\ BytesOf(s, A) <= BytesOf(s, K)
<1>1. IsFiniteSet(A) /\ A \subseteq DOMAIN s.recs
  BY FS_Subset, Zenon
<1>2. BytesStored(s, A) \subseteq BytesStored(s, K)
  BY Zenon DEF BytesStored
<1> QED BY <1>1, <1>2, BytesCounted, FS_Subset, Zenon DEF BytesOf

\* ... the messages alone count, ...
LEMMA SameBytes ==
    ASSUME NEW s, NEW t, NEW K, \A c \in K : t.recs[c].msg = s.recs[c].msg
    PROVE  BytesOf(t, K) = BytesOf(s, K)
BY Zenon DEF BytesOf, BytesStored

\* ... and a new record brings its own.
LEMMA OneMoreRecord ==
    ASSUME NEW s, StoreTypeOK(s), NEW K, K \subseteq DOMAIN s.recs, IsFiniteSet(K),
           NEW c \in DOMAIN s.recs \ K
    PROVE  BytesOf(s, K \cup {c}) = BytesOf(s, K) + Bytes[s.recs[c].msg]
<1> DEFINE n == Bytes[s.recs[c].msg]
           N == {c} \X (1..n)
<1>1. n \in Nat \ {0} /\ IsFiniteSet(N) /\ Cardinality(N) = n
  BY RecordBytes, Zenon
<1>2. BytesStored(s, K \cup {c}) = BytesStored(s, K) \cup N
  BY Zenon DEF BytesStored
<1>3. BytesStored(s, K) \cap N = {}
  BY DEF BytesStored
<1>4. IsFiniteSet(BytesStored(s, K)) /\ BytesOf(s, K) \in Nat
  BY BytesCounted, Zenon
<1> HIDE DEF n, N
<1>5. Cardinality(BytesStored(s, K) \cup N) = BytesOf(s, K) + n - 0
  BY <1>1, <1>3, <1>4, FS_Union, FS_EmptySet, Zenon DEF BytesOf
<1>6. BytesOf(s, K \cup {c}) = Cardinality(BytesStored(s, K) \cup N)
  BY <1>2, Zenon DEF BytesOf
<1> QED BY <1>1, <1>4, <1>5, <1>6 DEF n
-----------------------------------------------------------------------------
\* Purging K down to A spares the relay's own messages while others are left.
Spares(s, K, A) ==
    /\ A \subseteq K
    /\ \A c \in K, b \in A : is_identity_related_record(s.recs[c].dest) =>
            c \in A \/ is_identity_related_record(s.recs[b].dest)

\* One purge after another, as the write path makes them, spares them too.
LEMMA SparesTransitive ==
    ASSUME NEW s, NEW K, NEW A, NEW B, Spares(s, K, A), Spares(s, A, B)
    PROVE  Spares(s, K, B)
BY DEF Spares

\* So does the purge by policy, however much is needed: what is purged before a
\* message of someone else is purged before the relay's own, too.
LEMMA PolicySpares ==
    ASSUME NEW s, StoreTypeOK(s), NEW K, K \subseteq DOMAIN s.recs, IsFiniteSet(K),
           NEW need \in Nat
    PROVE  Spares(s, K, purge_oldest_by_policy(s, K, need))
<1> DEFINE A == purge_oldest_by_policy(s, K, need)
           own(x) == is_identity_related_record(s.recs[x].dest)
           before(x) == {y \in K : PurgedBefore(s, y, x)}
<1>1. \A c \in K : c \in A <=> BytesOf(s, before(c)) >= need
  BY Zenon DEF purge_oldest_by_policy
<1>2. A \subseteq K
  BY Zenon DEF purge_oldest_by_policy
<1>3. ASSUME NEW c \in K, NEW b \in A, own(c), ~own(b)
      PROVE  c \in A
  <2>1. before(b) \subseteq before(c)
    BY <1>3, Zenon DEF PurgedBefore
  <2>2. BytesOf(s, before(b)) \in Nat /\ BytesOf(s, before(c)) \in Nat
        /\ BytesOf(s, before(b)) <= BytesOf(s, before(c))
    <3>1. before(c) \subseteq K
      BY Zenon
    <3>2. IsFiniteSet(before(c)) /\ before(c) \subseteq DOMAIN s.recs
      BY <3>1, FS_Subset, Zenon
    <3> HIDE DEF before
    <3> QED BY <2>1, <3>2, FewerBytes, Zenon
  <2>3. BytesOf(s, before(b)) >= need
    BY <1>1, <1>2, Zenon
  <2> HIDE DEF A, before
  <2> QED BY <1>1, <2>2, <2>3
<1> HIDE DEF A
<1> QED BY <1>2, <1>3, Zenon DEF Spares, A

\* The same for a purge down to a quota.
LEMMA PurgeSpares ==
    ASSUME NEW s, StoreTypeOK(s), NEW K, K \subseteq DOMAIN s.recs, IsFiniteSet(K),
           NEW extra \in Nat, NEW quota \in Nat
    PROVE  /\ Spares(s, K, PurgeTo(s, K, extra, quota))
           /\ IsFiniteSet(PurgeTo(s, K, extra, quota))
<1>1. BytesOf(s, K) \in Nat
  BY BytesCounted, Zenon
<1>2. Monus(BytesOf(s, K) + extra, quota) \in Nat
  BY <1>1 DEF Monus
<1>3. Spares(s, K, PurgeTo(s, K, extra, quota))
  BY <1>2, PolicySpares, Zenon DEF PurgeTo
<1> QED BY <1>3, FS_Subset, Zenon DEF Spares

\* The quotas are numbers.
LEMMA QuotaType ==
    ASSUME NEW other \in Nat, NEW used \in Nat
    PROVE  hard_ceiling_bytes(other) \in Nat /\ target_quota_bytes(other, used) \in Nat
<1>1. DeviceTotal * DEVICE_USAGE_CEILING_PERCENT \in Nat
  BY DeviceAssumption DEF DEVICE_USAGE_CEILING_PERCENT
<1>2. hard_ceiling_bytes(other) \in Nat
  BY <1>1 DEF hard_ceiling_bytes, Monus
<1>3. Monus(DeviceTotal, other + used) \in Nat
  BY DeviceAssumption DEF Monus
<1>4. used_basis_points(other, used) \in Nat
  BY DeviceAssumption DEF used_basis_points
<1>5. BandPercent(used_basis_points(other, used)) \in {70, 45, 25, 10, 3, 0}
  BY <1>4 DEF BandPercent
<1>6. (Monus(DeviceTotal, other + used) * BandPercent(used_basis_points(other, used))) \div 100 \in Nat
  BY <1>3, <1>5
<1> QED BY <1>2, <1>6, Zenon DEF target_quota_bytes, Lesser

\* What the rest of the device uses: on a device that is not overfull, exactly that.
LEMMA SnapshotType ==
    ASSUME NEW rest \in Nat, NEW used \in Nat
    PROVE  /\ from_snapshot(rest, used) \in Nat
           /\ rest + used <= DeviceTotal => from_snapshot(rest, used) = rest
BY DeviceAssumption DEF from_snapshot, Monus, Lesser

\* Below the ceiling the device is at most 90% full.
LEMMA CeilingMeans ==
    ASSUME NEW other \in Nat, NEW bytes \in Nat \ {0}, bytes <= hard_ceiling_bytes(other)
    PROVE  100 * (other + bytes) <= DEVICE_USAGE_CEILING_PERCENT * DeviceTotal
<1> DEFINE x == DeviceTotal * 90
<1>1. x \in Nat /\ DEVICE_USAGE_CEILING_PERCENT * DeviceTotal = x
  BY DeviceAssumption DEF DEVICE_USAGE_CEILING_PERCENT
<1>2. hard_ceiling_bytes(other) = Monus(x \div 100, other)
  BY Zenon DEF hard_ceiling_bytes, DEVICE_USAGE_CEILING_PERCENT
<1> HIDE DEF x
<1>3. x \div 100 \in Nat /\ 100 * (x \div 100) <= x
  BY <1>1
<1>4. other + bytes <= x \div 100
  BY <1>2, <1>3 DEF Monus
<1> QED BY <1>1, <1>3, <1>4

\* Every purge for a write spares the relay's own messages, ...
LEMMA InternalSpares ==
    ASSUME NEW s, StoreTypeOK(s), IsFiniteSet(DOMAIN s.recs),
           NEW used \in Nat, NEW other \in Nat, NEW foreign
    PROVE  LET A == enforce_storage_pressure_internal(s, used, other, foreign)
           IN  Spares(s, DOMAIN s.recs, A) /\ IsFiniteSet(A)
<1> DEFINE D == DOMAIN s.recs
           ceiling == hard_ceiling_bytes(other)
           quota == target_quota_bytes(other, used)
           A == PurgeTo(s, D, 0, quota)
<1>1. ceiling \in Nat /\ quota \in Nat
  BY QuotaType, Zenon
<1> HIDE DEF ceiling, quota
<1>2. Spares(s, D, PurgeTo(s, D, 0, ceiling)) /\ IsFiniteSet(PurgeTo(s, D, 0, ceiling))
  BY <1>1, PurgeSpares, Zenon
<1>3. Spares(s, D, A) /\ IsFiniteSet(A)
  BY <1>1, PurgeSpares, Zenon
<1>4. A \subseteq D
  BY <1>3, Zenon DEF Spares
<1> HIDE DEF A
<1>5. Spares(s, A, PurgeTo(s, A, 0, ceiling)) /\ IsFiniteSet(PurgeTo(s, A, 0, ceiling))
  BY <1>1, <1>3, <1>4, PurgeSpares, Zenon
<1>6. Spares(s, D, PurgeTo(s, A, 0, ceiling))
  BY <1>3, <1>5, SparesTransitive, Zenon
<1> QED BY <1>2, <1>5, <1>6, Zenon DEF enforce_storage_pressure_internal, A, ceiling, quota

\* ... and a write that may go on fits below the ceiling.
LEMMA RoomSpares ==
    ASSUME NEW s, StoreTypeOK(s), NEW K, K \subseteq DOMAIN s.recs, IsFiniteSet(K),
           NEW used \in Nat, NEW size \in Nat, NEW other \in Nat, NEW foreign
    PROVE  LET v == MakeRoom(s, K, used, size, other, foreign)
           IN  /\ Spares(s, K, v.keep)
               /\ v.ok => BytesOf(s, v.keep) + size <= hard_ceiling_bytes(other)
<1> DEFINE ceiling == hard_ceiling_bytes(other)
           quota == target_quota_bytes(other, used)
           A == PurgeTo(s, K, size, quota)
           B == PurgeTo(s, A, size, ceiling)
           v == MakeRoom(s, K, used, size, other, foreign)
<1>1. ceiling \in Nat /\ quota \in Nat
  BY QuotaType, Zenon
<1>2. v = [keep |-> K, ok |-> FALSE] \/ v = [keep |-> B, ok |-> WriteFits(size, BytesOf(s, B), other)]
  BY Zenon DEF MakeRoom, WriteOutcome
<1> HIDE DEF ceiling, quota, v
<1>3. Spares(s, K, A) /\ IsFiniteSet(A)
  BY <1>1, PurgeSpares, Zenon
<1>4. A \subseteq DOMAIN s.recs
  BY <1>3, Zenon DEF Spares
<1> HIDE DEF A
<1>5. Spares(s, A, B)
  BY <1>1, <1>3, <1>4, PurgeSpares, Zenon
<1> HIDE DEF B
<1>6. Spares(s, K, K)
  BY Zenon DEF Spares
<1>7. Spares(s, K, B)
  BY <1>3, <1>5, SparesTransitive, Zenon
<1>8. Spares(s, K, v.keep)
  BY <1>2, <1>6, <1>7
<1>9. v.ok => WriteFits(size, BytesOf(s, v.keep), other)
  BY <1>2
<1> QED BY <1>8, <1>9, Zenon DEF WriteFits, v

\* The decision on a write: what it keeps, and that the device then is at most 90% full.
LEMMA WriteDecision ==
    ASSUME NEW s, StoreTypeOK(s), IsFiniteSet(DOMAIN s.recs), NEW rest \in Nat,
           NEW d, NEW m \in Messages
    PROVE  LET v == enforce_storage_pressure_for_write(s, rest, d, m)
           IN  /\ Spares(s, DOMAIN s.recs, v.keep)
               /\ v.ok /\ rest + BytesOf(s, DOMAIN s.recs) <= DeviceTotal =>
                    100 * (rest + BytesOf(s, v.keep) + Bytes[m])
                        <= DEVICE_USAGE_CEILING_PERCENT * DeviceTotal
<1> DEFINE D == DOMAIN s.recs
           foreign == ~is_identity_related_record(d)
           used == BytesOf(s, D)
           K == enforce_storage_pressure_internal(s, used, from_snapshot(rest, used), foreign)
           left == BytesOf(s, K)
           other == from_snapshot(rest, left)
           v == MakeRoom(s, K, left, Bytes[m], other, foreign)
<1>1. Bytes[m] \in Nat \ {0}
  BY StoreAssumption, Zenon
<1>2. used \in Nat
  BY BytesCounted, Zenon
<1>3. v = enforce_storage_pressure_for_write(s, rest, d, m)
  BY Zenon DEF enforce_storage_pressure_for_write
<1> HIDE DEF used, foreign, v
<1>4. Spares(s, D, K) /\ IsFiniteSet(K)
  BY <1>2, SnapshotType, InternalSpares, Zenon
<1>5. K \subseteq D
  BY <1>4, Zenon DEF Spares
<1> HIDE DEF K
<1>6. left \in Nat /\ left <= used
  BY <1>5, FewerBytes, Zenon DEF used
<1> HIDE DEF left
<1>7. other \in Nat /\ (rest + used <= DeviceTotal => other = rest)
  BY <1>2, <1>6, SnapshotType, DeviceAssumption
<1> HIDE DEF other
<1>8. /\ Spares(s, K, v.keep)
      /\ v.ok => BytesOf(s, v.keep) + Bytes[m] <= hard_ceiling_bytes(other)
  BY <1>1, <1>4, <1>5, <1>6, <1>7, RoomSpares, Zenon DEF v
<1>9. Spares(s, D, v.keep)
  BY <1>4, <1>8, SparesTransitive, Zenon
<1>10. BytesOf(s, v.keep) \in Nat
  BY <1>4, <1>5, <1>8, FewerBytes, Zenon DEF Spares
<1>11. ASSUME v.ok, rest + used <= DeviceTotal
       PROVE  100 * (rest + BytesOf(s, v.keep) + Bytes[m])
                <= DEVICE_USAGE_CEILING_PERCENT * DeviceTotal
  <2> DEFINE b == BytesOf(s, v.keep) + Bytes[m]
  <2>1. b \in Nat \ {0} /\ rest + BytesOf(s, v.keep) + Bytes[m] = rest + b
    BY <1>1, <1>10
  <2> HIDE DEF b
  <2>2. 100 * (rest + b) <= DEVICE_USAGE_CEILING_PERCENT * DeviceTotal
    BY <1>7, <1>8, <1>11, <2>1, CeilingMeans, Zenon DEF b
  <2> QED BY <2>1, <2>2, Zenon
<1> QED BY <1>3, <1>9, <1>11, Zenon DEF used
-----------------------------------------------------------------------------
\* Whatever is held is finite: its ids were given one by one.
LEMMA HeldFinite ==
    ASSUME TypeOK, HeldBelow
    PROVE  IsFiniteSet(Held)
<1>1. IsFiniteSet(1..nextId - 1)
  BY FS_Interval DEF TypeOK
<1> QED BY <1>1, FS_Subset, ZenonT(30) DEF HeldBelow

\* What the store and the rest of the device use fits the device.
DeviceHolds == elsewhere + BytesOf(store, Held) <= DeviceTotal

\* The usage of the device outside the store changes in one way only.
LEMMA UsageSteps ==
    ASSUME [Next]_vars
    PROVE  elsewhere' = elsewhere \/ \E u \in Usages : SetUsage(u)
<1>1. CASE Handler
  <2>1. ASSUME NEW src, NEW d, NEW m, NEW i, NEW dev,
               \/ RelayRequestKnown(src, d, m, i, dev) \/ RelayRequestTaken(src, d, m, i, dev)
               \/ RelayRequestPressed(src, d, m, i, dev)
        PROVE  UNCHANGED worldVars
    BY <2>1, Zenon DEF RelayRequestKnown, RelayRequestTaken, RelayRequestPressed
  <2>2. ASSUME NEW d, NEW m,
               CustodyPull \/ ConnectionEstablished(d) \/ ConnectionClosed(d) \/ MarkerReceived(d, m)
        PROVE  UNCHANGED worldVars
    BY <2>2, Zenon DEF CustodyPull, ConnectionEstablished, ConnectionClosed, MarkerReceived
  <2>3. ASSUME NEW r, DispatchDelivered(r) \/ DispatchFailed(r) \/ LateOutcome(r)
        PROVE  UNCHANGED worldVars
    BY <2>3, Zenon DEF DispatchDelivered, DispatchFailed, LateOutcome
  <2>4. ASSUME NEW i, NEW d, NEW t, \/ RegistrationRegister(i, d) \/ RegistrationDeregister(i, d, t)
                                    \/ RegistrationRefused(i)
        PROVE  UNCHANGED worldVars
    BY <2>4, Zenon DEF RegistrationRegister, RegistrationDeregister, RegistrationRefused
  <2>5. UNCHANGED worldVars
    BY <1>1, <2>1, <2>2, <2>3, <2>4, Zenon DEF Handler
  <2> QED BY <2>5, Zenon DEF worldVars
<1>2. CASE Environment
  BY <1>2, Zenon DEF Environment, DestinationAnswers, DeliveredElsewhere, RegistrationQuery, TimePasses,
       WindowExpires, SetBlocked, worldVars
<1>3. CASE Crashing
  BY <1>3, CrashRestarts, Zenon DEF Restart
<1> QED BY <1>1, <1>2, <1>3, Zenon DEF Next, vars

\* Records that stay or go take no more room than before.
LEMMA FollowersFit ==
    ASSUME NEW s, StoreTypeOK(s), IsFiniteSet(DOMAIN s.recs), NEW t, Follows(s, t)
    PROVE  /\ IsFiniteSet(DOMAIN t.recs)
           /\ BytesOf(t, DOMAIN t.recs) \in Nat
           /\ BytesOf(t, DOMAIN t.recs) <= BytesOf(s, DOMAIN s.recs)
<1>1. DOMAIN t.recs \subseteq DOMAIN s.recs /\ BytesOf(t, DOMAIN t.recs) = BytesOf(s, DOMAIN t.recs)
  BY SameBytes DEF Follows
<1> QED BY <1>1, FewerBytes, Zenon

\* A message that is taken finds the device at most 90% full with it.
LEMMA TakenBelowCeiling ==
    ASSUME TypeOK, HeldBelow, DeviceHolds,
           NEW d \in Destinations, NEW m \in Messages, NEW rec, rec.msg = m, Verdict(d, m).ok,
           TakesFrom(Unpressed(d, m), rec)
    PROVE  /\ BytesOf(store', Held') \in Nat
           /\ 100 * (elsewhere + BytesOf(store', Held')) <= DEVICE_USAGE_CEILING_PERCENT * DeviceTotal
<1> DEFINE s == Unpressed(d, m)
           t == put_message(s, nextId, rec)
           K == DOMAIN s.recs
<1>1. nextId \in Nat /\ elsewhere \in Nat /\ StoreTypeOK(store)
  BY SwarmAssumption DEF TypeOK
<1>2. IsFiniteSet(Held) /\ nextId \notin Held
  BY <1>1, HeldFinite DEF HeldBelow
<1>3. StoreTypeOK(s) /\ Follows(store, s) /\ rec \in CustodyRecords /\ Follows(t, store')
  BY Zenon DEF TakesFrom
<1>4. /\ Spares(store, Held, Verdict(d, m).keep)
      /\ 100 * (elsewhere + BytesOf(store, Verdict(d, m).keep) + Bytes[m])
            <= DEVICE_USAGE_CEILING_PERCENT * DeviceTotal
  BY <1>1, <1>2, WriteDecision, Zenon DEF Verdict, Held, DeviceHolds
<1>5. K = Verdict(d, m).keep
  <2>1. K = Held \ (Held \ Verdict(d, m).keep)
    BY Zenon DEF Unpressed, Close, CloseCut, Held
  <2> QED BY <1>4, <2>1, Zenon DEF Spares
<1>6. BytesOf(store, K) = BytesOf(s, K)
  BY <1>3, SameBytes DEF Follows
<1> HIDE DEF s
<1>7. /\ StoreTypeOK(t) /\ DOMAIN t.recs = K \cup {nextId} /\ t.recs[nextId] = rec
      /\ \A c \in K \ {nextId} : t.recs[c] = s.recs[c]
  BY <1>1, <1>3, PutType
<1>8. K \subseteq Held /\ IsFiniteSet(K) /\ nextId \notin K
  BY <1>2, <1>3, FS_Subset, Zenon DEF Follows, Held
<1> HIDE DEF t, K
<1>9. IsFiniteSet(DOMAIN t.recs)
  BY <1>7, <1>8, FS_AddElement, Zenon
<1>10. BytesOf(t, DOMAIN t.recs) = BytesOf(t, K) + Bytes[m]
  BY <1>7, <1>8, OneMoreRecord
<1>11. BytesOf(t, K) = BytesOf(s, K)
  BY <1>7, <1>8, SameBytes
<1>12. BytesOf(t, DOMAIN t.recs) \in Nat
  BY <1>7, <1>9, BytesCounted, Zenon
<1>13. BytesOf(store', Held') \in Nat /\ BytesOf(store', Held') <= BytesOf(t, DOMAIN t.recs)
  BY <1>3, <1>7, <1>9, FollowersFit, Zenon DEF Held
<1>14. Bytes[m] \in Nat /\ BytesOf(s, K) \in Nat /\ DeviceTotal \in Nat
  BY <1>3, <1>8, BytesCounted, StoreAssumption, DeviceAssumption, Zenon DEF K
<1> QED BY <1>1, <1>4, <1>5, <1>6, <1>10, <1>11, <1>12, <1>13, <1>14 DEF DEVICE_USAGE_CEILING_PERCENT

\* The device stays large enough, and a write stays below its ceiling.
LEMMA BytesStep ==
    ASSUME TypeOK, HeldBelow, DeviceHolds, [Next]_vars
    PROVE  /\ DeviceHolds'
           /\ nextId' > nextId =>
                100 * (elsewhere + BytesOf(store', DOMAIN store'.recs))
                    <= DEVICE_USAGE_CEILING_PERCENT * DeviceTotal
<1>1. nextId \in Nat /\ elsewhere \in Nat /\ StoreTypeOK(store) /\ DeviceTotal \in Nat
  BY SwarmAssumption, DeviceAssumption DEF TypeOK
<1>2. IsFiniteSet(Held) /\ BytesOf(store, Held) \in Nat
  BY <1>1, HeldFinite, BytesCounted, Zenon DEF Held
<1>3. CASE Steady
  <2>1. ~(nextId' > nextId)
    BY <1>1, <1>3 DEF Steady
  <2>2. BytesOf(store', Held') \in Nat /\ BytesOf(store', Held') <= BytesOf(store, Held)
    BY <1>1, <1>2, <1>3, FollowersFit, Zenon DEF Steady, Held
  <2>3. CASE elsewhere' = elsewhere
    BY <1>1, <1>2, <2>1, <2>2, <2>3 DEF DeviceHolds
  <2>4. ASSUME NEW u \in Usages, SetUsage(u)
        PROVE  DeviceHolds'
    BY <2>4, Zenon DEF SetUsage, custodyVars, DeviceHolds, Held
  <2> QED BY <2>1, <2>3, <2>4, UsageSteps, Zenon
<1>4. CASE TakeStep
  <2>1. PICK d \in Destinations, m \in Messages, t \in Targets :
            /\ Verdict(d, m).ok
            /\ TakesFrom(Unpressed(d, m), NewRecord(d, m, t[1], resolve_custody_metadata(t[1], t[2])))
    BY <1>4, Zenon DEF TakeStep
  <2>2. NewRecord(d, m, t[1], resolve_custody_metadata(t[1], t[2])).msg = m
    BY Zenon DEF NewRecord
  <2>3. /\ BytesOf(store', Held') \in Nat
        /\ 100 * (elsewhere + BytesOf(store', Held')) <= DEVICE_USAGE_CEILING_PERCENT * DeviceTotal
    BY <2>1, <2>2, TakenBelowCeiling, Zenon
  <2>4. elsewhere' = elsewhere
    BY <1>4, Zenon DEF TakeStep
  <2>5. DeviceHolds'
    BY <1>1, <2>3, <2>4 DEF DeviceHolds, DEVICE_USAGE_CEILING_PERCENT
  <2> QED BY <2>3, <2>5, Zenon DEF Held
<1> QED BY <1>3, <1>4, StepKinds, RegistrySteady, Zenon DEF Quiet

\* The store and the rest of the device never need more than there is.
LEMMA DeviceHoldsAlways == Spec => []DeviceHolds
<1>1. Init => DeviceHolds
  <2> SUFFICES ASSUME Init PROVE DeviceHolds
    OBVIOUS
  <2>1. elsewhere \in Nat /\ elsewhere <= DeviceTotal /\ Held = {}
    BY SwarmAssumption, Zenon DEF Init, EmptyStore, Held
  <2>2. BytesStored(store, Held) = {}
    BY <2>1, Zenon DEF BytesStored
  <2> QED BY <2>1, <2>2, FS_EmptySet DEF DeviceHolds, BytesOf
<1> QED BY <1>1, BytesStep, Typing, HeldBelowAlways, PTL DEF Spec

\* A message that the relay takes into custody (execute_storage_pressure_policy,
\* then the write) leaves the device at or below DEVICE_USAGE_CEILING_PERCENT.
THEOREM WritesFit == Spec => WriteBelowCeiling
<1>1. TypeOK /\ HeldBelow /\ DeviceHolds /\ [Next]_vars =>
        [nextId' > nextId =>
            100 * (elsewhere + BytesOf(store', DOMAIN store'.recs))
                <= DEVICE_USAGE_CEILING_PERCENT * DeviceTotal]_vars
  BY BytesStep, Zenon
<1> QED BY <1>1, Typing, HeldBelowAlways, DeviceHoldsAlways, PTL DEF Spec, WriteBelowCeiling
-----------------------------------------------------------------------------
\* The current step purges the relay's own messages last.
OwnLast ==
    \A c \in NewlyPurged, b \in (Held \cap Held') \ NewlyPurged :
        is_identity_related_record(store.recs[c].dest) => is_identity_related_record(store.recs[b].dest)

\* What was logged between s and t are deliveries.
OnlyDelivers(s, t) == \A e \in t.closed \ s.closed : e.how = "delivered"

\* Nothing to show where nothing is purged.
LEMMA NonePurged ==
    ASSUME OnlyDelivers(store, store')
    PROVE  OwnLast
BY Zenon DEF OnlyDelivers, OwnLast, NewlyPurged

\* Answers and markers log deliveries only, wherever they are cut, ...
LEMMA DeliveriesLogged ==
    ASSUME NEW s, NEW C, NEW L
    PROVE  OnlyDelivers(s, CloseCut(s, C, L, "delivered"))
BY DEF OnlyDelivers, CloseCut, Closing

\* ... a delivered record and the other copies of its message included, ...
LEMMA ConvergenceLogged ==
    ASSUME NEW s, NEW R, NEW d, NEW m
    PROVE  OnlyDelivers(s, mark_delivered(s, R)) /\ OnlyDelivers(s, Converged(s, R, d, m))
<1>1. \A t, C : OnlyDelivers(t, Close(t, C, "delivered"))
  BY DeliveriesLogged, Zenon DEF Close
<1>2. \A t, u : OnlyDelivers(s, t) /\ OnlyDelivers(t, u) => OnlyDelivers(s, u)
  BY Zenon DEF OnlyDelivers
<1> QED BY <1>1, <1>2, Zenon DEF mark_delivered, Converged, converge_delivered_for_message

\* ... and a dispatch, or its failure, logs nothing of the kind.
LEMMA DispatchLogsNothing ==
    ASSUME NEW s, StoreTypeOK(s), NEW C
    PROVE  /\ mark_dispatching(s, C).closed = s.closed
           /\ mark_dispatch_failed(s, C).closed = s.closed
           /\ DOMAIN mark_dispatching(s, C).recs = DOMAIN s.recs
BY DEF mark_dispatching, mark_dispatch_failed, StoreTypeOK

\* So a round of dispatches purges nothing.
LEMMA DispatchPurgesNone ==
    ASSUME StoreTypeOK(store), NEW ds, dispatch_pending_custody(store, ds)
    PROVE  OwnLast
BY DispatchLogsNothing, NonePurged, Zenon DEF dispatch_pending_custody, OnlyDelivers

\* A purge that spares the relay's own messages: c is logged, b stays.
LEMMA SparingPurge ==
    ASSUME NEW A, Spares(store, Held, A), NEW C, C \cap A = {}, C \subseteq Held,
           store'.closed = store.closed \cup Closing(store, C, "purged"),
           \A b \in Held \cap Held' : b \in A \/ \A c \in C \ {b} : PurgedBefore(store, c, b)
    PROVE  OwnLast
<1> SUFFICES ASSUME NEW c \in NewlyPurged, NEW b \in (Held \cap Held') \ NewlyPurged,
                    is_identity_related_record(store.recs[c].dest)
             PROVE  is_identity_related_record(store.recs[b].dest)
  BY Zenon DEF OwnLast
<1>1. c \in C /\ c # b
  BY DEF NewlyPurged, Closing
<1>2. CASE b \in A
  BY <1>1, <1>2, Zenon DEF Spares
<1>3. CASE PurgedBefore(store, c, b)
  BY <1>3, Zenon DEF PurgedBefore
<1> QED BY <1>1, <1>2, <1>3, Zenon

\* The purges made to find room for a message are of that kind, whether or not
\* the message is then taken, ...
LEMMA RoomForOne ==
    ASSUME TypeOK, HeldBelow, NEW d, NEW m \in Messages,
           store'.closed = Unpressed(d, m).closed,
           Held' \subseteq DOMAIN Unpressed(d, m).recs \cup {nextId}
    PROVE  OwnLast
<1> DEFINE keep == Verdict(d, m).keep
<1>1. Spares(store, Held, keep)
  BY HeldFinite, WriteDecision, SwarmAssumption, Zenon DEF TypeOK, Verdict, Held
<1>2. /\ Unpressed(d, m).closed = store.closed \cup Closing(store, Held \ keep, "purged")
      /\ DOMAIN Unpressed(d, m).recs = Held \ (Held \ keep)
  BY Zenon DEF Unpressed, Close, CloseCut, Held
<1>3. nextId \notin Held
  BY DEF HeldBelow, TypeOK
<1> HIDE DEF keep
<1>4. Held \cap Held' \subseteq keep
  BY <1>2, <1>3, Zenon
<1> QED BY <1>1, <1>2, <1>4, SparingPurge

\* ... and so are the ones of a handler that takes it and tries it at once, ...
LEMMA TakenPurges ==
    ASSUME TypeOK, HeldBelow, NEW d \in Destinations, NEW m \in Messages, NEW t \in Targets, NEW T,
           store' = mark_dispatching(Taken(d, m, t[1], t[2]), T)
    PROVE  OwnLast
<1> DEFINE s == Unpressed(d, m)
           u == Taken(d, m, t[1], t[2])
<1>1. StoreTypeOK(s) /\ nextId \in Nat
  BY UnpressedFollows DEF TypeOK
<1>2. StoreTypeOK(u) /\ u.closed = s.closed /\ DOMAIN u.recs = DOMAIN s.recs \cup {nextId}
  BY <1>1, NewRecordType, PutType DEF Taken, TypeOK
<1> HIDE DEF u
<1>3. store'.closed = s.closed /\ Held' = DOMAIN s.recs \cup {nextId}
  BY <1>2, DispatchLogsNothing, Zenon DEF Held, u
<1> QED BY <1>3, RoomForOne, Zenon

\* ... and so is what a crash leaves of them: it cuts them at some number of
\* bytes, with the last record perhaps logged and not removed.
LEMMA CrashPurges ==
    ASSUME TypeOK, HeldBelow, NEW src, NEW d, NEW m, NEW i, NEW dev, CrashPurging(src, d, m, i, dev)
    PROVE  OwnLast
<1> DEFINE A(n) == purge_oldest_by_policy(store, Held, n)
           C(n) == Held \ A(n)
<1>1. PICK n, L :
        /\ n \in 1..BytesOf(store, Held)
        /\ L \in AtMostOneOf({c \in C(n) : \A b \in C(n) \ {c} : PurgedBefore(store, b, c)})
        /\ store' = CloseCut(store, C(n), L, "purged")
  BY Zenon DEF CrashPurging, Restart, Held
<1>2. n \in Nat /\ StoreTypeOK(store) /\ IsFiniteSet(Held)
  BY <1>1, HeldFinite DEF TypeOK
<1>3. Spares(store, Held, A(n))
  BY <1>2, PolicySpares, Zenon DEF Held
<1>4. \A b \in L : \A c \in C(n) \ {b} : PurgedBefore(store, c, b)
  BY <1>1, Zenon DEF AtMostOneOf
<1>5. /\ store'.closed = store.closed \cup Closing(store, C(n), "purged")
      /\ Held' = Held \ (C(n) \ L)
  BY <1>1, Zenon DEF CloseCut, Held
<1>6. \A b \in Held \cap Held' : b \in A(n) \/ b \in L
  BY <1>5, Zenon
<1> HIDE DEF A
<1> QED BY <1>3, <1>4, <1>5, <1>6, SparingPurge

\* A registration change that purges a queue is seen in the registrations; the
\* others log nothing.
LEMMA EffectPurges ==
    ASSUME RegTypeOK, NEW i \in Identities, NEW d \in Devices, NEW t \in Devices \cup {NoDevice},
           regs' = regs
    PROVE  /\ register(i, d) => register_effect(Current(i), d).kind # "purge"
           /\ deregister(i, d, t) => deregister_effect(Current(i), d, t).kind # "purge"
<1>1. Current(i).kind = "Active" => Current(i) = regs[i]
  BY Zenon DEF Current, get_record_by_identity_id, Registration
<1>2. ASSUME register(i, d)
      PROVE  regs[i].dev = d
  BY <1>2 DEF register, Registration, RegTypeOK
<1>3. ASSUME deregister(i, d, t)
      PROVE  regs[i] = deregister_state(Current(i), d, t)
  BY <1>3, Zenon DEF deregister, RegTypeOK
<1>4. ASSUME deregister(i, d, t), Current(i).kind = "Active"
      PROVE  t # NoDevice
  BY <1>1, <1>3, <1>4 DEF deregister_state, Registration
<1> QED BY <1>1, <1>2, <1>4, Zenon DEF register_effect, deregister_effect, Effect, NoEffect

\* The side effects that move custody log nothing, whole or cut.
LEMMA EffectLogsNothing ==
    ASSUME NEW s, StoreTypeOK(s), NEW i, NEW e, e.kind # "purge"
    PROVE  /\ apply_registry_side_effect(s, i, e).closed = s.closed
           /\ \A t \in SideEffectPrefixes(s, i, e) : t.closed = s.closed
BY Zenon DEF apply_registry_side_effect, SideEffectPrefixes, migrate_pending_identity_device, StoreTypeOK

\* A registration or deregistration that changes no registration purges nothing.
LEMMA RegistryPurges ==
    ASSUME TypeOK, NEW i \in Identities, NEW d \in Devices, NEW t \in Devices \cup {NoDevice},
           \/ RegistrationRegister(i, d) \/ CrashRegistering(i, d)
           \/ RegistrationDeregister(i, d, t) \/ CrashDeregistering(i, d, t),
           regs' = regs
    PROVE  OwnLast
<1>1. StoreTypeOK(store) /\ RegTypeOK
  BY Zenon DEF TypeOK
<1>2. CASE RegistrationRegister(i, d) \/ CrashRegistering(i, d)
  BY <1>1, <1>2, EffectPurges, EffectLogsNothing, NonePurged
     DEF RegistrationRegister, CrashRegistering, Restart, OnlyDelivers
<1>3. CASE RegistrationDeregister(i, d, t) \/ CrashDeregistering(i, d, t)
  BY <1>1, <1>3, EffectPurges, EffectLogsNothing, NonePurged
     DEF RegistrationDeregister, CrashDeregistering, Restart, OnlyDelivers
<1> QED BY <1>2, <1>3, Zenon

\* Every other handler, ...
LEMMA HandlerPurges ==
    ASSUME TypeOK, HeldBelow, Handler, regs' = regs
    PROVE  OwnLast
<1>1. StoreTypeOK(store)
  BY Zenon DEF TypeOK
<1>2. ASSUME NEW src \in Sources, NEW d \in Destinations, NEW m \in Messages, NEW t \in Targets,
             \/ RelayRequestKnown(src, d, m, t[1], t[2])
             \/ RelayRequestTaken(src, d, m, t[1], t[2])
             \/ RelayRequestPressed(src, d, m, t[1], t[2])
      PROVE  OwnLast
  <2>1. CASE RelayRequestKnown(src, d, m, t[1], t[2])
    BY <1>1, <2>1, DispatchPurgesNone, Zenon DEF RelayRequestKnown
  <2>2. CASE RelayRequestTaken(src, d, m, t[1], t[2])
    BY <2>2, TakenPurges DEF RelayRequestTaken, dispatch_pending_custody
  <2>3. CASE RelayRequestPressed(src, d, m, t[1], t[2])
    BY <2>3, RoomForOne, Zenon DEF RelayRequestPressed, Held
  <2> QED BY <1>2, <2>1, <2>2, <2>3, Zenon
<1>3. ASSUME NEW d, CustodyPull \/ ConnectionEstablished(d)
      PROVE  OwnLast
  BY <1>1, <1>3, DispatchPurgesNone, Zenon DEF CustodyPull, ConnectionEstablished
<1>4. ASSUME NEW d, NEW r, ConnectionClosed(d) \/ DispatchFailed(r) \/ LateOutcome(r)
      PROVE  OwnLast
  BY <1>1, <1>4, DispatchLogsNothing, NonePurged, Zenon
     DEF ConnectionClosed, DispatchFailed, LateOutcome, custodyVars, OnlyDelivers
<1>5. ASSUME NEW r, NEW d, NEW m, DispatchDelivered(r) \/ MarkerReceived(d, m)
      PROVE  OwnLast
  <2>1. CASE MarkerReceived(d, m)
    BY <2>1, ConvergenceLogged, NonePurged, Zenon DEF MarkerReceived
  <2>2. CASE DispatchDelivered(r)
    <3> DEFINE s == mark_delivered(store, {r.id})
    <3>1. OnlyDelivers(store, s) /\ \A R : OnlyDelivers(s, Converged(s, R, r.dest, r.msg))
      BY ConvergenceLogged, Zenon
    <3>2. store' = s \/ store' = Converged(s, dispatches \ {r}, r.dest, r.msg)
      BY <2>2, Zenon DEF DispatchDelivered
    <3> HIDE DEF s
    <3>3. OnlyDelivers(store, store')
      BY <3>1, <3>2, Zenon DEF OnlyDelivers
    <3> QED BY <3>3, NonePurged, Zenon
  <2> QED BY <1>5, <2>1, <2>2, Zenon
<1>6. ASSUME NEW i, RegistrationRefused(i)
      PROVE  OwnLast
  BY <1>6, NonePurged, Zenon DEF RegistrationRefused, custodyVars, OnlyDelivers
<1> QED BY <1>2, <1>3, <1>4, <1>5, <1>6, RegistryPurges, Zenon DEF Handler

\* ... and every other step.
LEMMA OtherPurges ==
    ASSUME TypeOK, HeldBelow, Environment \/ Crashing \/ UNCHANGED vars, regs' = regs
    PROVE  OwnLast
<1>1. CASE Environment \/ UNCHANGED vars \/ Crash
  <2>1. store' = store
    BY <1>1, Zenon DEF Environment, DestinationAnswers, DeliveredElsewhere, RegistrationQuery, TimePasses,
           WindowExpires, SetBlocked, SetUsage, custodyVars, vars, Crash, Restart
  <2> QED BY <2>1, NonePurged, Zenon DEF OnlyDelivers
<1>2. ASSUME NEW d, CrashDispatching(d)
      PROVE  OwnLast
  BY <1>2, DispatchLogsNothing, NonePurged DEF CrashDispatching, Restart, OnlyDelivers, TypeOK
<1>3. ASSUME NEW src, NEW d \in Destinations, NEW m \in Messages, NEW t \in Targets,
             CrashPurging(src, d, m, t[1], t[2]) \/ CrashTaking(src, d, m, t[1], t[2])
      PROVE  OwnLast
  BY <1>3, CrashPurges, TakenPurges, Zenon DEF CrashTaking, Restart
<1>4. ASSUME NEW d, NEW m, CrashClosing(d, m)
      PROVE  OwnLast
  BY <1>4, DeliveriesLogged, NonePurged DEF CrashClosing, ClosePrefixes, Restart
<1> QED BY <1>1, <1>2, <1>3, <1>4, RegistryPurges, Zenon DEF Crashing

\* When the storage policy purges records to make room, a message of the relay's
\* own identities goes only if no other message is left: purge_oldest_by_policy
\* takes the others first, over all the purges of one write, and whatever a crash
\* leaves of them.
THEOREM OwnPurgedLast == Spec => OwnMessagesLast
<1>1. TypeOK /\ HeldBelow /\ [Next]_vars =>
        [regs' = regs =>
            \A c \in NewlyPurged, b \in (Held \cap Held') \ NewlyPurged :
                is_identity_related_record(store.recs[c].dest)
                    => is_identity_related_record(store.recs[b].dest)]_vars
  BY HandlerPurges, OtherPurges, Zenon DEF Next, OwnLast
<1> QED BY <1>1, Typing, HeldBelowAlways, PTL DEF Spec, OwnMessagesLast
=============================================================================

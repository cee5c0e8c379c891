------------------------ MODULE SwarmDispatchProofs ------------------------
(***************************************************************************)
(* The requests a relay has in flight and the custody records they are     *)
(* for: which requests there are for a record, how many there are in all,  *)
(* and how many records wait for one destination or may wait for it again. *)
(***************************************************************************)
EXTENDS SwarmCustodyProofs, FiniteSetTheorems

\* The requests D agree with the records of store s.
Exclusive(s, D) ==
    /\ \A r \in D : r.id \in DOMAIN s.recs =>
            s.recs[r.id].state = "Dispatching" /\ s.recs[r.id].attempts = r.attempt
    /\ \A q, r \in D : q.id = r.id => q = r

\* Every record being dispatched has a request among D.
Tracked(s, D) == \A c \in DOMAIN s.recs : s.recs[c].state = "Dispatching" => c \in Ids(D)

\* The records that wait for d, or will when their request fails.
Live(s, D, d) == {c \in DOMAIN s.recs :
                    s.recs[c].dest = d /\ (s.recs[c].state = "Accepted" \/ c \in Ids(D))}

\* What an operation that takes store s and requests D to t and E keeps, if they
\* agreed.
InStep(s, D, t, E) ==
    /\ Exclusive(t, E)
    /\ Tracked(s, D) => Tracked(t, E)
    /\ \A d : Live(t, E, d) \subseteq Live(s, D, d)

\* Removing records, and every request of some of those removed; or changing no
\* more than the device of records.
LEMMA ReleaseInStep ==
    ASSUME NEW s, NEW D, Exclusive(s, D), NEW t, NEW E, E \subseteq D,
           DOMAIN t.recs \subseteq DOMAIN s.recs,
           \A c \in DOMAIN t.recs : /\ t.recs[c].dest = s.recs[c].dest
                                    /\ t.recs[c].state = s.recs[c].state
                                    /\ t.recs[c].attempts = s.recs[c].attempts,
           \A r \in D \ E : r.id \notin DOMAIN t.recs
    PROVE  InStep(s, D, t, E)
<1>1. Exclusive(t, E)
  BY DEF Exclusive
<1>2. \A c \in DOMAIN t.recs : c \in Ids(D) <=> c \in Ids(E)
  BY DEF Ids
<1>3. Tracked(s, D) => Tracked(t, E)
  BY <1>2, Zenon DEF Tracked
<1>4. \A d : Live(t, E, d) \subseteq Live(s, D, d)
  BY <1>2 DEF Live
<1> QED BY <1>1, <1>3, <1>4 DEF InStep

\* Dispatching records that wait.
LEMMA DispatchInStep ==
    ASSUME NEW s, StoreTypeOK(s), NEW D, Exclusive(s, D), NEW T,
           \A c \in T : c \in DOMAIN s.recs /\ s.recs[c].state = "Accepted"
    PROVE  InStep(s, D, mark_dispatching(s, T), D \cup NewRequests(s, T))
<1> DEFINE f == [x \in DOMAIN s.recs |->
                    IF x \in T THEN [s.recs[x] EXCEPT !.state = "Dispatching", !.attempts = @ + 1]
                    ELSE s.recs[x]]
           t == mark_dispatching(s, T)
           N == NewRequests(s, T)
<1>1. t.recs = f
  BY DEF mark_dispatching, StoreTypeOK
<1>2. ASSUME NEW c \in DOMAIN s.recs
      PROVE  /\ f[c].dest = s.recs[c].dest
             /\ c \in T => f[c].state = "Dispatching" /\ f[c].attempts = s.recs[c].attempts + 1
             /\ c \notin T => f[c] = s.recs[c]
  <2>1. s.recs[c] \in CustodyRecords
    BY DEF StoreTypeOK
  <2> QED BY <2>1, Zenon DEF CustodyRecords
<1>3. DOMAIN f = DOMAIN s.recs
  OBVIOUS
<1>4. \A r \in N : /\ r.id \in T /\ r.attempt = s.recs[r.id].attempts + 1
                   /\ r = [id |-> r.id, attempt |-> s.recs[r.id].attempts + 1,
                           dest |-> s.recs[r.id].dest, msg |-> s.recs[r.id].msg]
  BY DEF NewRequests
<1>5. \A c \in T : \E r \in N : r.id = c
  <2>1. ASSUME NEW c \in T
        PROVE  \E r \in N : r.id = c
    <3> DEFINE r == [id |-> c, attempt |-> s.recs[c].attempts + 1,
                     dest |-> s.recs[c].dest, msg |-> s.recs[c].msg]
    <3>1. r \in N /\ r.id = c
      BY DEF NewRequests
    <3> QED BY <3>1
  <2> QED BY <2>1, Zenon
<1> HIDE DEF f, t, N
<1>6. \A r \in D : r.id \notin T
  BY Zenon DEF Exclusive
<1>7. Exclusive(t, D \cup N)
  BY <1>2, <1>4, <1>6, <1>1, <1>3 DEF Exclusive
<1>8. \A c : c \in Ids(D \cup N) <=> c \in Ids(D) \cup T
  BY <1>4, <1>5 DEF Ids
<1>9. Tracked(s, D) => Tracked(t, D \cup N)
  BY <1>1, <1>2, <1>3, <1>8 DEF Tracked
<1>10. \A d : Live(t, D \cup N, d) \subseteq Live(s, D, d)
  BY <1>1, <1>2, <1>3, <1>8, Zenon DEF Live
<1> QED BY <1>7, <1>9, <1>10, Zenon DEF InStep, t, N

\* Requests fail, and their records wait again.
LEMMA FailureInStep ==
    ASSUME NEW s, StoreTypeOK(s), NEW D, Exclusive(s, D), NEW R, R \subseteq D
    PROVE  InStep(s, D, mark_dispatch_failed(s, Ids(R)), D \ R)
<1> DEFINE f == [x \in DOMAIN s.recs |->
                    IF x \in Ids(R) THEN [s.recs[x] EXCEPT !.state = "Accepted"] ELSE s.recs[x]]
           t == mark_dispatch_failed(s, Ids(R))
<1>1. t.recs = f
  BY Zenon DEF mark_dispatch_failed, StoreTypeOK
<1>2. ASSUME NEW c \in DOMAIN s.recs
      PROVE  /\ f[c].dest = s.recs[c].dest
             /\ c \in Ids(R) => f[c].state = "Accepted"
             /\ c \notin Ids(R) => f[c] = s.recs[c]
  BY Zenon DEF StoreTypeOK, CustodyRecords
<1>3. DOMAIN f = DOMAIN s.recs
  BY Zenon
<1> HIDE DEF f, t
<1>4. \A r \in D \ R : r.id \notin Ids(R)
  BY Zenon DEF Exclusive, Ids
<1>5. \A c : c \in Ids(D \ R) <=> c \in Ids(D) \ Ids(R)
  BY <1>4, Zenon DEF Ids
<1>6. Ids(R) \subseteq Ids(D)
  BY DEF Ids
<1>7. Exclusive(t, D \ R)
  BY <1>1, <1>2, <1>3, <1>4 DEF Exclusive
<1>8. Tracked(s, D) => Tracked(t, D \ R)
  BY <1>1, <1>2, <1>3, <1>5, Zenon DEF Tracked
<1>9. \A d : Live(t, D \ R, d) \subseteq Live(s, D, d)
  BY <1>1, <1>2, <1>3, <1>5, <1>6, Zenon DEF Live
<1> QED BY <1>7, <1>8, <1>9, Zenon DEF InStep, t

\* One operation after the other.
LEMMA InStepTransitive ==
    ASSUME NEW s, NEW D, NEW t, NEW E, NEW u, NEW F, InStep(s, D, t, E), InStep(t, E, u, F)
    PROVE  InStep(s, D, u, F)
<1> QED BY Zenon DEF InStep

\* A new record waits for its destination, and has no request yet.
LEMMA PutInStep ==
    ASSUME NEW s, StoreTypeOK(s), NEW D, Exclusive(s, D), NEW c \in Nat, \A r \in D : r.id # c,
           NEW rec \in CustodyRecords, rec.state = "Accepted"
    PROVE  LET t == put_message(s, c, rec)
           IN  /\ Exclusive(t, D)
               /\ Tracked(s, D) => Tracked(t, D)
               /\ \A d : /\ Live(t, D, d) \subseteq Live(s, D, d) \cup {c}
                         /\ d # rec.dest => Live(t, D, d) \subseteq Live(s, D, d)
<1> DEFINE t == put_message(s, c, rec)
<1>1. /\ DOMAIN t.recs = DOMAIN s.recs \cup {c}
      /\ t.recs[c] = rec
      /\ \A x \in DOMAIN s.recs \ {c} : t.recs[x] = s.recs[x]
  BY PutType
<1> HIDE DEF t
<1>2. Exclusive(t, D)
  BY <1>1, Zenon DEF Exclusive
<1>3. Tracked(s, D) => Tracked(t, D)
  BY <1>1, Zenon DEF Tracked
<1>4. \A d : /\ Live(t, D, d) \subseteq Live(s, D, d) \cup {c}
             /\ d # rec.dest => Live(t, D, d) \subseteq Live(s, D, d)
  BY <1>1, Zenon DEF Live
<1> QED BY <1>2, <1>3, <1>4, Zenon DEF t

\* Records are removed, each logged first, and no request is forgotten.
LEMMA CloseInStep ==
    ASSUME NEW s, StoreTypeOK(s), NEW D, Exclusive(s, D), NEW C, C \subseteq DOMAIN s.recs, NEW L,
           NEW how \in {"delivered", "purged"}
    PROVE  InStep(s, D, CloseCut(s, C, L, how), D)
<1> DEFINE t == CloseCut(s, C, L, how)
<1>1. Follows(s, t) /\ SameRecords(s, t)
  BY CloseCutFollows, Zenon
<1> HIDE DEF t
<1>2. DOMAIN t.recs \subseteq DOMAIN s.recs /\ \A c \in DOMAIN t.recs : t.recs[c] = s.recs[c]
  BY <1>1, Zenon DEF Follows, SameRecords
<1> QED BY <1>2, ReleaseInStep, Zenon DEF t

\* A marker closes every record of its message, requested or not.
LEMMA ConvergedInStep ==
    ASSUME NEW s, StoreTypeOK(s), NEW D, Exclusive(s, D), NEW d, NEW m
    PROVE  InStep(s, D, Converged(s, D, d, m), {x \in D : <<x.dest, x.msg>> # <<d, m>>})
<1> DEFINE R == {r \in D : r.dest = d /\ r.msg = m}
           u == mark_delivered(s, Ids(R))
           t == converge_delivered_for_message(u, d, m)
           E == {x \in D : <<x.dest, x.msg>> # <<d, m>>}
<1>1. Converged(s, D, d, m) = t
  BY Zenon DEF Converged
<1>2. D \ E = R /\ E \subseteq D
  BY Zenon
<1>3. /\ StoreTypeOK(u) /\ SameRecords(s, u)
      /\ DOMAIN u.recs = DOMAIN s.recs \ (Ids(R) \cap DOMAIN s.recs)
  BY CloseFollows, Zenon DEF mark_delivered
<1>4. SameRecords(u, t) /\ DOMAIN t.recs \subseteq DOMAIN u.recs
  <2> HIDE DEF u
  <2> QED BY <1>3, ConvergeFollows, Zenon DEF Follows
<1> HIDE DEF R, u, t, E
<1>5. \A c \in DOMAIN t.recs : c \in DOMAIN s.recs /\ c \notin Ids(R) /\ t.recs[c] = s.recs[c]
  BY <1>3, <1>4, Zenon DEF SameRecords
<1>6. \A r \in D \ E : r.id \notin DOMAIN t.recs
  BY <1>2, <1>5, Zenon DEF Ids
<1> QED BY <1>1, <1>5, <1>6, ReleaseInStep, Zenon DEF E

\* A registration changes, and the queue of its identity with it, wholly or not.
LEMMA SideEffectInStep ==
    ASSUME NEW s, StoreTypeOK(s), NEW D, Exclusive(s, D), NEW i, NEW e \in Effects,
           NEW t \in SideEffectPrefixes(s, i, e) \cup {apply_registry_side_effect(s, i, e)}
    PROVE  InStep(s, D, t, D)
<1> DEFINE C == IdentityRecords(s, i, e.from)
<1>0. C \subseteq DOMAIN s.recs
  BY IdentityRecordsType, Zenon
<1> HIDE DEF C
<1>1. CASE e.kind = "migrate"
  <2>1. PICK A \in SUBSET C : t = migrate_pending_identity_device(s, A, e.to)
    BY <1>1, Zenon DEF SideEffectPrefixes, apply_registry_side_effect, C
  <2> DEFINE f == [x \in DOMAIN s.recs |->
                    IF x \in A THEN [s.recs[x] EXCEPT !.dev = e.to] ELSE s.recs[x]]
  <2>2. t.recs = f
    BY <2>1, Zenon DEF migrate_pending_identity_device, StoreTypeOK
  <2>3. ASSUME NEW c \in DOMAIN s.recs
        PROVE  /\ f[c].dest = s.recs[c].dest
               /\ f[c].state = s.recs[c].state
               /\ f[c].attempts = s.recs[c].attempts
    BY DEF StoreTypeOK, CustodyRecords
  <2>4. DOMAIN f = DOMAIN s.recs
    BY Zenon
  <2> HIDE DEF f
  <2> QED BY <2>2, <2>3, <2>4, ReleaseInStep, Zenon
<1>2. CASE e.kind = "purge"
  <2>1. PICK A, L : A \in SUBSET C /\ t = CloseCut(s, A, L, "purged")
    BY <1>2 DEF SideEffectPrefixes, apply_registry_side_effect, ClosePrefixes, Close, C
  <2> QED BY <1>0, <2>1, CloseInStep, Zenon
<1>3. CASE e.kind = "none"
  BY <1>3, ReleaseInStep, Zenon DEF SideEffectPrefixes, apply_registry_side_effect
<1> QED BY <1>1, <1>2, <1>3, Zenon DEF Effects
-----------------------------------------------------------------------------
\* A step takes no message, or it takes one for d.
Advances == InStep(store, dispatches, store', dispatches')

LiveFits == \A d : Live(store', dispatches', d) \subseteq Live(store, dispatches, d)

Admits(d) ==
    /\ Cardinality(dispatches) < MaxInflight
    /\ Cardinality(Pending(store, d)) < MaxPending
    /\ \A e : /\ Live(store', dispatches', e) \subseteq Live(store, dispatches, e) \cup {nextId}
              /\ e # d => Live(store', dispatches', e) \subseteq Live(store, dispatches, e)

\* What every step does to the requests and their records: they still agree, and
\* unless it is a crash no record loses the request that tracks it.
StepAgrees ==
    /\ Exclusive(store', dispatches')
    /\ crashes' = 0 => crashes = 0 /\ (Tracked(store, dispatches) => Tracked(store', dispatches'))
    /\ LiveFits \/ \E d \in Destinations : Admits(d)

\* A step that is no crash and advances agrees.
LEMMA AdvanceAgrees ==
    ASSUME Advances, UNCHANGED crashes
    PROVE  StepAgrees
BY Zenon DEF Advances, InStep, LiveFits, StepAgrees

\* The requests a handler makes are for records that wait.
LEMMA DispatchAdvances ==
    ASSUME NEW s, StoreTypeOK(s), Exclusive(s, dispatches),
           NEW ds, dispatch_pending_custody(s, ds)
    PROVE  InStep(s, dispatches, store', dispatches')
<1>1. PICK T \in Served(s, ds, Slots) :
        store' = mark_dispatching(s, T) /\ dispatches' = dispatches \cup NewRequests(s, T)
  BY Zenon DEF dispatch_pending_custody
<1>2. \A c \in T : c \in DOMAIN s.recs /\ s.recs[c].state = "Accepted"
  BY ServedPending, Zenon
<1> QED BY <1>1, <1>2, DispatchInStep, Zenon

\* Taking a message: what is purged for it, its record, and its dispatch.
LEMMA TakenAgrees ==
    ASSUME TypeOK, Truthful, Exclusive(store, dispatches),
           NEW src, NEW d \in Destinations, NEW m \in Messages, NEW t \in Targets,
           NewCustody(src, d, m, t[1], t[2])
    PROVE  LET s == Taken(d, m, t[1], t[2])
           IN  /\ StoreTypeOK(s)
               /\ Exclusive(s, dispatches)
               /\ Tracked(store, dispatches) => Tracked(s, dispatches)
               /\ Cardinality(dispatches) < MaxInflight
               /\ Cardinality(Pending(store, d)) < MaxPending
               /\ \A e : /\ Live(s, dispatches, e) \subseteq Live(store, dispatches, e) \cup {nextId}
                         /\ e # d => Live(s, dispatches, e) \subseteq Live(store, dispatches, e)
<1> DEFINE rec == NewRecord(d, m, t[1], resolve_custody_metadata(t[1], t[2]))
           u == Unpressed(d, m)
           s == put_message(u, nextId, rec)
<1>1. rec \in CustodyRecords
  BY NewRecordType, Zenon DEF TypeOK
<1>2. rec.dest = d /\ rec.state = "Accepted"
  BY Zenon DEF NewRecord
<1>3. StoreTypeOK(u)
  BY UnpressedFollows, Zenon DEF TypeOK
<1>4. InStep(store, dispatches, u, dispatches)
  BY CloseInStep, Zenon DEF TypeOK, Unpressed, Close
<1>5. nextId \in Nat /\ \A r \in dispatches : r.id # nextId
  BY DEF TypeOK, Truthful, LoopTrue, RequestTrue
<1>6. Taken(d, m, t[1], t[2]) = s
  BY Zenon DEF Taken
<1> HIDE DEF rec, u
<1>7. Exclusive(u, dispatches)
  BY <1>4, Zenon DEF InStep
<1>8. StoreTypeOK(s)
  BY <1>1, <1>3, <1>5, PutType, Zenon
<1>9. /\ Exclusive(s, dispatches)
      /\ Tracked(u, dispatches) => Tracked(s, dispatches)
      /\ \A e : /\ Live(s, dispatches, e) \subseteq Live(u, dispatches, e) \cup {nextId}
                /\ e # d => Live(s, dispatches, e) \subseteq Live(u, dispatches, e)
  BY <1>1, <1>2, <1>3, <1>5, <1>7, PutInStep
<1> HIDE DEF s
<1>10. \A e : /\ Live(s, dispatches, e) \subseteq Live(store, dispatches, e) \cup {nextId}
              /\ e # d => Live(s, dispatches, e) \subseteq Live(store, dispatches, e)
  BY <1>4, <1>9, Zenon DEF InStep
<1>11. Cardinality(dispatches) < MaxInflight /\ Cardinality(Pending(store, d)) < MaxPending
  BY Zenon DEF NewCustody, Admitted
<1> QED BY <1>4, <1>6, <1>8, <1>9, <1>10, <1>11, Zenon DEF InStep

\* Every handler keeps the requests and the records in agreement.
LEMMA HandlerAgrees ==
    ASSUME TypeOK, Truthful, Exclusive(store, dispatches), Handler
    PROVE  StepAgrees
<1>0. StoreTypeOK(store) /\ dispatches \subseteq DOMAIN answers
  BY Zenon DEF TypeOK, Truthful, LoopTrue
<1> USE DEF worldVars, loopVars
<1>1. ASSUME NEW src \in Sources, NEW d \in Destinations, NEW m \in Messages, NEW t \in Targets,
             RelayRequestKnown(src, d, m, t[1], t[2])
      PROVE  StepAgrees
  BY <1>0, <1>1, DispatchAdvances, AdvanceAgrees, Zenon DEF RelayRequestKnown, Advances
<1>2. ASSUME NEW src \in Sources, NEW d \in Destinations, NEW m \in Messages, NEW t \in Targets,
             RelayRequestTaken(src, d, m, t[1], t[2])
      PROVE  StepAgrees
  <2> DEFINE s == Taken(d, m, t[1], t[2])
  <2>1. NewCustody(src, d, m, t[1], t[2]) /\ UNCHANGED crashes
    BY <1>2, Zenon DEF RelayRequestTaken
  <2>2. /\ StoreTypeOK(s)
        /\ Exclusive(s, dispatches)
        /\ Tracked(store, dispatches) => Tracked(s, dispatches)
        /\ Cardinality(dispatches) < MaxInflight
        /\ Cardinality(Pending(store, d)) < MaxPending
        /\ \A e : /\ Live(s, dispatches, e) \subseteq Live(store, dispatches, e) \cup {nextId}
                  /\ e # d => Live(s, dispatches, e) \subseteq Live(store, dispatches, e)
    BY <2>1, TakenAgrees, Zenon
  <2>3. dispatch_pending_custody(s, {d} \cap connected)
    BY <1>2, Zenon DEF RelayRequestTaken
  <2> HIDE DEF s
  <2>4. InStep(s, dispatches, store', dispatches')
    BY <2>2, <2>3, DispatchAdvances, Zenon
  <2>5. Admits(d)
    BY <2>2, <2>4, Zenon DEF InStep, Admits
  <2> QED BY <2>1, <2>2, <2>4, <2>5, Zenon DEF InStep, StepAgrees
<1>3. ASSUME NEW src \in Sources, NEW d \in Destinations, NEW m \in Messages, NEW t \in Targets,
             RelayRequestPressed(src, d, m, t[1], t[2])
      PROVE  StepAgrees
  BY <1>0, CloseInStep, <1>3, AdvanceAgrees, Zenon DEF Unpressed, Close, RelayRequestPressed, Advances
<1>4. CASE CustodyPull
  BY <1>0, <1>4, DispatchAdvances, AdvanceAgrees, Zenon DEF CustodyPull, Advances
<1>5. ASSUME NEW d \in Destinations, ConnectionEstablished(d)
      PROVE  StepAgrees
  BY <1>0, <1>5, DispatchAdvances, AdvanceAgrees, Zenon DEF ConnectionEstablished, Advances
<1>6. ASSUME NEW d \in Destinations, ConnectionClosed(d)
      PROVE  StepAgrees
  <2> DEFINE R == {r \in DOMAIN answers : r.dest = d} \cap dispatches
  <2>1. /\ store' = mark_dispatch_failed(store, Ids(R)) /\ UNCHANGED crashes
        /\ dispatches' = dispatches \ R
    BY <1>6, Zenon DEF ConnectionClosed, Settle
  <2>2. R \subseteq dispatches
    BY Zenon
  <2> HIDE DEF R
  <2> QED BY <1>0, <2>1, <2>2, FailureInStep, AdvanceAgrees, Zenon DEF Advances
<1>7. ASSUME NEW r \in DOMAIN answers, DispatchDelivered(r)
      PROVE  StepAgrees
  <2> DEFINE s == mark_delivered(store, {r.id})
             D == dispatches \ {r}
  <2>1. /\ r \in dispatches /\ UNCHANGED crashes
        /\ \/ store' = s /\ dispatches' = D
           \/ /\ store' = Converged(s, D, r.dest, r.msg)
              /\ dispatches' = {x \in D : <<x.dest, x.msg>> # <<r.dest, r.msg>>}
    BY <1>7, Zenon DEF DispatchDelivered
  <2>2. /\ StoreTypeOK(s) /\ SameRecords(store, s)
        /\ DOMAIN s.recs = DOMAIN store.recs \ ({r.id} \cap DOMAIN store.recs)
    BY <1>0, CloseFollows, Zenon DEF mark_delivered
  <2> HIDE DEF s
  <2>3. InStep(store, dispatches, s, D)
    BY <2>2, ReleaseInStep, Zenon DEF SameRecords
  <2> HIDE DEF D
  <2>4. Exclusive(s, D)
    BY <2>3, Zenon DEF InStep
  <2> DEFINE t == Converged(s, D, r.dest, r.msg)
             E == {x \in D : <<x.dest, x.msg>> # <<r.dest, r.msg>>}
  <2>5. InStep(s, D, t, E)
    BY <2>2, <2>4, ConvergedInStep
  <2> HIDE DEF t, E
  <2>6. InStep(store, dispatches, t, E)
    BY <2>3, <2>5, InStepTransitive, Zenon
  <2>7. Advances
    BY <2>1, <2>3, <2>6, Zenon DEF Advances, t, E
  <2> QED BY <2>1, <2>7, AdvanceAgrees, Zenon
<1>8. ASSUME NEW r \in DOMAIN answers, DispatchFailed(r)
      PROVE  StepAgrees
  <2>1. /\ store' = mark_dispatch_failed(store, Ids({r})) /\ UNCHANGED crashes
        /\ dispatches' = dispatches \ {r} /\ {r} \subseteq dispatches
    BY <1>8, Zenon DEF DispatchFailed, Settle, Ids
  <2> QED BY <1>0, <2>1, FailureInStep, AdvanceAgrees, Zenon DEF Advances
<1>9. ASSUME NEW d \in Destinations, NEW m \in Messages, MarkerReceived(d, m)
      PROVE  StepAgrees
  BY <1>9, <1>0, ConvergedInStep, AdvanceAgrees DEF MarkerReceived, Advances
<1>10. ASSUME NEW i \in Identities, NEW d \in Devices, RegistrationRegister(i, d)
       PROVE  StepAgrees
  BY <1>10, EffectType, SideEffectInStep, AdvanceAgrees, Zenon DEF RegistrationRegister, Advances, TypeOK
<1>11. ASSUME NEW i \in Identities, NEW d \in Devices, NEW t \in Devices \cup {NoDevice},
              RegistrationDeregister(i, d, t)
       PROVE  StepAgrees
  BY <1>11, EffectType, SideEffectInStep, AdvanceAgrees, Zenon DEF RegistrationDeregister, Advances, TypeOK
<1>12. ASSUME \/ \E r \in DOMAIN answers : LateOutcome(r)
              \/ \E i \in Identities : RegistrationRefused(i)
       PROVE  StepAgrees
  <2>1. store' = store /\ dispatches' = dispatches /\ UNCHANGED crashes
    BY <1>12, Zenon DEF LateOutcome, RegistrationRefused, Settle, custodyVars
  <2> QED BY <2>1, ReleaseInStep, AdvanceAgrees, Zenon DEF Advances
<1> HIDE DEF worldVars, loopVars
<1> QED BY <1>1, <1>2, <1>3, <1>4, <1>5, <1>6, <1>7, <1>8, <1>9, <1>10, <1>11, <1>12 DEF Handler

\* A crash forgets every request.  The records of the store it leaves wait no more
\* than the store it cut did.
LEMMA CrashForgets ==
    ASSUME TypeOK, NEW s, Restart(s), NEW E, InStep(store, dispatches, s, E)
    PROVE  StepAgrees
<1>1. store' = s /\ dispatches' = {} /\ crashes' # 0
  BY DEF Restart, TypeOK
<1>2. Exclusive(store', dispatches')
  BY <1>1, Zenon DEF Exclusive
<1>3. \A d : Live(s, {}, d) \subseteq Live(s, E, d)
  BY Zenon DEF Live, Ids
<1>4. LiveFits
  BY <1>1, <1>3, Zenon DEF LiveFits, InStep
<1> QED BY <1>1, <1>2, <1>4, Zenon DEF StepAgrees

\* A crash drops every request, so what is left agrees.
LEMMA CrashAgrees ==
    ASSUME TypeOK, Truthful, Exclusive(store, dispatches), Crashing
    PROVE  StepAgrees
<1>0. StoreTypeOK(store)
  BY Zenon DEF TypeOK
<1>1. CASE Crash
  BY ReleaseInStep, <1>1, CrashForgets, Zenon DEF Crash
<1>2. ASSUME NEW d \in connected, CrashDispatching(d)
      PROVE  StepAgrees
  <2>1. PICK n, T : T \in Served(store, {d}, n) /\ Restart(mark_dispatching(store, T))
    BY <1>2, Zenon DEF CrashDispatching
  <2>2. \A c \in T : c \in DOMAIN store.recs /\ store.recs[c].state = "Accepted"
    BY <2>1, ServedPending, Zenon
  <2>3. InStep(store, dispatches, mark_dispatching(store, T), dispatches \cup NewRequests(store, T))
    BY <1>0, <2>2, DispatchInStep, Zenon
  <2> QED BY <2>1, <2>3, CrashForgets, Zenon
<1>3. ASSUME NEW src \in Sources, NEW d \in Destinations, NEW m \in Messages, NEW t \in Targets,
             CrashPurging(src, d, m, t[1], t[2])
      PROVE  StepAgrees
  <2>1. PICK A, L : A \in SUBSET DOMAIN store.recs /\ Restart(CloseCut(store, A, L, "purged"))
    BY <1>3, Zenon DEF CrashPurging
  <2>2. InStep(store, dispatches, CloseCut(store, A, L, "purged"), dispatches)
    BY <1>0, <2>1, CloseInStep, Zenon
  <2> QED BY <2>1, <2>2, CrashForgets, Zenon
<1>4. ASSUME NEW src \in Sources, NEW d \in Destinations, NEW m \in Messages, NEW t \in Targets,
             CrashTaking(src, d, m, t[1], t[2])
      PROVE  StepAgrees
  <2> DEFINE s == Taken(d, m, t[1], t[2])
  <2>1. PICK n, T : T \in Served(s, {d} \cap connected, n) /\ Restart(mark_dispatching(s, T))
    BY <1>4, Zenon DEF CrashTaking
  <2>2. NewCustody(src, d, m, t[1], t[2])
    BY <1>4, Zenon DEF CrashTaking
  <2>3. /\ StoreTypeOK(s)
        /\ Exclusive(s, dispatches)
        /\ Cardinality(dispatches) < MaxInflight
        /\ Cardinality(Pending(store, d)) < MaxPending
        /\ \A e : /\ Live(s, dispatches, e) \subseteq Live(store, dispatches, e) \cup {nextId}
                  /\ e # d => Live(s, dispatches, e) \subseteq Live(store, dispatches, e)
    BY <2>2, TakenAgrees, Zenon
  <2> HIDE DEF s
  <2> DEFINE u == mark_dispatching(s, T)
             E == dispatches \cup NewRequests(s, T)
  <2>4. \A c \in T : c \in DOMAIN s.recs /\ s.recs[c].state = "Accepted"
    BY <2>1, ServedPending, Zenon
  <2>5. InStep(s, dispatches, u, E)
    BY <2>3, <2>4, DispatchInStep, Zenon
  <2>6. store' = u /\ dispatches' = {} /\ crashes' # 0
    BY <2>1 DEF Restart, TypeOK
  <2> HIDE DEF u, E
  <2>7. \A e : Live(u, {}, e) \subseteq Live(u, E, e)
    BY Zenon DEF Live, Ids
  <2>8. \A e : Live(store', dispatches', e) \subseteq Live(s, dispatches, e)
    BY <2>5, <2>6, <2>7, Zenon DEF InStep
  <2>9. Admits(d)
    BY <2>3, <2>8, Zenon DEF Admits
  <2>10. Exclusive(store', dispatches')
    BY <2>6, Zenon DEF Exclusive
  <2> QED BY <2>6, <2>9, <2>10, Zenon DEF StepAgrees
<1>5. ASSUME NEW d \in Destinations, NEW m \in Messages, CrashClosing(d, m)
      PROVE  StepAgrees
  <2>1. PICK A, L : A \in SUBSET RecordsOf(store, d, m) /\ Restart(CloseCut(store, A, L, "delivered"))
    BY <1>5 DEF CrashClosing, ClosePrefixes
  <2>2. A \subseteq DOMAIN store.recs
    BY <2>1, Zenon DEF RecordsOf
  <2>3. InStep(store, dispatches, CloseCut(store, A, L, "delivered"), dispatches)
    BY <1>0, <2>2, CloseInStep, Zenon
  <2> QED BY <2>1, <2>3, CrashForgets, Zenon
<1>6. ASSUME NEW i \in Identities, NEW d \in Devices, CrashRegistering(i, d)
      PROVE  StepAgrees
  <2>1. PICK s \in SideEffectPrefixes(store, i, register_effect(Current(i), d)) : Restart(s)
    BY <1>6, Zenon DEF CrashRegistering
  <2>2. register_effect(Current(i), d) \in Effects
    BY EffectType, Zenon DEF TypeOK
  <2>3. InStep(store, dispatches, s, dispatches)
    BY <1>0, <2>2, SideEffectInStep, Zenon
  <2> QED BY <2>1, <2>3, CrashForgets, Zenon
<1>7. ASSUME NEW i \in Identities, NEW d \in Devices, NEW t \in Devices \cup {NoDevice},
             CrashDeregistering(i, d, t)
      PROVE  StepAgrees
  <2>1. PICK s \in SideEffectPrefixes(store, i, deregister_effect(Current(i), d, t)) : Restart(s)
    BY <1>7, Zenon DEF CrashDeregistering
  <2>2. deregister_effect(Current(i), d, t) \in Effects
    BY EffectType, Zenon DEF TypeOK
  <2>3. InStep(store, dispatches, s, dispatches)
    BY <1>0, <2>2, SideEffectInStep, Zenon
  <2> QED BY <2>1, <2>3, CrashForgets, Zenon
<1> QED BY <1>1, <1>2, <1>3, <1>4, <1>5, <1>6, <1>7, Zenon DEF Crashing

\* The world changes neither the requests nor their records.
LEMMA EveryStepAgrees ==
    ASSUME TypeOK, Truthful, Exclusive(store, dispatches), [Next]_vars
    PROVE  StepAgrees
<1>1. CASE Environment \/ UNCHANGED vars
  <2>1. UNCHANGED <<store, dispatches, crashes>>
    BY <1>1, Zenon DEF Environment, DestinationAnswers, DeliveredElsewhere, RegistrationQuery,
       TimePasses, WindowExpires, SetBlocked, SetUsage, custodyVars, loopVars, worldVars, vars
  <2> QED BY <2>1, ReleaseInStep, AdvanceAgrees, Zenon DEF Advances
<1> QED BY <1>1, HandlerAgrees, CrashAgrees, Zenon DEF Next

\* One request in flight per record, and none for a record that waits.
THEOREM OneRequestPerRecord == Spec => []DispatchExclusive
<1>1. Init => Exclusive(store, dispatches)
  BY Zenon DEF Init, Exclusive
<1>2. TypeOK /\ Truthful /\ Exclusive(store, dispatches) /\ [Next]_vars
        => Exclusive(store, dispatches)'
  BY EveryStepAgrees, Zenon DEF StepAgrees, Exclusive
<1>3. Truthful /\ Exclusive(store, dispatches) => DispatchExclusive
  BY Zenon DEF Truthful, LoopTrue, Exclusive, DispatchExclusive, Held
<1> QED BY <1>1, <1>2, <1>3, Typing, TruthfulAlways, PTL DEF Spec

\* Without a crash no record is stuck in Dispatching: its request is tracked.
THEOREM EveryDispatchTracked == Spec => []DispatchTracked
<1>1. Init => DispatchTracked
  BY DEF Init, DispatchTracked, Held, EmptyStore
<1>2. TypeOK /\ Truthful /\ DispatchExclusive /\ DispatchTracked /\ [Next]_vars => DispatchTracked'
  <2> SUFFICES ASSUME TypeOK, Truthful, DispatchExclusive, DispatchTracked, [Next]_vars
               PROVE  DispatchTracked'
    BY Zenon
  <2>1. Exclusive(store, dispatches)
    BY Zenon DEF DispatchExclusive, Exclusive, Held
  <2>2. crashes' = 0 => crashes = 0 /\ (Tracked(store, dispatches) => Tracked(store', dispatches'))
    BY <2>1, EveryStepAgrees, Zenon DEF StepAgrees
  <2> QED BY <2>2, Zenon DEF DispatchTracked, Tracked, Held, Ids
<1> QED BY <1>1, <1>2, Typing, TruthfulAlways, OneRequestPerRecord, PTL DEF Spec
-----------------------------------------------------------------------------
\* A set of requests has no more ids than requests.
LEMMA IdsCounted ==
    ASSUME NEW D, IsFiniteSet(D)
    PROVE  IsFiniteSet(Ids(D)) /\ Cardinality(Ids(D)) <= Cardinality(D)
<1> DEFINE g == [r \in D |-> r.id]
<1>1. g \in Surjection(D, Ids(D))
  BY Zenon DEF Surjection, Ids
<1> QED BY <1>1, FS_Surjection, Zenon

\* ... and as many, when no two of them share one.
LEMMA IdsDistinct ==
    ASSUME NEW D, IsFiniteSet(D), \A q, r \in D : q.id = r.id => q = r
    PROVE  IsFiniteSet(Ids(D)) /\ Cardinality(Ids(D)) = Cardinality(D)
<1> DEFINE g == [r \in D |-> r.id]
<1>1. g \in Surjection(D, Ids(D))
  BY Zenon DEF Surjection, Ids
<1>2. g \in Injection(D, Ids(D))
  BY Zenon DEF Injection, IsInjective, Ids
<1> QED BY <1>1, <1>2, FS_Surjection, Zenon

\* A handler makes no more requests than there are slots for.
LEMMA SlotsRespected ==
    ASSUME NEW s, StoreTypeOK(s), IsFiniteSet(DOMAIN s.recs), NEW ds, dispatch_pending_custody(s, ds),
           IsFiniteSet(dispatches), Cardinality(dispatches) <= MaxInflight
    PROVE  IsFiniteSet(dispatches') /\ Cardinality(dispatches') <= MaxInflight
<1>1. PICK T \in Served(s, ds, Slots) : dispatches' = dispatches \cup NewRequests(s, T)
  BY Zenon DEF dispatch_pending_custody
<1> DEFINE all == UNION {Pulled(s, d) : d \in ds}
           N == NewRequests(s, T)
<1>2. T \subseteq all /\ Cardinality(T) = Lesser(Slots, Cardinality(all))
  BY Zenon DEF Served
<1>3. all \subseteq DOMAIN s.recs
  BY Zenon DEF Pulled, Oldest, Pending
<1> HIDE DEF all
<1>4. IsFiniteSet(all) /\ IsFiniteSet(T)
  BY <1>2, <1>3, FS_Subset, Zenon
<1>5. Cardinality(all) \in Nat /\ Cardinality(T) \in Nat /\ Cardinality(dispatches) \in Nat
  BY <1>4, FS_CardinalityType, Zenon
<1>6. Cardinality(T) + Cardinality(dispatches) <= MaxInflight
  BY <1>2, <1>5, SwarmAssumption DEF Lesser, Slots, Monus
<1>7. IsFiniteSet(N) /\ Cardinality(N) <= Cardinality(T)
  <2> DEFINE g == [c \in T |-> [id |-> c, attempt |-> s.recs[c].attempts + 1,
                                dest |-> s.recs[c].dest, msg |-> s.recs[c].msg]]
  <2>1. g \in Surjection(T, N)
    BY Zenon DEF Surjection, NewRequests
  <2> HIDE DEF g, N
  <2> QED BY <1>4, <2>1, FS_Surjection, Zenon
<1> HIDE DEF N
<1>8. /\ IsFiniteSet(dispatches \cup N)
      /\ Cardinality(dispatches \cup N)
            = Cardinality(dispatches) + Cardinality(N) - Cardinality(dispatches \cap N)
  BY <1>7, FS_Union, Zenon
<1>9. Cardinality(N) \in Nat /\ Cardinality(dispatches \cap N) \in Nat
  BY <1>7, FS_Intersection, FS_CardinalityType, Zenon
<1>10. MaxInflight \in Nat
  BY SwarmAssumption, Zenon
<1>11. Cardinality(dispatches \cup N) <= MaxInflight
  BY <1>5, <1>6, <1>7, <1>8, <1>9, <1>10
<1>12. dispatches' = dispatches \cup N
  BY <1>1, Zenon DEF N
<1> QED BY <1>8, <1>11, <1>12, Zenon

\* The cap on requests in flight, and the limit on what waits for a destination
\* or may have to wait for it again.
Bounded ==
    /\ IsFiniteSet(dispatches)
    /\ Cardinality(dispatches) <= MaxInflight
    /\ \A d \in Destinations :
            Cardinality(Live(store, dispatches, d)) < MaxPending + MaxInflight

\* Whatever is held is finite: its ids were given one by one.
LEMMA HeldFinite ==
    ASSUME TypeOK, HeldBelow
    PROVE  IsFiniteSet(Held) /\ \A D, d : IsFiniteSet(Live(store, D, d)) /\ Live(store, D, d) \subseteq Held
<1>1. IsFiniteSet(1..nextId - 1)
  BY FS_Interval DEF TypeOK
<1>2. IsFiniteSet(Held)
  BY <1>1, FS_Subset, ZenonT(30) DEF HeldBelow
<1>3. \A D, d : Live(store, D, d) \subseteq Held
  BY Zenon DEF Live, Held
<1> QED BY <1>2, <1>3, FS_Subset, Zenon

\* The cap on requests in flight holds from step to step.
LEMMA InflightBounded ==
    ASSUME TypeOK, HeldBelow, Bounded, [Next]_vars
    PROVE  IsFiniteSet(dispatches') /\ Cardinality(dispatches') <= MaxInflight
<1>1. CASE dispatches' \subseteq dispatches
  BY <1>1, FS_Subset, FS_CardinalityType, SwarmAssumption DEF Bounded
<1>2. ASSUME NEW ds, dispatch_pending_custody(store, ds)
      PROVE  IsFiniteSet(dispatches') /\ Cardinality(dispatches') <= MaxInflight
  BY <1>2, HeldFinite, SlotsRespected, Zenon DEF TypeOK, Bounded, Held
<1>3. ASSUME NEW src \in Sources, NEW d \in Destinations, NEW m \in Messages, NEW t \in Targets,
             RelayRequestTaken(src, d, m, t[1], t[2])
      PROVE  IsFiniteSet(dispatches') /\ Cardinality(dispatches') <= MaxInflight
  <2> DEFINE s == Taken(d, m, t[1], t[2])
  <2>1. nextId \in Nat /\ StoreTypeOK(Unpressed(d, m))
    BY UnpressedFollows DEF TypeOK
  <2>2. NewRecord(d, m, t[1], resolve_custody_metadata(t[1], t[2])) \in CustodyRecords
    BY NewRecordType, Zenon DEF TypeOK
  <2>3. StoreTypeOK(s) /\ DOMAIN s.recs = DOMAIN Unpressed(d, m).recs \cup {nextId}
    BY <2>1, <2>2, PutType, Zenon DEF Taken
  <2>4. DOMAIN Unpressed(d, m).recs \subseteq Held
    BY UnpressedFollows, Zenon DEF TypeOK, Follows, Held
  <2>5. dispatch_pending_custody(s, {d} \cap connected)
    BY <1>3, Zenon DEF RelayRequestTaken
  <2> HIDE DEF s
  <2>6. IsFiniteSet(DOMAIN Unpressed(d, m).recs)
    BY HeldFinite, <2>4, FS_Subset, Zenon
  <2>7. IsFiniteSet(DOMAIN Unpressed(d, m).recs \cup {nextId})
    BY <2>6, FS_AddElement, Zenon
  <2>8. IsFiniteSet(DOMAIN s.recs)
    BY <2>3, <2>7, Zenon
  <2> QED BY <2>3, <2>5, <2>8, SlotsRespected, Zenon DEF Bounded
<1>4. \/ dispatches' \subseteq dispatches
      \/ \E ds : dispatch_pending_custody(store, ds)
      \/ \E src \in Sources, d \in Destinations, m \in Messages, t \in Targets :
            RelayRequestTaken(src, d, m, t[1], t[2])
  <2>1. CASE Handler
    <3>1. CASE \/ \E r \in DOMAIN answers : DispatchDelivered(r) \/ DispatchFailed(r) \/ LateOutcome(r)
               \/ \E d \in Destinations : ConnectionClosed(d)
               \/ \E d \in Destinations, m \in Messages : MarkerReceived(d, m)
      BY <3>1, Zenon DEF DispatchDelivered, DispatchFailed, LateOutcome, ConnectionClosed,
         MarkerReceived, Settle
    <3>2. CASE \/ \E i \in Identities, d \in Devices : RegistrationRegister(i, d)
               \/ \E i \in Identities, d \in Devices, t \in Devices \cup {NoDevice} :
                        RegistrationDeregister(i, d, t)
               \/ \E i \in Identities : RegistrationRefused(i)
               \/ \E src \in Sources, d \in Destinations, m \in Messages, t \in Targets :
                        RelayRequestPressed(src, d, m, t[1], t[2])
      BY <3>2, Zenon DEF RegistrationRegister, RegistrationDeregister, RegistrationRefused,
                  RelayRequestPressed, loopVars
    <3>3. CASE \/ CustodyPull
               \/ \E d \in Destinations : ConnectionEstablished(d)
               \/ \E src \in Sources, d \in Destinations, m \in Messages, t \in Targets :
                        RelayRequestKnown(src, d, m, t[1], t[2])
      BY <3>3, Zenon DEF CustodyPull, ConnectionEstablished, RelayRequestKnown
    <3> QED BY <2>1, <3>1, <3>2, <3>3, Zenon DEF Handler
  <2>2. CASE Environment \/ UNCHANGED vars
    BY <2>2, Zenon DEF Environment, DestinationAnswers, DeliveredElsewhere, RegistrationQuery,
       TimePasses, WindowExpires, SetBlocked, SetUsage, loopVars, vars
  <2>3. CASE Crashing
    BY <2>3, CrashRestarts, Zenon DEF Restart
  <2> QED BY <2>1, <2>2, <2>3, Zenon DEF Next
<1> QED BY <1>1, <1>2, <1>3, <1>4, Zenon

\* What waits for a destination, or may wait again, grows only when a message is
\* taken for it, and then both limits were still respected.
LEMMA LiveBounded ==
    ASSUME TypeOK, HeldBelow, Bounded, StepAgrees, NEW e \in Destinations,
           IsFiniteSet(Live(store', dispatches', e))
    PROVE  Cardinality(Live(store', dispatches', e)) < MaxPending + MaxInflight
<1> DEFINE L == Live(store, dispatches, e)
           M == Live(store', dispatches', e)
<1>1. IsFiniteSet(L) /\ Cardinality(L) < MaxPending + MaxInflight
  BY HeldFinite, Zenon DEF Bounded
<1>2. MaxPending + MaxInflight \in Nat /\ MaxPending \in Nat /\ MaxInflight \in Nat
  BY StoreAssumption, SwarmAssumption
<1>3. Cardinality(L) \in Nat /\ Cardinality(M) \in Nat
  BY <1>1, FS_CardinalityType, Zenon
<1> HIDE DEF L, M
<1>4. CASE M \subseteq L
  BY <1>1, <1>4, FS_Subset, <1>2, <1>3 DEF M
<1>5. ASSUME Admits(e)
      PROVE  Cardinality(M) < MaxPending + MaxInflight
  <2> DEFINE P == Pending(store, e)
             I == Ids(dispatches)
  <2>1. Cardinality(dispatches) < MaxInflight /\ Cardinality(P) < MaxPending /\ M \subseteq L \cup {nextId}
    BY <1>5, Zenon DEF Admits, M, L
  <2>2. P \subseteq Held /\ L \subseteq P \cup I
    BY Zenon DEF Pending, Live, Held, L
  <2>3. IsFiniteSet(P)
    BY <2>2, HeldFinite, FS_Subset, Zenon
  <2>4. IsFiniteSet(I) /\ Cardinality(I) <= Cardinality(dispatches)
    BY IdsCounted, Zenon DEF Bounded
  <2> HIDE DEF P, I
  <2>5. /\ IsFiniteSet(P \cup I)
        /\ Cardinality(P \cup I) = Cardinality(P) + Cardinality(I) - Cardinality(P \cap I)
    BY <2>3, <2>4, FS_Union, Zenon
  <2>6. Cardinality(P \cap I) \in Nat /\ Cardinality(P) \in Nat /\ Cardinality(I) \in Nat
        /\ Cardinality(dispatches) \in Nat /\ Cardinality(P \cup I) \in Nat
    BY <2>3, <2>4, <2>5, FS_Intersection, FS_CardinalityType, Zenon DEF Bounded
  <2>7. Cardinality(L) <= Cardinality(P \cup I)
    BY <2>2, <2>5, FS_Subset, Zenon
  <2>8. /\ IsFiniteSet(L \cup {nextId})
        /\ Cardinality(L \cup {nextId}) <= Cardinality(L) + 1
        /\ Cardinality(L \cup {nextId}) \in Nat
    <3>1. /\ IsFiniteSet(L \cup {nextId})
          /\ Cardinality(L \cup {nextId}) =
                IF nextId \in L THEN Cardinality(L) ELSE Cardinality(L) + 1
      BY <1>1, FS_AddElement, Zenon
    <3> QED BY <1>3, <3>1
  <2>9. Cardinality(M) <= Cardinality(L \cup {nextId})
    BY <2>1, <2>8, FS_Subset, Zenon
  <2> QED BY <1>2, <1>3, <2>1, <2>4, <2>5, <2>6, <2>7, <2>8, <2>9
<1>6. M \subseteq L \/ Admits(e)
  BY Zenon DEF StepAgrees, LiveFits, Admits, M, L
<1> QED BY <1>4, <1>5, <1>6, Zenon DEF M

\* The limits are kept, whatever is taken, dispatched, refused, purged or lost.
LEMMA BoundedAlways == Spec => []Bounded
<1>1. Init => Bounded
  <2> SUFFICES ASSUME Init PROVE Bounded
    BY Zenon
  <2>1. dispatches = {} /\ \A d \in Destinations : Live(store, dispatches, d) = {}
    BY Zenon DEF Init, Live, EmptyStore
  <2>2. 0 <= MaxInflight /\ 0 < MaxPending + MaxInflight
    BY StoreAssumption, SwarmAssumption
  <2>3. IsFiniteSet({}) /\ Cardinality({}) = 0
    BY FS_EmptySet, Zenon
  <2> QED BY <2>1, <2>2, <2>3, Zenon DEF Bounded
<1>2. TypeOK /\ TypeOK' /\ HeldBelow /\ HeldBelow' /\ Truthful /\ DispatchExclusive /\ Bounded /\ [Next]_vars
        => Bounded'
  <2> SUFFICES ASSUME TypeOK, TypeOK', HeldBelow, HeldBelow', Truthful, DispatchExclusive, Bounded,
                      [Next]_vars
               PROVE  Bounded'
    BY Zenon
  <2>1. IsFiniteSet(dispatches') /\ Cardinality(dispatches') <= MaxInflight
    BY InflightBounded, Zenon
  <2>2. Exclusive(store, dispatches)
    BY Zenon DEF DispatchExclusive, Exclusive, Held
  <2>3. StepAgrees
    BY <2>2, EveryStepAgrees, Zenon
  <2>4. \A d : IsFiniteSet(Live(store', dispatches', d))
    <3>0. 1 \in Int /\ nextId' - 1 \in Int
      BY DEF TypeOK
    <3>1. IsFiniteSet(1..nextId' - 1)
      BY <3>0, FS_Interval, Zenon
    <3>2. \A d : Live(store', dispatches', d) \subseteq 1..nextId' - 1
      BY Zenon DEF Live, HeldBelow, Held
    <3> QED BY <3>1, <3>2, FS_Subset, Zenon
  <2>5. \A d \in Destinations : Cardinality(Live(store', dispatches', d)) < MaxPending + MaxInflight
    BY <2>3, <2>4, LiveBounded, Zenon
  <2> QED BY <2>1, <2>5, Zenon DEF Bounded, Live, Ids
<1> QED BY <1>1, <1>2, Typing, HeldBelowAlways, TruthfulAlways, OneRequestPerRecord, PTL DEF Spec

\* The queue of a destination can outgrow its own limit by what comes back from
\* flight, and no further.
THEOREM QueuesBounded == Spec => []QueueBound
<1>1. TypeOK /\ HeldBelow /\ Truthful /\ DispatchExclusive /\ Bounded => QueueBound
  <2> SUFFICES ASSUME TypeOK, HeldBelow, Truthful, DispatchExclusive, Bounded, NEW d \in Destinations
               PROVE  Cardinality(Pending(store, d))
                        + Cardinality({r \in dispatches : r.dest = d /\ r.id \in Held})
                            < MaxPending + MaxInflight
    BY Zenon DEF Bounded, QueueBound
  <2> DEFINE F == {r \in dispatches : r.dest = d /\ r.id \in Held}
             P == Pending(store, d)
             L == Live(store, dispatches, d)
  <2>1. IsFiniteSet(F) /\ \A q, r \in F : q.id = r.id => q = r
    BY FS_Subset, Zenon DEF Bounded, DispatchExclusive
  <2>2. IsFiniteSet(L) /\ Cardinality(L) < MaxPending + MaxInflight
    BY HeldFinite, Zenon DEF Bounded
  <2>3. \A r \in F : r.id \in Held /\ store.recs[r.id].dest = d /\ store.recs[r.id].state = "Dispatching"
    BY Zenon DEF Truthful, LoopTrue, RequestTrue, KeyOf, DispatchExclusive
  <2>4. P \subseteq L /\ Ids(F) \subseteq L /\ P \cap Ids(F) = {}
    BY <2>3, Zenon DEF Pending, Live, Ids, Held
  <2> HIDE DEF F, P, L
  <2>5. IsFiniteSet(Ids(F)) /\ Cardinality(Ids(F)) = Cardinality(F)
    BY <2>1, IdsDistinct, Zenon
  <2>6. IsFiniteSet(P)
    BY <2>2, <2>4, FS_Subset, Zenon
  <2>7. Cardinality(P \cup Ids(F)) = Cardinality(P) + Cardinality(F)
    <3>1. Cardinality(P) \in Nat /\ Cardinality(F) \in Nat
      BY <2>1, <2>6, FS_CardinalityType, Zenon
    <3>2. Cardinality(P \cup Ids(F)) = Cardinality(P) + Cardinality(Ids(F)) - Cardinality({})
      BY <2>4, <2>5, <2>6, FS_Union
    <3> QED BY <2>5, <3>1, <3>2, FS_EmptySet
  <2>8. Cardinality(P \cup Ids(F)) <= Cardinality(L) /\ IsFiniteSet(P \cup Ids(F))
    BY <2>2, <2>4, FS_Subset, Zenon
  <2>9. Cardinality(P \cup Ids(F)) \in Nat /\ Cardinality(L) \in Nat /\ MaxPending + MaxInflight \in Nat
    BY <2>2, <2>8, FS_CardinalityType, StoreAssumption, SwarmAssumption
  <2> QED BY <2>2, <2>7, <2>8, <2>9 DEF F, P
<1> QED BY <1>1, Typing, HeldBelowAlways, TruthfulAlways, OneRequestPerRecord, BoundedAlways, PTL
=============================================================================

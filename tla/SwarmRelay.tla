----------------------------- MODULE SwarmRelay -----------------------------
(***************************************************************************)
(* A relay node at work: the handlers of the swarm event loop              *)
(* (core/src/transport/swarm.rs) that take messages into custody, dispatch *)
(* them to their destinations, and learn of their delivery, together with  *)
(* the durable store (RelayCustodyStore) and registry (RelayRegistry) they *)
(* drive, the connections, and the destinations that answer.               *)
(*                                                                         *)
(* The loop runs one handler at a time, so a handler is one action.  What  *)
(* interleaves with it is the network, the other nodes, application        *)
(* threads, the passage of time, and crashes: a crash loses everything but *)
(* the store and the registry, and may cut a handler between two writes.   *)
(***************************************************************************)
EXTENDS RelayCustodyStore

CONSTANTS Sources,           \* peers that send relay requests
          Targets,           \* <<identity, device>> hints of those requests
          OtherPaths,        \* <<destination, message>> that other nodes carry too
          Blockable,         \* peers the user may block
          Usages,            \* device usage outside the store
          PullLimit,         \* records pulled at once, 64 in the code
          MaxInflight,       \* RELAY_MAX_INFLIGHT_DISPATCHES
          MaxCustodyIds,     \* bound: records ever accepted
          MaxCrashes         \* bound: crashes

ASSUME SwarmAssumption ==
    /\ Targets \subseteq (Identities \cup {NoIdentity}) \X (Devices \cup {NoDevice})
    /\ OtherPaths \subseteq Destinations \X Messages
    /\ Usages \subseteq Nat
    /\ PullLimit \in Nat
    /\ MaxInflight \in Nat \ {0}
    /\ MaxCustodyIds \in Nat
    /\ MaxCrashes \in Nat

VARIABLES
    store,        \* durable: custody records and the log
    nextId,       \* the next custody id
    dispatches,   \* pending_custody_dispatches
    answers,      \* outstanding requests and what their destination answered
    connected,    \* destinations with an established connection
    window,       \* relay_guardrails: recently accepted requests
    seen,         \* seen_delivery_convergence_markers
    gossip,       \* delivery convergence markers published in the mesh
    blocked,      \* peers the user blocked
    elsewhere,    \* bytes the device uses outside the store
    received,     \* history: messages their destination has accepted
    orphaned,     \* history: identities whose queue lost its side effect
    crashes

vars == <<regVars, store, nextId, dispatches, answers, connected, window, seen,
          gossip, blocked, elsewhere, received, orphaned, crashes>>

\* An outbound request: the attempt-th dispatch of a custody record.
Requests == [id: Nat, attempt: Nat, dest: Destinations, msg: Messages]

Markers == Destinations \X Messages

TypeOK ==
    /\ RegTypeOK
    /\ StoreTypeOK(store)
    /\ nextId \in 1..MaxCustodyIds + 1
    /\ dispatches \subseteq Requests
    /\ DOMAIN answers \subseteq Requests
    /\ answers \in [DOMAIN answers -> {"none", "accepted", "rejected"}]
    /\ connected \subseteq Destinations
    /\ window \subseteq Sources \X Destinations \X Messages
    /\ seen \subseteq Markers
    /\ gossip \subseteq Markers
    /\ blocked \subseteq Blockable
    /\ elsewhere \in Usages
    /\ received \subseteq Markers
    /\ orphaned \subseteq Identities
    /\ crashes \in 0..MaxCrashes

Init ==
    /\ RegInit
    /\ store = EmptyStore
    /\ nextId = 1
    /\ dispatches = {}
    /\ answers = [r \in {} |-> "none"]
    /\ connected = {}
    /\ window = {}
    /\ seen = {}
    /\ gossip = {}
    /\ blocked = {}
    /\ elsewhere \in Usages /\ elsewhere <= DeviceTotal
    /\ received = {}
    /\ orphaned = {}
    /\ crashes = 0

\* Groups of variables that an action leaves alone.
custodyVars == <<store, nextId>>
loopVars == <<dispatches, answers, window, seen>>
worldVars == <<blocked, elsewhere, crashes>>
-----------------------------------------------------------------------------
\* dispatch_pending_custody_for_peer.  Of the records pulled for d, those still
\* below the attempt limit are sent; s is the store as the handler left it.
Pulled(s, d) ==
    IF d \in blocked THEN {}
    ELSE {c \in Oldest(Pending(s, d), PullLimit) : can_dispatch(s, c)}

Slots == Monus(MaxInflight, Cardinality(dispatches))

\* What n dispatches take from the peers ds: one peer after the other, in any
\* order, and the oldest records first.
Served(s, ds, n) ==
    LET all == UNION {Pulled(s, d) : d \in ds}
        of(T, d) == T \cap Pulled(s, d)
    IN  {T \in SUBSET all :
            /\ Cardinality(T) = Lesser(n, Cardinality(all))
            /\ \A d \in ds : of(T, d) = Oldest(Pulled(s, d), Cardinality(of(T, d)))
            /\ \A d, e \in ds : of(T, d) # {} /\ of(T, e) # {} /\ d # e =>
                    of(T, d) = Pulled(s, d) \/ of(T, e) = Pulled(s, e)}

NewRequests(s, T) ==
    {[id |-> c, attempt |-> s.recs[c].attempts + 1,
      dest |-> s.recs[c].dest, msg |-> s.recs[c].msg] : c \in T}

dispatch_pending_custody(s, ds) ==
    \E T \in Served(s, ds, Slots) :
        /\ store' = mark_dispatching(s, T)
        /\ dispatches' = dispatches \cup NewRequests(s, T)
        /\ answers' = [r \in DOMAIN answers \cup NewRequests(s, T) |->
                          IF r \in DOMAIN answers THEN answers[r] ELSE "none"]

Ids(R) == {r.id : r \in R}

\* Forget requests: they are answered, failed, or their connection is gone.
Settle(R) ==
    /\ dispatches' = dispatches \ R
    /\ answers' = [r \in DOMAIN answers \ R |-> answers[r]]
-----------------------------------------------------------------------------
\* Defect: a handover's target is ignored.
resolve_custody_metadata_MUT(i, dev) == dev

\* A relay request that passes the guardrails.  The device it is kept for:
resolve_custody_metadata(i, dev) ==
    IF i = NoIdentity \/ dev = NoDevice THEN dev ELSE enforced_device(Current(i), dev)

custody_allowed(i, dev) ==
    i # NoIdentity /\ dev # NoDevice => enforce_custody(Current(i), dev)

\* Defect: the cap on requests in flight is not a reason to refuse.
Admitted_MUT(src, d, m, i, dev) ==
    /\ src \notin blocked
    /\ custody_allowed(i, dev)
    /\ <<src, d, m>> \notin window

Admitted(src, d, m, i, dev) ==
    /\ src \notin blocked
    /\ Cardinality(dispatches) < MaxInflight
    /\ custody_allowed(i, dev)
    /\ <<src, d, m>> \notin window       \* a recent duplicate changes nothing

RecordAccepted(src, d, m) == window' = window \cup {<<src, d, m>>}

\* accept_custody returns the existing record
RelayRequestKnown(src, d, m, i, dev) ==
    /\ Admitted(src, d, m, i, dev)
    /\ RecordsOf(store, d, m) # {}
    /\ RecordAccepted(src, d, m)
    /\ dispatch_pending_custody(store, {d} \cap connected)
    /\ UNCHANGED <<regVars, nextId, connected, seen, gossip, received, orphaned, worldVars>>

\* accept_custody, up to the decision of the storage pressure check
Verdict(d, m) == enforce_storage_pressure_for_write(store, elsewhere, d, m)

Unpressed(d, m) == Close(store, DOMAIN store.recs \ Verdict(d, m).keep, "purged")

Taken(d, m, i, dev) ==
    put_message(Unpressed(d, m), nextId, NewRecord(d, m, i, resolve_custody_metadata(i, dev)))

\* Defect: a message already in custody is not looked for.
NewCustody_MUT(src, d, m, i, dev) ==
    /\ Admitted(src, d, m, i, dev)
    /\ Cardinality(Pending(store, d)) < MaxPending
    /\ nextId <= MaxCustodyIds

NewCustody(src, d, m, i, dev) ==
    /\ Admitted(src, d, m, i, dev)
    /\ RecordsOf(store, d, m) = {}
    /\ Cardinality(Pending(store, d)) < MaxPending
    /\ nextId <= MaxCustodyIds

RelayRequestTaken(src, d, m, i, dev) ==
    /\ NewCustody(src, d, m, i, dev)
    /\ Verdict(d, m).ok
    /\ nextId' = nextId + 1
    /\ RecordAccepted(src, d, m)
    /\ dispatch_pending_custody(Taken(d, m, i, dev), {d} \cap connected)
    /\ UNCHANGED <<regVars, connected, seen, gossip, received, orphaned, worldVars>>

\* The write is refused, after the purges made to find room for it.
RelayRequestPressed(src, d, m, i, dev) ==
    /\ NewCustody(src, d, m, i, dev)
    /\ ~Verdict(d, m).ok
    /\ store' = Unpressed(d, m)
    /\ UNCHANGED <<regVars, nextId, loopVars, connected, gossip, received, orphaned, worldVars>>
-----------------------------------------------------------------------------
\* custody_pull_interval: every connected peer
CustodyPull ==
    /\ dispatch_pending_custody(store, connected)
    /\ UNCHANGED <<regVars, nextId, connected, window, seen, gossip, received, orphaned, worldVars>>

ConnectionEstablished(d) ==
    /\ d \notin connected \cup {LocalIdentity}
    /\ connected' = connected \cup {d}
    /\ dispatch_pending_custody(store, {d})
    /\ UNCHANGED <<regVars, nextId, window, seen, gossip, received, orphaned, worldVars>>

\* The last connection of d is gone, and with it the requests on it.
ConnectionClosed(d) ==
    LET R == {r \in DOMAIN answers : r.dest = d}
    IN  /\ d \in connected
        /\ connected' = connected \ {d}
        /\ store' = mark_dispatch_failed(store, Ids(R \cap dispatches))
        /\ Settle(R)
        /\ UNCHANGED <<regVars, nextId, window, seen, gossip, received, orphaned, worldVars>>

\* The destination handles a request: it takes the message or refuses it.
DestinationAnswers(r, how) ==
    /\ answers[r] = "none"
    /\ answers' = [answers EXCEPT ![r] = how]
    /\ received' = IF how = "accepted" THEN received \cup {<<r.dest, r.msg>>} ELSE received
    /\ UNCHANGED <<regVars, custodyVars, dispatches, connected, window, seen, gossip,
                   orphaned, worldVars>>

\* apply_delivery_convergence_marker, on the store and requests given
Converged(s, R, d, m) ==
    LET inflight == {r \in R : r.dest = d /\ r.msg = m}
    IN  converge_delivered_for_message(mark_delivered(s, Ids(inflight)), d, m)

\* Response, accepted: the record is closed, and a marker seen for the first
\* time is applied and published.  A request no longer tracked is ignored.
DispatchDelivered(r) ==
    LET s == mark_delivered(store, {r.id})
        d == r.dest
        m == r.msg
        fresh == <<d, m>> \notin seen
    IN  /\ r \in dispatches
        /\ answers[r] = "accepted"
        /\ store' = IF fresh THEN Converged(s, dispatches \ {r}, d, m) ELSE s
        /\ dispatches' = {x \in dispatches \ {r} : fresh => <<x.dest, x.msg>> # <<d, m>>}
        /\ answers' = [x \in DOMAIN answers \ {r} |-> answers[x]]
        /\ seen' = seen \cup {<<d, m>>}
        /\ gossip' = IF fresh THEN gossip \cup {<<d, m>>} ELSE gossip
        /\ UNCHANGED <<regVars, nextId, connected, window, received, orphaned, worldVars>>

\* Response, rejected; or OutboundFailure (a timeout, or the answer was lost)
DispatchFailed(r) ==
    /\ r \in dispatches
    /\ store' = mark_dispatch_failed(store, {r.id})
    /\ Settle({r})
    /\ UNCHANGED <<regVars, nextId, connected, window, seen, gossip, received, orphaned, worldVars>>

\* An answer to, or a failure of, a request that a marker has already settled
LateOutcome(r) ==
    /\ r \notin dispatches
    /\ Settle({r})
    /\ UNCHANGED <<regVars, custodyVars, connected, window, seen, gossip, received,
                   orphaned, worldVars>>
-----------------------------------------------------------------------------
\* A marker arrives on the convergence topic, and concerns something that is
\* tracked here.  Only the first one for a message is applied, and republished.
MarkerReceived(d, m) ==
    LET R == {r \in dispatches : r.dest = d /\ r.msg = m}
    IN  /\ <<d, m>> \in gossip \ seen
        /\ R # {} \/ RecordsOf(store, d, m) # {}
        /\ store' = Converged(store, dispatches, d, m)
        /\ dispatches' = dispatches \ R
        /\ seen' = seen \cup {<<d, m>>}
        /\ UNCHANGED <<regVars, nextId, answers, connected, window, gossip, received,
                       orphaned, worldVars>>

\* Another relay, or the sender itself, gets the message delivered and says so.
DeliveredElsewhere(d, m) ==
    /\ <<d, m>> \in OtherPaths \ gossip
    /\ received' = received \cup {<<d, m>>}
    /\ gossip' = gossip \cup {<<d, m>>}
    /\ UNCHANGED <<regVars, custodyVars, loopVars, connected, orphaned, worldVars>>

\* The registration protocol's requests, once verified
\* (apply_verified_registration_message): the registry first, then the queue.
CollapseOrphans(i) == IF StaleHandover(regs[i]) THEN orphaned \cup {i} ELSE orphaned

RegistrationRegister(i, d) ==
    /\ register(i, d)
    /\ store' = apply_registry_side_effect(store, i, register_effect(Current(i), d))
    /\ orphaned' = CollapseOrphans(i)
    /\ UNCHANGED <<reader, nextId, loopVars, connected, gossip, received, worldVars>>

RegistrationDeregister(i, d, target) ==
    LET e == deregister_effect(Current(i), d, target)
    IN  /\ deregister(i, d, target)
        /\ store' = apply_registry_side_effect(store, i, e)
        /\ orphaned' = IF e.kind = "purge" THEN orphaned \ {i} ELSE CollapseOrphans(i)
        /\ UNCHANGED <<reader, nextId, loopVars, connected, gossip, received, worldVars>>

\* A relay or deregistration request is refused because of the registration it
\* reads; the read may collapse it.
RegistrationRefused(i) ==
    /\ StaleHandover(regs[i])
    /\ Refused(i)
    /\ orphaned' = CollapseOrphans(i)
    /\ UNCHANGED <<custodyVars, loopVars, connected, gossip, received, worldVars>>

\* get_registration_state on an application thread
RegistrationQuery(i) ==
    /\ LookupRead(i) \/ LookupCollapse(i)
    /\ orphaned' = IF reader[i] # NoDevice THEN orphaned \cup {i} ELSE orphaned
    /\ UNCHANGED <<custodyVars, loopVars, connected, gossip, received, worldVars>>

TimePasses ==
    /\ Tick
    /\ UNCHANGED <<custodyVars, loopVars, connected, gossip, received, orphaned, worldVars>>

\* RELAY_DUPLICATE_WINDOW_MS after the request, or when the table is full
WindowExpires(k) ==
    /\ window' = window \ {k}
    /\ UNCHANGED <<regVars, custodyVars, dispatches, answers, seen, connected, gossip,
                   received, orphaned, worldVars>>

SetBlocked(B) ==
    /\ blocked' = B
    /\ UNCHANGED <<regVars, custodyVars, loopVars, connected, gossip, received, orphaned,
                   elsewhere, crashes>>

\* The store's own bytes are on the device, too.
SetUsage(u) ==
    /\ u + BytesOf(store, DOMAIN store.recs) <= DeviceTotal
    /\ elsewhere' = u
    /\ UNCHANGED <<regVars, custodyVars, loopVars, connected, gossip, received, orphaned,
                   blocked, crashes>>
-----------------------------------------------------------------------------
\* The process dies and comes back.  Nothing repairs the store: a record left
\* Dispatching stays so.
Restart(s) ==
    /\ crashes < MaxCrashes
    /\ crashes' = crashes + 1
    /\ store' = s
    /\ dispatches' = {}
    /\ answers' = [r \in {} |-> "none"]
    /\ connected' = {}
    /\ window' = {}
    /\ seen' = {}
    /\ reader' = [i \in Identities |-> NoDevice]
    /\ UNCHANGED <<gossip, received, blocked, elsewhere>>

\* Between two handlers
Crash ==
    /\ Restart(store)
    /\ UNCHANGED <<regs, owner, nextId, orphaned>>

\* In dispatch_pending_custody_for_peer, after some of the records are marked
CrashDispatching(d) ==
    /\ \E n \in 0..Slots : \E T \in Served(store, {d}, n) :
            T # {} /\ Restart(mark_dispatching(store, T))
    /\ UNCHANGED <<regs, owner, nextId, orphaned>>

\* In accept_custody: while purging to find room, or with the record put
CrashPurging(src, d, m, i, dev) ==
    /\ crashes < MaxCrashes
    /\ NewCustody(src, d, m, i, dev)
    /\ Verdict(d, m).keep # DOMAIN store.recs
    /\ \E n \in 1..BytesOf(store, DOMAIN store.recs) :
        LET victims == DOMAIN store.recs \ purge_oldest_by_policy(store, DOMAIN store.recs, n)
            last == {c \in victims : \A b \in victims \ {c} : PurgedBefore(store, b, c)}
        IN  /\ victims \subseteq DOMAIN store.recs \ Verdict(d, m).keep
            /\ \E L \in AtMostOneOf(last) : Restart(CloseCut(store, victims, L, "purged"))
    /\ UNCHANGED <<regs, owner, nextId, orphaned>>

CrashTaking(src, d, m, i, dev) ==
    /\ crashes < MaxCrashes
    /\ NewCustody(src, d, m, i, dev)
    /\ Verdict(d, m).ok
    /\ nextId' = nextId + 1
    /\ \E n \in 0..Slots : \E T \in Served(Taken(d, m, i, dev), {d} \cap connected, n) :
            Restart(mark_dispatching(Taken(d, m, i, dev), T))
    /\ UNCHANGED <<regs, owner, orphaned>>

\* In mark_delivered or converge_delivered_for_message, logged but not removed
CrashClosing(d, m) ==
    /\ \/ <<d, m>> \in gossip \ seen
       \/ \E r \in dispatches : r.dest = d /\ r.msg = m /\ answers[r] = "accepted"
    /\ RecordsOf(store, d, m) # {}
    /\ \E s \in ClosePrefixes(store, RecordsOf(store, d, m), "delivered") : Restart(s)
    /\ UNCHANGED <<regs, owner, nextId, orphaned>>

\* In apply_registry_side_effect: the registry has changed, the queue only partly
CrashRegistering(i, d) ==
    /\ register(i, d)
    /\ \E s \in SideEffectPrefixes(store, i, register_effect(Current(i), d)) : Restart(s)
    /\ orphaned' = orphaned \cup {i}
    /\ UNCHANGED nextId

CrashDeregistering(i, d, target) ==
    /\ deregister(i, d, target)
    /\ \E s \in SideEffectPrefixes(store, i, deregister_effect(Current(i), d, target)) : Restart(s)
    /\ orphaned' = orphaned \cup {i}
    /\ UNCHANGED nextId
-----------------------------------------------------------------------------
Handler ==
    \/ \E src \in Sources, d \in Destinations, m \in Messages, t \in Targets :
            \/ RelayRequestKnown(src, d, m, t[1], t[2])
            \/ RelayRequestTaken(src, d, m, t[1], t[2])
            \/ RelayRequestPressed(src, d, m, t[1], t[2])
    \/ CustodyPull
    \/ \E d \in Destinations : ConnectionEstablished(d) \/ ConnectionClosed(d)
    \/ \E r \in DOMAIN answers :
            DispatchDelivered(r) \/ DispatchFailed(r) \/ LateOutcome(r)
    \/ \E d \in Destinations, m \in Messages : MarkerReceived(d, m)
    \/ \E i \in Identities, d \in Devices : RegistrationRegister(i, d)
    \/ \E i \in Identities, d \in Devices, t \in Devices \cup {NoDevice} :
            RegistrationDeregister(i, d, t)
    \/ \E i \in Identities : RegistrationRefused(i)

Environment ==
    \/ \E r \in DOMAIN answers :
            DestinationAnswers(r, "accepted") \/ DestinationAnswers(r, "rejected")
    \/ \E d \in Destinations, m \in Messages : DeliveredElsewhere(d, m)
    \/ \E i \in Identities : RegistrationQuery(i)
    \/ TimePasses
    \/ \E k \in window : WindowExpires(k)
    \/ \E B \in SUBSET Blockable : SetBlocked(B)
    \/ \E u \in Usages : SetUsage(u)

Crashing ==
    \/ Crash
    \/ \E d \in connected : CrashDispatching(d)
    \/ \E src \in Sources, d \in Destinations, m \in Messages, t \in Targets :
            \/ CrashPurging(src, d, m, t[1], t[2])
            \/ CrashTaking(src, d, m, t[1], t[2])
    \/ \E d \in Destinations, m \in Messages : CrashClosing(d, m)
    \/ \E i \in Identities, d \in Devices : CrashRegistering(i, d)
    \/ \E i \in Identities, d \in Devices, t \in Devices \cup {NoDevice} :
            CrashDeregistering(i, d, t)

Next == Handler \/ Environment \/ Crashing

Spec == Init /\ [][Next]_vars

\* The pull timer keeps firing, an outstanding request is answered or fails
\* (request-response times out), and destinations keep coming back.
Fairness ==
    /\ WF_vars(CustodyPull)
    /\ WF_vars(\E r \in DOMAIN answers :
                    DispatchDelivered(r) \/ DispatchFailed(r) \/ LateOutcome(r))
    /\ \A d \in Destinations : WF_vars(ConnectionEstablished(d))

FairSpec == Spec /\ Fairness
-----------------------------------------------------------------------------
Held == DOMAIN store.recs
Logged(c, how) == \E e \in store.closed : e.id = c /\ e.how = how

\* Custody is never lost silently: every message ever taken into custody is
\* still held, or the log says it was delivered or purged, whatever purge,
\* marker, answer, registration change or crash between two writes removed it.
NoSilentLoss ==
    \A c \in 1..nextId - 1 : c \in Held \/ Logged(c, "delivered") \/ Logged(c, "purged")

\* The log tells the truth: a message is logged as delivered only if its
\* destination accepted it, from this relay or from another node.
DeliveredIsTrue ==
    \A e \in store.closed : e.how = "delivered" => <<e.dest, e.msg>> \in received

\* One message, one record: sender retries, whether or not they fall in the
\* duplicate window, and restarts never create a second record for the same
\* message and destination.
OneRecordPerMessage ==
    \A b, c \in Held :
        store.recs[b].dest = store.recs[c].dest /\ store.recs[b].msg = store.recs[c].msg => b = c

\* One request in flight per record: a record waiting to be dispatched has no
\* request outstanding, and a record being dispatched has at most one, whatever
\* order disconnects, answers, markers, purges and reconnects come in.
DispatchExclusive ==
    /\ \A r \in dispatches :
            r.id \in Held => store.recs[r.id].state = "Dispatching" /\ store.recs[r.id].attempts = r.attempt
    /\ \A q, r \in dispatches : q.id = r.id => q = r
    /\ dispatches \subseteq DOMAIN answers

\* Without a crash, every record marked Dispatching has its request tracked, so
\* that an answer, a failure or a disconnect will settle it.
DispatchTracked ==
    crashes = 0 => \A c \in Held : store.recs[c].state = "Dispatching" => c \in Ids(dispatches)

\* The limits add up: the requests in flight respect their cap, and what waits
\* for one destination or may come back from flight to wait again stays below
\* the two limits together: the queue can outgrow its own limit, but no further.
QueueBound ==
    /\ Cardinality(dispatches) <= MaxInflight
    /\ \A d \in Destinations :
        Cardinality(Pending(store, d)) + Cardinality({r \in dispatches : r.dest = d /\ r.id \in Held})
            < MaxPending + MaxInflight

\* Messages follow the identity: a record kept for a device of an identity is
\* kept for the device that the registration names (the target, in a handover).
\* Identities whose queue was cut off by a stale handover's collapse or by a
\* crash are excepted, until an abandonment purges the queue.
QueueFollowsDevice ==
    \A c \in Held :
        LET rec == store.recs[c]
        IN  rec.ident \in Identities \ orphaned /\ rec.dev # NoDevice =>
                \/ regs[rec.ident].kind = "Active" /\ regs[rec.ident].dev = rec.dev
                \/ regs[rec.ident].kind = "Handover" /\ regs[rec.ident].to = rec.dev

\* A custody id is never revived: once its record is gone, no late answer,
\* failure, disconnect or restart brings it back.
GoneForGood == [][\A c \in 1..nextId - 1 : c \in Held' => c \in Held]_vars

\* Every write leaves the device below its ceiling: whatever the rest of the
\* device uses and however much had to be purged first, a message is taken only
\* if the device then stays within 90% of its size.
WriteBelowCeiling ==
    [][nextId' > nextId =>
        100 * (elsewhere + BytesOf(store', DOMAIN store'.recs))
            <= DEVICE_USAGE_CEILING_PERCENT * DeviceTotal]_vars

\* The records that the current step logs as purged
NewlyPurged == {c \in Held : \E e \in store'.closed \ store.closed : e.id = c /\ e.how = "purged"}

\* The relay's own messages are purged last: a purge that is not a registration's
\* takes none of them while it leaves a message of someone else.
OwnMessagesLast ==
    [][regs' = regs =>
        \A c \in NewlyPurged, b \in (Held \cap Held') \ NewlyPurged :
            is_identity_related_record(store.recs[c].dest)
                => is_identity_related_record(store.recs[b].dest)]_vars

\* The record is out of the relay's hands, or was dispatched as often as it ever
\* will be.
Settled(c) == c \in Held => store.recs[c].attempts >= MaxAttempts

\* The records queued before c that a pull takes and cannot send: no attempt left
Spent(c) == {b \in Pending(store, store.recs[c].dest) : b < c /\ ~can_dispatch(store, b)}

\* Spent records take the whole pull, and c is never reached.
Crowded(c) == c \in Held /\ Cardinality(Spent(c)) >= PullLimit

Undelivered(c) == c \in Held /\ <<store.recs[c].dest, store.recs[c].msg>> \notin received

Untried(c) == Undelivered(c) /\ store.recs[c].attempts = 0

\* Custody is not a dead end: while no crash happens and destinations keep
\* reconnecting, every record is in the end delivered or purged, or has been
\* dispatched as often as the relay ever will, unless PullLimit records queued
\* before it are spent and stay (see EveryRecordTried).  Neither records before it
\* that keep failing, nor a destination that shares the slots and does not answer,
\* nor a marker seen before the message was taken again keep it back.
EveryRecordSettles ==
    \A c \in 1..MaxCustodyIds : (c \in Held) ~> (Settled(c) \/ Crowded(c))

\* No record starves: one that was never dispatched is dispatched some day,
\* whatever became of the records queued before it.
EveryRecordTried == \A c \in 1..MaxCustodyIds : Untried(c) ~> ~Untried(c)

\* Custody survives a restart of the relay: what it held when it went down it
\* goes on dispatching afterwards, until the destination has the message.
CustodySurvivesRestart ==
    \A c \in 1..MaxCustodyIds :
        (crashes > 0 /\ Undelivered(c)) ~> (Settled(c) \/ ~Undelivered(c))
=============================================================================

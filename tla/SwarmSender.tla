---------------------------- MODULE SwarmSender ----------------------------
(***************************************************************************)
(* How one node sends: the event loop of the CLI daemon (cli/src/main.rs)  *)
(* with its outbox, the tasks of its HTTP interface, the swarm task they   *)
(* talk to over channels (core/src/transport/swarm.rs: SendMessage, the    *)
(* retry tick, the responses, the drift fallback), and the network with    *)
(* one destination and the relays.                                         *)
(*                                                                         *)
(* The event loop handles one event at a time and, while it does, awaits   *)
(* the swarm's answer to every message it sends.  The swarm task handles   *)
(* one command, tick or network event at a time and awaits room in the     *)
(* event channel.  Which relays are reliable enough to be in a ranking,    *)
(* and their order, is left open.                                          *)
(***************************************************************************)
EXTENDS Integers, FiniteSets, Sequences

CONSTANTS Queue,       \* messages in the outbox for the destination at start
          Sends,       \* messages sent by the user, as receipts, over HTTP
          Target,      \* the destination
          Relays,
          Nil,
          EventCap,    \* capacity of the event channel: 256
          MaxEvents,   \* bound: events the swarm emits
          MaxClock,    \* bound: milliseconds in which a command is taken up
          MaxCopies    \* bound: requests in flight for one message id

Msgs == Queue \cup Sends
Peers == {Target} \cup Relays
Ids == 1..MaxClock

ASSUME SenderAssumption ==
    /\ Queue \cap Sends = {} /\ Target \notin Relays
    /\ Nil \notin Msgs \cup {"yes", "no", "terminal"}
    /\ IsFiniteSet(Relays)
    /\ EventCap \in Nat \ {0}
    /\ MaxEvents \in Nat /\ MaxClock \in Nat
    /\ MaxCopies \in Nat \ {0}

VARIABLES
    outbox,      \* the daemon's outbox
    loop,        \* the event loop: the message it awaits, and those drained
    status,      \* the last send_message of each message: its reply channel
    commands,    \* the command channel
    events,      \* the event channel
    blocked,     \* the event for which the swarm task awaits room, if any
    emitted,     \* number of events emitted
    pending,     \* pending_messages: id -> message, route, reply channel open
    requests,    \* request_to_message and pending_relay_requests
    committed,   \* drift_fallback_committed
    connected,   \* peers connected
    named,       \* <<id, message>> of every SendMessage handled
    accepted,    \* messages the destination accepted
    custody      \* <<id, message>> that a relay accepted

swarmVars == <<pending, requests, committed, named>>
netVars == <<accepted, custody>>
vars == <<outbox, loop, status, commands, events, blocked, emitted, pending,
          requests, committed, connected, named, accepted, custody>>

\* PeerDiscovered or PeerIdentified of the destination; MessageReceived and others.
Kinds == {"peer", "other"}

Idle == [now |-> Nil, rest |-> {}, flush |-> FALSE]

\* Every variable has its type; the event channel never holds more than its capacity.
TypeOK ==
    /\ outbox \subseteq Queue
    /\ loop \in [now : Msgs \cup {Nil}, rest : SUBSET Queue, flush : BOOLEAN]
    /\ status \in [Msgs -> {"new", "wait", "ok", "err", "told"}]
    /\ commands \in Seq(Msgs)
    /\ events \in Seq(Kinds) /\ Len(events) <= EventCap
    /\ blocked \in Kinds \cup {Nil} /\ emitted \in 0..MaxEvents
    /\ DOMAIN pending \subseteq Ids
    /\ \A i \in DOMAIN pending :
          pending[i] \in [msg : Msgs, index : 0..Cardinality(Relays), open : BOOLEAN]
    /\ requests \subseteq [id : Ids, msg : Msgs, via : Peers,
                           answer : {Nil, "yes", "no", "terminal"}]
    /\ committed \subseteq Ids /\ connected \subseteq Peers
    /\ named \subseteq Ids \X Msgs
    /\ accepted \subseteq Msgs /\ custody \subseteq named

Init ==
    /\ outbox = Queue /\ loop = Idle /\ status = [m \in Msgs |-> "new"]
    /\ commands = <<>> /\ events = <<>> /\ blocked = Nil /\ emitted = 0
    /\ pending = <<>> /\ requests = {} /\ committed = {} /\ connected = {}
    /\ named = {} /\ accepted = {} /\ custody = {}
-----------------------------------------------------------------------------
\* The event loop and the HTTP tasks.

\* SwarmHandle::send_message: the command goes out, the caller awaits its reply.
send_message(m) ==
    /\ commands' = Append(commands, m)
    /\ status' = [status EXCEPT ![m] = "wait"]

await_in_loop(m, rest, flush) ==
    send_message(m) /\ loop' = [now |-> m, rest |-> rest, flush |-> flush]

\* flush_outbox_for_peer, from the next of the drained messages on.
flush_next(drained, told) ==
    IF drained = {} THEN loop' = Idle /\ status' = told /\ UNCHANGED commands
    ELSE \E m \in drained :
            /\ commands' = Append(commands, m)
            /\ status' = [told EXCEPT ![m] = "wait"]
            /\ loop' = [now |-> m, rest |-> drained \ {m}, flush |-> TRUE]

\* PeerDiscovered and PeerIdentified: the outbox is drained and flushed, except
\* for a PeerDiscovered of a peer the daemon has listed before.
HandlePeer ==
    /\ loop = Idle /\ events # <<>> /\ Head(events) = "peer"
    /\ events' = Tail(events)
    /\ \/ outbox' = {} /\ flush_next(outbox, status)
       \/ UNCHANGED <<outbox, loop, status, commands>>
    /\ UNCHANGED <<blocked, emitted, connected, swarmVars, netVars>>

\* MessageReceived: a receipt goes back, unless the message was metadata, a
\* receipt itself or not readable.  The other events send nothing.
HandleEvent ==
    /\ loop = Idle /\ events # <<>> /\ Head(events) # "peer"
    /\ events' = Tail(events)
    /\ \/ \E m \in Sends : status[m] = "new" /\ await_in_loop(m, {}, FALSE)
       \/ UNCHANGED <<loop, status, commands>>
    /\ UNCHANGED <<outbox, blocked, emitted, connected, swarmVars, netVars>>

\* UiCommand::Send and ClientIntent::SendMessage, in the event loop.
SendFromUi(m) ==
    /\ loop = Idle /\ status[m] = "new"
    /\ await_in_loop(m, {}, FALSE)
    /\ UNCHANGED <<outbox, events, blocked, emitted, connected, swarmVars, netVars>>

\* handle_send_message, in a task of its own.
SendFromApi(m) ==
    /\ status[m] = "new"
    /\ send_message(m)
    /\ UNCHANGED <<outbox, loop, events, blocked, emitted, connected, swarmVars, netVars>>

told_of(m) == [status EXCEPT ![m] = "told"]

ApiReply(m) ==
    /\ m # loop.now /\ status[m] \in {"ok", "err"}
    /\ status' = told_of(m)
    /\ UNCHANGED <<outbox, loop, commands, events, blocked, emitted, connected,
                   swarmVars, netVars>>

\* Defect: a message whose flush failed is not put back.
requeue_MUT(m) == outbox

requeue(m) == outbox \cup {m}

\* The reply the event loop awaits.  A flush that failed puts the message back.
LoopReply ==
    /\ loop # Idle /\ status[loop.now] \in {"ok", "err"}
    /\ outbox' = IF loop.flush /\ status[loop.now] = "err" THEN requeue(loop.now) ELSE outbox
    /\ flush_next(loop.rest, told_of(loop.now))
    /\ UNCHANGED <<events, blocked, emitted, connected, swarmVars, netVars>>
-----------------------------------------------------------------------------
\* The swarm task.  It does nothing while it awaits room in the event channel.

Running == blocked = Nil

\* Defect: the event goes out whether or not there is room.
emit_MUT(e) == events' = Append(events, e) /\ UNCHANGED blocked

\* event_tx.send(e).await
emit(e) ==
    IF Len(events) < EventCap
    THEN events' = Append(events, e) /\ UNCHANGED blocked
    ELSE blocked' = e /\ UNCHANGED events

RoomForEvent ==
    /\ blocked # Nil /\ Len(events) < EventCap
    /\ events' = Append(events, blocked)
    /\ blocked' = Nil
    /\ UNCHANGED <<outbox, loop, status, commands, emitted, connected, swarmVars, netVars>>

\* Identify of the destination, inbound messages, addresses, topics, ledgers.
EmitEvent(e) ==
    /\ Running /\ emitted < MaxEvents
    /\ e = "peer" => Target \in connected
    /\ emitted' = emitted + 1
    /\ emit(e)
    /\ UNCHANGED <<outbox, loop, status, commands, connected, swarmVars, netVars>>

\* ConnectionEstablished, and the event that tells the application.
Connect(p) ==
    /\ Running /\ emitted < MaxEvents /\ p \notin connected
    /\ connected' = connected \cup {p}
    /\ emitted' = emitted + 1
    /\ emit(IF p = Target THEN "peer" ELSE "other")
    /\ UNCHANGED <<outbox, loop, status, commands, swarmVars, netVars>>

Disconnect(p) ==
    /\ Running /\ emitted < MaxEvents /\ p \in connected
    /\ connected' = connected \ {p}
    /\ emitted' = emitted + 1
    /\ emit("other")
    /\ UNCHANGED <<outbox, loop, status, commands, swarmVars, netVars>>

InFlight(i) == {r \in requests : r.id = i}

\* dispatch_ranked_route: a request to the destination or to a relay, added to
\* those in R.  Two of one id to one peer that nobody answered yet are one.
dispatch(R, i, m, via) ==
    /\ Cardinality({r \in R : r.id = i}) < MaxCopies
    /\ requests' = R \cup {[id |-> i, msg |-> m, via |-> via, answer |-> Nil]}

Without(i) == [j \in DOMAIN pending \ {i} |-> pending[j]]
With(i, e) == [j \in DOMAIN pending \cup {i} |-> IF j = i THEN e ELSE pending[j]]

\* A reply to the sender of entry e.  Its caller takes one and is gone.
replied(e, a) == IF e.open THEN [status EXCEPT ![e.msg] = a] ELSE status

LastId == IF named = {} THEN 0 ELSE CHOOSE i \in Ids :
            /\ \E n \in named : n[1] = i
            /\ \A n \in named : n[1] <= i

\* SwarmCommand::SendMessage.  Its id is the millisecond: two commands of one
\* millisecond share it, the second entry replaces the first, and the caller of
\* the first finds its reply channel closed.
SendMessage ==
    LET m == Head(commands)
    IN  /\ Running /\ commands # <<>>
        /\ commands' = Tail(commands)
        /\ \E i \in {LastId, LastId + 1} \cap Ids :
             /\ named' = named \cup {<<i, m>>}
             /\ pending' = With(i, [msg |-> m, index |-> 0, open |-> TRUE])
             /\ status' = IF i \in DOMAIN pending THEN replied(pending[i], "err") ELSE status
             /\ \E via \in IF Target \in connected THEN {Target} ELSE Peers :
                    dispatch(requests, i, m, via)
        /\ UNCHANGED <<outbox, loop, events, blocked, emitted, connected, committed, netVars>>

\* The same when the routing engine names no usable next hop.
NoPaths ==
    /\ Running /\ commands # <<>> /\ Target \notin connected
    /\ commands' = Tail(commands)
    /\ status' = [status EXCEPT ![Head(commands)] = "err"]
    /\ UNCHANGED <<outbox, loop, events, blocked, emitted, connected, swarmVars, netVars>>

\* Defect: the pass over the routes never counts as complete.
wrapped_pass_MUT(index, n) == FALSE

\* advance_route_cursor, over n routes.
wrapped_pass(index, n) == index + 1 >= n

\* Defect: after the last route the cursor stays there.
next_index_MUT(index, n) == IF index + 1 >= n THEN index ELSE index + 1

next_index(index, n) == IF index + 1 >= n THEN 0 ELSE index + 1

\* The retry tick for one entry: the next of n routes, the destination first.
\* The first pass that completes is reported to the caller, once.
Retry(i) ==
    /\ Running /\ i \in DOMAIN pending
    /\ \E n \in 1..(1 + Cardinality(Relays)) :
         LET e == pending[i]
             k == next_index(e.index, n)
             wrapped == wrapped_pass(e.index, n)
         IN  /\ pending' = With(i, [e EXCEPT !.index = k, !.open = @ /\ ~wrapped])
             /\ status' = IF wrapped THEN replied(e, "err") ELSE status
             /\ \E via \in IF k = 0 THEN {Target} ELSE Relays :
                    dispatch(requests, i, e.msg, via)
    /\ UNCHANGED <<outbox, loop, commands, events, blocked, emitted, connected,
                   committed, named, netVars>>

\* Defect: a refusal of the recipient counts as delivery.
verdict_MUT(r) == IF r.via = Target THEN "ok" ELSE
                  CASE r.answer = "yes" -> "ok" [] r.answer = "terminal" -> "err" [] OTHER -> "keep"

\* What an answer means for the entry.  Only a relay's identity rejections end it.
verdict(r) == CASE r.answer = "yes" -> "ok"
                [] r.answer = "terminal" -> "err"
                [] OTHER -> "keep"

\* Message::Response of the messaging and the relay protocol.
Response(r) ==
    /\ Running /\ r.answer # Nil
    /\ requests' = requests \ {r}
    /\ IF r.id \in DOMAIN pending /\ verdict(r) # "keep"
       THEN /\ pending' = Without(r.id)
            /\ status' = replied(pending[r.id], verdict(r))
       ELSE UNCHANGED <<pending, status>>
    /\ UNCHANGED <<outbox, loop, commands, events, blocked, emitted, connected,
                   committed, named, netVars>>

\* OutboundFailure: a timeout or a closed connection, possibly after the other
\* side accepted.  A direct request that fails with the destination away goes
\* to a connected relay, once per id (the drift fallback), if the user has not
\* blocked that relay.
OutboundFailure(r) ==
    LET fallback == /\ r.via = Target /\ r.id \in DOMAIN pending
                    /\ Target \notin connected /\ r.id \notin committed
                    /\ connected # {}
    IN  /\ Running
        /\ \/ /\ fallback
              /\ \E c \in connected : dispatch(requests \ {r}, r.id, pending[r.id].msg, c)
              /\ committed' = committed \cup {r.id}
           \/ /\ requests' = requests \ {r}
              /\ UNCHANGED committed
        /\ UNCHANGED <<outbox, loop, status, commands, events, blocked, emitted,
                       connected, pending, named, netVars>>

\* A delivery convergence marker for a custody record the relay has delivered.
Marker(i) ==
    /\ Running
    /\ \E n \in custody : n[1] = i /\ n[2] \in accepted
    /\ i \in DOMAIN pending \/ InFlight(i) # {}
    /\ requests' = requests \ InFlight(i)
    /\ IF i \in DOMAIN pending
       THEN pending' = Without(i) /\ status' = replied(pending[i], "ok")
       ELSE UNCHANGED <<pending, status>>
    /\ UNCHANGED <<outbox, loop, commands, events, blocked, emitted, connected,
                   committed, named, netVars>>
-----------------------------------------------------------------------------
\* The other nodes.

\* The peer that got request r answers it.
Answer(r, a) ==
    /\ r.answer = Nil /\ r.via \in connected
    /\ a = "terminal" => r.via \in Relays
    /\ requests' = (requests \ {r}) \cup {[r EXCEPT !.answer = a]}
    /\ accepted' = IF a = "yes" /\ r.via = Target THEN accepted \cup {r.msg} ELSE accepted
    /\ custody' = IF a = "yes" /\ r.via # Target THEN custody \cup {<<r.id, r.msg>>} ELSE custody
    /\ UNCHANGED <<outbox, loop, status, commands, events, blocked, emitted,
                   connected, pending, committed, named>>

\* A relay hands a message it keeps to the destination.
RelayDelivers(n) ==
    /\ n[2] \notin accepted
    /\ accepted' = accepted \cup {n[2]}
    /\ UNCHANGED <<outbox, loop, status, commands, events, blocked, emitted,
                   connected, swarmVars, custody>>

Next ==
    \/ HandlePeer \/ HandleEvent \/ LoopReply
    \/ \E m \in Sends : SendFromUi(m) \/ SendFromApi(m) \/ ApiReply(m)
    \/ RoomForEvent \/ SendMessage \/ NoPaths
    \/ \E e \in Kinds : EmitEvent(e)
    \/ \E p \in Peers : Connect(p) \/ Disconnect(p)
    \/ \E i \in Ids : Retry(i) \/ Marker(i)
    \/ \E r \in requests :
          \/ Response(r) \/ OutboundFailure(r)
          \/ \E a \in {"yes", "no", "terminal"} : Answer(r, a)
    \/ \E n \in custody : RelayDelivers(n)

\* The tasks of the runtime make progress, and libp2p ends every request, at the
\* latest with a timeout.
Fairness ==
    /\ WF_vars(HandlePeer \/ HandleEvent \/ LoopReply)
    /\ WF_vars(RoomForEvent) /\ WF_vars(SendMessage \/ NoPaths)
    /\ \A i \in Ids : WF_vars(Retry(i))
    /\ \A i \in Ids :
          WF_vars(\E r \in InFlight(i) : Response(r) \/ OutboundFailure(r))

Spec == Init /\ [][Next]_vars
FairSpec == Spec /\ Fairness
-----------------------------------------------------------------------------
\* Messages that shared their id, a millisecond, with another one.
Shared == {m \in Msgs : \E a, b \in named : a[1] = b[1] /\ a[2] = m /\ b[2] # m}

Kept(m) == m \in accepted \/ \E n \in custody : n[2] = m

\* A message of the outbox is never dropped: it is in the outbox, in the hands of
\* the flush, at the destination or in a relay's custody, through every drain,
\* lost answer, retry, fallback and re-enqueue (flush_outbox_for_peer and the
\* swarm's replies).  Messages that shared an id are left out: the answer to one
\* of them ends the entry of the other.
NoSilentDrop ==
    \A m \in Queue \ Shared :
        \/ m \in outbox \/ Kept(m)
        \/ loop.flush /\ (m = loop.now \/ m \in loop.rest)

\* A caller that is told Ok (and calls mark_message_sent) can rely on it: the
\* destination accepted the message, or a relay did.  Across stale answers of
\* earlier requests, markers and the drift fallback.
OkIsHonest ==
    \A m \in Msgs \ Shared : status[m] = "ok" => Kept(m)

\* The event loop awaits a reply, and the swarm task that would give it awaits
\* room in the channel which only the event loop empties.
Wedged ==
    /\ blocked # Nil /\ Len(events) = EventCap
    /\ loop # Idle /\ status[loop.now] = "wait"

\* Whatever the event loop awaits ends: with an acceptance, or at the latest with
\* the report of the first complete pass over the routes, whether or not any peer
\* ever answers.  The one exception is the mutual wait of Wedged.
AwaitEnds == (loop # Idle) ~> (loop = Idle \/ Wedged)

\* A message the swarm has taken up is retried until it is settled: if from some
\* point on the destination stays connected, does not refuse or fail to answer
\* every time, and its answers do not all get lost, no entry of pending_messages
\* stays for good.  The retry tick comes back to the direct route however often
\* it went past it.
RetrySettles ==
    LET heard(i) ==
            /\ SF_vars(\E r \in InFlight(i) : r.via = Target /\ Answer(r, "yes"))
            /\ SF_vars(\E r \in InFlight(i) : r.answer = "yes" /\ Response(r))
    IN  \A i \in Ids :
            <>[](Target \in connected) /\ heard(i)
                => (i \in DOMAIN pending) ~> (i \notin DOMAIN pending \/ Wedged)
=============================================================================

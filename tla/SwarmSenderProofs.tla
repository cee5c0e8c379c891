------------------------- MODULE SwarmSenderProofs -------------------------
(***************************************************************************)
(* What a sending node tells its callers is true, and its daemon drops no  *)
(* message of the outbox: for every set of messages and relays, every      *)
(* capacity of the event channel, any number of events, milliseconds and   *)
(* copies in flight.                                                       *)
(***************************************************************************)
EXTENDS SwarmSender, FiniteSetTheorems, TLAPS

\* The event loop awaits a message, and a flush one of the outbox.
LoopOK == (loop = Idle \/ loop.now \in Msgs) /\ (loop.flush => loop.now \in Queue)

\* Entries and requests are about a message that was given their id.
AllNamed ==
    /\ \A i \in DOMAIN pending : <<i, pending[i].msg>> \in named
    /\ \A r \in requests : <<r.id, r.msg>> \in named

\* A request was answered with yes by a peer that has its message.
YesIsTrue ==
    \A r \in requests : r.answer = "yes" =>
        r.msg \in accepted \/ <<r.id, r.msg>> \in custody

SenderInv == TypeOK /\ LoopOK /\ AllNamed /\ YesIsTrue /\ OkIsHonest /\ NoSilentDrop

Entries == [msg : Msgs, index : 0..Cardinality(Relays), open : BOOLEAN]
RequestSet == [id : Ids, msg : Msgs, via : Peers, answer : {Nil, "yes", "no", "terminal"}]
Statuses == {"new", "wait", "ok", "err", "told"}
-----------------------------------------------------------------------------
\* What an answer means is one of three things, and Ok only after a yes.
LEMMA VerdictOf ==
    ASSUME NEW r
    PROVE  /\ verdict(r) \in {"ok", "err", "keep"}
           /\ verdict(r) = "ok" => r.answer = "yes"
BY DEF verdict

\* The cursor stays within the routes that exist.
LEMMA CursorType ==
    ASSUME NEW index \in 0..Cardinality(Relays), NEW n \in 1..(1 + Cardinality(Relays))
    PROVE  next_index(index, n) \in 0..Cardinality(Relays) /\ wrapped_pass(index, n) \in BOOLEAN
<1>1. Cardinality(Relays) \in Nat
  BY SenderAssumption, FS_CardinalityType
<1> QED BY <1>1 DEF next_index, wrapped_pass

\* Replacing and removing an entry of pending_messages.
LEMMA PendingUpdates ==
    ASSUME TypeOK, NEW i \in Ids, NEW e \in Entries
    PROVE  /\ DOMAIN With(i, e) = DOMAIN pending \cup {i} /\ With(i, e)[i] = e
           /\ \A j \in DOMAIN pending \ {i} : With(i, e)[j] = pending[j]
           /\ DOMAIN Without(i) = DOMAIN pending \ {i}
           /\ \A j \in DOMAIN pending \ {i} : Without(i)[j] = pending[j]
BY DEF With, Without

\* What the node knows about messages only grows.
LEMMA KnowledgeGrows ==
    ASSUME named \subseteq named', accepted \subseteq accepted', custody \subseteq custody'
    PROVE  /\ Shared \subseteq Shared'
           /\ \A m : Kept(m) => Kept(m)'
BY DEF Shared, Kept

\* Two messages of one id are shared.
LEMMA SameId ==
    ASSUME TypeOK, NEW i, NEW m, NEW n, <<i, m>> \in named, <<i, n>> \in named, m \notin Shared
    PROVE  m = n
<1>1. m \in Msgs
  BY DEF TypeOK
<1>2. <<i, m>>[1] = <<i, n>>[1] /\ <<i, m>>[2] = m /\ <<i, n>>[2] = n
  OBVIOUS
<1> QED BY <1>1, <1>2, Zenon DEF Shared
-----------------------------------------------------------------------------
\* A flush that goes on with the drained messages.
LEMMA FlushGoesOn ==
    ASSUME TypeOK, NEW D \in SUBSET Queue, NEW told \in [Msgs -> Statuses], flush_next(D, told)
    PROVE  /\ loop' \in [now : Msgs \cup {Nil}, rest : SUBSET Queue, flush : BOOLEAN]
           /\ LoopOK'
           /\ status' \in [Msgs -> Statuses] /\ commands' \in Seq(Msgs)
           /\ \A m \in Msgs : status'[m] = "ok" => told[m] = "ok"
           /\ \A m \in D : loop'.flush /\ (m = loop'.now \/ m \in loop'.rest)
<1>1. CASE D = {}
  <2>1. loop' = Idle /\ status' = told /\ commands' = commands
    BY <1>1 DEF flush_next
  <2> QED BY <1>1, <2>1, Zenon DEF Idle, LoopOK, TypeOK
<1>2. CASE D # {}
  <2>1. PICK m \in D : /\ commands' = Append(commands, m)
                       /\ status' = [told EXCEPT ![m] = "wait"]
                       /\ loop' = [now |-> m, rest |-> D \ {m}, flush |-> TRUE]
    BY <1>2 DEF flush_next
  <2>2. m \in Msgs /\ m \in Queue
    BY DEF Msgs
  <2>3. commands' \in Seq(Msgs) /\ status' \in [Msgs -> Statuses]
    BY <2>1, <2>2 DEF TypeOK, Statuses
  <2>4. \A x \in Msgs : status'[x] = "ok" => told[x] = "ok"
    BY <2>1, <2>2
  <2> QED BY <2>1, <2>2, <2>3, <2>4 DEF LoopOK
<1> QED BY <1>1, <1>2

\* The steps of the event loop and of the HTTP tasks: what a message in the loop's
\* hands was and becomes, and what callers are told.
LoopSide ==
    /\ UNCHANGED <<blocked, emitted, connected, swarmVars, netVars>>
    /\ outbox' \subseteq Queue
    /\ loop' \in [now : Msgs \cup {Nil}, rest : SUBSET Queue, flush : BOOLEAN]
    /\ status' \in [Msgs -> Statuses]
    /\ commands' \in Seq(Msgs)
    /\ events' \in Seq(Kinds) /\ Len(events') <= EventCap
    /\ LoopOK'
    /\ \A m \in Msgs : status'[m] = "ok" => status[m] = "ok"
    /\ \A m \in Queue : m \in outbox \/ (loop.flush /\ m \in loop.rest) =>
            m \in outbox' \/ (loop'.flush /\ (m = loop'.now \/ m \in loop'.rest))
    /\ loop.flush => \/ loop'.flush /\ loop.now = loop'.now
                     \/ loop.now \in outbox' \/ status[loop.now] = "ok"

\* Taking an event leaves a shorter queue of events.
LEMMA EventTaken ==
    ASSUME TypeOK, events # <<>>
    PROVE  Tail(events) \in Seq(Kinds) /\ Len(Tail(events)) <= EventCap
<1>1. events \in Seq(Kinds) /\ Len(events) <= EventCap /\ EventCap \in Nat
  BY SenderAssumption DEF TypeOK
<1> QED BY <1>1

\* A message sent, by the loop or by a task of its own.
LEMMA Sending ==
    ASSUME TypeOK, NEW m \in Msgs, send_message(m)
    PROVE  /\ status' \in [Msgs -> Statuses] /\ commands' \in Seq(Msgs)
           /\ \A x \in Msgs : status'[x] = "ok" => status[x] = "ok"
<1>1. status \in [Msgs -> Statuses] /\ commands \in Seq(Msgs)
  BY DEF TypeOK, Statuses
<1> QED BY <1>1 DEF send_message, Statuses

\* The steps of the loop, and of the tasks that send for it.
LEMMA LoopSteps ==
    ASSUME TypeOK, LoopOK,
           \/ HandlePeer \/ HandleEvent \/ LoopReply
           \/ \E m \in Sends : SendFromUi(m) \/ SendFromApi(m) \/ ApiReply(m)
    PROVE  LoopSide
<1>0. /\ outbox \subseteq Queue /\ status \in [Msgs -> Statuses]
      /\ loop \in [now : Msgs \cup {Nil}, rest : SUBSET Queue, flush : BOOLEAN]
      /\ commands \in Seq(Msgs) /\ events \in Seq(Kinds) /\ Len(events) <= EventCap
  BY DEF TypeOK, Statuses
<1>1. loop = Idle => loop.flush = FALSE
  BY DEF Idle
<1>2. CASE HandlePeer
  <2>1. /\ loop = Idle /\ events' = Tail(events) /\ events # <<>>
        /\ UNCHANGED <<blocked, emitted, connected, swarmVars, netVars>>
        /\ \/ outbox' = {} /\ flush_next(outbox, status)
           \/ UNCHANGED <<outbox, loop, status, commands>>
    BY <1>2 DEF HandlePeer
  <2>2. events' \in Seq(Kinds) /\ Len(events') <= EventCap
    BY <2>1, EventTaken
  <2>3. CASE outbox' = {} /\ flush_next(outbox, status)
    <3>1. /\ loop' \in [now : Msgs \cup {Nil}, rest : SUBSET Queue, flush : BOOLEAN]
          /\ LoopOK'
          /\ status' \in [Msgs -> Statuses] /\ commands' \in Seq(Msgs)
          /\ \A m \in Msgs : status'[m] = "ok" => status[m] = "ok"
          /\ \A m \in outbox : loop'.flush /\ (m = loop'.now \/ m \in loop'.rest)
      BY <1>0, <2>3, FlushGoesOn, Zenon
    <3> QED BY <1>1, <2>1, <2>2, <2>3, <3>1 DEF LoopSide
  <2>4. CASE UNCHANGED <<outbox, loop, status, commands>>
    BY <1>0, <1>1, <2>1, <2>2, <2>4, Zenon DEF LoopSide, LoopOK
  <2> QED BY <2>1, <2>3, <2>4, Zenon
<1>3. ASSUME loop = Idle, NEW m \in Sends, await_in_loop(m, {}, FALSE)
      PROVE  /\ loop' \in [now : Msgs \cup {Nil}, rest : SUBSET Queue, flush : BOOLEAN]
             /\ LoopOK'
             /\ status' \in [Msgs -> Statuses] /\ commands' \in Seq(Msgs)
             /\ \A x \in Msgs : status'[x] = "ok" => status[x] = "ok"
  <2>1. m \in Msgs /\ send_message(m) /\ loop' = [now |-> m, rest |-> {}, flush |-> FALSE]
    BY <1>3 DEF await_in_loop, Msgs
  <2> QED BY <2>1, Sending DEF LoopOK
<1>4. CASE HandleEvent
  <2>1. /\ loop = Idle /\ events' = Tail(events) /\ events # <<>>
        /\ UNCHANGED <<outbox, blocked, emitted, connected, swarmVars, netVars>>
        /\ \/ \E m \in Sends : await_in_loop(m, {}, FALSE)
           \/ UNCHANGED <<loop, status, commands>>
    BY <1>4, Zenon DEF HandleEvent
  <2>2. events' \in Seq(Kinds) /\ Len(events') <= EventCap
    BY <2>1, EventTaken
  <2>3. ASSUME NEW m \in Sends, await_in_loop(m, {}, FALSE)
        PROVE  LoopSide
    BY <1>0, <1>1, <1>3, <2>1, <2>2, <2>3, Zenon DEF LoopSide
  <2>4. CASE UNCHANGED <<loop, status, commands>>
    BY <1>0, <1>1, <2>1, <2>2, <2>4 DEF LoopSide, LoopOK
  <2> QED BY <2>1, <2>3, <2>4, Zenon
<1>5. ASSUME NEW m \in Sends, SendFromUi(m)
      PROVE  LoopSide
  <2>1. /\ loop = Idle /\ await_in_loop(m, {}, FALSE)
        /\ UNCHANGED <<outbox, events, blocked, emitted, connected, swarmVars, netVars>>
    BY <1>5, Zenon DEF SendFromUi
  <2> QED BY <1>0, <1>1, <1>3, <2>1, Zenon DEF LoopSide
<1>6. ASSUME NEW m \in Sends, SendFromApi(m)
      PROVE  LoopSide
  <2>1. /\ m \in Msgs /\ send_message(m)
        /\ UNCHANGED <<outbox, loop, events, blocked, emitted, connected, swarmVars, netVars>>
    BY <1>6 DEF SendFromApi, Msgs
  <2> QED BY <1>0, <2>1, Sending DEF LoopSide, LoopOK
<1>7. ASSUME NEW m \in Sends, ApiReply(m)
      PROVE  LoopSide
  <2>1. /\ m \in Msgs /\ status' = [status EXCEPT ![m] = "told"]
        /\ UNCHANGED <<outbox, loop, commands, events, blocked, emitted, connected, swarmVars, netVars>>
    BY <1>7 DEF ApiReply, told_of, Msgs
  <2>2. status' \in [Msgs -> Statuses] /\ \A x \in Msgs : status'[x] = "ok" => status[x] = "ok"
    BY <1>0, <2>1 DEF Statuses
  <2> QED BY <1>0, <2>1, <2>2 DEF LoopSide, LoopOK
<1>8. CASE LoopReply
  <2> DEFINE told == [status EXCEPT ![loop.now] = "told"]
  <2>1. /\ loop # Idle /\ status[loop.now] \in {"ok", "err"}
        /\ outbox' = IF loop.flush /\ status[loop.now] = "err" THEN outbox \cup {loop.now} ELSE outbox
        /\ flush_next(loop.rest, told)
        /\ UNCHANGED <<events, blocked, emitted, connected, swarmVars, netVars>>
    BY <1>8 DEF LoopReply, requeue, told_of
  <2>2. loop.now \in Msgs /\ loop.rest \in SUBSET Queue /\ (loop.flush => loop.now \in Queue)
    BY <1>0, <2>1 DEF LoopOK
  <2>3. told \in [Msgs -> Statuses] /\ \A x \in Msgs : told[x] = "ok" => status[x] = "ok"
    BY <1>0, <2>2 DEF Statuses
  <2> HIDE DEF told
  <2>4. outbox' \subseteq Queue /\ outbox \subseteq outbox'
    BY <1>0, <2>1, <2>2
  <2>5. loop.flush => loop.now \in outbox' \/ status[loop.now] = "ok"
    BY <2>1, Zenon
  <2>6. /\ loop' \in [now : Msgs \cup {Nil}, rest : SUBSET Queue, flush : BOOLEAN]
        /\ LoopOK'
        /\ status' \in [Msgs -> Statuses] /\ commands' \in Seq(Msgs)
        /\ \A m \in Msgs : status'[m] = "ok" => told[m] = "ok"
        /\ \A m \in loop.rest : loop'.flush /\ (m = loop'.now \/ m \in loop'.rest)
    BY <2>1, <2>2, <2>3, FlushGoesOn, Zenon
  <2> QED BY <1>0, <2>1, <2>3, <2>4, <2>5, <2>6 DEF LoopSide
<1> QED BY <1>2, <1>4, <1>5, <1>6, <1>7, <1>8

\* They keep the invariant: they neither make requests nor know more of them.
LEMMA LoopKeeps ==
    ASSUME SenderInv, LoopSide
    PROVE  SenderInv'
<1>1. /\ UNCHANGED <<blocked, emitted, connected, pending, requests, committed, named, accepted, custody>>
      /\ Shared' = Shared /\ \A m : Kept(m)' <=> Kept(m)
  BY DEF LoopSide, swarmVars, netVars, Shared, Kept
<1>2. TypeOK'
  BY <1>1 DEF SenderInv, TypeOK, LoopSide, Statuses
<1>3. LoopOK' /\ AllNamed' /\ YesIsTrue'
  BY <1>1 DEF SenderInv, LoopSide, AllNamed, YesIsTrue
<1>4. OkIsHonest'
  BY <1>1, Zenon DEF SenderInv, LoopSide, OkIsHonest
<1>5. NoSilentDrop'
  <2> SUFFICES ASSUME NEW m \in Queue \ Shared, ~Kept(m)
               PROVE  m \in outbox' \/ (loop'.flush /\ (m = loop'.now \/ m \in loop'.rest))
    BY <1>1, Zenon DEF NoSilentDrop
  <2>1. m \in Msgs /\ status[m] # "ok"
    BY DEF SenderInv, OkIsHonest, Msgs
  <2>2. m \in outbox \/ (loop.flush /\ (m = loop.now \/ m \in loop.rest))
    BY DEF SenderInv, NoSilentDrop
  <2> QED BY <2>1, <2>2, Zenon DEF LoopSide
<1> QED BY <1>2, <1>3, <1>4, <1>5 DEF SenderInv
-----------------------------------------------------------------------------
\* The steps of the swarm task and of the other nodes.
SwarmSide ==
    /\ UNCHANGED <<outbox, loop>>
    /\ named \subseteq named' /\ accepted \subseteq accepted' /\ custody \subseteq custody'
    /\ TypeOK' /\ AllNamed' /\ YesIsTrue'
    /\ \A m \in Msgs : status'[m] = "ok" => status[m] = "ok" \/ Kept(m)' \/ m \in Shared'

\* They keep the invariant: whoever they tell Ok can rely on it.
LEMMA SwarmKeeps ==
    ASSUME SenderInv, SwarmSide
    PROVE  SenderInv'
<1>1. Shared \subseteq Shared' /\ \A m : Kept(m) => Kept(m)'
  BY KnowledgeGrows DEF SwarmSide
<1>2. OkIsHonest'
  BY <1>1 DEF SenderInv, SwarmSide, OkIsHonest
<1>3. NoSilentDrop'
  BY <1>1 DEF SenderInv, SwarmSide, NoSilentDrop
<1>4. LoopOK'
  BY DEF SenderInv, SwarmSide, LoopOK
<1> QED BY <1>2, <1>3, <1>4 DEF SenderInv, SwarmSide

\* Telling the network's events to the application.
LEMMA EventSteps ==
    ASSUME SenderInv,
           \/ RoomForEvent \/ \E e \in Kinds : EmitEvent(e)
           \/ \E p \in Peers : Connect(p) \/ Disconnect(p)
    PROVE  SwarmSide
<1>0. /\ events \in Seq(Kinds) /\ Len(events) <= EventCap /\ EventCap \in Nat
      /\ emitted \in 0..MaxEvents /\ MaxEvents \in Nat /\ blocked \in Kinds \cup {Nil}
      /\ connected \subseteq Peers
  BY SenderAssumption, Zenon DEF SenderInv, TypeOK
<1>1. ASSUME NEW e \in Kinds, emit(e)
      PROVE  events' \in Seq(Kinds) /\ Len(events') <= EventCap /\ blocked' \in Kinds \cup {Nil}
  BY <1>0, <1>1 DEF emit
<1> DEFINE Told ==
        /\ events' \in Seq(Kinds) /\ Len(events') <= EventCap /\ blocked' \in Kinds \cup {Nil}
        /\ emitted' \in 0..MaxEvents /\ connected' \subseteq Peers
        /\ UNCHANGED <<outbox, loop, status, commands, swarmVars, netVars>>
<1>2. Told
  <2>1. CASE RoomForEvent
    BY <1>0, <2>1 DEF RoomForEvent
  <2>2. ASSUME NEW e \in Kinds, EmitEvent(e)
        PROVE  Told
    <3>1. emit(e) /\ emitted' = emitted + 1 /\ emitted < MaxEvents
          /\ UNCHANGED <<outbox, loop, status, commands, connected, swarmVars, netVars>>
      BY <2>2 DEF EmitEvent
    <3>2. emitted' \in 0..MaxEvents
      BY <1>0, <3>1
    <3> QED BY <1>0, <1>1, <3>1, <3>2, Zenon
  <2>3. ASSUME NEW p \in Peers, Connect(p) \/ Disconnect(p)
        PROVE  Told
    <3>1. /\ emit("peer") \/ emit("other")
          /\ emitted' = emitted + 1 /\ emitted < MaxEvents
          /\ connected' \subseteq connected \cup {p}
          /\ UNCHANGED <<outbox, loop, status, commands, swarmVars, netVars>>
      BY <2>3 DEF Connect, Disconnect
    <3>2. emitted' \in 0..MaxEvents
      BY <1>0, <3>1
    <3>3. "peer" \in Kinds /\ "other" \in Kinds
      BY DEF Kinds
    <3> QED BY <1>0, <1>1, <3>1, <3>2, <3>3
  <2> QED BY <2>1, <2>2, <2>3
<1>3. UNCHANGED <<outbox, loop, status, commands, pending, requests, committed, named, accepted, custody>>
  BY <1>2, Zenon DEF swarmVars, netVars
<1>4. TypeOK'
  BY <1>2, <1>3, Zenon DEF SenderInv, TypeOK
<1> QED BY <1>3, <1>4, Zenon DEF SenderInv, SwarmSide, AllNamed, YesIsTrue

\* A request more, which nobody answered yet.
LEMMA Dispatched ==
    ASSUME SenderInv, NEW R, R \subseteq requests, NEW i \in Ids, NEW m \in Msgs, NEW via \in Peers,
           dispatch(R, i, m, via), <<i, m>> \in named', named \subseteq named', UNCHANGED netVars
    PROVE  /\ requests' \subseteq RequestSet
           /\ \A r \in requests' : <<r.id, r.msg>> \in named'
           /\ YesIsTrue'
<1> DEFINE x == [id |-> i, msg |-> m, via |-> via, answer |-> Nil]
<1>1. requests' = R \cup {x}
  BY DEF dispatch
<1>2. x \in RequestSet /\ x.id = i /\ x.msg = m /\ x.answer # "yes"
  BY SenderAssumption, Zenon DEF RequestSet
<1> HIDE DEF x
<1>3. requests \subseteq RequestSet
  BY Zenon DEF SenderInv, TypeOK, RequestSet
<1>4. UNCHANGED <<accepted, custody>>
  BY DEF netVars
<1>5. YesIsTrue'
  BY <1>1, <1>2, <1>4 DEF SenderInv, YesIsTrue
<1>6. \A r \in requests' : <<r.id, r.msg>> \in named'
  BY <1>1, <1>2, Zenon DEF SenderInv, AllNamed
<1> QED BY <1>1, <1>2, <1>3, <1>5, <1>6

\* A reply to the sender of an entry, if its channel is still open.
LEMMA Replied ==
    ASSUME TypeOK, NEW e \in Entries, NEW a \in Statuses
    PROVE  /\ replied(e, a) \in [Msgs -> Statuses]
           /\ \A m \in Msgs : replied(e, a)[m] = "ok" => status[m] = "ok" \/ (a = "ok" /\ m = e.msg)
<1>1. status \in [Msgs -> Statuses] /\ e.msg \in Msgs
  BY Zenon DEF TypeOK, Statuses, Entries
<1> QED BY <1>1, Zenon DEF replied

\* SendMessage and the tick write entries and requests that are named.
LEMMA CommandSteps ==
    ASSUME SenderInv, SendMessage \/ NoPaths \/ \E i \in Ids : Retry(i)
    PROVE  SwarmSide
<1>0. /\ TypeOK /\ commands \in Seq(Msgs) /\ status \in [Msgs -> Statuses]
      /\ \A i \in DOMAIN pending : i \in Ids /\ pending[i] \in Entries /\ <<i, pending[i].msg>> \in named
  BY Zenon DEF SenderInv, AllNamed, TypeOK, Statuses, Entries
<1>1. CASE SendMessage
  <2> DEFINE m == Head(commands)
  <2>1. PICK i \in {LastId, LastId + 1} \cap Ids :
             /\ named' = named \cup {<<i, m>>}
             /\ pending' = With(i, [msg |-> m, index |-> 0, open |-> TRUE])
             /\ status' = IF i \in DOMAIN pending THEN replied(pending[i], "err") ELSE status
             /\ \E via \in IF Target \in connected THEN {Target} ELSE Peers :
                    dispatch(requests, i, m, via)
    BY <1>1, Zenon DEF SendMessage
  <2>2. /\ commands # <<>> /\ commands' = Tail(commands)
        /\ UNCHANGED <<outbox, loop, events, blocked, emitted, connected, committed, netVars>>
    BY <1>1, Zenon DEF SendMessage
  <2>3. m \in Msgs /\ commands' \in Seq(Msgs)
    BY <1>0, <2>2
  <2> HIDE DEF m
  <2> DEFINE e == [msg |-> m, index |-> 0, open |-> TRUE]
  <2>4. e \in Entries /\ e.msg = m
    <3>1. Cardinality(Relays) \in Nat
      BY SenderAssumption, FS_CardinalityType
    <3> QED BY <2>3, <3>1 DEF Entries
  <2> HIDE DEF e
  <2>5. pending' = With(i, e)
    BY <2>1, Zenon DEF e
  <2>6. /\ DOMAIN pending' = DOMAIN pending \cup {i} /\ pending'[i] = e
        /\ \A j \in DOMAIN pending \ {i} : pending'[j] = pending[j]
    <3>1. /\ DOMAIN With(i, e) = DOMAIN pending \cup {i} /\ With(i, e)[i] = e
          /\ \A j \in DOMAIN pending \ {i} : With(i, e)[j] = pending[j]
      BY <1>0, <2>4, PendingUpdates, Zenon
    <3> QED BY <2>5, <3>1, Zenon
  <2>7. PICK via \in Peers : dispatch(requests, i, m, via)
    BY <2>1, Zenon DEF Peers
  <2>8. <<i, m>> \in named' /\ named \subseteq named' /\ named' \subseteq Ids \X Msgs
    BY <1>0, <2>1, <2>3 DEF TypeOK
  <2>9. /\ requests' \subseteq RequestSet
        /\ \A r \in requests' : <<r.id, r.msg>> \in named'
        /\ YesIsTrue'
    BY <2>2, <2>3, <2>7, <2>8, Dispatched, Zenon
  <2>10. status' \in [Msgs -> Statuses] /\ \A x \in Msgs : status'[x] = "ok" => status[x] = "ok"
    <3>1. "err" \in Statuses
      BY DEF Statuses
    <3>2. CASE i \in DOMAIN pending
      <4>1. pending[i] \in Entries /\ status' = replied(pending[i], "err")
        BY <1>0, <2>1, <3>2, Zenon
      <4> QED BY <1>0, <3>1, <4>1, Replied
    <3>3. CASE i \notin DOMAIN pending
      BY <1>0, <2>1, <3>3, Zenon
    <3> QED BY <3>2, <3>3, Zenon
  <2>11. \A j \in DOMAIN pending' : j \in Ids /\ pending'[j] \in Entries /\ <<j, pending'[j].msg>> \in named'
    BY <1>0, <2>4, <2>6, <2>8, Zenon
  <2>12. TypeOK'
    BY <1>0, <2>2, <2>3, <2>8, <2>9, <2>10, <2>11, Zenon DEF TypeOK, Statuses, Entries, RequestSet, netVars
  <2>13. AllNamed'
    BY <2>9, <2>11, Zenon DEF AllNamed
  <2> QED BY <2>2, <2>8, <2>9, <2>10, <2>12, <2>13, Zenon DEF SwarmSide, netVars
<1>2. CASE NoPaths
  <2>1. /\ commands # <<>> /\ commands' = Tail(commands)
        /\ status' = [status EXCEPT ![Head(commands)] = "err"]
        /\ UNCHANGED <<outbox, loop, events, blocked, emitted, connected, swarmVars, netVars>>
    BY <1>2, Zenon DEF NoPaths
  <2>2. Head(commands) \in Msgs /\ commands' \in Seq(Msgs)
    BY <1>0, <2>1
  <2>3. status' \in [Msgs -> Statuses] /\ \A x \in Msgs : status'[x] = "ok" => status[x] = "ok"
    BY <1>0, <2>1, <2>2, Zenon DEF Statuses
  <2>4. UNCHANGED <<outbox, loop, events, blocked, emitted, connected, pending, requests, committed,
                    named, accepted, custody>>
    BY <2>1, Zenon DEF swarmVars, netVars
  <2>5. TypeOK'
    BY <1>0, <2>2, <2>3, <2>4, Zenon DEF TypeOK, Statuses
  <2>6. AllNamed' /\ YesIsTrue'
    BY <2>4, Zenon DEF SenderInv, AllNamed, YesIsTrue
  <2> QED BY <2>3, <2>4, <2>5, <2>6, Zenon DEF SwarmSide
<1>3. ASSUME NEW i \in Ids, Retry(i)
      PROVE  SwarmSide
  <2> DEFINE e == pending[i]
  <2>1. i \in DOMAIN pending
    BY <1>3, Zenon DEF Retry
  <2>2. PICK n \in 1..(1 + Cardinality(Relays)) :
          /\ pending' = With(i, [e EXCEPT !.index = next_index(e.index, n),
                                          !.open = @ /\ ~wrapped_pass(e.index, n)])
          /\ status' = IF wrapped_pass(e.index, n) THEN replied(e, "err") ELSE status
          /\ \E via \in IF next_index(e.index, n) = 0 THEN {Target} ELSE Relays :
                    dispatch(requests, i, e.msg, via)
    BY <1>3, Zenon DEF Retry
  <2>3. UNCHANGED <<outbox, loop, commands, events, blocked, emitted, connected, committed, named, netVars>>
    BY <1>3, Zenon DEF Retry
  <2>4. e \in Entries /\ <<i, e.msg>> \in named
    BY <1>0, <2>1, Zenon
  <2> HIDE DEF e
  <2> DEFINE f == [e EXCEPT !.index = next_index(e.index, n),
                            !.open = e.open /\ ~wrapped_pass(e.index, n)]
  <2>5. f \in Entries /\ f.msg = e.msg
    <3>1. e.index \in 0..Cardinality(Relays)
      BY <2>4, Zenon DEF Entries
    <3>2. next_index(e.index, n) \in 0..Cardinality(Relays) /\ wrapped_pass(e.index, n) \in BOOLEAN
      BY <3>1, CursorType
    <3> QED BY <2>4, <3>2, Zenon DEF Entries
  <2>6. pending' = With(i, f)
    BY <2>2
  <2> HIDE DEF f
  <2>7. /\ DOMAIN pending' = DOMAIN pending \cup {i} /\ pending'[i] = f
        /\ \A j \in DOMAIN pending \ {i} : pending'[j] = pending[j]
    <3>1. /\ DOMAIN With(i, f) = DOMAIN pending \cup {i} /\ With(i, f)[i] = f
          /\ \A j \in DOMAIN pending \ {i} : With(i, f)[j] = pending[j]
      BY <1>0, <2>5, PendingUpdates, Zenon
    <3> QED BY <2>6, <3>1, Zenon
  <2>8. PICK via \in Peers : dispatch(requests, i, e.msg, via)
    BY <2>2 DEF Peers
  <2>9. e.msg \in Msgs /\ <<i, e.msg>> \in named' /\ named \subseteq named'
    BY <2>3, <2>4, Zenon DEF Entries
  <2>10. /\ requests' \subseteq RequestSet
         /\ \A r \in requests' : <<r.id, r.msg>> \in named'
         /\ YesIsTrue'
    BY <2>3, <2>8, <2>9, Dispatched, Zenon
  <2>11. status' \in [Msgs -> Statuses] /\ \A x \in Msgs : status'[x] = "ok" => status[x] = "ok"
    <3>1. "err" \in Statuses
      BY DEF Statuses
    <3> QED BY <1>0, <2>2, <2>4, <3>1, Replied
  <2>12. \A j \in DOMAIN pending' : j \in Ids /\ pending'[j] \in Entries /\ <<j, pending'[j].msg>> \in named'
    BY <1>0, <2>4, <2>5, <2>7, <2>9, Zenon
  <2>13. TypeOK'
    BY <1>0, <2>3, <2>10, <2>11, <2>12, Zenon DEF TypeOK, Statuses, Entries, RequestSet, netVars
  <2>14. AllNamed'
    BY <2>10, <2>12, Zenon DEF AllNamed
  <2> QED BY <2>3, <2>10, <2>11, <2>13, <2>14, Zenon DEF SwarmSide, netVars
<1> QED BY <1>1, <1>2, <1>3

\* An entry is removed and its sender told, or nothing of the kind happens.
Ended(i, a) ==
    IF i \in DOMAIN pending /\ a # "keep"
    THEN pending' = Without(i) /\ status' = replied(pending[i], a)
    ELSE UNCHANGED <<pending, status>>

\* Ending an entry is honest if Ok is said only when the message is kept.
LEMMA EndingHonest ==
    ASSUME SenderInv, NEW i \in Ids, NEW a \in {"ok", "err", "keep"}, Ended(i, a),
           requests' \subseteq requests,
           UNCHANGED <<outbox, loop, commands, events, blocked, emitted, connected, committed, named,
                       netVars>>,
           a = "ok" /\ i \in DOMAIN pending => Kept(pending[i].msg) \/ pending[i].msg \in Shared
    PROVE  SwarmSide
<1>0. /\ TypeOK /\ status \in [Msgs -> Statuses]
      /\ \A j \in DOMAIN pending : j \in Ids /\ pending[j] \in Entries
  BY Zenon DEF SenderInv, TypeOK, Statuses, Entries
<1>1. UNCHANGED <<named, accepted, custody>>
  BY Zenon DEF netVars
<1>2. CASE i \in DOMAIN pending /\ a # "keep"
  <2>1. pending' = Without(i) /\ status' = replied(pending[i], a)
    BY <1>2, Zenon DEF Ended
  <2>2. DOMAIN pending' = DOMAIN pending \ {i} /\ \A j \in DOMAIN pending' : pending'[j] = pending[j]
    BY <2>1, Zenon DEF Without
  <2>3. pending[i] \in Entries /\ a \in Statuses
    BY <1>0, <1>2, Zenon DEF Statuses
  <2>4. /\ status' \in [Msgs -> Statuses]
        /\ \A m \in Msgs : status'[m] = "ok" => status[m] = "ok" \/ (a = "ok" /\ m = pending[i].msg)
    BY <1>0, <2>1, <2>3, Replied, Zenon
  <2>5. TypeOK'
    BY <1>0, <1>1, <2>2, <2>4, Zenon DEF TypeOK, Statuses, Entries
  <2>6. AllNamed' /\ YesIsTrue'
    BY <1>1, <2>2, Zenon DEF SenderInv, AllNamed, YesIsTrue
  <2>7. \A m \in Msgs : status'[m] = "ok" => status[m] = "ok" \/ Kept(m)' \/ m \in Shared'
    BY <1>1, <1>2, <2>4, Zenon DEF Kept, Shared
  <2> QED BY <1>1, <2>5, <2>6, <2>7, Zenon DEF SwarmSide
<1>3. CASE ~(i \in DOMAIN pending /\ a # "keep")
  <2>1. UNCHANGED <<pending, status>>
    BY <1>3, Zenon DEF Ended
  <2>2. TypeOK'
    BY <1>0, <1>1, <2>1, Zenon DEF TypeOK
  <2>3. AllNamed' /\ YesIsTrue'
    BY <1>1, <2>1, Zenon DEF SenderInv, AllNamed, YesIsTrue
  <2> QED BY <1>1, <2>1, <2>2, <2>3, Zenon DEF SwarmSide
<1> QED BY <1>2, <1>3, Zenon

\* A response and a marker end an entry only for a message of its id, which is its
\* own unless the id was shared.
LEMMA AnswerSteps ==
    ASSUME SenderInv, (\E r \in requests : Response(r)) \/ (\E i \in Ids : Marker(i))
    PROVE  SwarmSide
<1>0. /\ TypeOK /\ requests \subseteq RequestSet /\ custody \subseteq named
      /\ \A j \in DOMAIN pending : <<j, pending[j].msg>> \in named
      /\ \A r \in requests : <<r.id, r.msg>> \in named
  BY Zenon DEF SenderInv, AllNamed, TypeOK, RequestSet
<1>1. ASSUME NEW r \in requests, Response(r)
      PROVE  SwarmSide
  <2>1. /\ requests' \subseteq requests /\ Ended(r.id, verdict(r))
        /\ UNCHANGED <<outbox, loop, commands, events, blocked, emitted, connected, committed, named,
                       netVars>>
    BY <1>1, Zenon DEF Response, Ended
  <2>2. r.id \in Ids
    BY <1>0, Zenon DEF RequestSet
  <2>3. ASSUME verdict(r) = "ok", r.id \in DOMAIN pending, pending[r.id].msg \notin Shared
        PROVE  Kept(pending[r.id].msg)
    <3>1. pending[r.id].msg = r.msg
      BY <1>0, <2>3, SameId, Zenon
    <3>2. r.msg \in accepted \/ <<r.id, r.msg>> \in custody
      BY <2>3, VerdictOf, Zenon DEF SenderInv, YesIsTrue
    <3>3. <<r.id, r.msg>>[2] = r.msg
      BY Zenon
    <3> QED BY <3>1, <3>2, <3>3, Zenon DEF Kept
  <2>4. verdict(r) \in {"ok", "err", "keep"}
    BY VerdictOf
  <2> QED BY <2>1, <2>2, <2>3, <2>4, EndingHonest, Zenon
<1>2. ASSUME NEW i \in Ids, Marker(i)
      PROVE  SwarmSide
  <2>1. /\ requests' \subseteq requests /\ Ended(i, "ok")
        /\ UNCHANGED <<outbox, loop, commands, events, blocked, emitted, connected, committed, named,
                       netVars>>
    BY <1>2, Zenon DEF Marker, Ended
  <2>2. PICK n \in custody : n[1] = i /\ n[2] \in accepted
    BY <1>2, Zenon DEF Marker
  <2>3. ASSUME i \in DOMAIN pending, pending[i].msg \notin Shared
        PROVE  Kept(pending[i].msg)
    <3>1. n \in named /\ n = <<i, n[2]>>
      BY <1>0, <2>2 DEF TypeOK
    <3>2. <<i, pending[i].msg>> \in named /\ <<i, n[2]>> \in named
      BY <1>0, <2>3, <3>1, Zenon
    <3>3. pending[i].msg = n[2]
      BY <1>0, <2>3, <3>2, SameId, Zenon
    <3> QED BY <2>2, <3>3, Zenon DEF Kept
  <2> QED BY <2>1, <2>3, EndingHonest, Zenon
<1> QED BY <1>1, <1>2

\* A failure forgets a request, or replaces it by one to a relay.
LEMMA FailureSteps ==
    ASSUME SenderInv, NEW r \in requests, OutboundFailure(r)
    PROVE  SwarmSide
<1>0. /\ TypeOK /\ r.id \in Ids /\ requests \subseteq RequestSet
      /\ \A j \in DOMAIN pending : pending[j].msg \in Msgs /\ <<j, pending[j].msg>> \in named
  BY Zenon DEF SenderInv, AllNamed, TypeOK, RequestSet
<1>1. UNCHANGED <<outbox, loop, status, commands, events, blocked, emitted, connected, pending, named,
                  accepted, custody>>
  BY Zenon DEF OutboundFailure, netVars
<1>2. /\ requests' \subseteq RequestSet /\ committed' \subseteq Ids
      /\ \A x \in requests' : <<x.id, x.msg>> \in named'
      /\ YesIsTrue'
  <2>1. CASE /\ r.id \in DOMAIN pending /\ committed' = committed \cup {r.id}
             /\ \E c \in connected : dispatch(requests \ {r}, r.id, pending[r.id].msg, c)
    <3>1. PICK c \in connected : dispatch(requests \ {r}, r.id, pending[r.id].msg, c)
      BY <2>1, Zenon
    <3>2. c \in Peers /\ committed' \subseteq Ids
      BY <1>0, <2>1, Zenon DEF TypeOK
    <3>3. pending[r.id].msg \in Msgs /\ <<r.id, pending[r.id].msg>> \in named'
      BY <1>0, <1>1, <2>1, Zenon
    <3> QED BY <1>0, <1>1, <3>1, <3>2, <3>3, Dispatched, Zenon DEF netVars
  <2>2. CASE requests' = requests \ {r} /\ committed' = committed
    BY <1>0, <1>1, <2>2, Zenon DEF SenderInv, AllNamed, YesIsTrue, TypeOK
  <2> QED BY <2>1, <2>2, Zenon DEF OutboundFailure
<1>3. TypeOK'
  BY <1>0, <1>1, <1>2, Zenon DEF TypeOK, RequestSet
<1>4. AllNamed'
  BY <1>1, <1>2, Zenon DEF SenderInv, AllNamed
<1> QED BY <1>1, <1>2, <1>3, <1>4, Zenon DEF SwarmSide

\* The other nodes accept messages, and say so truthfully.
LEMMA NetworkSteps ==
    ASSUME SenderInv,
           \/ \E r \in requests, a \in {"yes", "no", "terminal"} : Answer(r, a)
           \/ \E n \in custody : RelayDelivers(n)
    PROVE  SwarmSide
<1>0. /\ TypeOK /\ requests \subseteq RequestSet /\ custody \subseteq named
      /\ named \subseteq Ids \X Msgs /\ accepted \subseteq Msgs
      /\ \A r \in requests : <<r.id, r.msg>> \in named
  BY Zenon DEF SenderInv, AllNamed, TypeOK, RequestSet
<1>1. ASSUME NEW r \in requests, NEW a \in {"yes", "no", "terminal"}, Answer(r, a)
      PROVE  SwarmSide
  <2> DEFINE x == [r EXCEPT !.answer = a]
  <2>1. /\ requests' = (requests \ {r}) \cup {x}
        /\ accepted' = IF a = "yes" /\ r.via = Target THEN accepted \cup {r.msg} ELSE accepted
        /\ custody' = IF a = "yes" /\ r.via # Target THEN custody \cup {<<r.id, r.msg>>} ELSE custody
        /\ UNCHANGED <<outbox, loop, status, commands, events, blocked, emitted, connected, pending,
                       committed, named>>
    BY <1>1, Zenon DEF Answer
  <2>2. r \in RequestSet
    BY <1>0, Zenon
  <2>3. x \in RequestSet /\ x.id = r.id /\ x.msg = r.msg /\ x.answer = a
    BY <2>2 DEF RequestSet
  <2> HIDE DEF x
  <2>4. /\ accepted \subseteq accepted' /\ custody \subseteq custody' /\ accepted' \subseteq Msgs
        /\ custody' \subseteq named'
        /\ a = "yes" => r.msg \in accepted' \/ <<r.id, r.msg>> \in custody'
    BY <1>0, <2>1, <2>2, Zenon DEF RequestSet
  <2>5. YesIsTrue'
    BY <2>1, <2>3, <2>4, Zenon DEF SenderInv, YesIsTrue
  <2>6. AllNamed'
    BY <2>1, <2>3, Zenon DEF SenderInv, AllNamed
  <2>7. TypeOK'
    BY <1>0, <2>1, <2>3, <2>4, Zenon DEF TypeOK, RequestSet
  <2> QED BY <2>1, <2>4, <2>5, <2>6, <2>7, Zenon DEF SwarmSide
<1>2. ASSUME NEW n \in custody, RelayDelivers(n)
      PROVE  SwarmSide
  <2>1. /\ accepted' = accepted \cup {n[2]}
        /\ UNCHANGED <<outbox, loop, status, commands, events, blocked, emitted, connected, pending,
                       requests, committed, named, custody>>
    BY <1>2, Zenon DEF RelayDelivers, swarmVars
  <2>2. n[2] \in Msgs
    BY <1>0, Zenon
  <2>3. TypeOK'
    BY <1>0, <2>1, <2>2, Zenon DEF TypeOK
  <2>4. AllNamed' /\ YesIsTrue'
    BY <2>1, Zenon DEF SenderInv, AllNamed, YesIsTrue
  <2> QED BY <2>1, <2>3, <2>4, Zenon DEF SwarmSide
<1> QED BY <1>1, <1>2
-----------------------------------------------------------------------------
\* SenderInv is inductive.
LEMMA SenderAlways == Spec => []SenderInv
<1>1. Init => SenderInv
  <2> SUFFICES ASSUME Init PROVE SenderInv
    OBVIOUS
  <2>1. DOMAIN pending = {} /\ named = {} /\ 0 \in 0..MaxEvents /\ Len(events) = 0 /\ 0 <= EventCap
    BY SenderAssumption DEF Init
  <2>2. TypeOK
    BY <2>1 DEF Init, TypeOK, Idle
  <2>3. LoopOK /\ AllNamed /\ YesIsTrue
    BY <2>1, Zenon DEF Init, LoopOK, AllNamed, YesIsTrue, Idle
  <2>4. OkIsHonest /\ NoSilentDrop
    BY Zenon DEF Init, OkIsHonest, NoSilentDrop
  <2> QED BY <2>2, <2>3, <2>4, Zenon DEF SenderInv
<1>2. SenderInv /\ [Next]_vars => SenderInv'
  <2> SUFFICES ASSUME SenderInv, [Next]_vars PROVE SenderInv'
    OBVIOUS
  <2>1. CASE UNCHANGED vars
    BY <2>1, Zenon DEF vars, SenderInv, TypeOK, LoopOK, AllNamed, YesIsTrue, OkIsHonest, NoSilentDrop, Kept, Shared
  <2>2. CASE \/ HandlePeer \/ HandleEvent \/ LoopReply
             \/ \E m \in Sends : SendFromUi(m) \/ SendFromApi(m) \/ ApiReply(m)
    BY <2>2, LoopSteps, LoopKeeps, Zenon DEF SenderInv
  <2>3. CASE \/ RoomForEvent \/ \E e \in Kinds : EmitEvent(e)
             \/ \E p \in Peers : Connect(p) \/ Disconnect(p)
    BY <2>3, EventSteps, SwarmKeeps
  <2>4. CASE SendMessage \/ NoPaths \/ \E i \in Ids : Retry(i)
    BY <2>4, CommandSteps, SwarmKeeps
  <2>5. CASE (\E r \in requests : Response(r)) \/ (\E i \in Ids : Marker(i))
    BY <2>5, AnswerSteps, SwarmKeeps, Zenon
  <2>6. CASE \E r \in requests : OutboundFailure(r)
    BY <2>6, FailureSteps, SwarmKeeps, Zenon
  <2>7. CASE \/ \E r \in requests, a \in {"yes", "no", "terminal"} : Answer(r, a)
             \/ \E n \in custody : RelayDelivers(n)
    BY <2>7, NetworkSteps, SwarmKeeps, Zenon
  <2> QED BY <2>1, <2>2, <2>3, <2>4, <2>5, <2>6, <2>7, Zenon DEF Next
<1> QED BY <1>1, <1>2, PTL DEF Spec

\* The node's state is well typed, and the event channel keeps its capacity.
THEOREM SenderTyping == Spec => []TypeOK
<1>1. SenderInv => TypeOK
  BY DEF SenderInv
<1> QED BY <1>1, SenderAlways, PTL

\* A caller that is told Ok can rely on it.
THEOREM OkHonest == Spec => []OkIsHonest
<1>1. SenderInv => OkIsHonest
  BY DEF SenderInv
<1> QED BY <1>1, SenderAlways, PTL

\* A message of the outbox is never dropped.
THEOREM NothingDropped == Spec => []NoSilentDrop
<1>1. SenderInv => NoSilentDrop
  BY DEF SenderInv
<1> QED BY <1>1, SenderAlways, PTL
=============================================================================

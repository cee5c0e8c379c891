---------------------------- MODULE BlockedPeers ----------------------------
(***************************************************************************)
(* Blocking one peer: the block store (core/src/store/blocked.rs), the     *)
(* calls block_peer, unblock_peer, block_and_delete_peer and               *)
(* contact_update_last_known_device_id of IronCore, and receive_message,   *)
(* which asks the block store and then files the message in the inbox and  *)
(* the history (core/src/iron_core.rs, store/history.rs).                  *)
(*                                                                         *)
(* The peer goes by three identifiers: K, its public key; I, its identity  *)
(* id, the hash of K; P, its libp2p peer id, which contains K.  A call     *)
(* names the peer by one of them, K and I also with a prefix that says     *)
(* which of the two the 64 hex digits are.  K and I without prefix cannot  *)
(* be told apart.                                                          *)
(*                                                                         *)
(* Each step of a call holds the lock of the store it works on, so the     *)
(* steps of a call and of the receiving threads interleave.                *)
(***************************************************************************)
EXTENDS Integers, Sequences

CONSTANTS Forms,       \* the ways in which the calls name the peer
          Devices,     \* the peer's devices
          Inbound,     \* messages the peer sends
          Threads,     \* threads that run receive_message
          Nil,
          MaxCalls,    \* bound: blocking calls
          MaxCrashes   \* bound: restarts

Names == {"K", "I", "P"}
AllForms == {"pk:K", "id:I", "K", "I", "P"}
AnyDevice == Devices \cup {Nil}

ASSUME BlockedAssumption ==
    /\ Forms \subseteq AllForms
    /\ Nil \notin Devices \cup Inbound \cup Names \cup {"shown", "hidden"}
    /\ MaxCalls \in Nat /\ MaxCrashes \in Nat

VARIABLES
    rows,       \* the block entries: name, device, is_deleted, identifier_flavor
    registry,   \* the device registry: name -> devices
    contact,    \* the contact record: the name it is stored under, its device
    history,    \* what the history holds of each message
    inbox,      \* messages in the inbox, which is in memory
    receiving,  \* receive_message in each thread, once the block check is done
    todo,       \* the steps left of the blocking call
    calls, crashes,
    barred,     \* a block of the peer is in force: nobody began to lift it since
    enforced,   \* so is one that named it otherwise than by P
    late,       \* messages whose block check saw that block
    revealed,   \* the peer was unblocked, and nobody began to block it since
    purged,     \* the peer was blocked and deleted, with no other call since
    mixed,      \* some call named the peer by K or P alone
    torn,       \* a crash cut an unblock short
    spared      \* messages the call did not reach: past their block check when it
                \* got to the history, or there under another name than the one it
                \* removed, or, after an unblock, checked when the store could not
                \* be read

stores == <<rows, registry, contact, history, inbox>>
ghosts == <<barred, enforced, late, revealed, purged, mixed, torn, spared>>
vars == <<rows, registry, contact, history, inbox, receiving, todo, calls,
          crashes, barred, enforced, late, revealed, purged, mixed, torn, spared>>
-----------------------------------------------------------------------------
\* The block store.

\* split_identifier_flavor
flavor_of(f) == CASE f = "pk:K" -> "PublicKey" [] f = "id:I" -> "IdentityId" [] OTHER -> "Legacy"
raw(f) == CASE f = "pk:K" -> "K" [] f = "id:I" -> "I" [] OTHER -> f

\* Defect: a public key stands for itself only.
resolved_identifiers_MUT(f) == CASE f = "P" -> {"P", "K", "I"} [] OTHER -> {raw(f)}

\* The names under which a block of the peer named by f may be stored.
resolved_identifiers(f) ==
    CASE f = "pk:K" -> {"K", "I"}
      [] f = "P" -> {"P", "K", "I"}
      [] OTHER -> {raw(f)}

entry(n, d) == {r \in rows : r.name = n /\ r.device = d}

is_blocked_resolved(f, d) ==
    \E n \in resolved_identifiers(f) : entry(n, d) # {} \/ entry(n, Nil) # {}

is_blocked_and_deleted_resolved(f) ==
    \E n \in resolved_identifiers(f), r \in rows :
        r.name = n /\ r.device = Nil /\ r.is_deleted

\* The rows block writes, in order.  A public key is blocked under its identity
\* id first, and a peer with all the devices registered under the given name.
block_writes(f, d, deleted) ==
    LET row(n, dev, fl) == [name |-> n, device |-> dev, is_deleted |-> deleted, flavor |-> fl]
        alias(ds) == IF f = "pk:K" THEN {row("I", dev, "IdentityId") : dev \in ds} ELSE {}
        own(ds) == {row(raw(f), dev, flavor_of(f)) : dev \in ds}
        devs == IF d = Nil THEN registry[raw(f)] ELSE {}
    IN  <<alias({d}), own({d}), own(devs), alias(devs)>>

\* Defect: a new row does not replace the one of the same name and device.
written_MUT(ws) == rows \cup UNION {ws[i] : i \in DOMAIN ws}

written(ws) ==
    LET new == UNION {ws[i] : i \in DOMAIN ws}
    IN  {r \in rows : ~\E w \in new : w.name = r.name /\ w.device = r.device} \cup new

block(f, d, deleted) == written(block_writes(f, d, deleted))

\* register_device_id: a new device of a blocked peer is blocked too, under the
\* bare name it is registered under.
register_device_id(f, d) ==
    LET n == raw(f)
        known == d \in registry[n]
        held == {i \in resolved_identifiers(n) : entry(i, Nil) # {}}
        first == IF "P" \in held THEN "P" ELSE IF "K" \in held THEN "K" ELSE "I"
    IN  /\ registry' = [registry EXCEPT ![n] = @ \cup {d}]
        /\ rows' = IF known \/ held = {} THEN rows
                   ELSE block(n, d, \E r \in entry(first, Nil) : r.is_deleted)

\* Defect: the names of a public-key block are not looked up.
identifiers_for_unblock_MUT(f) == resolved_identifiers(f)

\* identifiers_for_unblock: an identity id also stands for the public key under
\* which a block or a device is stored.
identifiers_for_unblock(f) ==
    resolved_identifiers(f) \cup
    IF raw(f) = "I" /\ (registry["K"] # {} \/ \E r \in rows : r.name = "K" /\ r.flavor = "PublicKey")
    THEN {"K"} ELSE {}

unblock_devices(f, d) ==
    IF d = Nil THEN {Nil} \cup UNION {registry[n] : n \in identifiers_for_unblock(f)} ELSE {d}

\* The entries `gone` and the device registries of `done` are removed.
removing(gone, done, devs) ==
    /\ rows' = {r \in rows : <<r.name, r.device>> \notin gone}
    /\ registry' = [n \in Names |-> IF n \in done THEN registry[n] \ devs ELSE registry[n]]

unblock(f, d) ==
    LET ids == identifiers_for_unblock(f)
        devs == unblock_devices(f, d)
    IN  removing(ids \X devs, ids, devs)

\* unblock cut short: it goes through the names one by one, and removes the peer's
\* entry, those of the devices and then the registry.
cut_unblock(f, d) ==
    LET order == SelectSeq(IF raw(f) = "I" THEN <<"I", "K">> ELSE <<"P", "K", "I">>,
                           LAMBDA n : n \in identifiers_for_unblock(f))
        devs == unblock_devices(f, d)
        before(i) == {order[j] : j \in 1..(i - 1)}
    IN  \E i \in 1..Len(order), part \in SUBSET devs :
            /\ part # {} /\ d = Nil => Nil \in part
            /\ removing((before(i) \X devs) \cup ({order[i]} \X part), before(i), devs)
-----------------------------------------------------------------------------
\* The calls of IronCore, as the steps they take.

\* contact_manager.get: an identity id is also resolved to the public key.
has_contact(f) == contact.key # Nil /\ (f = contact.key \/ (f = "I" /\ contact.key = "K"))

contact_public_key(f) == has_contact(f) /\ f # "K"

canonical(f) == IF f \in {"pk:K", "id:I"} THEN "I" ELSE f

opt(c, s) == IF c THEN <<s>> ELSE <<>>
step(op, f, d) == [op |-> op, form |-> f, device |-> d]

register_known(f) ==
    opt(has_contact(f) /\ contact.device # Nil, step("register", f, contact.device))

block_peer(f, d) ==
    register_known(f)
    \o opt(d # Nil, step("register", f, d))
    \o <<step("block", f, d)>>
    \o opt(contact_public_key(f), step("block", "pk:K", d))

\* Defect: the messages come back before the block is lifted.
unblock_peer_MUT(f, d) ==
    <<step("unhide", canonical(f), d), step("unblock", f, d)>>
    \o opt(contact_public_key(f), step("unblock", "pk:K", d))
    \o <<step("unhide", f, d)>>

unblock_peer(f, d) ==
    <<step("unblock", f, d)>>
    \o opt(contact_public_key(f), step("unblock", "pk:K", d))
    \o <<step("unhide", f, d)>>
    \o opt(canonical(f) # f, step("unhide", canonical(f), d))

\* Defect: the conversation goes before the block is in place.
block_and_delete_peer_MUT(f, d) ==
    <<step("remove", canonical(f), Nil), step("delete", f, Nil), step("remove", f, Nil)>>

block_and_delete_peer(f, d) ==
    register_known(f)
    \o <<step("delete", f, Nil)>>
    \o opt(contact_public_key(f), step("delete", "pk:K", Nil))
    \o <<step("remove", f, Nil)>>
    \o opt(canonical(f) # f, step("remove", canonical(f), Nil))

Init ==
    /\ rows = {} /\ registry = [n \in Names |-> {}]
    /\ contact \in [key : Names \cup {Nil}, device : {Nil}]
    /\ history = [m \in Inbound |-> Nil] /\ inbox = {}
    /\ receiving = [t \in Threads |-> Nil]
    /\ todo = <<>> /\ calls = 0 /\ crashes = 0
    /\ barred = FALSE /\ enforced = FALSE /\ late = {} /\ revealed = FALSE /\ purged = FALSE
    /\ mixed = FALSE /\ torn = FALSE /\ spared = {}

Call(steps) ==
    /\ todo = <<>> /\ calls < MaxCalls
    /\ todo' = steps
    /\ calls' = calls + 1
    /\ UNCHANGED <<stores, receiving, crashes>>

Mixing(f) == f \in {"K", "P"}

BlockPeer(f, d) ==
    /\ Call(block_peer(f, d))
    /\ revealed' = FALSE /\ purged' = FALSE /\ mixed' = (mixed \/ Mixing(f))
    /\ UNCHANGED <<barred, enforced, late, torn, spared>>

UnblockPeer(f, d) ==
    /\ Call(unblock_peer(f, d))
    /\ barred' = FALSE /\ enforced' = FALSE /\ late' = {}
    /\ purged' = FALSE /\ mixed' = (mixed \/ Mixing(f))
    /\ UNCHANGED <<revealed, torn, spared>>

BlockAndDeletePeer(f, d) ==
    /\ Call(block_and_delete_peer(f, d))
    /\ revealed' = FALSE /\ mixed' = (mixed \/ Mixing(f))
    /\ UNCHANGED <<barred, enforced, late, purged, torn, spared>>

\* contact_update_last_known_device_id: the contact, then the block store.
LearnDevice(f, d) ==
    /\ todo = <<>> /\ calls < MaxCalls
    /\ contact' = IF has_contact(f) THEN [contact EXCEPT !.device = d] ELSE contact
    /\ todo' = <<step("register", f, d)>>
    /\ calls' = calls + 1
    /\ mixed' = (mixed \/ Mixing(f))
    /\ UNCHANGED <<rows, registry, history, inbox, receiving, crashes, barred,
                   enforced, late, revealed, purged, torn, spared>>

\* Messages past their block check.
InFlight == {receiving[t].msg : t \in {t \in Threads : receiving[t] # Nil}}

\* The step is the last of an unblock that named the peer by I or with a prefix, or
\* of a block_and_delete_peer that did not name it by P.
Reveals(s) ==
    s.op = "unhide" /\ Tail(todo) = <<>> /\ ~Mixing(s.form) /\ s.device = Nil
Purges(s) == s.op = "remove" /\ Tail(todo) = <<>> /\ s.form # "P"

\* unhide_messages_for_peer and remove_conversation.  Received messages are filed
\* under I, so a removal under K leaves them where they are.
History(s) ==
    /\ history' = [m \in Inbound |->
                     IF s.form # "I" THEN history[m]
                     ELSE IF s.op = "remove" THEN Nil
                     ELSE IF history[m] = "hidden" THEN "shown" ELSE history[m]]
    /\ spared' = IF s.form = "I" THEN InFlight
                 ELSE IF s.form = "K" /\ s.op = "remove"
                 THEN InFlight \cup {m \in Inbound : history[m] # Nil}
                 ELSE spared
    /\ revealed' = (revealed \/ Reveals(s))
    /\ purged' = (purged \/ Purges(s))
    /\ UNCHANGED <<rows, registry, barred, enforced, late, mixed, torn>>

\* A block of the whole peer is in force from its first row on: at the transport,
\* which knows the peer by P, and, unless that row is the one of P, in
\* receive_message, which looks up K and I.
InForce(s) == s.device = Nil /\ s.form # "P"

Step ==
    LET s == Head(todo)
    IN  /\ todo # <<>>
        /\ todo' = Tail(todo)
        /\ \/ /\ s.op = "register"
              /\ register_device_id(s.form, s.device)
              /\ UNCHANGED <<history, ghosts>>
           \/ /\ s.op \in {"block", "delete"}
              /\ rows' = block(s.form, s.device, s.op = "delete")
              /\ barred' = (barred \/ s.device = Nil)
              /\ enforced' = (enforced \/ InForce(s))
              /\ UNCHANGED <<registry, history, late, revealed, purged, mixed, torn, spared>>
           \/ /\ s.op = "unblock"
              /\ unblock(s.form, s.device)
              /\ UNCHANGED <<history, ghosts>>
           \/ s.op \in {"unhide", "remove"} /\ History(s)
        /\ UNCHANGED <<contact, inbox, receiving, calls, crashes>>
-----------------------------------------------------------------------------
\* receive_message

\* last_known_device_id of the contact found under K, or else under I.
sender_device_id == IF contact.key \in {"K", "I"} THEN contact.device ELSE Nil

\* Defect: a block store that cannot be read lets the message through.
hidden_if_unreadable_MUT == FALSE

hidden_if_unreadable == TRUE

\* Up to the block check, under one lock.  A message of a deleted peer is
\* dropped, and so is any message when that cannot be read.
Check(t, m) ==
    /\ receiving[t] = Nil
    /\ ~is_blocked_and_deleted_resolved("pk:K")
    /\ \E readable \in BOOLEAN :
         /\ receiving' = [receiving EXCEPT ![t] =
                [msg |-> m, inboxed |-> FALSE,
                 hidden |-> IF readable THEN is_blocked_resolved("pk:K", sender_device_id)
                            ELSE hidden_if_unreadable]]
         /\ spared' = IF readable \/ ~revealed THEN spared ELSE spared \cup {m}
    /\ late' = IF enforced /\ history[m] = Nil /\ m \notin InFlight THEN late \cup {m} ELSE late
    /\ UNCHANGED <<stores, todo, calls, crashes, barred, enforced, revealed, purged, mixed, torn>>

FileInInbox(t) ==
    /\ receiving[t] # Nil /\ ~receiving[t].inboxed
    /\ inbox' = inbox \cup {receiving[t].msg}
    /\ receiving' = [receiving EXCEPT ![t].inboxed = TRUE]
    /\ UNCHANGED <<rows, registry, contact, history, todo, calls, crashes, ghosts>>

\* history_manager.add replaces the record of a message received before.
FileInHistory(t) ==
    /\ receiving[t] # Nil /\ receiving[t].inboxed
    /\ history' = [history EXCEPT ![receiving[t].msg] =
                      IF receiving[t].hidden THEN "hidden" ELSE "shown"]
    /\ receiving' = [receiving EXCEPT ![t] = Nil]
    /\ UNCHANGED <<rows, registry, contact, inbox, todo, calls, crashes, ghosts>>

\* A crash, possibly between two of the writes of a call's step.
Crash ==
    LET s == Head(todo)
    IN  /\ crashes < MaxCrashes
        /\ crashes' = crashes + 1
        /\ \/ UNCHANGED <<rows, registry, barred, enforced, torn>>
           \/ /\ todo # <<>> /\ s.op \in {"block", "delete"}
              /\ LET ws == block_writes(s.form, s.device, s.op = "delete")
                 IN  \E n \in 1..Len(ws) : rows' = written(SubSeq(ws, 1, n))
              /\ barred' = (barred \/ (s.device = Nil /\ rows' # rows))
              /\ enforced' = (enforced \/ (InForce(s) /\ rows' # rows))
              /\ UNCHANGED <<registry, torn>>
           \/ /\ todo # <<>> /\ s.op = "register"
              /\ registry' = [registry EXCEPT ![raw(s.form)] = @ \cup {s.device}]
              /\ UNCHANGED <<rows, barred, enforced, torn>>
           \/ /\ todo # <<>> /\ s.op = "unblock"
              /\ cut_unblock(s.form, s.device)
              /\ torn' = TRUE
              /\ UNCHANGED <<barred, enforced>>
        /\ todo' = <<>>
        /\ receiving' = [t \in Threads |-> Nil]
        /\ inbox' = {}
        /\ UNCHANGED <<contact, history, calls, late, revealed,
                       purged, mixed, spared>>

Next ==
    \/ \E f \in Forms, d \in AnyDevice : BlockPeer(f, d) \/ UnblockPeer(f, d)
    \/ \E f \in Forms : BlockAndDeletePeer(f, Nil)
    \/ \E f \in Forms, d \in Devices : LearnDevice(f, d)
    \/ Step \/ Crash
    \/ \E t \in Threads : FileInInbox(t) \/ FileInHistory(t) \/ \E m \in Inbound : Check(t, m)

Spec == Init /\ [][Next]_vars
-----------------------------------------------------------------------------
\* Every variable has its type, and there is one block entry per name and device.
TypeOK ==
    /\ rows \subseteq [name : Names, device : AnyDevice, is_deleted : BOOLEAN,
                      flavor : {"PublicKey", "IdentityId", "Legacy"}]
    /\ \A r, s \in rows : r.name = s.name /\ r.device = s.device => r = s
    /\ registry \in [Names -> SUBSET Devices]
    /\ contact \in [key : Names \cup {Nil}, device : AnyDevice]
    /\ history \in [Inbound -> {Nil, "shown", "hidden"}] /\ inbox \subseteq Inbound
    /\ receiving \in [Threads -> {Nil} \cup
                        [msg : Inbound, inboxed : BOOLEAN, hidden : BOOLEAN]]
    /\ calls \in 0..MaxCalls /\ crashes \in 0..MaxCrashes
    /\ barred \in BOOLEAN /\ enforced \in BOOLEAN /\ revealed \in BOOLEAN /\ purged \in BOOLEAN
    /\ mixed \in BOOLEAN /\ torn \in BOOLEAN
    /\ late \subseteq Inbound /\ spared \subseteq Inbound

\* From the first row it writes on, a block of the peer is seen by the transport,
\* whichever way the block, earlier calls and the device registrations named the
\* peer, and by receive_message, whatever the device; also if the node crashes
\* between two of the rows ("an interrupted dual-flavor write fails closed",
\* store/blocked.rs).  The exception: a block that names the peer by its libp2p id,
\* when no contact is stored under that id, has the one row of that id, which
\* receive_message does not look up, and is in force at the transport only.
BlockHolds ==
    /\ barred => is_blocked_resolved("P", Nil)
    /\ enforced => \A d \in AnyDevice : is_blocked_resolved("pk:K", d)

\* A message whose check saw the block in force never shows up while nobody began
\* to unblock the peer, though the check and the filing are apart and the block
\* store may fail to be read ("hidden from every UI-facing history query",
\* core/tests/integration_contact_block.rs).
HiddenWhileBlocked == \A m \in late : history[m] # "shown"

\* Unblocking the peer leaves no entry that still blocks it or one of its devices,
\* through whatever sequence of calls the entries came about, as long as all of
\* them named it by identity id or by tagged public key.  If an earlier unblock was
\* cut short by a crash, entries of devices may stay: the registry that listed them
\* is gone.
UnblockClears ==
    revealed /\ ~mixed => /\ ~is_blocked_resolved("pk:K", Nil)
                          /\ ~torn => \A d \in Devices : ~is_blocked_resolved("pk:K", d)

\* After that, unless an unblock was cut short, a message is hidden only if it was
\* past its block check, but not filed, when the hidden ones were brought back, or
\* if its own check failed.
UnblockReveals ==
    revealed /\ ~mixed /\ ~torn => \A m \in Inbound : history[m] = "hidden" => m \in spared

\* After block_and_delete_peer the history has no message of the peer, also not one
\* that arrived since, save those past their block check when the history was
\* purged ("subsequent network payloads are dropped", integration_contact_block.rs).
\* A call that names the peer by its bare public key removes the conversation of
\* that name only, and messages are filed under the identity id: those already there
\* stay, though none is added.  A call that names it by its libp2p id is left out: it
\* removes nothing of theirs and, without a contact under that id, drops nothing.
PurgeHolds ==
    purged => \A m \in Inbound : history[m] # Nil => m \in spared
=============================================================================

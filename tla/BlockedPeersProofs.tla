-------------------------- MODULE BlockedPeersProofs --------------------------
(***************************************************************************)
(* Blocking, unblocking and deleting a peer, for every set of devices,     *)
(* messages and threads, every subset of the forms of its name, and any    *)
(* number of calls and crashes.  First what a block hides; then that what  *)
(* block_and_delete_peer erased stays erased, that no entry which          *)
(* unblock_peer leaves behind still blocks the peer, and that the messages *)
(* hidden meanwhile come back: the last two for calls that name the peer   *)
(* by its identity id or its tagged public key.                            *)
(***************************************************************************)
EXTENDS BlockedPeers, TLAPS

RowSet == [name : Names, device : AnyDevice, is_deleted : BOOLEAN,
           flavor : {"PublicKey", "IdentityId", "Legacy"}]

\* One row per name and device
Unique(R) == \A r, s \in R : r.name = s.name /\ r.device = s.device => r = s

Steps == {s \in [op : {"register", "block", "delete", "remove", "unblock", "unhide"},
                 form : AllForms, device : AnyDevice] :
              s.op = "register" => s.device \in Devices}

Typed == TypeOK /\ Unique(rows) /\ todo \in Seq(Steps)

\* The forms and what the store makes of them.
LEMMA FormFacts ==
    ASSUME NEW f \in AllForms
    PROVE  /\ raw(f) \in Names /\ raw(f) \in AllForms /\ raw(raw(f)) = raw(f)
           /\ flavor_of(f) \in {"PublicKey", "IdentityId", "Legacy"} /\ flavor_of(raw(f)) = "Legacy"
           /\ raw(f) # "P" <=> f # "P"
           /\ raw(f) = "K" /\ ~Mixing(f) <=> f = "pk:K"
           /\ flavor_of(f) = "PublicKey" <=> f = "pk:K"
BY DEF raw, flavor_of, AllForms, Names, Mixing

\* The identifiers under which an entry of the peer is looked up.
LEMMA Lookups ==
    /\ resolved_identifiers("pk:K") = {"K", "I"} /\ resolved_identifiers("P") = {"P", "K", "I"}
    /\ resolved_identifiers("I") = {"I"} /\ resolved_identifiers("id:I") = {"I"}
    /\ resolved_identifiers("K") = {"K"}
BY DEF resolved_identifiers, raw

\* A row that block(f, d, del) writes.
NewRow(f, d, del, w) ==
    /\ w \in RowSet /\ w.is_deleted = del
    /\ w.device = d \/ (d = Nil /\ w.device \in registry[raw(f)])
    /\ \/ w.name = raw(f) /\ w.flavor = flavor_of(f)
       \/ f = "pk:K" /\ w.name = "I" /\ w.flavor = "IdentityId"

\* Rows were written: no block is lifted, and what is new are rows of block.
Written(f, d, del) ==
    /\ rows' \subseteq RowSet /\ Unique(rows')
    /\ \A r \in rows : \E w \in rows' :
          w.name = r.name /\ w.device = r.device /\ (w = r \/ w.is_deleted = del)
    /\ \A w \in rows' : w \in rows \/ NewRow(f, d, del, w)

\* The peer's or the device's own row is among them.
Wrote(f, d, del) == \E w \in rows' : w.device = d /\ NewRow(f, d, del, w)

\* New rows replace the old ones of the same name and device.
LEMMA Overlay ==
    ASSUME NEW f \in AllForms, NEW d \in AnyDevice, NEW del \in BOOLEAN, NEW N,
           rows \subseteq RowSet, Unique(rows), \A w \in N : NewRow(f, d, del, w),
           rows' = {r \in rows : ~\E w \in N : w.name = r.name /\ w.device = r.device} \cup N
    PROVE  Written(f, d, del)
<1>1. rows' \subseteq RowSet
  BY DEF NewRow
<1>2. ASSUME NEW v \in N, NEW w \in N, v.name = w.name, v.device = w.device
      PROVE  v = w
  BY <1>2 DEF NewRow, raw, RowSet
<1>3. Unique(rows')
  BY <1>2 DEF Unique
<1>4. \A r \in rows : \E w \in rows' :
          w.name = r.name /\ w.device = r.device /\ (w = r \/ w.is_deleted = del)
  BY DEF NewRow
<1> QED BY <1>1, <1>3, <1>4 DEF Written

\* The rows that block writes, or a crash lets it write.
LEMMA BlockWrites ==
    ASSUME NEW f \in AllForms, NEW d \in AnyDevice, NEW del \in BOOLEAN,
           registry \in [Names -> SUBSET Devices]
    PROVE  LET ws == block_writes(f, d, del)
           IN  /\ Len(ws) = 4 /\ DOMAIN ws = 1..4
               /\ \A i \in 1..4 : \A w \in ws[i] : NewRow(f, d, del, w)
               /\ \E w \in ws[2] : w.device = d /\ w.name = raw(f)
               /\ f = "pk:K" => \E w \in ws[1] : w.device = d
               /\ f # "pk:K" => ws[1] = {}
<1> DEFINE row(n, dev, fl) == [name |-> n, device |-> dev, is_deleted |-> del, flavor |-> fl]
           alias(ds) == IF f = "pk:K" THEN {row("I", dev, "IdentityId") : dev \in ds} ELSE {}
           own(ds) == {row(raw(f), dev, flavor_of(f)) : dev \in ds}
           devs == IF d = Nil THEN registry[raw(f)] ELSE {}
           ws == block_writes(f, d, del)
<1>1. ws = <<alias({d}), own({d}), own(devs), alias(devs)>>
  BY DEF block_writes
<1>2. devs \subseteq AnyDevice /\ \A x \in devs : d = Nil /\ x \in registry[raw(f)]
  BY FormFacts DEF AnyDevice
<1>3. \A ds \in SUBSET AnyDevice : \A w \in own(ds) \cup alias(ds) :
          /\ w \in RowSet /\ w.is_deleted = del /\ w.device \in ds
          /\ \/ w.name = raw(f) /\ w.flavor = flavor_of(f)
             \/ f = "pk:K" /\ w.name = "I" /\ w.flavor = "IdentityId"
  BY FormFacts DEF RowSet, Names
<1>4. \A w \in own({d}) \cup alias({d}) : NewRow(f, d, del, w)
  BY <1>3 DEF NewRow
<1>5. \A w \in own(devs) \cup alias(devs) : NewRow(f, d, del, w)
  BY <1>2, <1>3 DEF NewRow
<1>6. row(raw(f), d, flavor_of(f)) \in own({d}) /\ (f = "pk:K" => row("I", d, "IdentityId") \in alias({d}))
  OBVIOUS
<1>7. f # "pk:K" => alias({d}) = {}
  OBVIOUS
<1> HIDE DEF own, alias, devs
<1>8. Len(ws) = 4 /\ DOMAIN ws = 1..4 /\ ws[1] = alias({d}) /\ ws[2] = own({d}) /\ ws[3] = own(devs)
      /\ ws[4] = alias(devs)
  BY <1>1
<1>9. \A i \in 1..4 : \A w \in ws[i] : NewRow(f, d, del, w)
  BY <1>4, <1>5, <1>8
<1>10. \E w \in ws[2] : w.device = d /\ w.name = raw(f)
  BY <1>6, <1>8
<1>11. f = "pk:K" => \E w \in ws[1] : w.device = d
  BY <1>6, <1>8
<1>12. f # "pk:K" => ws[1] = {}
  BY <1>7, <1>8
<1> QED BY <1>8, <1>9, <1>10, <1>11, <1>12, Zenon

\* block, in whole
LEMMA BlockWritten ==
    ASSUME NEW f \in AllForms, NEW d \in AnyDevice, NEW del \in BOOLEAN,
           Typed, rows' = block(f, d, del)
    PROVE  Written(f, d, del) /\ Wrote(f, d, del)
<1> DEFINE ws == block_writes(f, d, del)
           N == UNION {ws[i] : i \in DOMAIN ws}
<1>1. rows \subseteq RowSet /\ Unique(rows) /\ registry \in [Names -> SUBSET Devices]
  BY DEF Typed, TypeOK, RowSet
<1>2. /\ DOMAIN ws = 1..4
      /\ \A i \in 1..4 : \A w \in ws[i] : NewRow(f, d, del, w)
      /\ \E w \in ws[2] : w.device = d /\ w.name = raw(f)
  BY <1>1, BlockWrites
<1>3. rows' = {r \in rows : ~\E w \in N : w.name = r.name /\ w.device = r.device} \cup N
  BY DEF block, written
<1> HIDE DEF ws
<1>4. (\A w \in N : NewRow(f, d, del, w)) /\ \E w \in N : w.device = d
  BY <1>2
<1> HIDE DEF N
<1>5. Written(f, d, del)
  BY <1>1, <1>3, <1>4, Overlay
<1> QED BY <1>3, <1>4, <1>5 DEF Wrote

\* block, cut short by a crash
LEMMA CutWritten ==
    ASSUME NEW f \in AllForms, NEW d \in AnyDevice, NEW del \in BOOLEAN, Typed,
           NEW n \in 1..Len(block_writes(f, d, del)),
           rows' = written(SubSeq(block_writes(f, d, del), 1, n))
    PROVE  Written(f, d, del) /\ (rows' = rows \/ Wrote(f, d, del))
<1> DEFINE ws == block_writes(f, d, del)
           cut == SubSeq(ws, 1, n)
           N == UNION {cut[i] : i \in DOMAIN cut}
<1>1. rows \subseteq RowSet /\ Unique(rows) /\ registry \in [Names -> SUBSET Devices]
  BY DEF Typed, TypeOK, RowSet
<1>2. /\ Len(ws) = 4 /\ DOMAIN ws = 1..4
      /\ \A i \in 1..4 : \A w \in ws[i] : NewRow(f, d, del, w)
      /\ \E w \in ws[2] : w.device = d /\ w.name = raw(f)
      /\ f = "pk:K" => \E w \in ws[1] : w.device = d
      /\ f # "pk:K" => ws[1] = {}
  BY <1>1, BlockWrites
<1>3. rows' = {r \in rows : ~\E w \in N : w.name = r.name /\ w.device = r.device} \cup N
  BY DEF written
<1>4. cut = [i \in 1..n |-> ws[i]]
  OBVIOUS
<1> HIDE DEF ws, cut
<1>5. n \in 1..4 /\ DOMAIN cut = 1..n /\ \A i \in 1..n : i \in 1..4 /\ cut[i] = ws[i]
  BY <1>2, <1>4 DEF ws
<1>6. \A w \in N : NewRow(f, d, del, w)
  BY <1>2, <1>5
<1>7. N = {} \/ \E w \in N : w.device = d
  BY <1>2, <1>5
<1> HIDE DEF N
<1>8. Written(f, d, del)
  BY <1>1, <1>3, <1>6, Overlay
<1> QED BY <1>3, <1>6, <1>7, <1>8, Zenon DEF Wrote
-----------------------------------------------------------------------------
\* The steps of a call: two parts, one after the other ...
LEMMA Joined ==
    ASSUME NEW S, NEW a \in Seq(S), NEW b \in Seq(S)
    PROVE  /\ a \o b \in Seq(S) /\ Len(a \o b) = Len(a) + Len(b)
           /\ \A i \in 1..Len(a) : (a \o b)[i] = a[i]
           /\ \A i \in DOMAIN (a \o b) : i > Len(a) => i - Len(a) \in DOMAIN b /\ (a \o b)[i] = b[i - Len(a)]
<1> QED OBVIOUS

\* ... and one that may be left out.
LEMMA Optional ==
    ASSUME NEW S, NEW c \in BOOLEAN, NEW s, c => s \in S
    PROVE  /\ opt(c, s) \in Seq(S)
           /\ c => Len(opt(c, s)) = 1 /\ opt(c, s)[1] = s
           /\ ~c => Len(opt(c, s)) = 0
BY DEF opt

\* The form a call names, and those it goes on with.
Keeps(f, s) == ~Mixing(f) => ~Mixing(s.form)

\* The steps of a call that names f: what they do, and to which device.
Doing(ops, ds, f) == {s \in Steps : s.op \in ops /\ s.device \in ds /\ Keeps(f, s)}

\* A sequence of some of these steps is one of more of them.
LEMMA Widened ==
    ASSUME NEW S, NEW T, S \subseteq T, NEW q \in Seq(S)
    PROVE  q \in Seq(T) /\ \A i \in DOMAIN q : q[i] \in S
OBVIOUS

\* The device of the contact is registered first.
LEMMA KnownRegistered ==
    ASSUME NEW f \in AllForms, contact \in [key : Names \cup {Nil}, device : AnyDevice]
    PROVE  register_known(f) \in Seq(Doing({"register"}, Devices, f))
<1>1. contact.device # Nil => step("register", f, contact.device) \in Doing({"register"}, Devices, f)
  BY DEF step, Steps, AnyDevice, Keeps, Doing
<1> QED BY <1>1, Optional, Zenon DEF register_known

\* block_peer registers a device that it blocks.
LEMMA BlockCall ==
    ASSUME NEW f \in AllForms, NEW d \in AnyDevice, contact \in [key : Names \cup {Nil}, device : AnyDevice]
    PROVE  LET q == block_peer(f, d)
           IN  /\ q \in Seq(Doing({"register", "block"}, AnyDevice, f))
               /\ \A i \in DOMAIN q : q[i].op = "block" /\ q[i].device # Nil =>
                     \E j \in 1..(i - 1) : q[j].op = "register" /\ q[j].device = q[i].device
<1> DEFINE R == Doing({"register"}, Devices, f)
           B == Doing({"block"}, {d}, f)
           S == Doing({"register", "block"}, AnyDevice, f)
           a == register_known(f)
           b == opt(d # Nil, step("register", f, d))
           c == <<step("block", f, d)>>
           e == opt(contact_public_key(f), step("block", "pk:K", d))
           q == block_peer(f, d)
<1>1. q = ((a \o b) \o c) \o e
  BY DEF block_peer
<1>2. a \in Seq(R)
  BY KnownRegistered
<1>3. /\ b \in Seq(R)
      /\ d # Nil => Len(b) = 1 /\ b[1] = step("register", f, d)
  <2>1. d # Nil => step("register", f, d) \in R
    BY DEF step, Steps, AnyDevice, Keeps, Doing
  <2> QED BY <2>1, Optional, Zenon
<1>4. c \in Seq(B)
  BY DEF step, Steps, Keeps, Doing
<1>5. e \in Seq(B)
  <2>1. step("block", "pk:K", d) \in B /\ contact_public_key(f) \in BOOLEAN
    BY DEF step, Steps, Keeps, AllForms, Mixing, contact_public_key, has_contact, Doing
  <2> QED BY <2>1, Optional
<1>6. R \subseteq S /\ B \subseteq S /\ (\A s \in R : s.op = "register") /\ \A s \in B : s.op = "block" /\ s.device = d
  BY DEF Doing, AnyDevice
<1> HIDE DEF R, B, S, a, b, c, e, q
<1> DEFINE x == a \o b
           y == c \o e
<1>7. /\ x \in Seq(R) /\ y \in Seq(B)
      /\ d # Nil => Len(x) \in Nat /\ Len(x) >= 1 /\ x[Len(x)] = step("register", f, d)
  <2>1. x \in Seq(R) /\ y \in Seq(B) /\ Len(x) = Len(a) + Len(b) /\ Len(a) \in Nat
    BY <1>2, <1>3, <1>4, <1>5
  <2>2. \A i \in DOMAIN x : i > Len(a) => x[i] = b[i - Len(a)]
    OBVIOUS
  <2> HIDE DEF x, y
  <2>3. ASSUME d # Nil
        PROVE  Len(x) \in Nat /\ Len(x) >= 1 /\ x[Len(x)] = step("register", f, d)
    <3>1. Len(x) = Len(a) + 1 /\ Len(a) \in Nat
      BY <1>3, <2>1, <2>3, Zenon
    <3>2. Len(x) \in 1..Len(x) /\ Len(x) > Len(a) /\ Len(x) - Len(a) = 1
      BY <3>1
    <3> QED BY <1>3, <2>2, <2>3, <3>1, <3>2
  <2> QED BY <2>1, <2>3
<1>8. a \in Seq(S) /\ b \in Seq(S) /\ c \in Seq(S) /\ e \in Seq(S) /\ x \in Seq(S) /\ y \in Seq(S)
      /\ (\A i \in DOMAIN x : x[i] \in R) /\ \A i \in DOMAIN y : y[i] \in B
  BY <1>5, <1>6, <1>7, Widened
<1>9. q = x \o y
  <2> HIDE DEF x
  <2> QED BY <1>1 DEF x
<1> HIDE DEF x, y
<1>10. /\ q \in Seq(S) /\ Len(q) = Len(x) + Len(y)
       /\ \A i \in 1..Len(x) : q[i] = x[i]
       /\ \A i \in DOMAIN q : i > Len(x) => q[i] \in B
  BY <1>8, <1>9, Joined
<1>11. ASSUME NEW i \in DOMAIN q, q[i].op = "block", q[i].device # Nil
       PROVE  \E j \in 1..(i - 1) : q[j].op = "register" /\ q[j].device = q[i].device
  <2>1. i \in Nat /\ i >= 1 /\ Len(x) \in Nat /\ DOMAIN x = 1..Len(x)
    BY <1>8, <1>10
  <2>2. i > Len(x)
    <3>1. i \in 1..Len(x) => q[i] = x[i] /\ x[i] \in R
      BY <1>8, <1>10, <2>1, Zenon
    <3>2. i \notin 1..Len(x)
      BY <1>6, <1>11, <3>1
    <3> QED BY <3>2
  <2>3. q[i].device = d
    BY <1>6, <1>10, <2>2
  <2>4. q[Len(x)] = step("register", f, d) /\ Len(x) \in 1..(i - 1)
    BY <1>7, <1>10, <1>11, <2>1, <2>2, <2>3
  <2> QED BY <2>3, <2>4 DEF step
<1> QED BY <1>10, <1>11, Zenon DEF S, q

\* q is a, the step s, and the step t if c.
Extends(q, S, a, s, t, c) ==
    /\ q \in Seq(S) /\ Len(q) \in Nat /\ Len(q) >= Len(a) + 1 /\ DOMAIN q = 1..Len(q)
    /\ \A i \in 1..Len(a) : q[i] = a[i]
    /\ q[Len(a) + 1] = s
    /\ (c => q[Len(q)] = t) /\ (~c => q[Len(q)] = s)

\* A part, a step, and a step that may be left out.
LEMMA Tailed ==
    ASSUME NEW S, NEW a \in Seq(S), NEW s \in S, NEW t \in S, NEW c \in BOOLEAN
    PROVE  Extends((a \o <<s>>) \o opt(c, t), S, a, s, t, c)
<1> DEFINE x == a \o <<s>>
           e == opt(c, t)
           q == x \o e
<1>1. <<s>> \in Seq(S) /\ Len(<<s>>) = 1 /\ <<s>>[1] = s
  OBVIOUS
<1>2. e \in Seq(S) /\ (c => Len(e) = 1 /\ e[1] = t) /\ (~c => Len(e) = 0)
  BY Optional
<1>3. /\ x \in Seq(S) /\ Len(x) = Len(a) + 1 /\ (\A i \in 1..Len(a) : x[i] = a[i])
      /\ \A i \in DOMAIN x : i > Len(a) => x[i] = <<s>>[i - Len(a)]
  BY <1>1, Joined
<1> HIDE DEF x, e
<1>4. Len(a) \in Nat /\ DOMAIN x = 1..Len(x)
  BY <1>3
<1>5. x[Len(a) + 1] = s
  BY <1>3, <1>1
<1>6. /\ q \in Seq(S) /\ Len(q) = Len(x) + Len(e) /\ (\A i \in 1..Len(x) : q[i] = x[i])
      /\ \A i \in DOMAIN q : i > Len(x) => q[i] = e[i - Len(x)]
  <2>1. x \in Seq(S) /\ e \in Seq(S)
    BY <1>2, <1>3
  <2> QED BY <2>1
<1> HIDE DEF q
<1>7. DOMAIN q = 1..Len(q) /\ Len(e) \in Nat
  BY <1>2, <1>6
<1>8. Len(q) \in Nat /\ Len(q) >= Len(a) + 1
  BY <1>3, <1>6, <1>7
<1>9. \A i \in 1..Len(a) : q[i] = a[i]
  BY <1>3, <1>6
<1>10. q[Len(a) + 1] = s
  BY <1>3, <1>5, <1>6
<1>11. (c => q[Len(q)] = t) /\ (~c => q[Len(q)] = s)
  <2>1. CASE c
    <3>0. Len(e) = 1
      BY <1>2, <2>1
    <3>1. Len(q) = Len(a) + 2 /\ Len(x) = Len(a) + 1
      BY <1>3, <1>6, <3>0
    <3>2. Len(q) \in 1..Len(q) /\ Len(q) > Len(x) /\ Len(q) - Len(x) = 1
      BY <3>1
    <3> QED BY <1>2, <1>6, <1>7, <2>1, <3>2, Zenon
  <2>2. CASE ~c
    BY <1>2, <1>3, <1>4, <1>6, <2>2, <1>10
  <2> QED BY <2>1, <2>2
<1>12. Extends(q, S, a, s, t, c)
  BY <1>6, <1>8, <1>9, <1>10, <1>11 DEF Extends
<1> QED BY <1>12 DEF q, x, e

\* unblock_peer lifts the block before it brings messages back, those filed under
\* the identity id last.
LEMMA UnblockCall ==
    ASSUME NEW f \in AllForms, NEW d \in AnyDevice
    PROVE  LET q == unblock_peer(f, d)
           IN  /\ q \in Seq(Doing({"unblock", "unhide"}, {d}, f)) /\ Len(q) >= 1
               /\ q[1].op = "unblock"
               /\ q[Len(q)].form = canonical(f)
<1> DEFINE S == Doing({"unblock", "unhide"}, {d}, f)
           c == contact_public_key(f)
           a == <<step("unblock", f, d)>> \o opt(c, step("unblock", "pk:K", d))
           q == unblock_peer(f, d)
           k == canonical(f) # f
           s == step("unhide", f, d)
           t == step("unhide", canonical(f), d)
<1>1. /\ step("unblock", f, d) \in S /\ step("unhide", f, d) \in S /\ step("unblock", "pk:K", d) \in S
      /\ step("unhide", canonical(f), d) \in S /\ c \in BOOLEAN
  BY DEF step, Steps, Doing, Keeps, Mixing, canonical, AllForms, contact_public_key, has_contact
<1>2. q = (a \o <<step("unhide", f, d)>>) \o opt(canonical(f) # f, step("unhide", canonical(f), d))
  BY DEF unblock_peer
<1>3. a \in Seq(S) /\ Len(a) \in Nat /\ Len(a) >= 1 /\ a[1] = step("unblock", f, d)
  BY <1>1, Optional, Joined
<1>4. /\ q \in Seq(S) /\ Len(q) \in Nat /\ Len(q) >= Len(a) + 1 /\ \A i \in 1..Len(a) : q[i] = a[i]
      /\ (k => q[Len(q)] = t) /\ (~k => q[Len(q)] = s)
  <2>1. k \in BOOLEAN /\ s \in S /\ t \in S /\ q = (a \o <<s>>) \o opt(k, t)
    BY <1>1, <1>2
  <2> HIDE DEF S, a, q, k, s, t
  <2>2. Extends((a \o <<s>>) \o opt(k, t), S, a, s, t, k)
    BY <1>3, <2>1, Tailed
  <2> QED BY <2>1, <2>2, Zenon DEF Extends
<1> HIDE DEF S, a, q
<1>5. q[Len(q)].form = canonical(f)
  BY <1>4 DEF step
<1> QED BY <1>3, <1>4, <1>5 DEF S, q, step

\* block_and_delete_peer blocks the peer before it removes the conversation, that
\* filed under the identity id last.
LEMMA DeleteCall ==
    ASSUME NEW f \in AllForms, contact \in [key : Names \cup {Nil}, device : AnyDevice]
    PROVE  LET q == block_and_delete_peer(f, Nil)
           IN  /\ q \in Seq(Doing({"register", "delete", "remove"}, AnyDevice, f)) /\ Len(q) >= 1
               /\ \A i \in DOMAIN q : q[i].op = "delete" => q[i].device = Nil
               /\ \A i \in DOMAIN q : q[i].op = "remove" =>
                     /\ q[i].form \in {f, canonical(f)}
                     /\ \E j \in 1..(i - 1) : q[j].op = "delete" /\ q[j].form = f
               /\ q[Len(q)].form = canonical(f)
<1> DEFINE R == Doing({"register"}, Devices, f)
           D == Doing({"register"}, Devices, f) \cup Doing({"delete"}, {Nil}, f)
           S == D \cup {x \in Doing({"remove"}, {Nil}, f) : x.form \in {f, canonical(f)}}
           c == contact_public_key(f)
           r == register_known(f)
           a == (r \o <<step("delete", f, Nil)>>) \o opt(c, step("delete", "pk:K", Nil))
           q == block_and_delete_peer(f, Nil)
           k == canonical(f) # f
           s == step("remove", f, Nil)
           t == step("remove", canonical(f), Nil)
<1>1. /\ step("delete", f, Nil) \in D /\ step("delete", "pk:K", Nil) \in D
      /\ step("remove", f, Nil) \in S /\ step("remove", canonical(f), Nil) \in S /\ c \in BOOLEAN
  BY DEF step, Steps, Doing, Keeps, Mixing, canonical, AllForms, AnyDevice, contact_public_key, has_contact
<1>2. q = (a \o <<step("remove", f, Nil)>>) \o opt(canonical(f) # f, step("remove", canonical(f), Nil))
  BY DEF block_and_delete_peer
<1>3. r \in Seq(D)
  <2>1. r \in Seq(R) /\ R \subseteq D
    BY KnownRegistered
  <2> HIDE DEF R, D, r
  <2> QED BY <2>1
<1>4. /\ D \subseteq S /\ S \subseteq Doing({"register", "delete", "remove"}, AnyDevice, f)
      /\ \A x \in S : x.op = "delete" => x.device = Nil
      /\ \A x \in S : x.op = "remove" => x.form \in {f, canonical(f)}
      /\ \A x \in D : x.op # "remove"
  BY Zenon DEF Doing, AnyDevice
<1> HIDE DEF D, S, r, R
<1>5. /\ a \in Seq(D) /\ Len(a) \in Nat /\ Len(a) >= Len(r) + 1 /\ DOMAIN a = 1..Len(a)
      /\ a[Len(r) + 1] = step("delete", f, Nil)
  <2> DEFINE u == step("delete", f, Nil)
             v == step("delete", "pk:K", Nil)
  <2>1. c \in BOOLEAN /\ u \in D /\ v \in D /\ a = (r \o <<u>>) \o opt(c, v)
    BY <1>1
  <2> HIDE DEF a, c, u, v
  <2>2. /\ a \in Seq(D) /\ Len(a) \in Nat /\ Len(a) >= Len(r) + 1 /\ DOMAIN a = 1..Len(a)
        /\ a[Len(r) + 1] = u
    <3>1. Extends((r \o <<u>>) \o opt(c, v), D, r, u, v, c)
      BY <1>3, <2>1, Tailed
    <3> QED BY <2>1, <3>1 DEF Extends
  <2> QED BY <2>2 DEF u
<1> HIDE DEF a, q
<1>6. a \in Seq(S) /\ \A i \in DOMAIN a : a[i] \in D
  BY <1>4, <1>5
<1>7. /\ q \in Seq(S) /\ Len(q) \in Nat /\ Len(q) >= Len(a) + 1 /\ DOMAIN q = 1..Len(q)
      /\ \A i \in 1..Len(a) : q[i] = a[i]
      /\ (k => q[Len(q)] = t) /\ (~k => q[Len(q)] = s)
  <2>1. k \in BOOLEAN /\ s \in S /\ t \in S /\ q = (a \o <<s>>) \o opt(k, t)
    BY <1>1, <1>2, Zenon DEF q, a
  <2> HIDE DEF k, s, t
  <2>2. Extends((a \o <<s>>) \o opt(k, t), S, a, s, t, k)
    BY <1>6, <2>1, Tailed
  <2> QED BY <2>1, <2>2, Zenon DEF Extends
<1>8. ASSUME NEW i \in DOMAIN q, q[i].op = "remove"
      PROVE  \E j \in 1..(i - 1) : q[j].op = "delete" /\ q[j].form = f
  <2>1. i \notin 1..Len(a)
    BY <1>4, <1>6, <1>7, <1>8
  <2>2. Len(r) + 1 \in 1..(i - 1) /\ Len(r) + 1 \in 1..Len(a)
    BY <1>5, <1>7, <2>1
  <2>3. q[Len(r) + 1] = step("delete", f, Nil)
    BY <1>5, <1>7, <2>2
  <2> QED BY <2>2, <2>3 DEF step
<1>9. q[Len(q)].form = canonical(f)
  BY <1>7 DEF step
<1>10. q \in Seq(Doing({"register", "delete", "remove"}, AnyDevice, f)) /\ \A i \in DOMAIN q : q[i] \in S
  BY <1>4, <1>7
<1>11. Len(q) >= 1
  BY <1>7
<1>12. \A i \in DOMAIN q : /\ q[i].op = "delete" => q[i].device = Nil
                           /\ q[i].op = "remove" => q[i].form \in {f, canonical(f)}
  BY <1>4, <1>10, Zenon
<1>13. \A i \in DOMAIN q : q[i].op = "remove" =>
          /\ q[i].form \in {f, canonical(f)}
          /\ \E j \in 1..(i - 1) : q[j].op = "delete" /\ q[j].form = f
  BY <1>8, <1>12, Zenon
<1> QED BY <1>9, <1>10, <1>11, <1>12, <1>13, Zenon DEF q
-----------------------------------------------------------------------------
\* A call goes on to its next step, or is cut short by a crash.
Onward == todo' = Tail(todo) /\ UNCHANGED <<contact, inbox, receiving, calls, crashes>>

Restarted ==
    /\ todo' = <<>> /\ receiving' = [t \in Threads |-> Nil] /\ inbox' = {}
    /\ crashes < MaxCrashes /\ crashes' = crashes + 1
    /\ UNCHANGED <<contact, calls>>

\* What a step of a call does to the stores, in whole or as far as a crash lets it.

\* register_device_id: only a device of a blocked peer is blocked.
Registering(s) ==
    /\ s.op = "register"
    /\ registry' = [registry EXCEPT ![raw(s.form)] = @ \cup {s.device}]
    /\ UNCHANGED <<history, ghosts>>
    /\ \/ rows' = rows
       \/ /\ \E n \in resolved_identifiers(raw(s.form)) : entry(n, Nil) # {}
          /\ \E del \in BOOLEAN : Written(raw(s.form), s.device, del)

\* block and block_and_delete
Blocking(s) ==
    /\ s.op \in {"block", "delete"}
    /\ UNCHANGED <<registry, history, late, revealed, purged, mixed, torn, spared>>
    /\ Written(s.form, s.device, s.op = "delete")
    /\ \/ Restarted /\ UNCHANGED <<rows, barred, enforced>>
       \/ /\ Wrote(s.form, s.device, s.op = "delete")
          /\ barred' = (barred \/ s.device = Nil) /\ enforced' = (enforced \/ InForce(s))

\* unblock
Unblocking(s) ==
    /\ s.op = "unblock"
    /\ UNCHANGED <<history, barred, enforced, late, revealed, purged, mixed, spared>>
    /\ rows' \subseteq rows
    /\ registry' \in [Names -> SUBSET Devices]
    /\ (Restarted /\ torn' = TRUE) \/ (torn' = torn /\ unblock(s.form, s.device))

\* A step of a call on the block store.
StoreStep ==
    /\ todo # <<>>
    /\ Registering(Head(todo)) \/ Blocking(Head(todo)) \/ Unblocking(Head(todo))
    /\ Onward \/ Restarted

\* The first step of a call is one, and so are the others.
LEMMA TodoFacts ==
    ASSUME todo \in Seq(Steps), todo # <<>>
    PROVE  /\ Head(todo) \in Steps /\ Head(todo) = todo[1] /\ Tail(todo) \in Seq(Steps)
           /\ Len(todo) \in Nat /\ Len(todo) >= 1 /\ Len(Tail(todo)) = Len(todo) - 1
           /\ DOMAIN todo = 1..Len(todo) /\ DOMAIN Tail(todo) = 1..(Len(todo) - 1)
           /\ \A i \in DOMAIN Tail(todo) : i + 1 \in DOMAIN todo /\ Tail(todo)[i] = todo[i + 1]
<1> QED OBVIOUS

\* What the register and the unblock of the store come to.
LEMMA RegisterKind ==
    ASSUME Typed, NEW s \in Steps, s.op = "register", register_device_id(s.form, s.device),
           UNCHANGED <<history, ghosts>>
    PROVE  Registering(s)
<1> DEFINE n == raw(s.form)
           held == {i \in resolved_identifiers(n) : entry(i, Nil) # {}}
           first == IF "P" \in held THEN "P" ELSE IF "K" \in held THEN "K" ELSE "I"
           del == \E r \in entry(first, Nil) : r.is_deleted
<1>1. n \in AllForms /\ s.device \in AnyDevice /\ del \in BOOLEAN
  BY FormFacts, Zenon DEF Steps
<1>2. /\ registry' = [registry EXCEPT ![n] = @ \cup {s.device}]
      /\ rows' = IF s.device \in registry[n] \/ held = {} THEN rows ELSE block(n, s.device, del)
  BY Zenon DEF register_device_id
<1> HIDE DEF del
<1>3. CASE s.device \in registry[n] \/ held = {}
  BY <1>2, <1>3, Zenon DEF Registering
<1>4. CASE ~(s.device \in registry[n] \/ held = {})
  BY <1>2, <1>1, BlockWritten, Zenon DEF Registering
<1> QED BY <1>3, <1>4, Zenon

\* Lifting a block only removes.
LEMMA RemovingKind ==
    ASSUME Typed, NEW gone, NEW done, NEW devs, removing(gone, done, devs)
    PROVE  rows' \subseteq rows /\ registry' \in [Names -> SUBSET Devices]
BY Zenon DEF removing, Typed, TypeOK

\* The steps of a call, and the crashes.
LEMMA StepKinds ==
    ASSUME Typed, Step
    PROVE  StoreStep \/ (todo # <<>> /\ Head(todo).op \in {"unhide", "remove"} /\ History(Head(todo)) /\ Onward)
<1> DEFINE s == Head(todo)
<1>0. todo # <<>> /\ s \in Steps /\ s.form \in AllForms /\ s.device \in AnyDevice /\ Onward
      /\ (s.op = "delete") \in BOOLEAN
  BY DEF Step, Onward, Typed, Steps
<1> HIDE DEF s
<1>1. CASE s.op = "register" /\ register_device_id(s.form, s.device) /\ UNCHANGED <<history, ghosts>>
  BY <1>0, <1>1, RegisterKind DEF StoreStep, s
<1>2. CASE /\ s.op \in {"block", "delete"}
           /\ rows' = block(s.form, s.device, s.op = "delete")
           /\ barred' = (barred \/ s.device = Nil) /\ enforced' = (enforced \/ InForce(s))
           /\ UNCHANGED <<registry, history, late, revealed, purged, mixed, torn, spared>>
  <2> DEFINE del == s.op = "delete"
  <2>1. del \in BOOLEAN /\ rows' = block(s.form, s.device, del)
    BY <1>2
  <2> HIDE DEF del
  <2>2. Written(s.form, s.device, del) /\ Wrote(s.form, s.device, del)
    BY <1>0, <2>1, BlockWritten
  <2>3. Blocking(s)
    BY <1>2, <2>2 DEF Blocking, del
  <2> QED BY <1>0, <2>3 DEF StoreStep, s
<1>3. CASE s.op = "unblock" /\ unblock(s.form, s.device) /\ UNCHANGED <<history, ghosts>>
  BY <1>3, RemovingKind, <1>0, Zenon DEF unblock, Unblocking, ghosts, StoreStep, s
<1>4. CASE s.op \in {"unhide", "remove"} /\ History(s)
  BY <1>0, <1>4 DEF s
<1> QED BY <1>1, <1>2, <1>3, <1>4, Zenon DEF Step, s

\* A crash cuts a step of a call on the store short, or changes no store.
LEMMA CrashKinds ==
    ASSUME Typed, Crash
    PROVE  Restarted /\ (StoreStep \/ UNCHANGED <<rows, registry, history, ghosts>>)
<1> DEFINE s == Head(todo)
           ws == block_writes(s.form, s.device, s.op = "delete")
<1>0. Restarted /\ UNCHANGED <<contact, history, calls, late, revealed, purged, mixed, spared>>
  BY Zenon DEF Crash, Restarted
<1>1. CASE UNCHANGED <<rows, registry, barred, enforced, torn>>
  BY <1>0, <1>1 DEF ghosts
<1>2. CASE /\ todo # <<>> /\ s.op \in {"block", "delete"}
           /\ \E n \in 1..Len(ws) : rows' = written(SubSeq(ws, 1, n))
           /\ barred' = (barred \/ (s.device = Nil /\ rows' # rows))
           /\ enforced' = (enforced \/ (InForce(s) /\ rows' # rows))
           /\ UNCHANGED <<registry, torn>>
  <2>1. s \in Steps /\ s.form \in AllForms /\ s.device \in AnyDevice
    BY <1>2 DEF Typed, Steps
  <2> HIDE DEF s
  <2> DEFINE del == s.op = "delete"
  <2>2. del \in BOOLEAN /\ \E n \in 1..Len(block_writes(s.form, s.device, del)) :
                              rows' = written(SubSeq(block_writes(s.form, s.device, del), 1, n))
    BY <1>2, Zenon
  <2> HIDE DEF del
  <2>3. Written(s.form, s.device, del) /\ (rows' = rows \/ Wrote(s.form, s.device, del))
    BY <2>1, <2>2, CutWritten
  <2>4. \/ UNCHANGED <<rows, barred, enforced>>
        \/ /\ Wrote(s.form, s.device, del)
           /\ barred' = (barred \/ s.device = Nil) /\ enforced' = (enforced \/ InForce(s))
    BY <1>2, <2>3, Zenon DEF Typed, TypeOK
  <2>5. Blocking(s)
    BY <1>0, <1>2, <2>3, <2>4, Zenon DEF Blocking, del
  <2> QED BY <1>0, <1>2, <2>5 DEF StoreStep, s
<1>3. CASE /\ todo # <<>> /\ s.op = "register"
           /\ registry' = [registry EXCEPT ![raw(s.form)] = @ \cup {s.device}]
           /\ UNCHANGED <<rows, barred, enforced, torn>>
  BY <1>0, <1>3, Zenon DEF Registering, ghosts, StoreStep
<1>4. CASE /\ todo # <<>> /\ s.op = "unblock"
           /\ cut_unblock(s.form, s.device)
           /\ torn' = TRUE
           /\ UNCHANGED <<barred, enforced>>
  BY <1>4, RemovingKind, <1>0, Zenon DEF cut_unblock, Unblocking, StoreStep
<1> QED BY <1>1, <1>2, <1>3, <1>4, Zenon DEF Crash
-----------------------------------------------------------------------------
\* The parts of the type that the stores of the calls do not have.
OtherTypes ==
    /\ contact \in [key : Names \cup {Nil}, device : AnyDevice]
    /\ history \in [Inbound -> {Nil, "shown", "hidden"}] /\ inbox \subseteq Inbound
    /\ receiving \in [Threads -> {Nil} \cup [msg : Inbound, inboxed : BOOLEAN, hidden : BOOLEAN]]
    /\ calls \in 0..MaxCalls /\ crashes \in 0..MaxCrashes
    /\ barred \in BOOLEAN /\ enforced \in BOOLEAN /\ revealed \in BOOLEAN /\ purged \in BOOLEAN
    /\ mixed \in BOOLEAN /\ torn \in BOOLEAN
    /\ late \subseteq Inbound /\ spared \subseteq Inbound

\* Typed, in parts.
LEMMA TypedParts ==
    Typed => /\ rows \subseteq RowSet /\ Unique(rows) /\ registry \in [Names -> SUBSET Devices]
             /\ OtherTypes /\ todo \in Seq(Steps)
BY Zenon DEF Typed, TypeOK, OtherTypes, RowSet

\* ... and put together again.
LEMMA TypedNext ==
    ASSUME rows' \subseteq RowSet, Unique(rows'), registry' \in [Names -> SUBSET Devices],
           OtherTypes', todo' \in Seq(Steps)
    PROVE  Typed'
BY Zenon DEF Typed, TypeOK, OtherTypes, RowSet, Unique

\* The steps on the block store keep the types.
LEMMA StoreStepTyped ==
    ASSUME Typed, StoreStep
    PROVE  Typed'
<1>0. /\ rows \subseteq RowSet /\ Unique(rows) /\ registry \in [Names -> SUBSET Devices]
      /\ OtherTypes /\ todo \in Seq(Steps)
  BY TypedParts
<1> DEFINE s == Head(todo)
<1>1. /\ todo # <<>> /\ (Registering(s) \/ Blocking(s) \/ Unblocking(s)) /\ (Onward \/ Restarted)
      /\ s \in Steps /\ Tail(todo) \in Seq(Steps) /\ s.form \in AllForms
  BY <1>0 DEF StoreStep, Steps
<1> HIDE DEF s
<1>2. rows' \subseteq RowSet /\ Unique(rows')
  BY <1>0, <1>1, Zenon DEF Registering, Blocking, Unblocking, Written, Unique
<1>3. registry' \in [Names -> SUBSET Devices]
  BY <1>1, <1>0 DEF Steps, Registering, Blocking, Unblocking
<1>4. UNCHANGED <<history, revealed, purged, mixed, late, spared>>
  BY <1>1, Zenon DEF Registering, Blocking, Unblocking, ghosts
<1>5. barred' \in BOOLEAN /\ enforced' \in BOOLEAN
  <2>1. /\ barred' = barred \/ barred' = (barred \/ s.device = Nil)
        /\ enforced' = enforced \/ enforced' = (enforced \/ InForce(s))
    BY <1>1, Zenon DEF Registering, Blocking, Unblocking, ghosts
  <2> QED BY <1>0, <2>1, Zenon DEF OtherTypes, InForce
<1>6. torn' \in BOOLEAN
  <2>1. torn' = torn \/ torn' = TRUE
    BY <1>1, Zenon DEF Registering, Blocking, Unblocking, ghosts
  <2> QED BY <1>0, <2>1, Zenon DEF OtherTypes
<1>7. /\ UNCHANGED <<contact, calls>> /\ todo' \in Seq(Steps) /\ inbox' \subseteq Inbound
      /\ receiving' \in [Threads -> {Nil} \cup [msg : Inbound, inboxed : BOOLEAN, hidden : BOOLEAN]]
  <2>1. CASE Onward
    BY <1>0, <1>1, <2>1, Zenon DEF Onward, OtherTypes
  <2>2. CASE Restarted
    BY <2>2 DEF Restarted
  <2> QED BY <1>1, <2>1, <2>2
<1>8. crashes' \in 0..MaxCrashes
  BY <1>0, <1>1, BlockedAssumption DEF Onward, Restarted, OtherTypes
<1>9. OtherTypes'
  BY <1>0, <1>4, <1>5, <1>6, <1>7, <1>8, Zenon DEF OtherTypes
<1> QED BY <1>2, <1>3, <1>7, <1>9, TypedNext

\* The other steps do so, too.
LEMMA CallTyped ==
    ASSUME Typed, NEW f \in AllForms,
           \/ \E d \in AnyDevice : BlockPeer(f, d) \/ UnblockPeer(f, d)
           \/ BlockAndDeletePeer(f, Nil)
           \/ \E d \in Devices : LearnDevice(f, d)
    PROVE  Typed'
<1>0. /\ rows \subseteq RowSet /\ Unique(rows) /\ registry \in [Names -> SUBSET Devices]
      /\ OtherTypes /\ todo \in Seq(Steps) /\ contact \in [key : Names \cup {Nil}, device : AnyDevice]
  BY TypedParts, Zenon DEF OtherTypes
<1>1. UNCHANGED <<rows, registry, history, inbox, receiving, crashes, spared, torn>>
      /\ calls < MaxCalls /\ calls' = calls + 1
  BY DEF BlockPeer, UnblockPeer, BlockAndDeletePeer, LearnDevice, Call, stores
<1>2. calls' \in 0..MaxCalls
  BY <1>0, BlockedAssumption, <1>1 DEF OtherTypes
<1>3. (barred' = barred \/ barred' = FALSE)
      /\ (enforced' = enforced \/ enforced' = FALSE) /\ (revealed' = revealed \/ revealed' = FALSE)
      /\ (purged' = purged \/ purged' = FALSE) /\ mixed' = (mixed \/ Mixing(f)) /\ (late' = late \/ late' = {})
  BY DEF BlockPeer, UnblockPeer, BlockAndDeletePeer, LearnDevice
<1>4. barred' \in BOOLEAN /\ enforced' \in BOOLEAN /\ revealed' \in BOOLEAN /\ purged' \in BOOLEAN /\ mixed' \in BOOLEAN
      /\ late' \subseteq Inbound
  BY <1>0, <1>3, Zenon DEF OtherTypes, Mixing
<1>5. contact' \in [key : Names \cup {Nil}, device : AnyDevice]
  BY <1>0 DEF BlockPeer, UnblockPeer, BlockAndDeletePeer, LearnDevice, Call, stores, AnyDevice
<1>6. todo' \in Seq(Steps)
  <2>1. \A ops, ds : Doing(ops, ds, f) \subseteq Steps
    BY DEF Doing
  <2>2. ASSUME NEW d \in AnyDevice, BlockPeer(f, d)
        PROVE  todo' \in Seq(Steps)
    <3>1. todo' \in Seq(Doing({"register", "block"}, AnyDevice, f))
      BY <1>0, <2>2, BlockCall, Zenon DEF BlockPeer, Call
    <3> QED BY <2>1, <3>1, Widened
  <2>3. ASSUME NEW d \in AnyDevice, UnblockPeer(f, d)
        PROVE  todo' \in Seq(Steps)
    <3>1. todo' \in Seq(Doing({"unblock", "unhide"}, {d}, f))
      BY <1>0, <2>3, UnblockCall, Zenon DEF UnblockPeer, Call
    <3> QED BY <2>1, <3>1, Widened
  <2>4. ASSUME BlockAndDeletePeer(f, Nil)
        PROVE  todo' \in Seq(Steps)
    <3>1. todo' \in Seq(Doing({"register", "delete", "remove"}, AnyDevice, f))
      BY <1>0, <2>4, DeleteCall, Zenon DEF BlockAndDeletePeer, Call
    <3> QED BY <2>1, <3>1, Widened
  <2>5. ASSUME NEW d \in Devices, LearnDevice(f, d)
        PROVE  todo' \in Seq(Steps)
    BY <2>5 DEF LearnDevice, step, Steps, AnyDevice
  <2> QED BY <2>2, <2>3, <2>4, <2>5
<1>7. OtherTypes'
  BY <1>0, <1>1, <1>2, <1>4, <1>5, Zenon DEF OtherTypes
<1> QED BY <1>0, <1>1, <1>6, <1>7, TypedNext, Zenon

\* The steps on the history keep the types.
LEMMA FilingTyped ==
    ASSUME Typed, todo # <<>>, History(Head(todo)), Onward
    PROVE  Typed'
<1>0. /\ rows \subseteq RowSet /\ Unique(rows) /\ registry \in [Names -> SUBSET Devices]
      /\ OtherTypes /\ todo \in Seq(Steps)
  BY TypedParts
<1>1. todo' \in Seq(Steps) /\ UNCHANGED <<rows, registry, contact, inbox, receiving, calls, crashes, barred,
                                          enforced, late, mixed, torn>>
  BY <1>0 DEF Onward, History
<1>2. history' \in [Inbound -> {Nil, "shown", "hidden"}]
  BY <1>0, Zenon DEF History, OtherTypes
<1>3. InFlight \subseteq Inbound
  BY <1>0 DEF InFlight, OtherTypes
<1>4. spared' \subseteq Inbound
  BY <1>0, <1>3, Zenon DEF History, OtherTypes
<1>5. revealed' \in BOOLEAN /\ purged' \in BOOLEAN
  BY Zenon DEF History, OtherTypes, Reveals, Purges, Mixing
<1>6. OtherTypes'
  BY <1>0, <1>1, <1>2, <1>4, <1>5, Zenon DEF OtherTypes
<1> QED BY <1>0, <1>1, <1>6, TypedNext, Zenon

\* A crash that changes no store keeps them.
LEMMA IdleTyped ==
    ASSUME Typed, Restarted, UNCHANGED <<rows, registry, history, ghosts>>
    PROVE  Typed'
<1>0. /\ rows \subseteq RowSet /\ Unique(rows) /\ registry \in [Names -> SUBSET Devices]
      /\ OtherTypes /\ todo \in Seq(Steps)
  BY TypedParts
<1>1. /\ todo' \in Seq(Steps) /\ inbox' \subseteq Inbound
      /\ receiving' \in [Threads -> {Nil} \cup [msg : Inbound, inboxed : BOOLEAN, hidden : BOOLEAN]]
  BY DEF Restarted
<1>2. crashes' \in 0..MaxCrashes
  BY <1>0, BlockedAssumption DEF Restarted, OtherTypes
<1>3. OtherTypes'
  BY <1>0, <1>2, Zenon DEF OtherTypes, Restarted, ghosts
<1> QED BY <1>0, <1>1, <1>3, TypedNext

\* receive_message keeps them.
LEMMA ReceiveTyped ==
    ASSUME Typed, NEW t \in Threads,
           FileInInbox(t) \/ FileInHistory(t) \/ \E m \in Inbound : Check(t, m)
    PROVE  Typed'
<1>0. /\ rows \subseteq RowSet /\ Unique(rows) /\ registry \in [Names -> SUBSET Devices]
      /\ OtherTypes /\ todo \in Seq(Steps)
      /\ receiving \in [Threads -> {Nil} \cup [msg : Inbound, inboxed : BOOLEAN, hidden : BOOLEAN]]
  BY TypedParts, Zenon DEF OtherTypes
<1>1. UNCHANGED <<rows, registry, todo>>
  BY DEF FileInInbox, FileInHistory, Check, stores
<1>2. ASSUME FileInInbox(t)
      PROVE  OtherTypes'
  <2>1. receiving[t] \in [msg : Inbound, inboxed : BOOLEAN, hidden : BOOLEAN]
    BY <1>0, <1>2 DEF FileInInbox
  <2>2. receiving' = [receiving EXCEPT ![t] = [receiving[t] EXCEPT !.inboxed = TRUE]]
        /\ [receiving[t] EXCEPT !.inboxed = TRUE] \in [msg : Inbound, inboxed : BOOLEAN, hidden : BOOLEAN]
    BY <1>2, <2>1, Zenon DEF FileInInbox
  <2>3. receiving' \in [Threads -> {Nil} \cup [msg : Inbound, inboxed : BOOLEAN, hidden : BOOLEAN]]
    BY <1>0, <2>2
  <2>4. inbox' \subseteq Inbound
    BY <1>0, <1>2, <2>1 DEF FileInInbox, OtherTypes
  <2> QED BY <1>0, <1>2, <2>3, <2>4 DEF FileInInbox, OtherTypes, ghosts
<1>3. ASSUME FileInHistory(t)
      PROVE  OtherTypes'
  BY <1>0, <1>3, Zenon DEF FileInHistory, OtherTypes, ghosts
<1>4. ASSUME NEW m \in Inbound, Check(t, m)
      PROVE  OtherTypes'
  <2>1. PICK readable \in BOOLEAN :
           /\ receiving' = [receiving EXCEPT ![t] =
                [msg |-> m, inboxed |-> FALSE,
                 hidden |-> IF readable THEN is_blocked_resolved("pk:K", sender_device_id)
                            ELSE hidden_if_unreadable]]
           /\ spared' = IF readable \/ ~revealed THEN spared ELSE spared \cup {m}
    BY <1>4, Zenon DEF Check
  <2> DEFINE h == IF readable THEN is_blocked_resolved("pk:K", sender_device_id) ELSE hidden_if_unreadable
  <2>2. h \in BOOLEAN
    BY DEF is_blocked_resolved, hidden_if_unreadable
  <2> HIDE DEF h
  <2>3. receiving' \in [Threads -> {Nil} \cup [msg : Inbound, inboxed : BOOLEAN, hidden : BOOLEAN]]
    BY <1>0, <2>1, <2>2, Zenon DEF h
  <2>4. spared' \subseteq Inbound /\ late' \subseteq Inbound
    BY <1>0, <1>4, <2>1, Zenon DEF Check, OtherTypes
  <2> QED BY <1>0, <1>4, <2>3, <2>4, Zenon DEF Check, OtherTypes, stores
<1>5. OtherTypes' => Typed'
  BY <1>0, <1>1, TypedNext, Zenon
<1> QED BY <1>2, <1>3, <1>4, <1>5

\* The steps of the system, by kind.
LEMMA NextKinds ==
    ASSUME Typed, [Next]_vars
    PROVE  \/ UNCHANGED vars
           \/ \E f \in AllForms : \/ \E d \in AnyDevice : BlockPeer(f, d) \/ UnblockPeer(f, d)
                                  \/ BlockAndDeletePeer(f, Nil)
                                  \/ \E d \in Devices : LearnDevice(f, d)
           \/ StoreStep
           \/ todo # <<>> /\ Head(todo).op \in {"unhide", "remove"} /\ History(Head(todo)) /\ Onward
           \/ Restarted /\ UNCHANGED <<rows, registry, history, ghosts>>
           \/ \E t \in Threads : FileInInbox(t) \/ FileInHistory(t) \/ \E m \in Inbound : Check(t, m)
<1>1. Forms \subseteq AllForms
  BY BlockedAssumption
<1>2. CASE Step
  BY <1>2, StepKinds, Zenon
<1>3. CASE Crash
  BY <1>3, CrashKinds, Zenon
<1> QED BY <1>1, <1>2, <1>3, Zenon DEF Next

\* Typed is an inductive invariant.
LEMMA TypedAlways == Spec => []Typed
<1>1. Init => Typed
  <2> SUFFICES ASSUME Init PROVE Typed
    OBVIOUS
  <2>1. <<>> \in Seq(Steps) /\ Unique({}) /\ 0 \in 0..MaxCalls /\ 0 \in 0..MaxCrashes
    BY BlockedAssumption DEF Unique
  <2> QED BY <2>1, Zenon DEF Init, Typed, TypeOK, AnyDevice
<1>2. Typed /\ [Next]_vars => Typed'
  <2> SUFFICES ASSUME Typed, [Next]_vars PROVE Typed'
    OBVIOUS
  <2>1. CASE UNCHANGED vars
    BY <2>1, Zenon DEF vars, Typed, TypeOK, Unique
  <2> QED BY <2>1, NextKinds, CallTyped, StoreStepTyped, FilingTyped, IdleTyped, ReceiveTyped, Zenon
<1> QED BY <1>1, <1>2, PTL DEF Spec

\* Every variable has its type, and there is one block entry per name and device.
THEOREM BlockedTyping == Spec => []TypeOK
<1>1. Typed => TypeOK
  BY DEF Typed
<1> QED BY <1>1, TypedAlways, PTL
-----------------------------------------------------------------------------
\* What the steps left of a call do, and which promises are not made meanwhile.
Only(q, ops) == \A i \in DOMAIN q : q[i].op \in ops

Phases ==
    \/ Only(todo, {"register"})
    \/ Only(todo, {"register", "block"}) /\ ~revealed /\ ~purged
    \/ Only(todo, {"register", "delete", "remove"}) /\ ~revealed
    \/ Only(todo, {"unblock", "unhide"}) /\ ~barred /\ ~enforced /\ late = {} /\ ~purged

\* A block of the whole peer is in force, for the transport under any of the names,
\* for receive_message under the public key or the identity id.
InEffect ==
    /\ barred => \E r \in rows : r.device = Nil
    /\ enforced => \E r \in rows : r.name \in {"K", "I"} /\ r.device = Nil

\* What was checked under it is, or will be, filed as hidden.
Shielded ==
    /\ late # {} => enforced
    /\ \A m \in late : /\ history[m] # "shown"
                       /\ \A t \in Threads : receiving[t] # Nil /\ receiving[t].msg = m => receiving[t].hidden

\* The kind of the steps left stays, as steps are taken.
LEMMA OnlyTail ==
    ASSUME todo \in Seq(Steps), todo # <<>>, NEW ops, Only(todo, ops)
    PROVE  Only(Tail(todo), ops) /\ Head(todo).op \in ops
<1> QED BY DEF Only

\* The kinds of the calls.
LEMMA CallOnly ==
    ASSUME NEW ops, NEW ds, NEW f, NEW q \in Seq(Doing(ops, ds, f))
    PROVE  Only(q, ops)
BY DEF Only, Doing

\* The steps on the store keep Phases.
LEMMA PhasesStore ==
    ASSUME Typed, Phases, StoreStep
    PROVE  Phases'
<1>0. todo \in Seq(Steps) /\ todo # <<>>
  BY DEF Typed, StoreStep
<1> DEFINE s == Head(todo)
<1>1. /\ Registering(s) \/ Blocking(s) \/ Unblocking(s)
      /\ Onward \/ Restarted
  BY DEF StoreStep
<1>2. CASE Restarted
  BY <1>2 DEF Only, Restarted, Phases
<1> HIDE DEF s
<1>3. UNCHANGED <<late, revealed, purged>> /\ (s.op = "unblock" => UNCHANGED <<barred, enforced>>)
  BY <1>1, Zenon DEF Registering, Blocking, Unblocking, ghosts
<1>4. CASE Onward
  <2>0. todo' = Tail(todo) /\ s.op \in {"register", "block", "delete", "unblock"}
    BY <1>1, <1>4, Zenon DEF Onward, Registering, Blocking, Unblocking
  <2>1. CASE Only(todo, {"register"})
    BY <1>0, <2>0, <2>1, OnlyTail, Zenon DEF Phases
  <2>2. CASE Only(todo, {"register", "block"}) /\ ~revealed /\ ~purged
    BY <1>0, <1>3, <2>0, <2>2, OnlyTail, Zenon DEF Phases
  <2>3. CASE Only(todo, {"register", "delete", "remove"}) /\ ~revealed
    BY <1>0, <1>3, <2>0, <2>3, OnlyTail, Zenon DEF Phases
  <2>4. CASE Only(todo, {"unblock", "unhide"}) /\ ~barred /\ ~enforced /\ late = {} /\ ~purged
    BY <1>0, <2>4, OnlyTail, <1>3, <2>0, Zenon DEF s, Phases
  <2> QED BY <2>1, <2>2, <2>3, <2>4, Zenon DEF Phases
<1> QED BY <1>1, <1>2, <1>4

\* The steps on the history keep it; which promises are open when they are taken.
LEMMA PhasesFiling ==
    ASSUME Typed, Phases, todo # <<>>, Head(todo).op \in {"unhide", "remove"}, History(Head(todo)), Onward
    PROVE  /\ Phases'
           /\ Head(todo).op = "unhide" => late = {} /\ ~purged
           /\ Head(todo).op = "remove" => ~revealed
<1>0. todo \in Seq(Steps) /\ todo' = Tail(todo) /\ UNCHANGED <<barred, enforced, late>>
  BY Zenon DEF Typed, Onward, History
<1>1. CASE Only(todo, {"register"})
  BY <1>0, <1>1, OnlyTail, Zenon
<1>2. CASE Only(todo, {"register", "block"}) /\ ~revealed /\ ~purged
  BY <1>0, <1>2, OnlyTail, Zenon
<1>3. CASE Only(todo, {"register", "delete", "remove"}) /\ ~revealed
  <2>1. Only(Tail(todo), {"register", "delete", "remove"}) /\ Head(todo).op = "remove"
    BY <1>0, <1>3, OnlyTail
  <2>2. ~revealed'
    BY <1>3, <2>1, Zenon DEF History, Reveals
  <2> QED BY <1>0, <1>3, <2>1, <2>2, Zenon DEF Phases
<1>4. CASE Only(todo, {"unblock", "unhide"}) /\ ~barred /\ ~enforced /\ late = {} /\ ~purged
  <2>1. Only(Tail(todo), {"unblock", "unhide"}) /\ Head(todo).op = "unhide"
    BY <1>0, <1>4, OnlyTail, Zenon
  <2>2. ~purged'
    BY <1>4, <2>1, Zenon DEF History, Purges
  <2> QED BY <1>0, <1>4, <2>1, <2>2, Zenon DEF Phases
<1> QED BY <1>1, <1>2, <1>3, <1>4, Zenon DEF Phases

\* The calls begin a phase of their own.
LEMMA PhasesCall ==
    ASSUME Typed, NEW f \in AllForms,
           \/ \E d \in AnyDevice : BlockPeer(f, d) \/ UnblockPeer(f, d)
           \/ BlockAndDeletePeer(f, Nil)
           \/ \E d \in Devices : LearnDevice(f, d)
    PROVE  Phases'
<1>0. contact \in [key : Names \cup {Nil}, device : AnyDevice]
  BY Zenon DEF Typed, TypeOK
<1>1. ASSUME NEW d \in AnyDevice, BlockPeer(f, d)
      PROVE  Phases'
  BY <1>0, <1>1, BlockCall, CallOnly, Zenon DEF BlockPeer, Call, Phases
<1>2. ASSUME NEW d \in AnyDevice, UnblockPeer(f, d)
      PROVE  Phases'
  <2>1. todo' \in Seq(Doing({"unblock", "unhide"}, {d}, f)) /\ ~barred' /\ ~enforced' /\ late' = {} /\ ~purged'
    BY <1>2, UnblockCall, Zenon DEF UnblockPeer, Call
  <2> QED BY <2>1, CallOnly, Zenon DEF Phases
<1>3. ASSUME BlockAndDeletePeer(f, Nil)
      PROVE  Phases'
  BY <1>0, <1>3, DeleteCall, CallOnly, Zenon DEF BlockAndDeletePeer, Call, Phases
<1>4. ASSUME NEW d \in Devices, LearnDevice(f, d)
      PROVE  Phases'
  BY <1>4 DEF LearnDevice, Only, step, Phases
<1> QED BY <1>1, <1>2, <1>3, <1>4, Zenon

\* receive_message leaves the calls alone.
LEMMA PhasesReceive ==
    ASSUME Phases, NEW t \in Threads,
           FileInInbox(t) \/ FileInHistory(t) \/ \E m \in Inbound : Check(t, m)
    PROVE  Phases'
<1>1. UNCHANGED <<todo, revealed, purged, barred, enforced>> /\ (~enforced => late' = late)
  BY DEF FileInInbox, FileInHistory, Check, ghosts
<1> QED BY <1>1, Zenon DEF Phases

\* Phases is an inductive invariant.
LEMMA PhasesAlways == Spec => []Phases
<1>1. Init => Phases
  BY DEF Init, Phases, Only
<1>2. Typed /\ Phases /\ [Next]_vars => Phases'
  <2> SUFFICES ASSUME Typed, Phases, [Next]_vars PROVE Phases'
    BY Zenon
  <2>1. CASE UNCHANGED vars
    BY <2>1, Zenon DEF vars, Phases
  <2>2. CASE Restarted
    BY <2>2 DEF Only, Restarted, Phases
  <2> QED BY <2>1, <2>2, NextKinds, PhasesCall, PhasesStore, PhasesFiling, PhasesReceive, Zenon
<1> QED BY <1>1, <1>2, TypedAlways, PTL DEF Spec
-----------------------------------------------------------------------------
\* A step on the store leaves a block in force.
LEMMA EffectStore ==
    ASSUME Typed, Phases, InEffect, StoreStep
    PROVE  InEffect' /\ (enforced => enforced')
<1> DEFINE s == Head(todo)
<1>0. todo \in Seq(Steps) /\ todo # <<>> /\ s \in Steps /\ (Registering(s) \/ Blocking(s) \/ Unblocking(s))
  BY DEF Typed, StoreStep
<1>1. s.op = "unblock" => ~barred /\ ~enforced
  BY <1>0, OnlyTail, Zenon DEF Phases
<1> HIDE DEF s
<1>2. CASE Registering(s)
  BY <1>2, Zenon DEF Registering, ghosts, Written, InEffect
<1>3. CASE Blocking(s)
  <2>1. \A r \in rows : \E w \in rows' : w.name = r.name /\ w.device = r.device
    BY <1>3, Zenon DEF Blocking, Written
  <2>2. CASE UNCHANGED <<barred, enforced>>
    BY <2>1, <2>2, Zenon DEF InEffect
  <2>3. CASE /\ Wrote(s.form, s.device, s.op = "delete")
             /\ barred' = (barred \/ s.device = Nil) /\ enforced' = (enforced \/ InForce(s))
    <3>0. barred' => \E r \in rows' : r.device = Nil
      BY <2>1, <2>3, Zenon DEF Wrote, InEffect
    <3>1. CASE InForce(s)
      <4>1. s.form \in AllForms /\ s.form # "P" /\ s.device = Nil
        BY <1>0, <3>1 DEF Steps, InForce
      <4>2. raw(s.form) \in {"K", "I"}
        BY <4>1, FormFacts, Zenon DEF Names
      <4>3. \E w \in rows' : w.device = Nil /\ (w.name = raw(s.form) \/ w.name = "I")
        BY <2>3, <4>1, Zenon DEF Wrote, NewRow
      <4> QED BY <2>3, <3>0, <4>2, <4>3, Zenon DEF InEffect
    <3>2. CASE ~InForce(s)
      BY <2>1, <2>3, <3>0, <3>2, Zenon DEF InEffect
    <3> QED BY <3>1, <3>2
  <2> QED BY <1>3, <2>2, <2>3, Zenon DEF Blocking
<1>4. CASE Unblocking(s)
  BY <1>1, <1>4, Zenon DEF Unblocking, InEffect
<1> QED BY <1>0, <1>2, <1>3, <1>4, Zenon

\* A block in force blocks, at the transport and for every device.
LEMMA EffectBlocks ==
    ASSUME Typed, InEffect
    PROVE  BlockHolds
<1>1. ASSUME NEW r \in rows, r.device = Nil
      PROVE  is_blocked_resolved("P", Nil)
  <2>1. r.name \in resolved_identifiers("P") /\ entry(r.name, Nil) # {}
    BY <1>1, Lookups, Zenon DEF entry, Typed, TypeOK, Names
  <2> QED BY <2>1, Zenon DEF is_blocked_resolved
<1>2. ASSUME NEW r \in rows, r.name \in {"K", "I"}, r.device = Nil
      PROVE  \A d \in AnyDevice : is_blocked_resolved("pk:K", d)
  <2>1. r.name \in resolved_identifiers("pk:K") /\ entry(r.name, Nil) # {}
    BY <1>2, Lookups, Zenon DEF entry
  <2> QED BY <2>1, Zenon DEF is_blocked_resolved
<1> QED BY <1>1, <1>2, Zenon DEF InEffect, BlockHolds

\* What the receiving threads do to the messages checked under the block.
LEMMA ShieldedReceive ==
    ASSUME Typed, InEffect, Shielded, NEW t \in Threads,
           FileInInbox(t) \/ FileInHistory(t) \/ \E m \in Inbound : Check(t, m)
    PROVE  Shielded'
<1>0. /\ receiving \in [Threads -> {Nil} \cup [msg : Inbound, inboxed : BOOLEAN, hidden : BOOLEAN]]
      /\ history \in [Inbound -> {Nil, "shown", "hidden"}] /\ late \subseteq Inbound
      /\ contact \in [key : Names \cup {Nil}, device : AnyDevice]
  BY Zenon DEF Typed, TypeOK
<1>1. enforced' = enforced
  BY DEF FileInInbox, FileInHistory, Check, ghosts
<1>2. CASE FileInInbox(t)
  BY <1>2, <1>1 DEF FileInInbox, ghosts, Shielded
<1>3. CASE FileInHistory(t)
  <2>1. /\ late' = late /\ receiving' = [receiving EXCEPT ![t] = Nil] /\ receiving[t] # Nil
        /\ history' = [history EXCEPT ![receiving[t].msg] = IF receiving[t].hidden THEN "hidden" ELSE "shown"]
    BY <1>3, Zenon DEF FileInHistory, ghosts
  <2>2. ASSUME NEW m \in late
        PROVE  history'[m] # "shown"
    BY <2>1, <1>0, Zenon DEF Shielded
  <2>3. \A m \in late, u \in Threads : receiving'[u] # Nil /\ receiving'[u].msg = m => receiving'[u].hidden
    BY <2>1 DEF Shielded
  <2> QED BY <1>1, <2>1, <2>2, <2>3, Zenon DEF Shielded
<1>4. ASSUME NEW x \in Inbound, Check(t, x)
      PROVE  Shielded'
  <2>1. PICK readable \in BOOLEAN :
           receiving' = [receiving EXCEPT ![t] =
                [msg |-> x, inboxed |-> FALSE,
                 hidden |-> IF readable THEN is_blocked_resolved("pk:K", sender_device_id)
                            ELSE hidden_if_unreadable]]
    BY <1>4, Zenon DEF Check
  <2> DEFINE h == IF readable THEN is_blocked_resolved("pk:K", sender_device_id) ELSE hidden_if_unreadable
  <2>2. sender_device_id \in AnyDevice
    BY <1>0, Zenon DEF sender_device_id, AnyDevice
  <2>3. enforced => h
    BY <2>2, EffectBlocks, Zenon DEF BlockHolds, hidden_if_unreadable
  <2> HIDE DEF h
  <2>4. /\ UNCHANGED history /\ receiving' = [receiving EXCEPT ![t] = [msg |-> x, inboxed |-> FALSE, hidden |-> h]]
        /\ late' = IF enforced /\ history[x] = Nil /\ x \notin InFlight THEN late \cup {x} ELSE late
    BY <1>4, <2>1, Zenon DEF Check, stores, h
  <2>5. /\ \A u \in Threads \ {t} : receiving'[u] = receiving[u]
        /\ receiving'[t].msg = x /\ receiving'[t].hidden = h
    BY <1>0, <2>4, Zenon
  <2>6. late' # {} => enforced
    BY <2>4, Zenon DEF Shielded
  <2>7. ASSUME NEW m \in late'
        PROVE  /\ history'[m] # "shown"
               /\ \A u \in Threads : receiving'[u] # Nil /\ receiving'[u].msg = m => receiving'[u].hidden
    BY <2>3, <2>6, <2>7, <2>4, <2>5, BlockedAssumption DEF Shielded, InFlight
  <2> QED BY <1>1, <2>6, <2>7, Zenon DEF Shielded
<1> QED BY <1>2, <1>3, <1>4

\* The steps of the calls keep both.
LEMMA EffectNext ==
    ASSUME Typed, Phases, InEffect, Shielded, [Next]_vars
    PROVE  InEffect' /\ Shielded'
<1>1. CASE UNCHANGED vars
  BY <1>1, Zenon DEF vars, InEffect, Shielded
<1>2. CASE StoreStep
  <2>1. /\ UNCHANGED <<late, history>> /\ (receiving' = receiving \/ receiving' = [u \in Threads |-> Nil])
        /\ InEffect' /\ (enforced => enforced')
    BY <1>2, EffectStore, Zenon DEF StoreStep, Registering, Blocking, Unblocking, Onward, Restarted,
       ghosts
  <2> QED BY <2>1, Zenon DEF Shielded
<1>3. CASE todo # <<>> /\ Head(todo).op \in {"unhide", "remove"} /\ History(Head(todo)) /\ Onward
  BY <1>3, PhasesFiling, BlockedAssumption, Zenon DEF History, Onward, Typed, TypeOK, Shielded, InEffect
<1>4. CASE Restarted /\ UNCHANGED <<rows, registry, history, ghosts>>
  BY <1>4, Zenon DEF Restarted, ghosts, InEffect, Shielded
<1>5. ASSUME NEW f \in AllForms,
             \/ \E d \in AnyDevice : BlockPeer(f, d) \/ UnblockPeer(f, d)
             \/ BlockAndDeletePeer(f, Nil)
             \/ \E d \in Devices : LearnDevice(f, d)
      PROVE  InEffect' /\ Shielded'
  BY <1>5 DEF BlockPeer, UnblockPeer, BlockAndDeletePeer, LearnDevice, Call, stores, InEffect,
     Shielded
<1>6. ASSUME NEW t \in Threads, FileInInbox(t) \/ FileInHistory(t) \/ \E m \in Inbound : Check(t, m)
      PROVE  InEffect' /\ Shielded'
  BY <1>6, ShieldedReceive DEF FileInInbox, FileInHistory, Check, ghosts, stores, InEffect
<1> QED BY <1>1, <1>2, <1>3, <1>4, <1>5, <1>6, NextKinds, Zenon

\* A block in force has its entry, and what was checked under it stays hidden.
LEMMA EffectAlways == Spec => [](InEffect /\ Shielded)
<1>1. Init => InEffect /\ Shielded
  BY Zenon DEF Init, InEffect, Shielded
<1>2. Typed /\ Phases /\ InEffect /\ Shielded /\ [Next]_vars => InEffect' /\ Shielded'
  BY EffectNext
<1> QED BY <1>1, <1>2, TypedAlways, PhasesAlways, PTL DEF Spec

\* A block of the peer is seen from its first row on, also after a crash, until
\* somebody begins to lift it: by the transport in any case, by receive_message unless
\* the only name it was given is the libp2p id of a peer with no contact under that id.
THEOREM BlockSeen == Spec => []BlockHolds
<1>1. Typed /\ InEffect => BlockHolds
  BY EffectBlocks
<1> QED BY <1>1, TypedAlways, EffectAlways, PTL

\* A message checked under a block stays hidden while the block is in force.
THEOREM BlockedHidden == Spec => []HiddenWhileBlocked
<1>1. Shielded => HiddenWhileBlocked
  BY Zenon DEF Shielded, HiddenWhileBlocked
<1> QED BY <1>1, EffectAlways, PTL
-----------------------------------------------------------------------------
\* The order of the steps of a call.  The last step on the history is the one on
\* the messages as they are filed; only a whole peer is deleted.
LastFiled(q) ==
    /\ q # <<>> /\ q[Len(q)].op \in {"unhide", "remove"} /\ ~Mixing(q[Len(q)].form) => q[Len(q)].form = "I"
    /\ \A i \in DOMAIN q : q[i].op = "delete" => q[i].device = Nil

\* The peer is deleted, and every message of it dropped by receive_message.
Deleted == \E r \in rows : r.name \in {"K", "I"} /\ r.device = Nil /\ r.is_deleted

\* It will be before the messages are removed.
DeleteFirst ==
    \A i \in DOMAIN todo : todo[i].op = "remove" /\ todo[i].form # "P" =>
        Deleted \/ \E j \in 1..(i - 1) : todo[j].op = "delete" /\ todo[j].form # "P"

Purged ==
    purged => Deleted /\ InFlight \subseteq spared /\ \A m \in Inbound : history[m] # Nil => m \in spared

\* A peer named by a tagged identifier is filed under the identity id.
LEMMA CanonicalForm ==
    ASSUME NEW f \in AllForms
    PROVE  /\ ~Mixing(canonical(f)) => canonical(f) = "I"
           /\ Mixing(f) => canonical(f) = f
BY DEF canonical, Mixing, AllForms

\* The order is kept while steps are taken.
LEMMA LastTail ==
    ASSUME todo \in Seq(Steps), todo # <<>>, LastFiled(todo)
    PROVE  LastFiled(Tail(todo))
<1> DEFINE q == Tail(todo)
<1> HIDE DEF q
<1> QED BY DEF LastFiled, q

\* The calls have it.
LEMMA LastCall ==
    ASSUME Typed, NEW f \in AllForms,
           \/ \E d \in AnyDevice : BlockPeer(f, d) \/ UnblockPeer(f, d)
           \/ BlockAndDeletePeer(f, Nil)
           \/ \E d \in Devices : LearnDevice(f, d)
    PROVE  LastFiled(todo')
<1>0. contact \in [key : Names \cup {Nil}, device : AnyDevice]
  BY DEF Typed, TypeOK
<1>1. ASSUME NEW d \in AnyDevice, BlockPeer(f, d)
      PROVE  LastFiled(todo')
  <2>1. todo' \in Seq(Doing({"register", "block"}, AnyDevice, f))
    BY <1>0, <1>1, BlockCall, Zenon DEF BlockPeer, Call
  <2>2. Only(todo', {"register", "block"})
    BY <2>1, CallOnly, Zenon
  <2> QED BY <2>2 DEF LastFiled, Only
<1>2. ASSUME NEW d \in AnyDevice, UnblockPeer(f, d)
      PROVE  LastFiled(todo')
  <2>1. todo' \in Seq(Doing({"unblock", "unhide"}, {d}, f)) /\ todo'[Len(todo')].form = canonical(f)
    BY <1>2, UnblockCall, Zenon DEF UnblockPeer, Call
  <2>2. Only(todo', {"unblock", "unhide"})
    BY <2>1, CallOnly, Zenon
  <2> QED BY <2>1, <2>2, CanonicalForm, Zenon DEF LastFiled, Only
<1>3. ASSUME BlockAndDeletePeer(f, Nil)
      PROVE  LastFiled(todo')
  BY <1>0, <1>3, DeleteCall, CanonicalForm, Zenon DEF BlockAndDeletePeer, Call, LastFiled
<1>4. ASSUME NEW d \in Devices, LearnDevice(f, d)
      PROVE  LastFiled(todo')
  BY <1>4 DEF LearnDevice, LastFiled, step
<1> QED BY <1>1, <1>2, <1>3, <1>4, Zenon

\* Calls keep their order of steps.
LEMMA LastAlways == Spec => []LastFiled(todo)
<1>0. LastFiled(<<>>)
  BY DEF LastFiled
<1>1. Init => LastFiled(todo)
  BY <1>0, Zenon DEF Init
<1>2. Typed /\ LastFiled(todo) /\ [Next]_vars => LastFiled(todo)'
  <2> SUFFICES ASSUME Typed, LastFiled(todo), [Next]_vars PROVE LastFiled(todo')
    BY Zenon DEF LastFiled
  <2>1. CASE todo' = <<>>
    BY <1>0, <2>1
  <2>2. CASE todo # <<>> /\ todo' = Tail(todo)
    BY <2>2, LastTail DEF Typed
  <2>3. CASE \E f \in AllForms : \/ \E d \in AnyDevice : BlockPeer(f, d) \/ UnblockPeer(f, d)
                                 \/ BlockAndDeletePeer(f, Nil)
                                 \/ \E d \in Devices : LearnDevice(f, d)
    BY <2>3, LastCall, Zenon
  <2>4. CASE \/ UNCHANGED vars
             \/ \E t \in Threads : FileInInbox(t) \/ FileInHistory(t) \/ \E m \in Inbound : Check(t, m)
    BY <2>4 DEF vars, FileInInbox, FileInHistory, Check
  <2>5. CASE StoreStep \/ (todo # <<>> /\ Onward) \/ Restarted
    BY <2>1, <2>2, <2>5, Zenon DEF StoreStep, Onward, Restarted
  <2> QED BY <2>3, <2>4, <2>5, NextKinds, Zenon
<1> QED BY <1>1, <1>2, TypedAlways, PTL DEF Spec

\* A deleted peer stays deleted, unless a call that blocks it anew or unblocks it
\* takes a step.
LEMMA DeletedStore ==
    ASSUME Typed, StoreStep, Deleted, Head(todo).op \in {"register", "delete"}
    PROVE  Deleted'
<1> DEFINE s == Head(todo)
<1>0. s \in Steps /\ (Registering(s) \/ Blocking(s)) /\ rows \subseteq RowSet /\ Unique(rows)
      /\ s.form \in AllForms
  BY TypedParts DEF Typed, StoreStep, Unblocking, Steps
<1>1. PICK r \in rows : r.name \in {"K", "I"} /\ r.device = Nil /\ r.is_deleted
  BY Zenon DEF Deleted
<1> HIDE DEF s
<1>2. CASE Registering(s)
  <2>1. s.device \in Devices /\ s.device # Nil
    BY <1>0, <1>2, BlockedAssumption, Zenon DEF Registering, Steps
  <2>2. CASE rows' = rows
    BY <2>2, Zenon DEF Deleted
  <2>3. ASSUME NEW del \in BOOLEAN, Written(raw(s.form), s.device, del)
        PROVE  Deleted'
    <3>1. PICK w \in rows' : w.name = r.name /\ w.device = Nil
      BY <1>1, <2>3, Zenon DEF Written
    <3>2. ~NewRow(raw(s.form), s.device, del, w)
      BY <2>1, <3>1, Zenon DEF NewRow
    <3>3. w \in rows
      BY <2>3, <3>2, Zenon DEF Written
    <3>4. w = r
      BY <1>0, <1>1, <3>1, <3>3, Zenon DEF Unique
    <3> QED BY <1>1, <3>4, Zenon DEF Deleted
  <2> QED BY <1>2, <2>2, <2>3, Zenon DEF Registering
<1>3. CASE Blocking(s)
  <2>1. (s.op = "delete") = TRUE
    BY <1>3, Zenon DEF Blocking, s
  <2>2. PICK w \in rows' : w.name = r.name /\ w.device = r.device /\ (w = r \/ w.is_deleted = TRUE)
    BY <1>3, <2>1, Zenon DEF Blocking, Written
  <2> QED BY <1>1, <2>2, Zenon DEF Deleted
<1> QED BY <1>0, <1>2, <1>3, Zenon

\* Deleting the peer under another name than its libp2p id makes it so.
LEMMA DeleteDeletes ==
    ASSUME Typed, StoreStep, Onward, todo' # <<>>, LastFiled(todo),
           Head(todo).op = "delete", Head(todo).form # "P"
    PROVE  Deleted'
<1> DEFINE s == Head(todo)
<1>0. s \in Steps /\ Blocking(s) /\ s.form \in AllForms /\ s.device = Nil
  BY DEF Typed, StoreStep, Registering, Unblocking, Steps, LastFiled
<1> HIDE DEF s
<1>1. (s.op = "delete") = TRUE
  BY Zenon DEF s
<1>2. Wrote(s.form, Nil, TRUE)
  BY <1>0, <1>1, Zenon DEF Blocking, Restarted
<1>3. PICK w \in rows' : w.device = Nil /\ w.is_deleted = TRUE /\ (w.name = raw(s.form) \/ w.name = "I")
  BY <1>2, Zenon DEF Wrote, NewRow
<1>4. raw(s.form) \in {"K", "I"}
  BY <1>0, FormFacts DEF Names, s
<1> QED BY <1>3, <1>4, Zenon DEF Deleted

\* A step on the store that leads to a removal deletes the peer first.
LEMMA DeleteFirstStore ==
    ASSUME Typed, Phases, LastFiled(todo), DeleteFirst, StoreStep
    PROVE  DeleteFirst'
<1> SUFFICES ASSUME NEW i \in DOMAIN todo', todo'[i].op = "remove", todo'[i].form # "P", ~Deleted'
             PROVE  \E j \in 1..(i - 1) : todo'[j].op = "delete" /\ todo'[j].form # "P"
  BY Zenon DEF DeleteFirst
<1>1. Onward /\ todo # <<>> /\ todo' = Tail(todo) /\ todo' # <<>>
  BY DEF StoreStep, Restarted, Onward
<1>2. /\ i \in Nat /\ i >= 1 /\ i + 1 \in DOMAIN todo /\ todo'[i] = todo[i + 1] /\ Head(todo) = todo[1]
      /\ \A j \in DOMAIN todo' : todo'[j] = todo[j + 1]
      /\ DOMAIN todo' = 1..(Len(todo) - 1) /\ Len(todo) \in Nat
  BY <1>1 DEF Typed
<1>3. Head(todo).op \in {"register", "delete"}
  <2>1. Only(todo, {"register", "delete", "remove"})
    BY <1>2, Zenon DEF Phases, Only
  <2> QED BY <2>1, OnlyTail, Zenon DEF StoreStep, Registering, Blocking, Unblocking, Typed
<1>4. ~Deleted
  BY <1>3, DeletedStore, Zenon
<1>5. PICK j \in 1..i : todo[j].op = "delete" /\ todo[j].form # "P"
  BY <1>2, <1>4 DEF DeleteFirst
<1>6. j # 1
  BY <1>1, <1>5, DeleteDeletes
<1>7. j - 1 \in 1..(i - 1) /\ j - 1 \in DOMAIN todo' /\ (j - 1) + 1 = j
  BY <1>2, <1>6
<1> QED BY <1>2, <1>5, <1>7, Zenon

\* block_and_delete_peer has the deletion before the removals.
LEMMA DeleteFirstCall ==
    ASSUME Typed, NEW f \in AllForms,
           \/ \E d \in AnyDevice : BlockPeer(f, d) \/ UnblockPeer(f, d)
           \/ BlockAndDeletePeer(f, Nil)
           \/ \E d \in Devices : LearnDevice(f, d)
    PROVE  DeleteFirst'
<1>0. contact \in [key : Names \cup {Nil}, device : AnyDevice]
  BY DEF Typed, TypeOK
<1>1. ASSUME NEW d \in AnyDevice, BlockPeer(f, d)
      PROVE  DeleteFirst'
  <2>1. todo' \in Seq(Doing({"register", "block"}, AnyDevice, f))
    BY <1>0, <1>1, BlockCall, Zenon DEF BlockPeer, Call
  <2> QED BY <2>1, CallOnly DEF DeleteFirst, Only
<1>2. ASSUME NEW d \in AnyDevice, UnblockPeer(f, d)
      PROVE  DeleteFirst'
  <2>1. todo' \in Seq(Doing({"unblock", "unhide"}, {d}, f))
    BY <1>2, UnblockCall, Zenon DEF UnblockPeer, Call
  <2> QED BY <2>1, CallOnly DEF DeleteFirst, Only
<1>3. ASSUME BlockAndDeletePeer(f, Nil)
      PROVE  DeleteFirst'
  <2>1. todo' = block_and_delete_peer(f, Nil)
    BY <1>3, Zenon DEF BlockAndDeletePeer, Call
  <2>2. \A i \in DOMAIN todo' : todo'[i].op = "remove" =>
           /\ todo'[i].form \in {f, canonical(f)}
           /\ \E j \in 1..(i - 1) : todo'[j].op = "delete" /\ todo'[j].form = f
    BY <1>0, <2>1, DeleteCall
  <2>3. ASSUME NEW i \in DOMAIN todo', todo'[i].op = "remove", todo'[i].form # "P"
        PROVE  \E j \in 1..(i - 1) : todo'[j].op = "delete" /\ todo'[j].form # "P"
    <3>1. f # "P"
      BY <2>2, <2>3, CanonicalForm, Zenon DEF Mixing
    <3> QED BY <2>2, <2>3, <3>1, Zenon
  <2> QED BY <2>3, Zenon DEF DeleteFirst
<1>4. ASSUME NEW d \in Devices, LearnDevice(f, d)
      PROVE  DeleteFirst'
  BY <1>4 DEF LearnDevice, step, DeleteFirst
<1> QED BY <1>1, <1>2, <1>3, <1>4

\* The call that removes the conversation has deleted the peer; after that no
\* message passes the check.
LEMMA PurgedFiling ==
    ASSUME Typed, Phases, LastFiled(todo), DeleteFirst, Purged,
           todo # <<>>, Head(todo).op \in {"unhide", "remove"}, History(Head(todo)), Onward
    PROVE  DeleteFirst' /\ Purged'
<1> DEFINE s == Head(todo)
<1>0. /\ todo' = Tail(todo) /\ s = todo[1] /\ 1 \in DOMAIN todo /\ Len(todo) \in Nat
      /\ DOMAIN todo' = 1..(Len(todo) - 1)
      /\ \A i \in DOMAIN todo' : i + 1 \in DOMAIN todo /\ todo'[i] = todo[i + 1]
      /\ (todo' = <<>> => Len(todo) = 1)
  <2>1. todo \in Seq(Steps) /\ todo' = Tail(todo)
    BY Zenon DEF Typed, Onward
  <2>2. Tail(todo) = <<>> => Len(todo) = 1
    <3>0. Len(<<>>) = 0
      OBVIOUS
    <3>1. Tail(todo) = <<>> => Len(Tail(todo)) = 0
      BY <3>0, Zenon
    <3> QED BY <3>1
  <2> QED BY <2>1, <2>2
<1>1. UNCHANGED <<rows, receiving>> /\ (Deleted' <=> Deleted) /\ InFlight' = InFlight
  BY Zenon DEF History, Onward, Deleted, InFlight
<1>2. DeleteFirst'
  <2> SUFFICES ASSUME NEW i \in DOMAIN todo', todo'[i].op = "remove", todo'[i].form # "P", ~Deleted
               PROVE  \E j \in 1..(i - 1) : todo'[j].op = "delete" /\ todo'[j].form # "P"
    BY <1>1, Zenon DEF DeleteFirst
  <2>1. PICK j \in 1..i : todo[j].op = "delete" /\ todo[j].form # "P"
    BY <1>0 DEF DeleteFirst
  <2>2. j # 1
    BY <2>1
  <2>3. j - 1 \in 1..(i - 1) /\ j - 1 \in DOMAIN todo' /\ (j - 1) + 1 = j
    BY <1>0, <2>2
  <2> QED BY <1>0, <2>1, <2>3, Zenon
<1>3. CASE s.op = "unhide"
  <2>1. ~purged'
    BY <1>3, PhasesFiling, Zenon DEF History, Purges
  <2> QED BY <1>2, <2>1, Zenon DEF Purged
<1>4. CASE s.op = "remove"
  <2>1. ASSUME purged'
        PROVE  Deleted /\ (s.form \in {"I", "K"} \/ purged)
    <3>1. CASE purged
      BY <3>1, Zenon DEF Purged
    <3>2. CASE Tail(todo) = <<>> /\ s.form # "P"
      <4>1. Len(todo) = 1 /\ ~\E j \in 1..(1 - 1) : todo[j].op = "delete"
        BY <1>0, <3>2
      <4>2. Deleted
        BY <1>0, <1>4, <3>2, <4>1, Zenon DEF DeleteFirst
      <4>3. ~Mixing(s.form) => s.form = "I"
        BY <1>0, <1>4, <4>1, Zenon DEF LastFiled
      <4> QED BY <3>2, <4>2, <4>3, Zenon DEF Mixing
    <3> QED BY <2>1, <3>1, <3>2, Zenon DEF History, Purges
  <2>2. CASE s.form = "I"
    BY <1>4, <1>1, <1>2, <2>1, <2>2, Zenon DEF History, Purged
  <2>3. CASE s.form = "K"
    <3>1. spared' = InFlight \cup {m \in Inbound : history[m] # Nil} /\ \A m \in Inbound : history'[m] = history[m]
      BY <1>4, <2>3, Zenon DEF History
    <3> QED BY <1>1, <1>2, <2>1, <3>1, Zenon DEF Purged
  <2>4. CASE s.form \notin {"I", "K"}
    BY <2>4, <1>1, <1>2, <2>1, Zenon DEF History, Purged
  <2> QED BY <2>2, <2>3, <2>4, Zenon
<1> QED BY <1>3, <1>4, Zenon

\* receive_message drops what a deleted peer sends.
LEMMA PurgedReceive ==
    ASSUME Typed, DeleteFirst, Purged, NEW t \in Threads,
           FileInInbox(t) \/ FileInHistory(t) \/ \E m \in Inbound : Check(t, m)
    PROVE  DeleteFirst' /\ Purged'
<1>1. UNCHANGED <<rows, todo, purged>>
  BY DEF FileInInbox, FileInHistory, Check, stores, ghosts
<1>2. DeleteFirst'
  BY <1>1, Zenon DEF DeleteFirst, Deleted
<1>3. ASSUME purged
      PROVE  Deleted' /\ InFlight' \subseteq spared' /\ \A m \in Inbound : history'[m] # Nil => m \in spared'
  <2>1. \A m \in Inbound : ~Check(t, m)
    BY <1>3, Lookups, Zenon DEF Purged, Deleted, Check, is_blocked_and_deleted_resolved
  <2>2. CASE FileInInbox(t)
    BY <2>2, <1>3 DEF FileInInbox, ghosts, InFlight, Purged, Deleted
  <2>3. CASE FileInHistory(t)
    BY <2>3, <1>3 DEF FileInHistory, ghosts, InFlight, Purged, Deleted
  <2> QED BY <2>1, <2>2, <2>3, Zenon
<1> QED BY <1>1, <1>2, <1>3, Zenon DEF Purged

\* Every step keeps a purged conversation purged.
LEMMA PurgedNext ==
    ASSUME Typed, Phases, LastFiled(todo), DeleteFirst, Purged, [Next]_vars
    PROVE  DeleteFirst' /\ Purged'
<1>1. CASE UNCHANGED vars
  BY <1>1, Zenon DEF vars, DeleteFirst, Purged, Deleted, InFlight
<1>2. CASE StoreStep
  <2>1. /\ UNCHANGED <<spared, purged, history>>
        /\ (receiving' = receiving \/ receiving' = [u \in Threads |-> Nil])
    BY <1>2, Zenon DEF StoreStep, Registering, Blocking, Unblocking, Onward, Restarted, ghosts
  <2>2. InFlight' \subseteq InFlight
    BY <2>1, Zenon DEF InFlight
  <2>3. purged => Deleted'
    <3> SUFFICES ASSUME purged PROVE Deleted'
      OBVIOUS
    <3>1. Only(todo, {"register", "delete", "remove"})
      BY Zenon DEF Phases, Only
    <3>2. Head(todo).op \in {"register", "delete"}
      BY <1>2, <3>1, OnlyTail, Zenon DEF StoreStep, Registering, Blocking, Unblocking, Typed
    <3> QED BY <1>2, <3>2, DeletedStore, Zenon DEF Purged
  <2> QED BY <1>2, <2>1, <2>2, <2>3, DeleteFirstStore, Zenon DEF Purged
<1>3. CASE todo # <<>> /\ Head(todo).op \in {"unhide", "remove"} /\ History(Head(todo)) /\ Onward
  BY <1>3, PurgedFiling, Zenon
<1>4. CASE Restarted /\ UNCHANGED <<rows, registry, history, ghosts>>
  BY <1>4 DEF Restarted, ghosts, DeleteFirst, Purged, Deleted, InFlight
<1>5. ASSUME NEW f \in AllForms,
             \/ \E d \in AnyDevice : BlockPeer(f, d) \/ UnblockPeer(f, d)
             \/ BlockAndDeletePeer(f, Nil)
             \/ \E d \in Devices : LearnDevice(f, d)
      PROVE  DeleteFirst' /\ Purged'
  <2>1. /\ UNCHANGED <<rows, history, receiving, spared>> /\ (purged' => purged)
    BY <1>5 DEF BlockPeer, UnblockPeer, BlockAndDeletePeer, LearnDevice, Call, stores
  <2> QED BY <1>5, <2>1, DeleteFirstCall, Zenon DEF Purged, Deleted, InFlight
<1>6. CASE \E t \in Threads : FileInInbox(t) \/ FileInHistory(t) \/ \E m \in Inbound : Check(t, m)
  BY <1>6, PurgedReceive, Zenon
<1> QED BY <1>1, <1>2, <1>3, <1>4, <1>5, <1>6, NextKinds, Zenon

\* After block_and_delete_peer, named otherwise than by the libp2p id, no message of
\* the peer comes into the history, save those past their check when it was purged;
\* what was there is gone, unless the call named the peer by its bare public key.
THEOREM PurgeLasts == Spec => []PurgeHolds
<1>1. Init => DeleteFirst /\ Purged
  BY DEF Init, DeleteFirst, Purged
<1>2. Typed /\ Phases /\ LastFiled(todo) /\ DeleteFirst /\ Purged /\ [Next]_vars => DeleteFirst' /\ Purged'
  BY PurgedNext, Zenon
<1>3. Purged => PurgeHolds
  BY DEF Purged, PurgeHolds
<1> QED BY <1>1, <1>2, <1>3, TypedAlways, PhasesAlways, LastAlways, PTL DEF Spec

-----------------------------------------------------------------------------
\* The calls name the peer by identity id or tagged public key.
Unmixed == ~mixed => \A i \in DOMAIN todo : ~Mixing(todo[i].form)

\* How the entries under the public key came about: a block of the peer left its
\* flavor there, and a registration its device.
KeyRows ==
    ~mixed => \A r \in rows : r.name = "K" =>
        /\ r.device = Nil => r.flavor = "PublicKey"
        /\ ~torn => r.flavor = "PublicKey" \/ r.device \in registry["K"]

Known(d) == d \in registry["K"] \cup registry["I"]

\* The device of every entry is in the registry, where unblock finds it.
Registered ==
    ~mixed /\ ~torn => \A r \in rows : r.name \in {"K", "I"} /\ r.device # Nil => Known(r.device)

\* It will be before the device is blocked.
RegisterFirst ==
    ~mixed /\ ~torn => \A i \in DOMAIN todo : todo[i].op = "block" /\ todo[i].device # Nil =>
        Known(todo[i].device) \/ \E j \in 1..(i - 1) : todo[j].op = "register" /\ todo[j].device = todo[i].device

Accounted == KeyRows /\ Registered /\ RegisterFirst

\* The steps left, once the first of them is taken.
LEMMA Shifted ==
    ASSUME todo \in Seq(Steps), todo # <<>>, todo' = Tail(todo)
    PROVE  /\ 1 \in DOMAIN todo /\ Head(todo) = todo[1] /\ Head(todo) \in Steps
           /\ \A i \in DOMAIN todo' :
                 /\ i \in Nat /\ i + 1 \in DOMAIN todo /\ todo'[i] = todo[i + 1] /\ (i + 1) - 1 = i
                 /\ \A j \in 1..i : j # 1 => j - 1 \in 1..(i - 1) /\ todo'[j - 1] = todo[j]
<1> QED OBVIOUS

\* A form that says which identifier it is stands for the public key or the
\* identity id.
LEMMA PlainForm ==
    ASSUME NEW f \in AllForms, ~Mixing(f)
    PROVE  /\ f \in {"pk:K", "id:I", "I"} /\ raw(f) \in {"K", "I"}
           /\ raw(f) = "K" <=> f = "pk:K"
           /\ resolved_identifiers(raw(f)) = {raw(f)}
           /\ "I" \in resolved_identifiers(f) /\ resolved_identifiers(f) \subseteq {"K", "I"}
           /\ f = "pk:K" => "K" \in resolved_identifiers(f)
BY DEF AllForms, Mixing, raw, resolved_identifiers

\* unblock goes by both identifiers, unless nothing is stored under the public key.
LEMMA UnblockIds ==
    ASSUME NEW f \in AllForms, ~Mixing(f)
    PROVE  /\ "I" \in identifiers_for_unblock(f) /\ identifiers_for_unblock(f) \subseteq {"K", "I"}
           /\ "K" \notin identifiers_for_unblock(f) =>
                 registry["K"] = {} /\ \A r \in rows : r.name = "K" => r.flavor # "PublicKey"
<1>1. /\ f \in {"pk:K", "id:I", "I"} /\ "I" \in resolved_identifiers(f)
      /\ resolved_identifiers(f) \subseteq {"K", "I"} /\ (f = "pk:K" => "K" \in resolved_identifiers(f))
  BY PlainForm, Zenon
<1>2. f # "pk:K" => raw(f) = "I"
  BY <1>1 DEF raw
<1> QED BY <1>1, <1>2, Zenon DEF identifiers_for_unblock

\* unblock, as it is when entries are accounted for: what it leaves and what it
\* keeps in the registry.
LEMMA UnblockLeaves ==
    ASSUME Typed, NEW f \in AllForms, NEW d \in AnyDevice, ~Mixing(f), unblock(f, d), KeyRows, ~mixed
    PROVE  /\ \A n \in {"K", "I"} : \A x \in registry[n] \ registry'[n] :
                 n \in identifiers_for_unblock(f) /\ x \in unblock_devices(f, d)
           /\ \A r \in rows' : r \in rows
           /\ \A r \in rows' : r.name \in {"K", "I"} =>
                 \/ r.name \in identifiers_for_unblock(f) /\ r.device \notin unblock_devices(f, d)
                 \/ r.name = "K" /\ "K" \notin identifiers_for_unblock(f) /\ r.device # Nil /\ torn
<1> DEFINE ids == identifiers_for_unblock(f)
           devs == unblock_devices(f, d)
<1>1. /\ rows' = {r \in rows : <<r.name, r.device>> \notin ids \X devs}
      /\ registry' = [n \in Names |-> IF n \in ids THEN registry[n] \ devs ELSE registry[n]]
  BY Zenon DEF unblock, removing
<1>2. "I" \in ids /\ ("K" \notin ids => registry["K"] = {} /\ \A r \in rows : r.name = "K" => r.flavor # "PublicKey")
  BY UnblockIds, Zenon
<1> HIDE DEF ids, devs
<1>3. \A n \in {"K", "I"} : \A x \in registry[n] \ registry'[n] : n \in ids /\ x \in devs
  BY <1>1, Zenon DEF Names
<1>4. \A r \in rows' : r \in rows /\ (r.name \in ids => r.device \notin devs)
  BY <1>1, Zenon
<1>5. \A r \in rows' : r.name = "K" /\ "K" \notin ids => r.device # Nil /\ torn
  BY <1>2, <1>4, Zenon DEF KeyRows
<1>6. \A r \in rows' : r.name \in {"K", "I"} =>
          \/ r.name \in ids /\ r.device \notin devs
          \/ r.name = "K" /\ "K" \notin ids /\ r.device # Nil /\ torn
  BY <1>2, <1>4, <1>5, Zenon
<1> QED BY <1>3, <1>4, <1>6, Zenon DEF ids, devs
-----------------------------------------------------------------------------
\* The steps on the block store keep account of the entries.

\* register_device_id
LEMMA AccountedRegister ==
    ASSUME Typed, KeyRows, Registered, ~mixed, NEW s \in Steps, ~Mixing(s.form), Registering(s)
    PROVE  /\ KeyRows' /\ Registered' /\ \A d : Known(d) => Known(d)'
           /\ s.device \in registry'["K"] \cup registry'["I"]
<1>0. /\ s.device \in Devices /\ s.device # Nil /\ raw(s.form) \in {"K", "I"} /\ s.form \in AllForms
      /\ raw(s.form) \in AllForms /\ registry \in [Names -> SUBSET Devices]
  BY PlainForm, FormFacts, TypedParts, BlockedAssumption, Zenon DEF Registering, Steps
<1>1. registry' = [registry EXCEPT ![raw(s.form)] = @ \cup {s.device}] /\ UNCHANGED <<mixed, torn>>
  BY Zenon DEF Registering, ghosts
<1>2. /\ s.device \in registry'[raw(s.form)]
      /\ registry["K"] \subseteq registry'["K"] /\ registry["I"] \subseteq registry'["I"]
  BY <1>0, <1>1, Zenon DEF Names
<1>3. s.device \in registry'["K"] \cup registry'["I"] /\ \A d : Known(d) => Known(d)'
  BY <1>0, <1>2, Zenon DEF Known
<1>4. \A w \in rows' : w \in rows \/ (w.device = s.device /\ w.name = raw(s.form))
  BY <1>0, FormFacts, Zenon DEF Registering, Written, NewRow
<1>5. KeyRows'
  BY <1>0, <1>1, <1>2, <1>4, Zenon DEF KeyRows
<1>6. Registered'
  BY <1>1, <1>3, <1>4, Zenon DEF Registered, Known
<1> QED BY <1>3, <1>5, <1>6, Zenon

\* block and block_and_delete
LEMMA AccountedBlock ==
    ASSUME Typed, KeyRows, Registered, ~mixed, NEW s \in Steps, ~Mixing(s.form), Blocking(s),
           s.device # Nil /\ ~torn => Known(s.device)
    PROVE  KeyRows' /\ Registered' /\ \A d : Known(d) => Known(d)'
<1>0. s.form \in AllForms /\ raw(s.form) \in {"K", "I"} /\ (raw(s.form) = "K" <=> s.form = "pk:K")
      /\ (flavor_of(s.form) = "PublicKey" <=> s.form = "pk:K")
  BY PlainForm, FormFacts, Zenon DEF Steps
<1>1. UNCHANGED <<registry, mixed, torn>>
  BY Zenon DEF Blocking
<1>2. \A w \in rows' : w \in rows \/ NewRow(s.form, s.device, s.op = "delete", w)
  BY Zenon DEF Blocking, Written
<1>3. \A w \in rows' : w \in rows \/ (w.name = "K" => w.flavor = "PublicKey")
  BY <1>0, <1>2, Zenon DEF NewRow
<1>4. \A w \in rows' : w \in rows \/ w.device = s.device \/ Known(w.device)
  BY <1>0, <1>2, Zenon DEF NewRow, Known
<1>5. KeyRows'
  BY <1>1, <1>3, Zenon DEF KeyRows
<1>6. \A d : Known(d)' <=> Known(d)
  BY <1>1, Zenon DEF Known
<1>7. Registered'
  BY <1>1, <1>4, <1>6, Zenon DEF Registered
<1> QED BY <1>5, <1>6, <1>7, Zenon

\* unblock, in whole
LEMMA AccountedUnblock ==
    ASSUME Typed, KeyRows, Registered, ~mixed, NEW f \in AllForms, NEW d \in AnyDevice, ~Mixing(f),
           unblock(f, d), UNCHANGED <<mixed, torn>>
    PROVE  KeyRows' /\ Registered'
<1> DEFINE ids == identifiers_for_unblock(f)
           devs == unblock_devices(f, d)
<1>1. /\ \A n \in {"K", "I"} : \A x \in registry[n] \ registry'[n] : n \in ids /\ x \in devs
      /\ \A r \in rows' : r \in rows
      /\ \A r \in rows' : r.name \in {"K", "I"} =>
            \/ r.name \in ids /\ r.device \notin devs
            \/ r.name = "K" /\ "K" \notin ids /\ r.device # Nil /\ torn
  BY UnblockLeaves, Zenon
<1> HIDE DEF ids, devs
<1>2. KeyRows'
  BY <1>1, Zenon DEF KeyRows
<1>3. ASSUME ~torn, NEW r \in rows', r.name \in {"K", "I"}, r.device # Nil
      PROVE  Known(r.device)'
  BY <1>1, <1>3, Zenon DEF Registered, Known
<1> QED BY <1>2, <1>3, Zenon DEF Registered

\* A step on the store, in whole or cut short.
LEMMA AccountedStore ==
    ASSUME Typed, Phases, LastFiled(todo), Unmixed, Accounted, StoreStep
    PROVE  Accounted'
<1> DEFINE s == Head(todo)
<1>0. /\ todo \in Seq(Steps) /\ todo # <<>> /\ s = todo[1] /\ 1 \in DOMAIN todo /\ s \in Steps
      /\ s.form \in AllForms /\ s.device \in AnyDevice
  BY DEF Typed, StoreStep, Steps
<1>1. mixed' = mixed /\ (~torn' => ~torn)
  BY DEF StoreStep, Registering, Blocking, Unblocking, ghosts
<1>2. CASE mixed
  BY <1>1, <1>2, Zenon DEF Accounted, KeyRows, Registered, RegisterFirst
<1>3. CASE ~mixed
  <2>0. KeyRows /\ Registered /\ RegisterFirst /\ ~Mixing(s.form)
    BY <1>0, <1>3, Zenon DEF Accounted, Unmixed
  <2>1. s.op \in {"block", "delete"} => (s.device # Nil /\ ~torn => Known(s.device))
    BY <1>0, <1>3, <2>0 DEF LastFiled, RegisterFirst
  <2>2. CASE Restarted
    <3>1. todo' = <<>>
      BY <2>2, Zenon DEF Restarted
    <3>2. RegisterFirst'
      BY <3>1 DEF RegisterFirst
    <3> HIDE DEF s
    <3>3. KeyRows' /\ Registered'
      <4>1. CASE Registering(s)
        BY <1>0, <1>3, <2>0, <4>1, AccountedRegister, Zenon
      <4>2. CASE Blocking(s)
        BY <4>2, <1>0, <1>3, <2>0, <2>1, AccountedBlock, Zenon DEF Blocking
      <4>3. CASE Unblocking(s) /\ torn' = TRUE
        BY <2>0, <4>3, Zenon DEF Unblocking, KeyRows, Registered
      <4>4. CASE Unblocking(s) /\ torn' = torn /\ unblock(s.form, s.device)
        BY <1>0, <1>1, <1>3, <2>0, <4>4, AccountedUnblock, Zenon
      <4> QED BY <4>1, <4>2, <4>3, <4>4, Zenon DEF StoreStep, Unblocking, s
    <3> QED BY <3>2, <3>3 DEF Accounted
  <2>3. CASE Onward
    <3>0. /\ todo' = Tail(todo)
          /\ \A i \in DOMAIN todo' :
                /\ i \in Nat /\ i + 1 \in DOMAIN todo /\ todo'[i] = todo[i + 1] /\ (i + 1) - 1 = i
                /\ \A j \in 1..i : j # 1 => j - 1 \in 1..(i - 1) /\ todo'[j - 1] = todo[j]
      BY <2>3 DEF Onward
    <3>1. ASSUME \A d : Known(d) => Known(d)', s.op = "register" => s.device \in registry'["K"] \cup registry'["I"]
          PROVE  RegisterFirst'
      <4> SUFFICES ASSUME ~torn, NEW i \in DOMAIN todo', NEW x, todo'[i].op = "block", todo'[i].device = x,
                          x # Nil, ~Known(x)'
                   PROVE  \E j \in 1..(i - 1) : todo'[j].op = "register" /\ todo'[j].device = x
        BY <1>1 DEF RegisterFirst, Known
      <4>1. ~Known(x)
        BY <3>1, Zenon
      <4>2. PICK j \in 1..i : todo[j].op = "register" /\ todo[j].device = x
        <5>1. i + 1 \in DOMAIN todo /\ todo[i + 1].op = "block" /\ todo[i + 1].device = x /\ (i + 1) - 1 = i
          BY <3>0, Zenon
        <5> QED BY <1>3, <2>0, <4>1, <5>1, Zenon DEF RegisterFirst
      <4>3. j # 1
        BY <3>1, <4>2 DEF Known
      <4> QED BY <3>0, <4>2, <4>3, ZenonT(30)
    <3>2. CASE Registering(s)
      <4>1. KeyRows' /\ Registered' /\ s.device \in registry'["K"] \cup registry'["I"] /\ \A d : Known(d) => Known(d)'
        <5> HIDE DEF s
        <5>1. KeyRows' /\ Registered' /\ \A d : Known(d) => Known(d)'
          BY <1>0, <1>3, <2>0, <3>2, AccountedRegister, Zenon
        <5>2. s.device \in registry'["K"] \cup registry'["I"]
          BY <1>0, <1>3, <2>0, <3>2, AccountedRegister, Zenon
        <5> QED BY <5>1, <5>2, Zenon
      <4> QED BY <3>1, <4>1, Zenon DEF Accounted
    <3>3. CASE Blocking(s)
      BY <3>3, <1>0, <1>3, <2>0, <2>1, AccountedBlock, <3>1, Zenon DEF Blocking, Accounted
    <3>4. CASE Unblocking(s)
      <4>1. Only(todo, {"unblock", "unhide"})
        BY <1>0, <3>4, Zenon DEF Unblocking, Phases, Only
      <4>2. RegisterFirst'
        BY <3>0, <4>1, Zenon DEF RegisterFirst, Only
      <4>3. KeyRows' /\ Registered'
        <5>1. CASE torn' = TRUE
          BY <2>0, <3>4, <5>1, Zenon DEF Unblocking, KeyRows, Registered
        <5>2. CASE torn' = torn /\ unblock(s.form, s.device)
          BY <1>0, <1>1, <1>3, <2>0, <5>2, AccountedUnblock, Zenon
        <5> QED BY <3>4, <5>1, <5>2, Zenon DEF Unblocking
      <4> QED BY <4>2, <4>3 DEF Accounted
    <3> QED BY <3>2, <3>3, <3>4, Zenon DEF StoreStep
  <2> QED BY <2>2, <2>3 DEF StoreStep
<1> QED BY <1>2, <1>3

\* What the steps of a call name, and that block_peer registers a device before it
\* blocks it.
LEMMA AccountedCall ==
    ASSUME Typed, Accounted, NEW f \in AllForms,
           \/ \E d \in AnyDevice : BlockPeer(f, d) \/ UnblockPeer(f, d)
           \/ BlockAndDeletePeer(f, Nil)
           \/ \E d \in Devices : LearnDevice(f, d)
    PROVE  Unmixed' /\ Accounted'
<1>0. contact \in [key : Names \cup {Nil}, device : AnyDevice]
  BY Zenon DEF Typed, TypeOK
<1>1. UNCHANGED <<rows, registry, torn>> /\ mixed' = (mixed \/ Mixing(f)) /\ (~mixed' => ~mixed /\ ~Mixing(f))
  BY Zenon DEF BlockPeer, UnblockPeer, BlockAndDeletePeer, LearnDevice, Call, stores
<1>2. /\ \E ops : todo' \in Seq(Doing(ops, AnyDevice, f))
      /\ \A i \in DOMAIN todo' : todo'[i].op = "block" /\ todo'[i].device # Nil =>
            \E j \in 1..(i - 1) : todo'[j].op = "register" /\ todo'[j].device = todo'[i].device
  <2>1. ASSUME NEW d \in AnyDevice, BlockPeer(f, d)
        PROVE  <1>2
    <3>1. todo' = block_peer(f, d)
      BY <2>1, Zenon DEF BlockPeer, Call
    <3> DEFINE q == block_peer(f, d)
    <3>2. /\ q \in Seq(Doing({"register", "block"}, AnyDevice, f))
          /\ \A i \in DOMAIN q : q[i].op = "block" /\ q[i].device # Nil =>
                \E j \in 1..(i - 1) : q[j].op = "register" /\ q[j].device = q[i].device
      BY <1>0, BlockCall, Zenon
    <3> HIDE DEF q
    <3>3. todo' = q
      BY <3>1, Zenon DEF q
    <3> QED BY <3>2, <3>3, Zenon
  <2>2. ASSUME NEW d \in AnyDevice, UnblockPeer(f, d)
        PROVE  <1>2
    <3> DEFINE ops == {"unblock", "unhide"}
    <3>1. todo' \in Seq(Doing(ops, {d}, f))
      BY <2>2, UnblockCall, Zenon DEF UnblockPeer, Call
    <3>2. Doing(ops, {d}, f) \subseteq Doing(ops, AnyDevice, f)
      BY Zenon DEF Doing
    <3> HIDE DEF ops
    <3>3. todo' \in Seq(Doing(ops, AnyDevice, f))
      BY <3>1, <3>2, Widened, Zenon
    <3>4. Only(todo', ops)
      BY <3>3, CallOnly, Zenon
    <3> QED BY <3>3, <3>4, Zenon DEF Only, ops
  <2>3. ASSUME BlockAndDeletePeer(f, Nil)
        PROVE  <1>2
    <3> DEFINE ops == {"register", "delete", "remove"}
    <3>1. todo' \in Seq(Doing(ops, AnyDevice, f))
      BY <1>0, <2>3, DeleteCall, Zenon DEF BlockAndDeletePeer, Call
    <3>2. Only(todo', ops)
      BY <3>1, CallOnly, Zenon
    <3> QED BY <3>1, <3>2, Zenon DEF Only
  <2>4. ASSUME NEW d \in Devices, LearnDevice(f, d)
        PROVE  <1>2
    <3> DEFINE ops == {"register"}
    <3>1. todo' = <<step("register", f, d)>> /\ step("register", f, d) \in Doing(ops, AnyDevice, f)
      BY <2>4 DEF LearnDevice, Doing, Steps, step, Keeps, AnyDevice
    <3> HIDE DEF ops
    <3>2. todo' \in Seq(Doing(ops, AnyDevice, f))
      BY <3>1
    <3>3. Only(todo', ops)
      BY <3>2, CallOnly, Zenon
    <3> QED BY <3>2, <3>3, Zenon DEF Only, ops
  <2> QED BY <2>1, <2>2, <2>3, <2>4, Zenon
<1>3. Unmixed'
  <2>1. PICK ops : todo' \in Seq(Doing(ops, AnyDevice, f))
    BY <1>2, Zenon
  <2>2. \A i \in DOMAIN todo' : todo'[i] \in Doing(ops, AnyDevice, f)
    BY <2>1, Widened, Zenon
  <2> QED BY <1>1, <2>2, Zenon DEF Unmixed, Doing, Keeps
<1>4. Accounted'
  BY <1>1, <1>2, Zenon DEF Accounted, KeyRows, Registered, RegisterFirst, Known
<1> QED BY <1>3, <1>4, Zenon

\* The steps left of a call name the peer as the call does.
LEMMA UnmixedNext ==
    ASSUME Typed, Unmixed, Accounted, [Next]_vars
    PROVE  Unmixed'
<1>1. CASE \E f \in AllForms : \/ \E d \in AnyDevice : BlockPeer(f, d) \/ UnblockPeer(f, d)
                               \/ BlockAndDeletePeer(f, Nil)
                               \/ \E d \in Devices : LearnDevice(f, d)
  BY <1>1, AccountedCall, Zenon
<1>2. CASE todo' = todo /\ mixed' = mixed
  BY <1>2, Zenon DEF Unmixed
<1>3. CASE todo' = <<>>
  BY <1>3 DEF Unmixed
<1>4. CASE todo # <<>> /\ todo' = Tail(todo) /\ mixed' = mixed
  BY <1>4 DEF Typed, Unmixed
<1>5. CASE \/ UNCHANGED vars
           \/ \E t \in Threads : FileInInbox(t) \/ FileInHistory(t) \/ \E m \in Inbound : Check(t, m)
  BY <1>2, <1>5 DEF vars, FileInInbox, FileInHistory, Check, ghosts
<1>6. CASE StoreStep
  BY <1>3, <1>4, <1>6, Zenon DEF StoreStep, Onward, Restarted, Registering, Blocking, Unblocking, ghosts
<1>7. CASE todo # <<>> /\ History(Head(todo)) /\ Onward
  BY <1>4, <1>7, Zenon DEF History, Onward
<1>8. CASE Restarted
  BY <1>3, <1>8, Zenon DEF Restarted
<1> QED BY <1>1, <1>5, <1>6, <1>7, <1>8, NextKinds, Zenon

\* Every step keeps account of the entries.
LEMMA AccountedNext ==
    ASSUME Typed, Phases, LastFiled(todo), Unmixed, Accounted, [Next]_vars
    PROVE  Accounted'
<1>1. CASE \E f \in AllForms : \/ \E d \in AnyDevice : BlockPeer(f, d) \/ UnblockPeer(f, d)
                               \/ BlockAndDeletePeer(f, Nil)
                               \/ \E d \in Devices : LearnDevice(f, d)
  BY <1>1, AccountedCall, Zenon
<1>2. CASE StoreStep
  BY <1>2, AccountedStore, Zenon
<1>3. ASSUME UNCHANGED <<rows, registry, mixed, torn>>, RegisterFirst'
      PROVE  Accounted'
  BY <1>3, Zenon DEF Accounted, KeyRows, Registered, Known
<1>4. CASE \/ UNCHANGED vars
           \/ \E t \in Threads : FileInInbox(t) \/ FileInHistory(t) \/ \E m \in Inbound : Check(t, m)
  BY <1>4, <1>3 DEF vars, FileInInbox, FileInHistory, Check, ghosts, stores, Accounted,
     RegisterFirst, Known
<1>5. CASE Restarted /\ UNCHANGED <<rows, registry, history, ghosts>>
  BY <1>5, <1>3 DEF Restarted, ghosts, RegisterFirst
<1>6. CASE todo # <<>> /\ Head(todo).op \in {"unhide", "remove"} /\ History(Head(todo)) /\ Onward
  <2>1. UNCHANGED <<rows, registry, mixed, torn>> /\ todo' = Tail(todo) /\ todo \in Seq(Steps) /\ todo # <<>>
    BY <1>6, Zenon DEF History, Onward, Typed
  <2>2. \A i \in DOMAIN todo' : todo'[i].op # "block"
    BY <1>6, <2>1, OnlyTail DEF Phases, Only
  <2> QED BY <1>3, <2>1, <2>2, Zenon DEF RegisterFirst
<1> QED BY <1>1, <1>2, <1>4, <1>5, <1>6, NextKinds, Zenon

\* The entries are accounted for in every state.
LEMMA AccountedAlways == Spec => [](Unmixed /\ Accounted)
<1>1. Init => Unmixed /\ Accounted
  BY DEF Init, Unmixed, Accounted, KeyRows, Registered, RegisterFirst
<1>2. Typed /\ Phases /\ LastFiled(todo) /\ Unmixed /\ Accounted /\ [Next]_vars => Unmixed' /\ Accounted'
  BY UnmixedNext, AccountedNext, Zenon
<1> QED BY <1>1, <1>2, TypedAlways, PhasesAlways, LastAlways, PTL DEF Spec
-----------------------------------------------------------------------------
\* No entry blocks the peer; if an unblock was cut short, those of devices may be
\* left.
Cleared == \A r \in rows : r.name \in {"K", "I"} => torn /\ r.device # Nil

\* It will be so before the messages are brought back.
UnblockFirst ==
    \A i \in DOMAIN todo : todo[i].op = "unhide" /\ todo[i].device = Nil =>
        Cleared \/ \E j \in 1..(i - 1) : todo[j].op = "unblock" /\ todo[j].device = Nil

Lifted == ~mixed => (revealed => Cleared) /\ UnblockFirst

\* unblock of the whole peer clears every entry of it.
LEMMA UnblockLifts ==
    ASSUME Typed, KeyRows, Registered, ~mixed, NEW f \in AllForms, ~Mixing(f), unblock(f, Nil), torn' = torn
    PROVE  Cleared'
<1> DEFINE ids == identifiers_for_unblock(f)
           devs == unblock_devices(f, Nil)
<1>0. Nil \in AnyDevice
  BY DEF AnyDevice
<1>1. /\ \A r \in rows' : r \in rows
      /\ \A r \in rows' : r.name \in {"K", "I"} =>
            \/ r.name \in ids /\ r.device \notin devs
            \/ r.name = "K" /\ "K" \notin ids /\ r.device # Nil /\ torn
  BY <1>0, UnblockLeaves, Zenon
<1>2. "I" \in ids /\ ("K" \notin ids => registry["K"] = {})
  BY UnblockIds, Zenon
<1>3. devs = {Nil} \cup UNION {registry[n] : n \in ids}
  BY Zenon DEF unblock_devices
<1> HIDE DEF ids, devs
<1>4. \A x : Known(x) => x \in devs
  BY <1>2, <1>3, Zenon DEF Known
<1> SUFFICES ASSUME NEW r \in rows', r.name \in {"K", "I"}
             PROVE  torn /\ r.device # Nil
  BY Zenon DEF Cleared
<1>5. CASE r.device \notin devs
  BY <1>3, <1>4, <1>1, Zenon DEF Registered
<1> QED BY <1>1, <1>5, Zenon

\* A step on the store of a peer that is not blocked blocks nobody, save the steps
\* of a call that blocks it.
LEMMA LiftedStore ==
    ASSUME Typed, Phases, Unmixed, Accounted, Lifted, StoreStep
    PROVE  Lifted'
<1> DEFINE s == Head(todo)
<1>0. /\ todo \in Seq(Steps) /\ todo # <<>> /\ s = todo[1] /\ 1 \in DOMAIN todo /\ s \in Steps
      /\ s.form \in AllForms /\ s.device \in AnyDevice
  BY DEF Typed, StoreStep, Steps
<1>1. UNCHANGED <<mixed, revealed>> /\ (Onward \/ Restarted)
  BY Zenon DEF StoreStep, Registering, Blocking, Unblocking, ghosts
<1> SUFFICES ASSUME ~mixed PROVE (revealed => Cleared') /\ UnblockFirst'
  BY <1>1, Zenon DEF Lifted
<1>2. ~Mixing(s.form) /\ KeyRows /\ Registered /\ (revealed => Cleared) /\ UnblockFirst
  BY <1>0, Zenon DEF Unmixed, Accounted, Lifted
<1>3. Restarted => UnblockFirst'
  BY DEF Restarted, UnblockFirst
<1>4. Onward => todo' = Tail(todo)
  BY Zenon DEF Onward
<1>5. CASE Registering(s)
  <2>1. resolved_identifiers(raw(s.form)) = {raw(s.form)} /\ raw(s.form) \in {"K", "I"}
    BY <1>0, <1>2, PlainForm, Zenon
  <2>2. Cleared => rows' = rows
    BY <1>5, <2>1, Zenon DEF Registering, Cleared, entry
  <2>3. Cleared => Cleared'
    BY <1>5, <2>2, Zenon DEF Registering, ghosts, Cleared
  <2>4. ~Only(todo, {"unblock", "unhide"})
    BY <1>0, <1>5, Zenon DEF Registering, Only
  <2>5. \A i \in DOMAIN todo : todo[i].op # "unhide"
    BY <2>4, Zenon DEF Phases, Only
  <2>6. Onward => UnblockFirst'
    BY <1>0, <1>4, <2>5, Shifted DEF UnblockFirst
  <2> QED BY <1>1, <1>2, <1>3, <2>3, <2>6, Zenon
<1>6. CASE Blocking(s)
  <2>1. ~Only(todo, {"unblock", "unhide"}) /\ ~Only(todo, {"register"})
    BY <1>0, <1>6, Zenon DEF Blocking, Only
  <2>2. ~revealed /\ \A i \in DOMAIN todo : todo[i].op # "unhide"
    BY <2>1, Zenon DEF Phases, Only
  <2>3. Onward => UnblockFirst'
    BY <1>0, <1>4, <2>2, Shifted DEF UnblockFirst
  <2> QED BY <1>1, <1>3, <2>2, <2>3, Zenon
<1>7. CASE Unblocking(s)
  <2>1. Cleared => Cleared'
    BY <1>7 DEF Unblocking, Cleared
  <2>2. CASE Restarted
    BY <1>2, <1>3, <2>1, <2>2
  <2>3. CASE Onward
    <3>0. /\ todo' = Tail(todo)
          /\ \A i \in DOMAIN todo' :
                /\ i \in Nat /\ i + 1 \in DOMAIN todo /\ todo'[i] = todo[i + 1] /\ (i + 1) - 1 = i
                /\ \A j \in 1..i : j # 1 => j - 1 \in 1..(i - 1) /\ todo'[j - 1] = todo[j]
      BY <1>0, <1>4, <2>3, Shifted, Zenon
    <3>1. ASSUME s.device = Nil, ~Cleared'
          PROVE  torn' = TRUE /\ Restarted
      <4> HIDE DEF s
      <4>1. ~(torn' = torn /\ unblock(s.form, Nil))
        BY <1>0, <1>2, <3>1, UnblockLifts, Zenon
      <4> QED BY <1>7, <3>1, <4>1, Zenon DEF Unblocking
    <3>2. ASSUME ~Cleared', NEW i \in DOMAIN todo', todo'[i].op = "unhide", todo'[i].device = Nil
          PROVE  \E j \in 1..(i - 1) : todo'[j].op = "unblock" /\ todo'[j].device = Nil
      <4>1. s.device # Nil
        <5>1. ~Restarted
          BY DEF Restarted
        <5> HIDE DEF s
        <5> QED BY <3>1, <3>2, <5>1, Zenon
      <4>2. i + 1 \in DOMAIN todo /\ todo[i + 1].op = "unhide" /\ todo[i + 1].device = Nil /\ (i + 1) - 1 = i
        BY <3>0, <3>2, Zenon
      <4>3. PICK j \in 1..i : todo[j].op = "unblock" /\ todo[j].device = Nil
        BY <1>2, <2>1, <3>2, <4>2, Zenon DEF UnblockFirst
      <4>4. j # 1
        BY <4>1, <4>3
      <4> QED BY <3>0, <4>3, <4>4, Zenon
    <3> QED BY <1>2, <2>1, <3>2, Zenon DEF UnblockFirst
  <2> QED BY <1>1, <2>2, <2>3, Zenon
<1> QED BY <1>5, <1>6, <1>7, Zenon DEF StoreStep

\* A message comes back, or goes, only once the peer is unblocked.
LEMMA LiftedFiling ==
    ASSUME Typed, Phases, Lifted, todo # <<>>, Head(todo).op \in {"unhide", "remove"},
           History(Head(todo)), Onward
    PROVE  Lifted'
<1> DEFINE s == Head(todo)
<1>0. UNCHANGED <<rows, mixed, torn>> /\ todo' = Tail(todo) /\ todo \in Seq(Steps)
  BY Zenon DEF History, Onward, Typed
<1> SUFFICES ASSUME ~mixed PROVE (revealed' => Cleared') /\ UnblockFirst'
  BY <1>0, Zenon DEF Lifted
<1>1. (revealed => Cleared) /\ UnblockFirst /\ (Cleared' <=> Cleared)
  BY <1>0, Zenon DEF Lifted, Cleared
<1>2. /\ s = todo[1] /\ 1 \in DOMAIN todo
      /\ \A i \in DOMAIN todo' :
            /\ i \in Nat /\ i + 1 \in DOMAIN todo /\ todo'[i] = todo[i + 1] /\ (i + 1) - 1 = i
            /\ \A j \in 1..i : j # 1 => j - 1 \in 1..(i - 1) /\ todo'[j - 1] = todo[j]
  BY <1>0
<1>3. revealed' => Cleared
  <2>1. revealed' => revealed \/ (s.op = "unhide" /\ s.device = Nil)
    BY Zenon DEF History, Reveals
  <2>2. ~\E j \in 1..(1 - 1) : todo[j].op = "unblock" /\ todo[j].device = Nil
    OBVIOUS
  <2>3. s.op = "unhide" /\ s.device = Nil => Cleared
    BY <1>1, <2>2 DEF UnblockFirst
  <2> QED BY <1>1, <2>1, <2>3, Zenon
<1>4. ASSUME ~Cleared, NEW i \in DOMAIN todo', todo'[i].op = "unhide", todo'[i].device = Nil
      PROVE  \E j \in 1..(i - 1) : todo'[j].op = "unblock" /\ todo'[j].device = Nil
  <2>1. i + 1 \in DOMAIN todo /\ todo[i + 1].op = "unhide" /\ todo[i + 1].device = Nil /\ (i + 1) - 1 = i
    BY <1>2, <1>4, Zenon
  <2>2. PICK j \in 1..i : todo[j].op = "unblock" /\ todo[j].device = Nil
    BY <1>1, <1>4, <2>1, Zenon DEF UnblockFirst
  <2>3. j # 1
    BY <2>2
  <2> QED BY <1>2, <2>2, <2>3, Zenon
<1> QED BY <1>1, <1>3, <1>4, Zenon DEF UnblockFirst

\* unblock_peer begins with the entry of the peer.
LEMMA LiftedCall ==
    ASSUME Typed, Lifted, NEW f \in AllForms,
           \/ \E d \in AnyDevice : BlockPeer(f, d) \/ UnblockPeer(f, d)
           \/ BlockAndDeletePeer(f, Nil)
           \/ \E d \in Devices : LearnDevice(f, d)
    PROVE  Lifted'
<1>0. contact \in [key : Names \cup {Nil}, device : AnyDevice]
  BY Zenon DEF Typed, TypeOK
<1>1. UNCHANGED <<rows, torn>> /\ (~mixed' => ~mixed) /\ (revealed' => revealed)
  <2>1. UNCHANGED <<rows, torn>> /\ mixed' = (mixed \/ Mixing(f)) /\ (revealed' = FALSE \/ revealed' = revealed)
    BY DEF BlockPeer, UnblockPeer, BlockAndDeletePeer, LearnDevice, Call, stores
  <2>2. ~mixed' => ~mixed
    BY <2>1, Zenon
  <2>3. revealed' => revealed
    BY <2>1, Zenon
  <2> QED BY <2>1, <2>2, <2>3, Zenon
<1>2. UnblockFirst'
  <2>1. ASSUME NEW d \in AnyDevice, BlockPeer(f, d)
        PROVE  UnblockFirst'
    <3>1. todo' \in Seq(Doing({"register", "block"}, AnyDevice, f))
      BY <1>0, <2>1, BlockCall, Zenon DEF BlockPeer, Call
    <3> QED BY <3>1, CallOnly DEF UnblockFirst, Only
  <2>2. ASSUME NEW d \in AnyDevice, UnblockPeer(f, d)
        PROVE  UnblockFirst'
    <3>1. todo' \in Seq(Doing({"unblock", "unhide"}, {d}, f)) /\ Len(todo') >= 1 /\ todo'[1].op = "unblock"
      BY <2>2, UnblockCall, Zenon DEF UnblockPeer, Call
    <3>2. 1 \in DOMAIN todo' /\ (\A i \in DOMAIN todo' : todo'[i].device = d) /\ \A i \in DOMAIN todo' : i \in Nat /\ i >= 1
      BY <3>1 DEF Doing
    <3>3. ASSUME NEW i \in DOMAIN todo', todo'[i].op = "unhide", todo'[i].device = Nil
          PROVE  \E j \in 1..(i - 1) : todo'[j].op = "unblock" /\ todo'[j].device = Nil
      BY <3>1, <3>2, <3>3
    <3> QED BY <3>3, Zenon DEF UnblockFirst
  <2>3. ASSUME BlockAndDeletePeer(f, Nil)
        PROVE  UnblockFirst'
    <3>1. todo' \in Seq(Doing({"register", "delete", "remove"}, AnyDevice, f))
      BY <1>0, <2>3, DeleteCall, Zenon DEF BlockAndDeletePeer, Call
    <3> QED BY <3>1, CallOnly DEF UnblockFirst, Only
  <2>4. ASSUME NEW d \in Devices, LearnDevice(f, d)
        PROVE  UnblockFirst'
    BY <2>4 DEF LearnDevice, step, UnblockFirst
  <2> QED BY <2>1, <2>2, <2>3, <2>4, Zenon
<1>3. Cleared' <=> Cleared
  BY <1>1, Zenon DEF Cleared
<1> QED BY <1>1, <1>2, <1>3, Zenon DEF Lifted

\* Every step keeps an unblocked peer unblocked.
LEMMA LiftedNext ==
    ASSUME Typed, Phases, Unmixed, Accounted, Lifted, [Next]_vars
    PROVE  Lifted'
<1>1. CASE \/ UNCHANGED vars
           \/ \E t \in Threads : FileInInbox(t) \/ FileInHistory(t) \/ \E m \in Inbound : Check(t, m)
  <2>1. UNCHANGED <<rows, mixed, torn, todo, revealed>>
    BY <1>1, Zenon DEF vars, FileInInbox, FileInHistory, Check, ghosts, stores
  <2> QED BY <2>1, Zenon DEF Lifted, Cleared, UnblockFirst
<1>2. CASE Restarted /\ UNCHANGED <<rows, registry, history, ghosts>>
  BY <1>2 DEF Restarted, ghosts, Lifted, Cleared, UnblockFirst
<1> QED BY <1>1, <1>2, NextKinds, LiftedCall, LiftedStore, LiftedFiling, Zenon

\* A peer that was unblocked is not blocked, in every state.
LEMMA LiftedAlways == Spec => []Lifted
<1>1. Init => Lifted
  BY DEF Init, Lifted, UnblockFirst
<1>2. Typed /\ Phases /\ Unmixed /\ Accounted /\ Lifted /\ [Next]_vars => Lifted'
  BY LiftedNext, Zenon
<1> QED BY <1>1, <1>2, TypedAlways, PhasesAlways, AccountedAlways, PTL DEF Spec

\* Unblocking the peer leaves no entry that blocks it, nor one that blocks a device
\* of it unless an unblock was cut short by a crash: through every sequence of calls
\* that name it by identity id or tagged public key (unblock, store/blocked.rs).
THEOREM UnblockLasts == Spec => []UnblockClears
<1>1. Lifted => UnblockClears
  <2> SUFFICES ASSUME Lifted, revealed, ~mixed
               PROVE  /\ ~is_blocked_resolved("pk:K", Nil)
                      /\ ~torn => \A d \in Devices : ~is_blocked_resolved("pk:K", d)
    BY Zenon DEF UnblockClears
  <2>1. Cleared /\ resolved_identifiers("pk:K") = {"K", "I"}
    BY Lookups, Zenon DEF Lifted
  <2> QED BY <2>1, Zenon DEF Cleared, is_blocked_resolved, entry
<1> QED BY <1>1, LiftedAlways, PTL
-----------------------------------------------------------------------------
\* What is hidden after the peer was unblocked was past its check before, or its
\* check failed.
Revealed ==
    revealed /\ ~mixed /\ ~torn =>
        /\ \A m \in Inbound : history[m] = "hidden" => m \in spared
        /\ \A t \in Threads : receiving[t] # Nil /\ receiving[t].hidden => receiving[t].msg \in spared

\* The last step of unblock_peer brings back what is filed under the identity id.
LEMMA RevealedFiling ==
    ASSUME Typed, Phases, LastFiled(todo), Revealed, todo # <<>>, Head(todo).op \in {"unhide", "remove"},
           History(Head(todo)), Onward
    PROVE  Revealed'
<1> DEFINE s == Head(todo)
<1>0. UNCHANGED <<mixed, torn, receiving>> /\ todo \in Seq(Steps)
  BY Zenon DEF History, Onward, Typed
<1>1. CASE s.op = "remove"
  <2>1. ~revealed
    BY <1>1, PhasesFiling, Zenon
  <2>2. ~revealed'
    BY <1>1, <2>1, Zenon DEF History, Reveals
  <2> QED BY <2>2, Zenon DEF Revealed
<1>2. CASE s.op = "unhide" /\ s.form = "I"
  BY <1>2, <1>0, Zenon DEF History, InFlight, Revealed
<1>3. CASE s.op = "unhide" /\ s.form # "I"
  <2>1. spared' = spared /\ \A m \in Inbound : history'[m] = history[m]
    BY <1>3, Zenon DEF History
  <2>2. ~Reveals(s)
    <3> SUFFICES ASSUME Tail(todo) = <<>>, ~Mixing(s.form) PROVE FALSE
      BY Zenon DEF Reveals
    <3>1. Len(todo) \in Nat /\ Len(Tail(todo)) = Len(todo) - 1 /\ s = todo[1]
      OBVIOUS
    <3> HIDE DEF s
    <3>2. Len(todo) = 1
      BY <3>1
    <3>3. s = todo[Len(todo)]
      BY <3>1, <3>2, Zenon
    <3> QED BY <1>3, <3>3, Zenon DEF LastFiled
  <2>3. revealed' => revealed
    BY <2>2, Zenon DEF History
  <2> QED BY <1>0, <2>1, <2>3, Zenon DEF Revealed
<1> QED BY <1>1, <1>2, <1>3, Zenon

\* A message that comes in now is not hidden, unless its check fails.
LEMMA RevealedReceive ==
    ASSUME Typed, Lifted, Revealed, NEW t \in Threads,
           FileInInbox(t) \/ FileInHistory(t) \/ \E m \in Inbound : Check(t, m)
    PROVE  Revealed'
<1>0. /\ receiving \in [Threads -> {Nil} \cup [msg : Inbound, inboxed : BOOLEAN, hidden : BOOLEAN]]
      /\ history \in [Inbound -> {Nil, "shown", "hidden"}]
  BY Zenon DEF Typed, TypeOK
<1>1. UNCHANGED <<revealed, mixed, torn>>
  BY Zenon DEF FileInInbox, FileInHistory, Check, ghosts
<1> SUFFICES ASSUME revealed, ~mixed, ~torn
             PROVE  /\ \A m \in Inbound : history'[m] = "hidden" => m \in spared'
                    /\ \A u \in Threads : receiving'[u] # Nil /\ receiving'[u].hidden => receiving'[u].msg \in spared'
  BY <1>1, Zenon DEF Revealed
<1>2. /\ \A m \in Inbound : history[m] = "hidden" => m \in spared
      /\ \A u \in Threads : receiving[u] # Nil /\ receiving[u].hidden => receiving[u].msg \in spared
  BY Zenon DEF Revealed
<1>3. CASE FileInInbox(t)
  BY <1>3, <1>2 DEF FileInInbox, ghosts
<1>4. CASE FileInHistory(t)
  BY <1>4, <1>0, <1>2, Zenon DEF FileInHistory, ghosts
<1>5. ASSUME NEW m \in Inbound, Check(t, m)
      PROVE  /\ \A x \in Inbound : history'[x] = "hidden" => x \in spared'
             /\ \A u \in Threads : receiving'[u] # Nil /\ receiving'[u].hidden => receiving'[u].msg \in spared'
  <2>1. Cleared /\ resolved_identifiers("pk:K") = {"K", "I"}
    BY Lookups, Zenon DEF Lifted
  <2>2. ~is_blocked_resolved("pk:K", sender_device_id)
    BY <2>1, Zenon DEF Cleared, is_blocked_resolved, entry
  <2>3. PICK readable \in BOOLEAN :
            /\ receiving' = [receiving EXCEPT ![t] =
                  [msg |-> m, inboxed |-> FALSE,
                   hidden |-> IF readable THEN is_blocked_resolved("pk:K", sender_device_id)
                              ELSE hidden_if_unreadable]]
            /\ spared' = IF readable THEN spared ELSE spared \cup {m}
    BY <1>5, Zenon DEF Check
  <2>4. history' = history /\ spared \subseteq spared'
    BY <1>5, Zenon DEF Check, stores
  <2>5. \A u \in Threads : u # t => receiving'[u] = receiving[u]
    BY <2>3
  <2>6. receiving'[t].hidden => receiving'[t].msg \in spared'
    BY <1>0, <2>3, <2>2, Zenon
  <2> QED BY <1>2, <2>4, <2>5, <2>6, Zenon
<1> QED BY <1>3, <1>4, <1>5, Zenon

\* Every step keeps its messages shown, save those of the race.
LEMMA RevealedNext ==
    ASSUME Typed, Phases, LastFiled(todo), Lifted, Revealed, [Next]_vars
    PROVE  Revealed'
<1>1. CASE UNCHANGED vars
  BY <1>1, Zenon DEF vars, Revealed
<1>2. ASSUME UNCHANGED <<history, spared>>, revealed' => revealed, ~mixed' => ~mixed, ~torn' => ~torn,
             receiving' = receiving \/ receiving' = [u \in Threads |-> Nil]
      PROVE  Revealed'
  BY <1>2, Zenon DEF Revealed
<1>3. CASE StoreStep
  <2>1. /\ history' = history /\ spared' = spared /\ revealed' = revealed /\ mixed' = mixed
        /\ torn' = torn \/ torn' = TRUE
    BY <1>3, Zenon DEF StoreStep, Registering, Blocking, Unblocking, ghosts
  <2>2. CASE Onward
    BY <1>2, <2>1, <2>2 DEF Onward
  <2>3. CASE Restarted
    BY <1>2, <2>1, <2>3 DEF Restarted
  <2> QED BY <1>3, <2>2, <2>3, Zenon DEF StoreStep
<1>4. CASE Restarted /\ UNCHANGED <<rows, registry, history, ghosts>>
  BY <1>2, <1>4, Zenon DEF Restarted, ghosts
<1>5. ASSUME NEW f \in AllForms,
             \/ \E d \in AnyDevice : BlockPeer(f, d) \/ UnblockPeer(f, d)
             \/ BlockAndDeletePeer(f, Nil)
             \/ \E d \in Devices : LearnDevice(f, d)
      PROVE  Revealed'
  <2>1. /\ UNCHANGED <<history, spared, receiving, torn>> /\ mixed' = (mixed \/ Mixing(f))
        /\ revealed' = FALSE \/ revealed' = revealed
    BY <1>5, Zenon DEF BlockPeer, UnblockPeer, BlockAndDeletePeer, LearnDevice, Call, stores
  <2> QED BY <1>2, <2>1, Zenon
<1> QED BY <1>1, <1>3, <1>4, <1>5, NextKinds, RevealedFiling, RevealedReceive, Zenon

\* After the peer was unblocked, unless an unblock was cut short, a message is
\* hidden only if it was past its check when the hidden ones came back, or if its
\* own check failed (unhide_messages_for_peer, receive_message).
THEOREM UnblockShows == Spec => []UnblockReveals
<1>1. Init => Revealed
  BY Zenon DEF Init, Revealed
<1>2. Typed /\ Phases /\ LastFiled(todo) /\ Lifted /\ Revealed /\ [Next]_vars => Revealed'
  BY RevealedNext
<1>3. Revealed => UnblockReveals
  BY Zenon DEF Revealed, UnblockReveals
<1> QED BY <1>1, <1>2, <1>3, TypedAlways, PhasesAlways, LastAlways, LiftedAlways, PTL DEF Spec
=============================================================================

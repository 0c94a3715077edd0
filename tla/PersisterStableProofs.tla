------------------------ MODULE PersisterStableProofs -----------------------
(***************************************************************************)
(* Proofs that what a Persister reports stable survives the death of the   *)
(* machine (AckedInv, StableSurvives), first about entries that a list     *)
(* holds for a replay, then action by action.                              *)
(*                                                                         *)
(* The place of an entry in the WAL is not known to raft, and a later one  *)
(* may take its place in a replay; so the invariant speaks of all that is  *)
(* written or queued, and says of an entry that nothing behind it there    *)
(* has an index between the snapshot and its own.  Every action either     *)
(* adds at the end, with higher indexes (HoldsAppend), drops entries that  *)
(* raft is about to cut off (HoldsDrop), or replays what is written        *)
(* (HoldsReplayed).                                                        *)
(***************************************************************************)
EXTENDS PersisterProofs

----------------------------------------------------------------------------
\* Holds.

----------------------------------------------------------------------------
\* Where the entries of raft's log are.

\* The entries of a list.
LEMMA EntryAt ==
    ASSUME NEW w \in Seq(Entry)
    PROVE  \A q \in 1 .. Len(w) : w[q] \in Entry /\ w[q].index \in Nat /\ w[q].id \in Nat
  <1>1. \A q \in 1 .. Len(w) : w[q] \in Entry
    OBVIOUS
  <1>2. QED
    BY <1>1 DEF Entry

\* The position that Holds asks for.
LEMMA HoldsAt ==
    ASSUME NEW e, NEW w, NEW n, NEW s, NEW l, l = Len(w), NEW p \in 1 .. n, p <= l, w[p] = e,
           \A q \in p + 1 .. l : w[q].index \notin s + 1 .. e.index
    PROVE  Holds(e, w, n, s)
  BY Zenon DEF Holds

\* More of the list, or a higher snapshot.
LEMMA HoldsWiden ==
    ASSUME NEW e, NEW w \in Seq(Entry), NEW n \in Nat, NEW m \in Nat, NEW s \in Nat, NEW t \in Nat,
           n <= m, s <= t, Holds(e, w, n, s)
    PROVE  Holds(e, w, m, t)
  <1>1. PICK p \in 1 .. n : p <= Len(w) /\ w[p] = e /\ \A q \in p + 1 .. Len(w) : w[q].index \notin s + 1 .. e.index
    BY DEF Holds
  <1>2. \A q \in p + 1 .. Len(w) : w[q].index \notin t + 1 .. e.index
    <2>1. ASSUME NEW q \in p + 1 .. Len(w), w[q].index \in t + 1 .. e.index PROVE FALSE
      <3>1. w[p].index \in Nat
        BY <1>1, EntryAt
      <3>2. w[q].index \in s + 1 .. e.index
        BY <1>1, <2>1, <3>1
      <3>3. QED
        BY <1>1, <3>2
    <2>2. QED
      BY <2>1
  <1>3. p \in 1 .. m
    OBVIOUS
  <1>4. QED
    BY <1>1, <1>2, <1>3 DEF Holds

\* Entries of higher indexes at the end.
LEMMA HoldsAppend ==
    ASSUME NEW e, NEW w \in Seq(Entry), NEW v \in Seq(Entry), NEW n \in Nat, NEW s \in Nat,
           Holds(e, w, n, s), \A k \in 1 .. Len(v) : v[k].index > e.index
    PROVE  Holds(e, w \o v, n, s)
  <1>1. PICK p \in 1 .. n : p <= Len(w) /\ w[p] = e /\ \A q \in p + 1 .. Len(w) : w[q].index \notin s + 1 .. e.index
    BY DEF Holds
  <1>2. PICK x \in Nat, y \in Nat : x = Len(w) /\ y = Len(v)
    OBVIOUS
  <1>3. PICK c \in Seq(Entry) : /\ c = w \o v /\ Len(c) = x + y
                                /\ \A k \in 1 .. x : c[k] = w[k]
                                /\ \A k \in x + 1 .. x + y : c[k] = v[k - x]
    <2>1. /\ w \o v \in Seq(Entry) /\ Len(w \o v) = Len(w) + Len(v)
          /\ \A k \in 1 .. Len(w) : (w \o v)[k] = w[k]
          /\ \A k \in Len(w) + 1 .. Len(w) + Len(v) : (w \o v)[k] = v[k - Len(w)]
      BY ConcatFacts
    <2>2. QED
      BY <1>2, <2>1
  <1>4. p \in 1 .. x /\ c[p] = e
    BY <1>1, <1>2, <1>3
  <1>5. e.index \in Nat
    BY <1>1, <1>2, <1>4, EntryAt
  <1>6. ASSUME NEW q \in p + 1 .. x + y PROVE c[q].index \notin s + 1 .. e.index
    <2>1. CASE q <= x
      <3>1. q \in p + 1 .. x /\ q \in 1 .. x
        BY <1>4, <2>1
      <3>2. QED
        BY <1>1, <1>2, <1>3, <3>1
    <2>2. CASE q > x
      <3>1. PICK i \in 1 .. y : i = q - x
        BY <2>2
      <3>2. q \in x + 1 .. x + y
        BY <2>2
      <3>3. c[q] = v[i] /\ v[i].index > e.index /\ v[i].index \in Nat
        BY <1>2, <1>3, <3>1, <3>2, EntryAt
      <3>4. PICK high \in Nat, low \in Nat : high = v[i].index /\ low = e.index
        BY <1>5, <3>3
      <3>5. high > low
        BY <3>3, <3>4
      <3>6. high \notin s + 1 .. low
        BY <3>5
      <3>7. QED
        BY <3>3, <3>4, <3>6
    <2>3. q <= x \/ q > x
      OBVIOUS
    <2>4. QED
      BY <2>1, <2>2, <2>3, Zenon
  <1>7. Holds(e, c, n, s)
    <2>1. p <= x + y
      BY <1>4
    <2>2. QED
      BY <1>3, <1>4, <1>6, <2>1, HoldsAt, Zenon
  <1>8. QED
    BY <1>3, <1>7

\* Of three lists, the one in the middle goes.
LEMMA HoldsDrop ==
    ASSUME NEW e, NEW a \in Seq(Entry), NEW b \in Seq(Entry), NEW c \in Seq(Entry), NEW n \in Nat, NEW s \in Nat,
           Holds(e, (a \o b) \o c, n, s)
    PROVE  /\ n <= Len(a) => Holds(e, a \o c, n, s)
           /\ Holds(e, a \o c, Len(a \o c), s) \/ \E k \in 1 .. Len(b) : e = b[k]
  <1>1. PICK x \in Nat, y \in Nat, z \in Nat : x = Len(a) /\ y = Len(b) /\ z = Len(c)
    OBVIOUS
  <1>2. PICK d \in Seq(Entry) : /\ d = a \o b /\ Len(d) = x + y
                                /\ \A k \in 1 .. x : d[k] = a[k]
                                /\ \A k \in x + 1 .. x + y : d[k] = b[k - x]
    <2>1. /\ a \o b \in Seq(Entry) /\ Len(a \o b) = Len(a) + Len(b)
          /\ \A k \in 1 .. Len(a) : (a \o b)[k] = a[k]
          /\ \A k \in Len(a) + 1 .. Len(a) + Len(b) : (a \o b)[k] = b[k - Len(a)]
      BY ConcatFacts
    <2>2. QED
      BY <1>1, <2>1
  <1>3. PICK w \in Seq(Entry) : /\ w = d \o c /\ Len(w) = x + y + z
                                /\ \A k \in 1 .. x + y : w[k] = d[k]
                                /\ \A k \in x + y + 1 .. x + y + z : w[k] = c[k - (x + y)]
    <2>1. /\ d \o c \in Seq(Entry) /\ Len(d \o c) = Len(d) + Len(c)
          /\ \A k \in 1 .. Len(d) : (d \o c)[k] = d[k]
          /\ \A k \in Len(d) + 1 .. Len(d) + Len(c) : (d \o c)[k] = c[k - Len(d)]
      BY ConcatFacts
    <2>2. QED
      <3>1. /\ Len(d \o c) = x + y + z
            /\ \A k \in 1 .. x + y : (d \o c)[k] = d[k]
            /\ \A k \in x + y + 1 .. x + y + z : (d \o c)[k] = c[k - (x + y)]
        BY <1>1, <1>2, <2>1
      <3>2. QED
        BY <2>1, <3>1, Zenon
  <1>4. PICK v \in Seq(Entry) : /\ v = a \o c /\ Len(v) = x + z
                                /\ \A k \in 1 .. x : v[k] = a[k]
                                /\ \A k \in x + 1 .. x + z : v[k] = c[k - x]
    <2>1. /\ a \o c \in Seq(Entry) /\ Len(a \o c) = Len(a) + Len(c)
          /\ \A k \in 1 .. Len(a) : (a \o c)[k] = a[k]
          /\ \A k \in Len(a) + 1 .. Len(a) + Len(c) : (a \o c)[k] = c[k - Len(a)]
      BY ConcatFacts
    <2>2. QED
      BY <1>1, <2>1
  <1>5. \A k \in 1 .. x : v[k] = w[k]
    <2>1. \A k \in 1 .. x : k \in 1 .. x + y
      OBVIOUS
    <2>2. QED
      BY <1>2, <1>3, <1>4, <2>1
  <1>6. \A k \in x + 1 .. x + z : k + y \in x + y + 1 .. x + y + z /\ v[k] = w[k + y]
    <2>1. ASSUME NEW k \in x + 1 .. x + z PROVE k + y \in x + y + 1 .. x + y + z /\ v[k] = w[k + y]
      <3>1. k + y \in x + y + 1 .. x + y + z /\ (k + y) - (x + y) = k - x
        OBVIOUS
      <3>2. QED
        BY <1>3, <1>4, <3>1
    <2>2. QED
      BY <2>1
  <1>7. PICK p \in 1 .. n : /\ p <= x + y + z /\ w[p] = e
                            /\ \A q \in p + 1 .. x + y + z : w[q].index \notin s + 1 .. e.index
    <2>1. Holds(e, w, n, s)
      BY <1>2, <1>3
    <2>2. QED
      BY <1>3, <2>1 DEF Holds
  <1>8. CASE p <= x
    <2>1. p \in 1 .. x /\ v[p] = e
      BY <1>5, <1>7, <1>8
    <2>2. ASSUME NEW q \in p + 1 .. x + z PROVE v[q].index \notin s + 1 .. e.index
      <3>1. CASE q <= x
        <4>1. q \in 1 .. x /\ q \in p + 1 .. x + y + z
          BY <2>1, <3>1
        <4>2. QED
          BY <1>5, <1>7, <4>1
      <3>2. CASE q > x
        <4>1. q \in x + 1 .. x + z
          BY <3>2
        <4>2. q + y \in p + 1 .. x + y + z
          BY <1>8, <4>1
        <4>3. QED
          BY <1>6, <1>7, <4>1, <4>2
      <3>3. q <= x \/ q > x
        OBVIOUS
      <3>4. QED
        BY <3>1, <3>2, <3>3, Zenon
    <2>3. p \in 1 .. x + z
      BY <2>1
    <2>6. p <= x + z /\ p \in 1 .. Len(v) /\ x + z = Len(v)
      BY <1>4, <2>3
    <2>4. Holds(e, v, n, s) /\ Holds(e, v, Len(v), s)
      BY <2>1, <2>2, <2>6, HoldsAt, Zenon
    <2>5. QED
      BY <1>4, <2>4
  <1>9. CASE p > x
    <2>1. ~(n <= Len(a))
      BY <1>1, <1>9
    <2>2. CASE p <= x + y
      <3>1. PICK i \in 1 .. y : i = p - x
        BY <1>9, <2>2
      <3>2. p \in x + 1 .. x + y /\ p \in 1 .. x + y
        BY <1>9, <2>2
      <3>3. e = b[i]
        BY <1>2, <1>3, <1>7, <3>1, <3>2
      <3>4. QED
        BY <1>1, <2>1, <3>1, <3>3
    <2>3. CASE p > x + y
      <3>1. PICK k \in x + 1 .. x + z : k + y = p
        <4>1. p - y \in x + 1 .. x + z /\ (p - y) + y = p
          BY <1>7, <2>3
        <4>2. QED
          BY <4>1
      <3>2. v[k] = e
        BY <1>6, <1>7, <3>1
      <3>3. ASSUME NEW q \in k + 1 .. x + z PROVE v[q].index \notin s + 1 .. e.index
        <4>1. q \in x + 1 .. x + z /\ q + y \in p + 1 .. x + y + z
          BY <3>1
        <4>2. QED
          BY <1>6, <1>7, <4>1
      <3>4. Holds(e, v, Len(v), s)
        <4>1. k <= x + z /\ k \in 1 .. Len(v) /\ x + z = Len(v)
          BY <1>4
        <4>2. QED
          BY <3>2, <3>3, <4>1, HoldsAt, Zenon
      <3>5. QED
        BY <1>4, <2>1, <3>4
    <2>4. p <= x + y \/ p > x + y
      OBVIOUS
    <2>5. QED
      BY <2>2, <2>3, <2>4, Zenon
  <1>10. p <= x \/ p > x
    OBVIOUS
  <1>11. QED
    BY <1>8, <1>9, <1>10, Zenon

\* The first n entries are all that is left.
LEMMA HoldsPrefix ==
    ASSUME NEW e, NEW a \in Seq(Entry), NEW c \in Seq(Entry), NEW n \in Nat, NEW s \in Nat, n <= Len(a),
           Holds(e, a \o c, n, s)
    PROVE  Holds(e, SubSeq(a, 1, n), n, s)
  <1>1. PICK x \in Nat, z \in Nat : x = Len(a) /\ z = Len(c) /\ n <= x
    OBVIOUS
  <1>2. PICK w \in Seq(Entry) : w = a \o c /\ Len(w) = x + z /\ \A k \in 1 .. x : w[k] = a[k]
    <2>1. /\ a \o c \in Seq(Entry) /\ Len(a \o c) = Len(a) + Len(c)
          /\ \A k \in 1 .. Len(a) : (a \o c)[k] = a[k]
      BY ConcatFacts
    <2>2. QED
      BY <1>1, <2>1
  <1>3. PICK v \in Seq(Entry) : v = SubSeq(a, 1, n) /\ Len(v) = n /\ \A k \in 1 .. n : v[k] = a[k]
    <2>1. SubSeq(a, 1, n) \in Seq(Entry) /\ Len(SubSeq(a, 1, n)) = n /\ \A k \in 1 .. n : SubSeq(a, 1, n)[k] = a[k]
      BY <1>1
    <2>2. QED
      BY <2>1
  <1>4. PICK p \in 1 .. n : w[p] = e /\ \A q \in p + 1 .. x + z : w[q].index \notin s + 1 .. e.index
    <2>1. Holds(e, w, n, s)
      BY <1>2
    <2>2. QED
      BY <1>2, <2>1 DEF Holds
  <1>5. \A q \in 1 .. n : v[q] = w[q]
    BY <1>1, <1>2, <1>3
  <1>6. \A q \in p + 1 .. n : q \in 1 .. n /\ q \in p + 1 .. x + z
    BY <1>1
  <1>7. ASSUME NEW q \in p + 1 .. n PROVE v[q].index \notin s + 1 .. e.index
    <2>1. q \in 1 .. n /\ q \in p + 1 .. x + z
      BY <1>6
    <2>2. v[q] = w[q]
      BY <1>5, <2>1
    <2>3. QED
      BY <1>4, <2>1, <2>2
  <1>9. Holds(e, v, n, s)
    <2>1. v[p] = e /\ p <= n /\ n = Len(v)
      BY <1>3, <1>4, <1>5
    <2>2. QED
      BY <1>7, <2>1, HoldsAt, Zenon
  <1>8. QED
    BY <1>3, <1>9

\* What comes first in raft's log comes first in the list.
LEMMA HoldsBefore ==
    ASSUME NEW e, NEW f, NEW w \in Seq(Entry), NEW n \in Nat, NEW m \in Nat, NEW s \in Nat,
           Holds(f, w, n, s), Holds(e, w, m, s), s < e.index, e.index <= f.index
    PROVE  Holds(e, w, n, s)
  <1>1. PICK p \in 1 .. n : p <= Len(w) /\ w[p] = f /\ \A q \in p + 1 .. Len(w) : w[q].index \notin s + 1 .. f.index
    BY DEF Holds
  <1>2. PICK o \in 1 .. m : o <= Len(w) /\ w[o] = e /\ \A q \in o + 1 .. Len(w) : w[q].index \notin s + 1 .. e.index
    BY DEF Holds
  <1>3. Len(w) \in Nat /\ o \in 1 .. Len(w) /\ p \in 1 .. Len(w)
    BY <1>1, <1>2
  <1>4. e.index \in Nat /\ f.index \in Nat
    BY <1>1, <1>2, <1>3, EntryAt
  <1>5. e.index \in s + 1 .. f.index
    BY <1>4
  <1>6. o <= p
    <2>1. SUFFICES ASSUME o > p PROVE FALSE
      BY <1>3
    <2>2. o \in p + 1 .. Len(w)
      BY <1>3, <2>1
    <2>3. QED
      BY <1>1, <1>2, <1>5, <2>2
  <1>7. o \in 1 .. n
    BY <1>3, <1>6
  <1>8. QED
    BY <1>2, <1>7 DEF Holds

----------------------------------------------------------------------------
\* Holds and the replay.

----------------------------------------------------------------------------
\* What is replayed of entries that Holds speaks of.

\* One turn of the loop: the entry comes to its place, behind those that were there, or nothing changes.
Turned(new, old, e, pos) ==
    /\ pos \in 1 .. Len(old) + 1 => /\ Len(new) = pos /\ new[pos] = e
                                    /\ \A k \in 1 .. pos - 1 : new[k] = old[k]
    /\ pos \notin 1 .. Len(old) + 1 => new = old

\* One turn of the replay.
LEMMA TurnFacts ==
    ASSUME NEW old \in Seq(Entry), NEW e \in Entry, NEW s \in Nat
    PROVE  ReplayEntry(old, e, s) \in Seq(Entry) /\ Turned(ReplayEntry(old, e, s), old, e, e.index - s)
  <1>0. PICK pos \in Int : pos = e.index - s
    BY DEF Entry
  <1>1. PICK x \in Nat : x = Len(old)
    OBVIOUS
  <1>2. CASE pos \in 1 .. x + 1
    <2>1. PICK f \in Seq(Entry) : f = SubSeq(old, 1, pos - 1) /\ Len(f) = pos - 1 /\ \A k \in 1 .. pos - 1 : f[k] = old[k]
      <3>1. /\ SubSeq(old, 1, pos - 1) \in Seq(Entry) /\ Len(SubSeq(old, 1, pos - 1)) = pos - 1
            /\ \A k \in 1 .. pos - 1 : SubSeq(old, 1, pos - 1)[k] = old[k]
        BY <1>1, <1>2
      <3>2. QED
        BY <3>1
    <2>2. ReplayEntry(old, e, s) = Append(f, e)
      BY <1>0, <1>1, <1>2, <2>1 DEF ReplayEntry
    <2>3. PICK g : g = Append(f, e)
      OBVIOUS
    <2>4. g \in Seq(Entry) /\ Len(g) = pos /\ g[pos] = e /\ \A k \in 1 .. pos - 1 : g[k] = old[k]
      BY <1>2, <2>1, <2>3
    <2>5. QED
      BY <1>0, <1>1, <1>2, <2>2, <2>3, <2>4 DEF Turned
  <1>3. CASE pos \notin 1 .. x + 1
    <2>1. ReplayEntry(old, e, s) = old
      BY <1>0, <1>1, <1>3 DEF ReplayEntry
    <2>2. QED
      BY <1>0, <1>1, <1>3, <2>1 DEF Turned
  <1>4. QED
    BY <1>2, <1>3

\* The logs after the turns.
LEMMA TurnsFacts ==
    ASSUME NEW w \in Seq(Entry), NEW s \in Nat
    PROVE  \E t : /\ t[0] = <<>> /\ ReadPersistedLogs(w, s) = t[Len(w)]
                  /\ \A m \in 0 .. Len(w) : t[m] \in Seq(Entry)
                  /\ \A m \in 1 .. Len(w) : Turned(t[m], t[m - 1], w[m], w[m].index - s)
  <1>1. PICK r : r = ReplayTurns(w, s)
    OBVIOUS
  <1>2. r = [k \in 0 .. Len(w) |-> IF k = 0 THEN <<>> ELSE ReplayEntry(r[k - 1], w[k], s)]
    BY <1>1, ReplayUnfolds
  <1>3. r[0] = <<>> /\ \A m \in 1 .. Len(w) : r[m] = ReplayEntry(r[m - 1], w[m], s)
    BY <1>2
  <1>4. \A m \in 0 .. Len(w) : r[m] \in Seq(Entry)
    <2> DEFINE T == {m \in 0 .. Len(w) : r[m] \in Seq(Entry)}
    <2>5. Len(w) \in Nat /\ 0 \in 0 .. Len(w) /\ <<>> \in Seq(Entry)
      OBVIOUS
    <2>1. 0 \in T
      BY <1>3, <2>5, Zenon
    <2>2. ASSUME NEW m \in 1 .. Len(w), m - 1 \in T PROVE m \in T
      <3>1. r[m - 1] \in Seq(Entry) /\ w[m] \in Entry
        BY <2>2
      <3>2. ReplayEntry(r[m - 1], w[m], s) \in Seq(Entry)
        BY <3>1, TurnFacts
      <3>3. QED
        BY <1>3, <3>2
    <2> HIDE DEF T
    <2>3. \A m \in 0 .. Len(w) : m \in T
      BY <2>1, <2>2, <2>5, UpTo, Zenon
    <2>4. QED
      BY <2>3 DEF T
  <1>5. \A m \in 1 .. Len(w) : Turned(r[m], r[m - 1], w[m], w[m].index - s)
    <2>1. ASSUME NEW m \in 1 .. Len(w) PROVE Turned(r[m], r[m - 1], w[m], w[m].index - s)
      <3>1. r[m - 1] \in Seq(Entry) /\ w[m] \in Entry
        BY <1>4
      <3>2. Turned(ReplayEntry(r[m - 1], w[m], s), r[m - 1], w[m], w[m].index - s)
        BY <3>1, TurnFacts
      <3>3. QED
        BY <1>3, <3>2
    <2>2. QED
      BY <2>1
  <1>6. ReadPersistedLogs(w, s) = r[Len(w)]
    BY <1>1 DEF ReadPersistedLogs
  <1>7. QED
    BY <1>3, <1>4, <1>5, <1>6, Zenon

\* The first n of the entries es follow snapshot s, and w holds them.
HoldsFirst(es, n, w, s) == \A j \in 1 .. n : es[j].index = s + j /\ Holds(es[j], w, Len(w), s)

\* A log begins with the first n of the entries es.
StartsWith(log, es, n) == n <= Len(log) /\ \A j \in 1 .. n : log[j] = es[j]

\* Entries that follow the snapshot and that the list holds are replayed.
LEMMA ReplayHas ==
    ASSUME NEW w \in Seq(Entry), NEW s \in Nat, NEW es \in Seq(Entry), NEW n \in Nat, n <= Len(es),
           HoldsFirst(es, n, w, s)
    PROVE  StartsWith(ReadPersistedLogs(w, s), es, n)
  <1>a. \A j \in 1 .. n : es[j].index = s + j /\ Holds(es[j], w, Len(w), s)
    BY DEF HoldsFirst
  <1>1. PICK t : /\ t[0] = <<>> /\ ReadPersistedLogs(w, s) = t[Len(w)]
                 /\ \A m \in 0 .. Len(w) : t[m] \in Seq(Entry)
                 /\ \A m \in 1 .. Len(w) : Turned(t[m], t[m - 1], w[m], w[m].index - s)
    BY TurnsFacts
  <1>0. PICK l \in Nat : l = Len(w)
    OBVIOUS
  <1> DEFINE Good(m) == \A j \in 1 .. n : Holds(es[j], w, m, s) => j \in 1 .. Len(t[m]) /\ t[m][j] = es[j]
             T == {m \in 0 .. l : Good(m)}
  <1>2. 0 \in T
    BY DEF Holds
  <1>3. ASSUME NEW m \in 1 .. l, m - 1 \in T PROVE m \in T
    <2>1. Good(m - 1)
      BY <1>3
    <2>0. w[m].index - s \in Int /\ t[m - 1] \in Seq(Entry) /\ t[m] \in Seq(Entry)
      <3>1. m \in 1 .. Len(w) /\ m \in 0 .. Len(w) /\ m - 1 \in 0 .. Len(w)
        BY <1>0
      <3>2. w[m].index \in Nat
        BY <3>1, EntryAt
      <3>3. QED
        BY <1>1, <3>1, <3>2
    <2>7. PICK old \in Seq(Entry), new \in Seq(Entry), x \in Nat, pos \in Int :
              old = t[m - 1] /\ new = t[m] /\ x = Len(old) /\ pos = w[m].index - s
      BY <2>0
    <2>8. Turned(t[m], t[m - 1], w[m], w[m].index - s)
      BY <1>0, <1>1
    <2>2. /\ old = t[m - 1] /\ new = t[m] /\ x = Len(old) /\ pos = w[m].index - s
          /\ pos \in 1 .. x + 1 => /\ Len(new) = pos /\ new[pos] = w[m]
                                   /\ \A k \in 1 .. pos - 1 : new[k] = old[k]
          /\ pos \notin 1 .. x + 1 => new = old
      BY <2>7, <2>8 DEF Turned
    <2>3. w[m].index \in Nat
      BY <1>0, EntryAt
    <2>4. ASSUME NEW j \in 1 .. n, Holds(es[j], w, m, s) PROVE j \in 1 .. Len(new) /\ new[j] = es[j]
      <3>1. es[j].index = s + j
        BY <1>a
      <3>2. PICK p \in 1 .. m : w[p] = es[j] /\ \A q \in p + 1 .. l : w[q].index \notin s + 1 .. s + j
        <4>1. PICK p \in 1 .. m : w[p] = es[j] /\ \A q \in p + 1 .. Len(w) : w[q].index \notin s + 1 .. es[j].index
          BY <2>4, Zenon DEF Holds
        <4>2. QED
          BY <1>0, <3>1, <4>1, Zenon
      <3>3. CASE p # m
        <4>1. p \in 1 .. m - 1
          BY <3>3
        <4>2. Holds(es[j], w, m - 1, s)
          <5>1. \A q \in p + 1 .. l : w[q].index \notin s + 1 .. es[j].index
            BY <3>1, <3>2
          <5>2. p <= l
            BY <4>1
          <5>3. QED
            BY <1>0, <3>2, <4>1, <5>1, <5>2, HoldsAt, Zenon
        <4>3. j \in 1 .. x /\ old[j] = es[j]
          BY <2>1, <2>2, <4>2
        <4>4. pos \notin 1 .. j
          <5>1. w[m].index \notin s + 1 .. s + j
            BY <3>2, <4>1
          <5>2. \A a \in Nat : a \notin s + 1 .. s + j => a - s \notin 1 .. j
            OBVIOUS
          <5>3. QED
            BY <2>2, <2>3, <5>1, <5>2
        <4>5. CASE pos \in 1 .. x + 1
          <5>1. j \in 1 .. pos - 1 /\ pos \in Nat
            BY <4>3, <4>4, <4>5
          <5>2. QED
            <6>1. Len(new) = pos /\ new[j] = old[j]
              BY <2>2, <4>5, <5>1
            <6>2. QED
              BY <4>3, <5>1, <6>1
        <4>6. CASE pos \notin 1 .. x + 1
          BY <2>2, <4>3, <4>6
        <4>7. QED
          BY <4>5, <4>6
      <3>4. CASE p = m
        <4>1. pos = j
          BY <2>2, <3>1, <3>2, <3>4
        <4>2. j <= x + 1
          <5>1. CASE j = 1
            BY <5>1
          <5>2. CASE j # 1
            <6>1. PICK i \in 1 .. n : i = j - 1
              BY <5>2
            <6>2. es[i].index = s + i /\ Holds(es[i], w, Len(w), s)
              BY <1>a
            <6>3. s < es[i].index /\ es[i].index <= es[j].index /\ Len(w) \in Nat /\ m \in Nat
              BY <3>1, <6>1, <6>2
            <6>4. Holds(es[i], w, m, s)
              BY <2>4, <6>2, <6>3, HoldsBefore
            <6>5. PICK o \in 1 .. m : o <= Len(w) /\ w[o] = es[i] /\ \A q \in o + 1 .. Len(w) : w[q].index \notin s + 1 .. es[i].index
              BY <6>4 DEF Holds
            <6>6. o # m
              BY <3>1, <3>2, <3>4, <6>1, <6>2, <6>5
            <6>7. o \in 1 .. m - 1
              BY <6>6
            <6>8. Holds(es[i], w, m - 1, s)
              BY <6>5, <6>7 DEF Holds
            <6>9. i \in 1 .. x
              BY <2>1, <2>2, <6>8
            <6>10. QED
              BY <6>1, <6>9
          <5>3. QED
            BY <5>1, <5>2
        <4>3. pos \in 1 .. x + 1
          BY <4>1, <4>2
        <4>4. QED
          <5>1. Len(new) = pos /\ new[pos] = w[m]
            BY <2>2, <4>3
          <5>2. Len(new) = j /\ new[j] = es[j] /\ j \in 1 .. j
            BY <3>2, <3>4, <4>1, <5>1
          <5>3. QED
            BY <5>2
      <3>5. QED
        BY <3>3, <3>4
    <2>5. Good(m)
      BY <2>2, <2>4
    <2> HIDE DEF Good
    <2>6. QED
      BY <2>5
  <1>4. Good(l)
    <2> HIDE DEF Good
    <2>1. 0 \in T /\ \A k \in 1 .. l : k - 1 \in T => k \in T
      BY <1>2, <1>3
    <2>2. \A k \in 0 .. l : k \in T
      <3> HIDE DEF T
      <3>1. QED
        BY <2>1, UpTo
    <2>3. QED
      BY <2>2
  <1>5. \A j \in 1 .. n : j \in 1 .. Len(t[l]) /\ t[l][j] = es[j]
    BY <1>0, <1>4, <1>a
  <1>6. n <= Len(t[l])
    <2>1. Len(t[l]) \in Nat
      BY <1>0, <1>1
    <2>2. n >= 1 => n \in 1 .. n
      OBVIOUS
    <2>3. QED
      BY <1>5, <2>1, <2>2
  <1>7. QED
    BY <1>0, <1>1, <1>5, <1>6 DEF StartsWith

\* Every entry that is replayed is one that the list holds.
LEMMA ReplayKept ==
    ASSUME NEW w \in Seq(Entry), NEW s \in Nat
    PROVE  /\ ReadPersistedLogs(w, s) \in Seq(Entry)
           /\ \A j \in 1 .. Len(ReadPersistedLogs(w, s)) :
                  /\ ReadPersistedLogs(w, s)[j].index = s + j
                  /\ Holds(ReadPersistedLogs(w, s)[j], w, Len(w), s)
  <1>1. PICK t : /\ t[0] = <<>> /\ ReadPersistedLogs(w, s) = t[Len(w)]
                 /\ \A m \in 0 .. Len(w) : t[m] \in Seq(Entry)
                 /\ \A m \in 1 .. Len(w) : Turned(t[m], t[m - 1], w[m], w[m].index - s)
    BY TurnsFacts
  <1>0. PICK l \in Nat : l = Len(w)
    OBVIOUS
  <1> DEFINE At(m, f, j) == f.index = s + j /\ \E p \in 1 .. m : w[p] = f /\ \A q \in p + 1 .. m : w[q].index \notin s + 1 .. s + j
             Good(m) == \A j \in 1 .. Len(t[m]) : At(m, t[m][j], j)
             T == {m \in 0 .. l : Good(m)}
  <1>2. 0 \in T
    BY <1>1
  <1>3. ASSUME NEW m \in 1 .. l, m - 1 \in T PROVE m \in T
    <2>1. Good(m - 1)
      BY <1>3
    <2>0. w[m].index - s \in Int /\ w[m].index \in Nat /\ t[m - 1] \in Seq(Entry) /\ t[m] \in Seq(Entry)
      <3>1. m \in 1 .. Len(w) /\ m \in 0 .. Len(w) /\ m - 1 \in 0 .. Len(w)
        BY <1>0
      <3>2. w[m].index \in Nat
        BY <3>1, EntryAt
      <3>3. QED
        BY <1>1, <3>1, <3>2
    <2>7. PICK old \in Seq(Entry), new \in Seq(Entry), x \in Nat, pos \in Int :
              old = t[m - 1] /\ new = t[m] /\ x = Len(old) /\ pos = w[m].index - s
      BY <2>0
    <2>8. Turned(t[m], t[m - 1], w[m], w[m].index - s)
      BY <1>0, <1>1
    <2>2. /\ old = t[m - 1] /\ new = t[m] /\ x = Len(old) /\ pos = w[m].index - s
          /\ pos \in 1 .. x + 1 => /\ Len(new) = pos /\ new[pos] = w[m]
                                   /\ \A k \in 1 .. pos - 1 : new[k] = old[k]
          /\ pos \notin 1 .. x + 1 => new = old
      BY <2>7, <2>8 DEF Turned
    <2>3. \A j \in 1 .. x : At(m - 1, old[j], j)
      BY <2>1, <2>2
    <2>4. ASSUME NEW j \in 1 .. x, pos \notin 1 .. j PROVE At(m, old[j], j)
      <3>1. PICK p \in 1 .. m - 1 : old[j].index = s + j /\ w[p] = old[j] /\ \A q \in p + 1 .. m - 1 : w[q].index \notin s + 1 .. s + j
        BY <2>3
      <3>2. w[m].index \notin s + 1 .. s + j
        BY <2>0, <2>2, <2>4
      <3>3. \A q \in p + 1 .. m : w[q].index \notin s + 1 .. s + j
        <4>1. ASSUME NEW q \in p + 1 .. m PROVE w[q].index \notin s + 1 .. s + j
          <5>1. q = m \/ q \in p + 1 .. m - 1
            OBVIOUS
          <5>2. QED
            BY <3>1, <3>2, <5>1, Zenon
        <4>2. QED
          BY <4>1
      <3>4. p \in 1 .. m
        OBVIOUS
      <3>5. QED
        BY <3>1, <3>3, <3>4, Zenon
    <2>5. CASE pos \in 1 .. x + 1
      <3>1. Len(new) = pos /\ new[pos] = w[m] /\ \A k \in 1 .. pos - 1 : new[k] = old[k]
        BY <2>2, <2>5
      <3>2. At(m, new[pos], pos)
        <4>1. w[m].index = s + pos
          BY <2>0, <2>2
        <4>2. m \in 1 .. m /\ \A q \in m + 1 .. m : FALSE
          OBVIOUS
        <4>3. QED
          BY <3>1, <4>1, <4>2, Zenon
      <3>3. ASSUME NEW j \in 1 .. pos - 1 PROVE At(m, new[j], j)
        <4>1. j \in 1 .. x /\ pos \notin 1 .. j
          BY <2>5
        <4>2. At(m, old[j], j)
          BY <2>4, <4>1
        <4>3. new[j] = old[j]
          BY <3>1
        <4> HIDE DEF At
        <4>4. QED
          BY <4>2, <4>3
      <3>4. \A j \in 1 .. Len(new) : j = pos \/ j \in 1 .. pos - 1
        BY <3>1
      <3> HIDE DEF At
      <3>5. \A j \in 1 .. Len(new) : At(m, new[j], j)
        BY <3>2, <3>3, <3>4, Zenon
      <3>6. Good(m) /\ m \in 0 .. l
        BY <2>2, <3>5
      <3> HIDE DEF Good
      <3>7. QED
        BY <3>6
    <2>6. CASE pos \notin 1 .. x + 1
      <3>1. new = old
        BY <2>2, <2>6
      <3>2. \A j \in 1 .. x : pos \notin 1 .. j
        BY <2>6
      <3>3. \A j \in 1 .. Len(new) : At(m, new[j], j)
        <4> HIDE DEF At
        <4>1. QED
          BY <2>2, <2>4, <3>1, <3>2
      <3>4. QED
        BY <2>2, <3>3
    <2>9. QED
      BY <2>5, <2>6
  <1>4. Good(l)
    <2> HIDE DEF Good
    <2>1. 0 \in T /\ \A k \in 1 .. l : k - 1 \in T => k \in T
      BY <1>2, <1>3
    <2>2. \A k \in 0 .. l : k \in T
      <3> HIDE DEF T
      <3>1. QED
        BY <2>1, UpTo
    <2>3. QED
      BY <2>2
  <1>5. PICK R \in Seq(Entry) : R = ReadPersistedLogs(w, s) /\ R = t[l]
    BY <1>0, <1>1
  <1>6. ASSUME NEW j \in 1 .. Len(R) PROVE R[j].index = s + j /\ Holds(R[j], w, Len(w), s)
    <2>1. PICK p \in 1 .. l : R[j].index = s + j /\ w[p] = R[j] /\ \A q \in p + 1 .. l : w[q].index \notin s + 1 .. s + j
      BY <1>4, <1>5
    <2>2. p <= l /\ \A q \in p + 1 .. l : w[q].index \notin s + 1 .. R[j].index
      BY <2>1
    <2>3. QED
      BY <1>0, <2>1, <2>2, HoldsAt, Zenon
  <1>7. QED
    BY <1>5, <1>6

\* Entries that follow the snapshot stay held when what was written is replaced by its replay.
LEMMA HoldsReplayed ==
    ASSUME NEW w \in Seq(Entry), NEW u \in Seq(Entry), NEW s \in Nat, NEW es \in Seq(Entry),
           \A j \in 1 .. Len(es) : es[j].index = s + j /\ Holds(es[j], w \o u, Len(w \o u), s),
           NEW R, R = ReadPersistedLogs(w, s), NEW j \in 1 .. Len(es)
    PROVE  /\ R \in Seq(Entry) /\ R \o u \in Seq(Entry)
           /\ Holds(es[j], R \o u, Len(R \o u), s)
           /\ Holds(es[j], w \o u, Len(w), s) => Holds(es[j], R \o u, Len(R), s)
  <1>1. R \in Seq(Entry) /\ \A k \in 1 .. Len(R) : R[k].index = s + k
    BY ReplayKept
  <1>2. PICK x \in Nat, y \in Nat, z \in Nat : x = Len(w) /\ y = Len(u) /\ z = Len(R)
    BY <1>1
  <1>3. PICK a \in Seq(Entry) : /\ a = w \o u /\ Len(a) = x + y
                                /\ \A k \in 1 .. x : a[k] = w[k]
                                /\ \A k \in x + 1 .. x + y : a[k] = u[k - x]
    <2>1. /\ w \o u \in Seq(Entry) /\ Len(w \o u) = Len(w) + Len(u)
          /\ \A k \in 1 .. Len(w) : (w \o u)[k] = w[k]
          /\ \A k \in Len(w) + 1 .. Len(w) + Len(u) : (w \o u)[k] = u[k - Len(w)]
      BY ConcatFacts
    <2>2. QED
      BY <1>2, <2>1
  <1>4. PICK b \in Seq(Entry) : /\ b = R \o u /\ Len(b) = z + y
                                /\ \A k \in 1 .. z : b[k] = R[k]
                                /\ \A k \in z + 1 .. z + y : b[k] = u[k - z]
    <2>1. /\ R \o u \in Seq(Entry) /\ Len(R \o u) = Len(R) + Len(u)
          /\ \A k \in 1 .. Len(R) : (R \o u)[k] = R[k]
          /\ \A k \in Len(R) + 1 .. Len(R) + Len(u) : (R \o u)[k] = u[k - Len(R)]
      BY <1>1, ConcatFacts
    <2>2. QED
      BY <1>2, <2>1
  <1>5. \A k \in 1 .. z : b[k].index = s + k
    BY <1>1, <1>2, <1>4
  <1>6. es[j].index = s + j
    OBVIOUS
  <1>7. ASSUME Holds(es[j], a, x, s) PROVE Holds(es[j], b, z, s) /\ Holds(es[j], b, Len(b), s)
    <2>1. ASSUME NEW i \in 1 .. j PROVE es[i].index = s + i /\ Holds(es[i], w, Len(w), s)
      <3>1. i \in 1 .. Len(es)
        OBVIOUS
      <3>2. es[i].index = s + i /\ Holds(es[i], a, Len(a), s)
        BY <1>3, <3>1
      <3>3. Len(a) \in Nat /\ s < es[i].index /\ es[i].index <= es[j].index
        BY <1>6, <3>2
      <3>4. Holds(es[i], a, x, s)
        BY <1>7, <3>2, <3>3, HoldsBefore
      <3>5. Holds(es[i], SubSeq(w, 1, x), x, s)
        <4>1. Holds(es[i], w \o u, x, s) /\ x <= Len(w)
          BY <1>2, <1>3, <3>4
        <4>2. QED
          BY <4>1, HoldsPrefix
      <3>6. SubSeq(w, 1, x) = w
        BY <1>2, HeadsOf
      <3>7. QED
        BY <1>2, <3>2, <3>5, <3>6
    <2>2. j \in Nat /\ j <= Len(es) /\ j \in 1 .. j
      OBVIOUS
    <2>3. \A i \in 1 .. j : i \in 1 .. Len(ReadPersistedLogs(w, s)) /\ ReadPersistedLogs(w, s)[i] = es[i]
      <3>1. HoldsFirst(es, j, w, s)
        BY <2>1 DEF HoldsFirst
      <3>2. StartsWith(ReadPersistedLogs(w, s), es, j)
        BY <2>2, <3>1, ReplayHas
      <3>3. QED
        BY <1>2, <2>2, <3>2 DEF StartsWith
    <2>4. j \in 1 .. z /\ b[j] = es[j]
      BY <1>2, <1>4, <2>2, <2>3
    <2>5. ASSUME NEW q \in j + 1 .. z + y PROVE b[q].index \notin s + 1 .. es[j].index
      <3>1. CASE q <= z
        <4>1. q \in 1 .. z /\ q > j
          BY <3>1
        <4>2. b[q].index = s + q
          BY <1>5, <4>1
        <4>3. QED
          BY <1>6, <4>1, <4>2
      <3>2. CASE q > z
        <4>1. q \in z + 1 .. z + y /\ (q - z) + x \in x + 1 .. x + y /\ ((q - z) + x) - x = q - z
          BY <3>2
        <4>2. b[q] = a[(q - z) + x]
          <5>1. b[q] = u[q - z]
            BY <1>4, <4>1
          <5>2. a[(q - z) + x] = u[q - z]
            <6>1. a[(q - z) + x] = u[((q - z) + x) - x]
              BY <1>3, <4>1, Zenon
            <6>2. QED
              BY <4>1, <6>1, Zenon
          <5>3. QED
            BY <5>1, <5>2
        <4>3. PICK p \in 1 .. x : a[p] = es[j] /\ \A r \in p + 1 .. Len(a) : a[r].index \notin s + 1 .. es[j].index
          BY <1>7 DEF Holds
        <4>4. (q - z) + x \in p + 1 .. Len(a)
          <5>1. Len(a) = x + y
            BY <1>3
          <5>2. QED
            BY <4>1, <5>1
        <4>5. QED
          BY <4>2, <4>3, <4>4
      <3>3. QED
        BY <3>1, <3>2
    <2>6. j <= z + y /\ j \in 1 .. z + y
      BY <2>4
    <2>7. QED
      BY <1>4, <2>4, <2>5, <2>6, HoldsAt, Zenon
  <1>8. ASSUME ~Holds(es[j], a, x, s) PROVE Holds(es[j], b, Len(b), s)
    <2>1. Holds(es[j], a, x + y, s)
      BY <1>3
    <2>2. PICK p \in 1 .. x + y : a[p] = es[j] /\ \A r \in p + 1 .. x + y : a[r].index \notin s + 1 .. es[j].index
      BY <1>3, <2>1 DEF Holds
    <2>3. p > x
      <3>1. SUFFICES ASSUME p <= x PROVE FALSE
        OBVIOUS
      <3>2. p \in 1 .. x /\ p <= x + y
        BY <3>1
      <3>3. QED
        BY <1>3, <1>8, <2>2, <3>2, HoldsAt, Zenon
    <2>4. PICK o \in z + 1 .. z + y : o = (p - x) + z
      BY <2>2, <2>3
    <2>5. p \in x + 1 .. x + y /\ o - z = p - x /\ o \in 1 .. z + y /\ o <= z + y
      BY <2>3, <2>4
    <2>6. b[o] = es[j]
      <3>1. b[o] = u[p - x]
        BY <1>4, <2>4, <2>5
      <3>2. a[p] = u[p - x]
        BY <1>3, <2>5, Zenon
      <3>3. QED
        BY <2>2, <3>1, <3>2
    <2>7. ASSUME NEW q \in o + 1 .. z + y PROVE b[q].index \notin s + 1 .. es[j].index
      <3>1. q \in z + 1 .. z + y /\ (q - z) + x \in x + 1 .. x + y /\ ((q - z) + x) - x = q - z
            /\ (q - z) + x \in p + 1 .. x + y
        BY <2>4, <2>5
      <3>2. b[q] = a[(q - z) + x]
        <4>1. b[q] = u[q - z]
          BY <1>4, <3>1
        <4>2. a[(q - z) + x] = u[q - z]
          <5>1. a[(q - z) + x] = u[((q - z) + x) - x]
            BY <1>3, <3>1, Zenon
          <5>2. QED
            BY <3>1, <5>1, Zenon
        <4>3. QED
          BY <4>1, <4>2
      <3>3. QED
        BY <2>2, <3>1, <3>2
    <2>8. QED
      BY <1>4, <2>5, <2>6, <2>7, HoldsAt, Zenon
  <1>9. /\ Holds(es[j], b, Len(b), s) /\ (Holds(es[j], a, x, s) => Holds(es[j], b, z, s))
    BY <1>7, <1>8
  <1>10. QED
    BY <1>1, <1>2, <1>3, <1>4, <1>9

----------------------------------------------------------------------------
\* Steps that change neither raft's log nor what is written.

----------------------------------------------------------------------------
\* What was reported stable survives: the actions.

\* The written entries that a crash leaves are a beginning of those that are written.
LEMMA DurableFacts ==
    ASSUME WalInv
    PROVE  /\ Durable \in Nat /\ Len(written) \in Nat /\ Durable <= Len(written)
           /\ log_fd = NoFile => Durable = Len(written)
           /\ log_fd # NoFile /\ synced[log_fd] = Len(files[log_fd]) => Durable = Len(written)
  <1>1. written \in Seq(Entry) /\ Len(written) \in Nat
    BY DEF WalInv, TypeInv
  <1>2. CASE log_fd = NoFile
    BY <1>1, <1>2 DEF Durable
  <1>3. CASE log_fd # NoFile
    <2>1. PICK a \in Seq(Entry), b \in Seq(Entry) : a = BeforeLast(files, ListSegments(files)) /\ b = files[log_fd]
      BY <1>3, OpenSegmentFacts
    <2>2. /\ written = a \o b /\ synced[log_fd] \in Nat /\ synced[log_fd] <= Len(b)
      BY <1>3, <2>1, OpenSegmentFacts
    <2>3. Len(written) = Len(a) + Len(b) /\ Len(a) \in Nat /\ Len(b) \in Nat
      BY <2>2, ConcatFacts
    <2>4. Durable = Len(written) - (Len(b) - synced[log_fd])
      BY <1>3, <2>1 DEF Durable
    <2>5. QED
      BY <1>3, <2>1, <2>2, <2>3, <2>4
  <1>4. QED
    BY <1>2, <1>3

\* The lists that Holds speaks of.
LEMMA AllFacts ==
    ASSUME WalInv
    PROVE  /\ Queue \in Seq(Request(requests)) /\ Queued \in Seq(Entry) /\ written \in Seq(Entry)
           /\ All \in Seq(Entry) /\ Len(All) \in Nat /\ Len(written) \in Nat /\ Len(written) <= Len(All)
           /\ m_logs \in Seq(Entry) /\ Len(m_logs) \in Nat /\ snapshot_index \in Nat /\ requests \in Nat
           /\ \A k \in 1 .. Len(m_logs) : /\ m_logs[k] \in Entry /\ m_logs[k].index \in Nat
                                          /\ m_logs[k].id \in 1 .. requests
           /\ waiters \in Seq(Request(requests)) /\ callbacks \in Seq(Request(requests))
  <1>1. TypeInv
    BY DEF WalInv
  <1>2. Queue \in Seq(Request(requests)) /\ requests \in Nat
    BY <1>1, BulkAndRest DEF TypeInv
  <1>3. PICK q \in Seq(Request(requests)) : q = Queue
    BY <1>2
  <1>4. Logs(q) \in Seq(Entry)
    BY <1>2, LogsFacts
  <1>5. written \in Seq(Entry) /\ Queued \in Seq(Entry)
    BY <1>1, <1>3, <1>4 DEF TypeInv, Queued
  <1>6. written \o Queued \in Seq(Entry) /\ Len(written \o Queued) = Len(written) + Len(Queued)
    BY <1>5, ConcatFacts
  <1>7. All \in Seq(Entry) /\ Len(All) \in Nat /\ Len(written) \in Nat /\ Len(written) <= Len(All)
    BY <1>5, <1>6 DEF All
  <1>8. /\ m_logs \in Seq(Entry) /\ Len(m_logs) \in Nat /\ snapshot_index \in Nat
        /\ \A k \in 1 .. Len(m_logs) : m_logs[k].id \in 1 .. requests
        /\ waiters \in Seq(Request(requests)) /\ callbacks \in Seq(Request(requests))
    BY <1>1 DEF TypeInv
  <1>9. QED
    BY <1>2, <1>5, <1>7, <1>8, EntryAt

\* A step that leaves raft's log alone, and what is written or going to be; it forces out what it may.
LEMMA QuietAck ==
    ASSUME AckedInv, WalInv', walPc # "notify" \/ Collected = {},
           UNCHANGED <<m_logs, outcome, snapshot_index, written>>, Queue' = Queue,
           Durable' \in Nat, Durable <= Durable', \A r \in Collected' : r \in Collected,
           walPc' \in {"rename", "open"} \/ (walPc' = "notify" /\ sync_ok') => Durable' = Len(written),
           walPc' # "write" => batches' = <<>>, Len(batches') <= 1,
           ~sync_ok' => failures' > 0, failures' <= MaxFailures, failures' = 0 => failures = 0
    PROVE  AckedInv'
  <1>1. WalInv /\ LogHeld /\ StableHeld /\ CollectedHeld /\ QueueInOrder
    BY DEF AckedInv
  <1>2. All' = All /\ Queued' = Queued
    BY DEF All, Queued
  <1>3. Durable \in Nat /\ Durable' \in Nat
    BY <1>1, DurableFacts
  <1>4. All \in Seq(Entry) /\ snapshot_index \in Nat
    BY <1>1, AllFacts
  <1>5. \A k \in 1 .. Len(m_logs) : Holds(m_logs[k], All, Len(All), snapshot_index)
    BY <1>1 DEF LogHeld, Lost
  <1>6. LogHeld'
    BY <1>1, <1>2, <1>5 DEF LogHeld
  <1>7. StableHeld'
    <2>1. ASSUME NEW k \in 1 .. Len(m_logs), NEW j \in 1 .. Len(m_logs), outcome[m_logs[k].id] = "stable", j <= k
          PROVE  Holds(m_logs[j], All, Durable', snapshot_index)
      <3>1. Holds(m_logs[j], All, Durable, snapshot_index)
        BY <1>1, <2>1 DEF StableHeld
      <3>2. PICK m \in Nat : m = Durable'
        BY <1>3
      <3>3. QED
        BY <1>3, <1>4, <3>1, <3>2, HoldsWiden
    <2>2. QED
      BY <1>2, <2>1 DEF StableHeld
  <1>8. CollectedHeld'
    <2>1. \A r \in Collected, k \in 1 .. Len(m_logs), j \in 1 .. Len(m_logs) :
              m_logs[k].id = r.logs[1].id /\ j <= k => Holds(m_logs[j], All, Len(written), snapshot_index)
      BY <1>1 DEF CollectedHeld
    <2>2. QED
      BY <1>2, <2>1 DEF CollectedHeld
  <1>9. QueueInOrder'
    BY <1>1 DEF QueueInOrder
  <1>10. QED
    BY <1>6, <1>7, <1>8, <1>9 DEF AckedInv

\* timeOutPop takes a batch out of the queue.
LEMMA WalPopAck ==
    ASSUME AckedInv, WalPop PROVE AckedInv'
  <1>1. WalInv /\ QueueInOrder
    BY DEF AckedInv
  <1>2. WalInv'
    BY <1>1, WalPopWal
  <1>3. /\ walPc = "pop" /\ walPc' = "write"
        /\ batches' = Take(m_queue_log, 1) /\ m_queue_log' = Drop(m_queue_log, 1)
        /\ UNCHANGED <<waiters, callbacks, sync_ok, files, synced, log_fd, m_logs, outcome, snapshot_index,
                       written, failures, requests>>
    BY DEF WalPop, fileVars, segmentVars, raftVars, clientVars
  <1>4. Queue' = Queue /\ Len(batches') <= 1
    <2>1. PICK S : S = Request(requests)
      OBVIOUS
    <2>2. m_queue_log \in Seq(S) /\ batches = <<>>
      BY <1>1, <1>3, <2>1 DEF QueueInOrder, WalInv, TypeInv
    <2>3. /\ m_queue_log = Take(m_queue_log, 1) \o Drop(m_queue_log, 1)
          /\ Len(Take(m_queue_log, 1)) <= 1
      BY <2>2, TakeAndDrop
    <2>4. <<>> \o m_queue_log = m_queue_log
      BY <2>2
    <2>5. QED
      BY <1>3, <2>2, <2>3, <2>4 DEF Queue
  <1>5. Durable' = Durable /\ Durable \in Nat /\ Collected' = Collected
    BY <1>1, <1>3, DurableFacts DEF Durable, Collected
  <1>6. (~sync_ok => failures > 0) /\ failures <= MaxFailures
    BY <1>1 DEF QueueInOrder
  <1>7. QED
    BY <1>2, <1>3, <1>4, <1>5, <1>6, QuietAck

\* The interval is over.
LEMMA WalTimeoutAck ==
    ASSUME AckedInv, WalTimeout PROVE AckedInv'
  <1>1. WalInv /\ QueueInOrder
    BY DEF AckedInv
  <1>2. WalInv'
    BY <1>1, WalTimeoutWal
  <1>3. /\ walPc = "write" /\ walPc' = "sync" /\ batches = <<>>
        /\ UNCHANGED <<m_queue_log, batches, waiters, callbacks, sync_ok, files, synced, log_fd, m_logs, outcome,
                       snapshot_index, written, failures, requests>>
    BY DEF WalTimeout, fileVars, segmentVars, raftVars, clientVars
  <1>4. Durable' = Durable /\ Durable \in Nat /\ Collected' = Collected /\ Queue' = Queue
    BY <1>1, <1>3, DurableFacts DEF Durable, Collected, Queue
  <1>5. (~sync_ok => failures > 0) /\ failures <= MaxFailures /\ Len(batches) <= 1
    BY <1>1 DEF QueueInOrder
  <1>6. QED
    BY <1>2, <1>3, <1>4, <1>5, QuietAck

\* Everyone has been told.
LEMMA WalUnlockAck ==
    ASSUME AckedInv, WalUnlock PROVE AckedInv'
  <1>1. WalInv /\ QueueInOrder
    BY DEF AckedInv
  <1>2. WalInv'
    BY <1>1, WalUnlockWal
  <1>3. /\ walPc = "notify" /\ walPc' = "pop" /\ waiters = <<>> /\ callbacks = <<>>
        /\ UNCHANGED <<m_queue_log, batches, waiters, callbacks, sync_ok, files, synced, log_fd, m_logs, outcome,
                       snapshot_index, written, failures, requests>>
    BY DEF WalUnlock, fileVars, segmentVars, raftVars, clientVars
  <1>4. Durable' = Durable /\ Durable \in Nat /\ Queue' = Queue
    BY <1>1, <1>3, DurableFacts DEF Durable, Queue
  <1>5. (~sync_ok => failures > 0) /\ failures <= MaxFailures /\ Len(batches) <= 1 /\ batches = <<>>
    BY <1>1, <1>3 DEF QueueInOrder
  <1>6. Collected = {} /\ Collected' = {}
    BY <1>3 DEF Collected, ToSet
  <1>7. QED
    BY <1>2, <1>3, <1>4, <1>5, <1>6, QuietAck

\* fdatasync: what was written is on the disk, or the sync fails.
LEMMA WalSyncAck ==
    ASSUME AckedInv, WalSync PROVE AckedInv'
  <1>1. WalInv /\ QueueInOrder
    BY DEF AckedInv
  <1>2. WalInv'
    BY <1>1, WalSyncWal
  <1>3. /\ walPc \in {"sync", "full"} /\ walPc' \in {"rename", "notify"}
        /\ UNCHANGED <<m_queue_log, batches, waiters, callbacks, files, log_fd, m_logs, outcome, snapshot_index,
                       written, requests>>
    BY DEF WalSync, segmentVars, raftVars, clientVars
  <1>4. /\ Durable \in Nat /\ Len(written) \in Nat /\ Durable <= Len(written)
    BY <1>1, DurableFacts
  <1>5. Collected' = Collected /\ Queue' = Queue
    BY <1>3 DEF Collected, Queue
  <1>6. /\ (~sync_ok => failures > 0) /\ failures <= MaxFailures /\ Len(batches) <= 1 /\ batches = <<>>
        /\ failures \in Nat /\ MaxFailures \in Nat
    BY <1>1, <1>3, PersisterAssumption DEF QueueInOrder, WalInv, TypeInv
  <1>7. CASE sync_ok' = TRUE /\ synced' = ForcedOut /\ failures' = failures
    <2>1. /\ log_fd # NoFile /\ log_fd \in DOMAIN files /\ Len(files[log_fd]) \in Nat
          /\ synced \in [DOMAIN files -> Nat]
      BY <1>1, <1>3, HasSegment, OpenSegmentFacts
    <2>2. synced'[log_fd] = Len(files[log_fd])
      BY <1>7, <2>1 DEF ForcedOut
    <2>3. Durable' = Len(written)
      BY <1>3, <1>4, <2>1, <2>2 DEF Durable
    <2>4. QED
      BY <1>2, <1>3, <1>4, <1>5, <1>6, <1>7, <2>3, QuietAck
  <1>8. CASE sync_ok' = FALSE /\ synced' = synced /\ failures' = failures + 1 /\ failures < MaxFailures /\ walPc' = "notify"
    <2>1. Durable' = Durable
      BY <1>3, <1>8 DEF Durable
    <2>2. failures' > 0 /\ failures' <= MaxFailures /\ failures' # 0
      BY <1>6, <1>8
    <2>3. QED
      BY <1>2, <1>3, <1>4, <1>5, <1>6, <1>8, <2>1, <2>2, QuietAck
  <1>9. QED
    BY <1>7, <1>8 DEF WalSync

\* RollSegment closes a segment that is on the disk.
LEMMA RollSegmentAck ==
    ASSUME AckedInv, WithinSegment, RollSegment PROVE AckedInv'
  <1>1. WalInv /\ QueueInOrder
    BY DEF AckedInv
  <1>2. WalInv'
    BY <1>1, RollSegmentWal
  <1>3. /\ walPc = "rename" /\ walPc' = "open" /\ log_fd' = NoFile
        /\ UNCHANGED <<m_queue_log, batches, waiters, callbacks, sync_ok, failures, m_logs, outcome,
                       snapshot_index, written, requests>>
    BY DEF RollSegment, raftVars, clientVars
  <1>4. /\ Durable \in Nat /\ Len(written) \in Nat /\ Durable <= Len(written)
    BY <1>1, DurableFacts
  <1>5. Collected' = Collected /\ Queue' = Queue /\ Durable' = Len(written)
    BY <1>3, <1>4 DEF Collected, Queue, Durable
  <1>6. /\ (~sync_ok => failures > 0) /\ failures <= MaxFailures /\ Len(batches) <= 1 /\ batches = <<>>
    BY <1>1, <1>3 DEF QueueInOrder
  <1>7. QED
    BY <1>2, <1>3, <1>4, <1>5, <1>6, QuietAck

\* The next segment is opened, and it is empty.
LEMMA RollOpensAck ==
    ASSUME AckedInv, RollOpens PROVE AckedInv'
  <1>1. WalInv /\ QueueInOrder
    BY DEF AckedInv
  <1>2. WalInv'
    BY <1>1, RollOpensWal
  <1>3. /\ walPc = "open" /\ walPc' = "notify"
        /\ OpenSegment(files, synced, m_segmentLastIndex + 1)
        /\ UNCHANGED <<m_queue_log, batches, waiters, callbacks, sync_ok, failures, m_logs, outcome,
                       snapshot_index, written, requests, raftPc>>
    BY DEF RollOpens, raftVars, clientVars
  <1>4. /\ Durable \in Nat /\ Len(written) \in Nat /\ Durable <= Len(written)
    BY <1>1, DurableFacts
  <1>5. Durable' = Len(written)
    <2>1. log_fd' # NoFile
      BY <1>2, <1>3 DEF WalInv, FilesInv, MutexesHeld
    <2>2. m_segmentEntryCount' = 0
      BY <1>3, Zenon DEF OpenSegment
    <2>3. Len(files'[log_fd']) = 0 /\ synced'[log_fd'] <= Len(files'[log_fd'])
      BY <1>2, <2>1, <2>2 DEF WalInv, OpenInv, CountersFitSegment
    <2>4. synced'[log_fd'] \in Nat
      <3>1. PICK fs : fs = ListSegments(files')
        OBVIOUS
      <3>2. /\ synced' \in [DOMAIN files' -> Nat] /\ Listed(fs, files')
            /\ Len(fs) >= 1 /\ log_fd' = fs[Len(fs)]
        BY <1>2, <2>1, <3>1 DEF WalInv, FilesInv
      <3>3. Len(fs) \in Nat
        BY <3>2 DEF Listed
      <3>4. log_fd' \in DOMAIN files'
        BY <3>2, <3>3 DEF Listed
      <3>5. QED
        BY <3>2, <3>4
    <2>5. QED
      BY <1>3, <1>4, <2>1, <2>3, <2>4 DEF Durable
  <1>6. Collected' = Collected /\ Queue' = Queue
    BY <1>3 DEF Collected, Queue
  <1>7. /\ (~sync_ok => failures > 0) /\ failures <= MaxFailures /\ Len(batches) <= 1 /\ batches = <<>>
    BY <1>1, <1>3 DEF QueueInOrder
  <1>8. QED
    BY <1>2, <1>3, <1>4, <1>5, <1>6, <1>7, QuietAck

\* CompactWal has everything in memory.
LEMMA CompactWalAck ==
    ASSUME AckedInv, CompactWal PROVE AckedInv'
  <1>1. WalInv /\ QueueInOrder
    BY DEF AckedInv
  <1>2. WalInv'
    BY <1>1, CompactWalWal
  <1>3. /\ m_mtx = Free /\ log_fd' = NoFile
        /\ UNCHANGED <<walPc, m_queue_log, batches, waiters, callbacks, sync_ok, failures, m_logs, outcome,
                       snapshot_index, written, requests>>
    BY DEF CompactWal, walVars, clientVars
  <1>4. walPc \in {"pop", "write"}
    BY <1>1, <1>3 DEF WalInv, MutexesHeld, TypeInv, Free
  <1>5. /\ Durable \in Nat /\ Len(written) \in Nat /\ Durable <= Len(written)
    BY <1>1, DurableFacts
  <1>6. Collected' = Collected /\ Queue' = Queue /\ Durable' = Len(written)
    BY <1>3, <1>5 DEF Collected, Queue, Durable
  <1>7. /\ (~sync_ok => failures > 0) /\ failures <= MaxFailures /\ Len(batches) <= 1
        /\ walPc # "write" => batches = <<>>
    BY <1>1 DEF QueueInOrder
  <1>8. QED
    BY <1>2, <1>3, <1>4, <1>5, <1>6, <1>7, QuietAck

----------------------------------------------------------------------------
\* The WAL thread writes, and tells.

\* What the WAL thread takes is written before what it leaves, and everything else before that.
LEMMA BulkFirst ==
    ASSUME WalInv
    PROVE  /\ Logs(Bulk) \in Seq(Entry) /\ Logs(Rest) \in Seq(Entry)
           /\ written \o Logs(Bulk) \in Seq(Entry) /\ All = (written \o Logs(Bulk)) \o Logs(Rest)
           /\ \A p \in 1 .. Len(Logs(Bulk)) : \E i \in 1 .. Len(Bulk) :
                  Logs(Bulk)[p].index >= Bulk[i].logs[1].index
           /\ \A p \in 1 .. Len(Logs(Rest)) : \E i \in 1 .. Len(Rest) : Logs(Rest)[p].id = Rest[i].logs[1].id
  <1>1. TypeInv /\ requests \in Nat
    BY DEF WalInv, TypeInv
  <1>2. PICK a \in Seq(Request(requests)), b \in Seq(Request(requests)) : a = Bulk /\ b = Rest /\ Queue = a \o b
    BY <1>1, BulkAndRest
  <1>3. /\ Logs(a) \in Seq(Entry) /\ Logs(b) \in Seq(Entry)
    BY <1>1, LogsFacts
  <1>4. Logs(a \o b) = Logs(a) \o Logs(b)
    BY <1>1, LogsConcat
  <1>5. PICK w \in Seq(Entry) : w = written
    BY <1>1 DEF TypeInv
  <1>6. w \o Logs(a) \in Seq(Entry) /\ (w \o Logs(a)) \o Logs(b) = w \o (Logs(a) \o Logs(b))
    <2>1. PICK u \in Seq(Entry), v \in Seq(Entry) : u = Logs(a) /\ v = Logs(b)
      BY <1>3
    <2>2. w \o u \in Seq(Entry)
      OBVIOUS
    <2>3. (w \o u) \o v = w \o (u \o v)
      BY ConcatAssoc
    <2>4. QED
      BY <2>1, <2>2, <2>3
  <1>7. All = (w \o Logs(a)) \o Logs(b)
    BY <1>2, <1>4, <1>5, <1>6 DEF All, Queued
  <1>8. ASSUME NEW c \in Seq(Request(requests)), NEW p \in 1 .. Len(Logs(c))
        PROVE  \E i \in 1 .. Len(c) : Logs(c)[p].index >= c[i].logs[1].index /\ Logs(c)[p].id = c[i].logs[1].id
    <2>0. PICK i \in 1 .. Len(c) : \E z \in 1 .. Len(c[i].logs) : Logs(c)[p] = c[i].logs[z]
      BY <1>1, LogsFacts
    <2>1. PICK z \in 1 .. Len(c[i].logs) : Logs(c)[p] = c[i].logs[z]
      BY <2>0
    <2>2. c[i] \in Request(requests)
      OBVIOUS
    <2>3. /\ c[i].logs[z].index = c[i].logs[1].index + z - 1 /\ c[i].logs[z].id = c[i].logs[1].id
          /\ c[i].logs[1].index \in Nat /\ c[i].logs \in Seq(Entry)
      BY <1>1, <2>2, RequestFacts
    <2>4. z \in Nat /\ z >= 1
      BY <2>3
    <2>5. PICK first \in Nat : first = c[i].logs[1].index
      BY <2>3
    <2>6. first + z - 1 >= first
      BY <2>4
    <2>7. c[i].logs[z].index >= c[i].logs[1].index
      BY <2>3, <2>5, <2>6
    <2>8. QED
      BY <2>1, <2>3, <2>7
  <1>9. /\ \A p \in 1 .. Len(Logs(a)) : \E i \in 1 .. Len(a) : Logs(a)[p].index >= a[i].logs[1].index
        /\ \A p \in 1 .. Len(Logs(b)) : \E i \in 1 .. Len(b) : Logs(b)[p].id = b[i].logs[1].id
    BY <1>8
  <1>10. QED
    BY <1>2, <1>3, <1>5, <1>6, <1>7, <1>9

\* The order of what the WAL thread takes and what it leaves.
LEMMA RestInOrder ==
    ASSUME WalInv, QueueInOrder
    PROVE  /\ \A i, j \in 1 .. Len(Rest) : i < j => Rest[i].logs[1].id < Rest[j].logs[1].id
           /\ \A i \in 1 .. Len(Bulk), j \in 1 .. Len(Rest) : Bulk[i].logs[1].id < Rest[j].logs[1].id
           /\ failures = 0 =>
                  /\ \A i, j \in 1 .. Len(Rest) : i < j => Rest[i].logs[1].index < Rest[j].logs[1].index
                  /\ \A i \in 1 .. Len(Rest) : Rest[i].logs[1].index <= snapshot_index + Len(m_logs)
                  /\ \A i, j \in 1 .. Len(Bulk) : i < j => Bulk[i].logs[1].index < Bulk[j].logs[1].index
  <1>1. TypeInv
    BY DEF WalInv
  <1>2. PICK a \in Seq(Request(requests)), b \in Seq(Request(requests)) : a = Bulk /\ b = Rest /\ Queue = a \o b
    BY <1>1, BulkAndRest
  <1>3. PICK x \in Nat, y \in Nat : x = Len(a) /\ y = Len(b)
    <2>1. Len(a) \in Nat /\ Len(b) \in Nat
      OBVIOUS
    <2>2. QED
      BY <2>1, Zenon
  <1>4. PICK q : /\ q = a \o b /\ Len(q) = x + y
                 /\ \A k \in 1 .. x : q[k] = a[k]
                 /\ \A k \in 1 .. y : q[x + k] = b[k]
    <2>1. /\ Len(a \o b) = Len(a) + Len(b)
          /\ \A k \in 1 .. Len(a) : (a \o b)[k] = a[k]
          /\ \A k \in 1 .. Len(b) : (a \o b)[Len(a) + k] = b[k]
      BY ConcatFacts
    <2>2. QED
      BY <1>3, <2>1, Zenon
  <1>5. /\ \A k \in 1 .. x : k \in 1 .. Len(q)
        /\ \A k \in 1 .. y : x + k \in 1 .. Len(q)
        /\ \A i, j \in 1 .. y : i < j => x + i < x + j
        /\ \A i \in 1 .. x, j \in 1 .. y : i < x + j
    BY <1>4
  <1>6. \A i, j \in 1 .. Len(q) : i < j => q[i].logs[1].id < q[j].logs[1].id
    <2>1. Queue = q
      BY <1>2, <1>4
    <2>2. \A i, j \in 1 .. Len(Queue) : i < j => Queue[i].logs[1].id < Queue[j].logs[1].id
      BY DEF QueueInOrder
    <2>3. QED
      BY <2>1, <2>2
  <1>7. /\ \A i, j \in 1 .. y : i < j => b[i].logs[1].id < b[j].logs[1].id
        /\ \A i \in 1 .. x, j \in 1 .. y : a[i].logs[1].id < b[j].logs[1].id
    BY <1>4, <1>5, <1>6
  <1>8. ASSUME failures = 0
        PROVE  /\ \A i, j \in 1 .. y : i < j => b[i].logs[1].index < b[j].logs[1].index
               /\ \A i \in 1 .. y : b[i].logs[1].index <= snapshot_index + Len(m_logs)
               /\ \A i, j \in 1 .. x : i < j => a[i].logs[1].index < a[j].logs[1].index
    <2>1. /\ \A i, j \in 1 .. Len(q) : i < j => q[i].logs[1].index < q[j].logs[1].index
          /\ \A i \in 1 .. Len(q) : q[i].logs[1].index <= snapshot_index + Len(m_logs)
      BY <1>2, <1>4, <1>8 DEF QueueInOrder
    <2>2. QED
      BY <1>4, <1>5, <2>1
  <1>9. QED
    BY <1>2, <1>3, <1>7, <1>8

\* A bulk is written.
LEMMA WalWriteAck ==
    ASSUME AckedInv, WalWrite PROVE AckedInv'
  <1>1. WalInv /\ LogHeld /\ StableHeld /\ CollectedHeld /\ QueueInOrder
    BY DEF AckedInv
  <1>2. WalInv'
    BY <1>1, WalWriteWal
  <1>3. /\ walPc = "write" /\ m_mtx = Free /\ walPc' \in {"sync", "full", "pop"}
        /\ files' = [files EXCEPT ![log_fd] = files[log_fd] \o Logs(Bulk)]
        /\ written' = written \o Logs(Bulk)
        /\ m_queue_log' = Rest /\ batches' = <<>>
        /\ JoinWaiting(Bulk)
        /\ UNCHANGED <<sync_ok, synced, log_fd, m_logs, outcome, snapshot_index, failures, requests>>
    BY Zenon DEF WalWrite, raftVars, clientVars
  <1>4. PICK w \in Seq(Entry), u \in Seq(Entry), v \in Seq(Entry), a \in Seq(Entry) :
            w = written /\ u = Logs(Bulk) /\ v = Logs(Rest) /\ a = w \o u /\ All = a \o v
    BY <1>1, BulkFirst, AllFacts
  <1>5. All' = All /\ Queue' = Rest
    <2>1. Queue' = <<>> \o Rest
      BY <1>3 DEF Queue
    <2>2. Rest \in Seq(Request(requests))
      BY <1>1, BulkAndRest DEF WalInv
    <2>3. Queue' = Rest
      BY <2>1, <2>2
    <2>4. Queued' = v /\ written' = a
      BY <1>3, <1>4, <2>3 DEF Queued
    <2>5. QED
      BY <1>4, <2>3, <2>4 DEF All
  <1>6. PICK x \in Nat, y \in Nat, z \in Nat : x = Len(w) /\ y = Len(u) /\ z = Len(v) /\ Len(a) = x + y
    <2>1. Len(a) = Len(w) + Len(u)
      BY <1>4, ConcatFacts
    <2>2. QED
      BY <2>1
  <1>7. Durable' = Durable
    <2>1. /\ log_fd # NoFile /\ log_fd \in DOMAIN files /\ files[log_fd] \in Seq(Entry)
          /\ synced[log_fd] \in Nat /\ Len(files[log_fd]) \in Nat
      BY <1>1, <1>3, HasSegment, OpenSegmentFacts
    <2>2. PICK f \in Seq(Entry) : f = files[log_fd]
      BY <2>1
    <2>3. Len(f \o u) = Len(f) + y
      BY <1>6, ConcatFacts
    <2>4. files'[log_fd] = f \o u
      BY <1>3, <1>4, <2>1, <2>2
    <2>5. Durable = x - (Len(f) - synced[log_fd])
      BY <1>4, <1>6, <2>1, <2>2 DEF Durable
    <2>6. Durable' = (x + y) - (Len(f \o u) - synced[log_fd])
      BY <1>3, <1>4, <1>6, <2>1, <2>4 DEF Durable
    <2>7. QED
      BY <2>1, <2>2, <2>3, <2>5, <2>6
  <1>8. \A k \in 1 .. Len(m_logs) : Holds(m_logs[k], All, Len(All), snapshot_index)
    BY <1>1, <1>3 DEF LogHeld, Lost
  <1>9. LogHeld'
    BY <1>1, <1>3, <1>5, <1>8 DEF LogHeld
  <1>10. StableHeld'
    BY <1>1, <1>3, <1>5, <1>7 DEF StableHeld
  <1>11. ASSUME NEW r \in Collected', NEW k \in 1 .. Len(m_logs), NEW j \in 1 .. Len(m_logs),
                m_logs[k].id = r.logs[1].id, j <= k
         PROVE  Holds(m_logs[j], All, x + y, snapshot_index)
    <2>1. /\ m_logs \in Seq(Entry) /\ snapshot_index \in Nat /\ All \in Seq(Entry)
          /\ m_logs[k].index = snapshot_index + k /\ m_logs[j].index = snapshot_index + j
      BY <1>1, AllFacts DEF LogHeld
    <2>2. CASE r \in Collected
      <3>1. Holds(m_logs[j], All, x, snapshot_index)
        BY <1>1, <1>3, <1>4, <1>6, <1>11, <2>2 DEF CollectedHeld
      <3>2. PICK n \in Nat : n = x + y /\ x <= n
        OBVIOUS
      <3>3. QED
        BY <2>1, <3>1, <3>2, HoldsWiden
    <2>3. CASE r \notin Collected
      <3>1. PICK i \in 1 .. Len(Bulk) : r = Bulk[i]
        <4>1. \A q \in Collected' : q \in Collected \/ \E i \in 1 .. Len(Bulk) : q = Bulk[i]
          <5>1. /\ waiters \in Seq(Request(requests)) /\ callbacks \in Seq(Request(requests)) /\ requests \in Nat
                /\ Bulk \in Seq(Request(requests)) /\ JoinWaiting(Bulk)
            BY <1>1, <1>3, AllFacts, BulkAndRest DEF WalInv
          <5>2. QED
            BY <5>1, JoinFacts
        <4>2. QED
          BY <2>3, <4>1
      <3>2. Holds(m_logs[k], All, x + y, snapshot_index)
        <4>1. PICK p \in 1 .. Len(All) : m_logs[k] = All[p] /\ \A q \in p + 1 .. Len(All) : All[q].index \notin snapshot_index + 1 .. m_logs[k].index
          BY <1>8 DEF Holds
        <4>2. /\ Len(All) = (x + y) + z
              /\ \A q \in x + y + 1 .. x + y + z : All[q] = v[q - (x + y)]
          <5>1. /\ Len(a \o v) = Len(a) + Len(v)
                /\ \A q \in Len(a) + 1 .. Len(a) + Len(v) : (a \o v)[q] = v[q - Len(a)]
            BY ConcatFacts
          <5>2. QED
            BY <1>4, <1>6, <5>1
        <4>3. CASE p <= x + y
          <5>1. p \in 1 .. x + y /\ p <= Len(All)
            BY <4>3
          <5>2. QED
            BY <4>1, <5>1, HoldsAt, Zenon
        <4>4. CASE p > x + y
          <5>1. PICK o \in 1 .. z : o = p - (x + y)
            BY <4>2, <4>4
          <5>2. p \in x + y + 1 .. x + y + z
            BY <4>2, <4>4
          <5>3. m_logs[k] = v[o]
            BY <4>1, <4>2, <5>1, <5>2
          <5>4. PICK h \in 1 .. Len(Rest) : v[o].id = Rest[h].logs[1].id
            BY <1>1, <1>4, <1>6, BulkFirst
          <5>5. Bulk[i].logs[1].id < Rest[h].logs[1].id
            BY <1>1, RestInOrder
          <5>6. m_logs[k].id \in Nat
            BY <2>1, EntryAt
          <5>7. QED
            <6>1. Bulk[i].logs[1].id = m_logs[k].id /\ Rest[h].logs[1].id = m_logs[k].id
              BY <1>11, <3>1, <5>3, <5>4
            <6>2. m_logs[k].id < m_logs[k].id
              BY <5>5, <6>1
            <6>3. QED
              BY <5>6, <6>2
        <4>5. p <= x + y \/ p > x + y
          OBVIOUS
        <4>6. QED
          BY <4>3, <4>4, <4>5, Zenon
      <3>3. PICK n \in Nat, l \in Nat : n = x + y /\ l = Len(All)
        <4>1. x + y \in Nat /\ Len(All) \in Nat
          <5>1. x + y \in Nat
            OBVIOUS
          <5>2. Len(All) \in Nat
            BY <1>1, AllFacts
          <5>3. QED
            BY <5>1, <5>2
        <4>2. QED
          BY <4>1
      <3>4. Holds(m_logs[j], All, l, snapshot_index) /\ Holds(m_logs[k], All, n, snapshot_index)
        BY <1>8, <3>2, <3>3
      <3>5. snapshot_index < m_logs[j].index /\ m_logs[j].index <= m_logs[k].index
        BY <1>11, <2>1
      <3>6. QED
        BY <2>1, <3>3, <3>4, <3>5, HoldsBefore
    <2>4. QED
      BY <2>2, <2>3
  <1>12. CollectedHeld'
    <2>1. Len(written') = x + y
      BY <1>3, <1>4, <1>6
    <2>2. QED
      BY <1>3, <1>5, <1>11, <2>1 DEF CollectedHeld
  <1>13. QueueInOrder'
    <2>1. /\ (~sync_ok => failures > 0) /\ failures <= MaxFailures
      BY <1>1 DEF QueueInOrder
    <2>2. Len(batches') <= 1
      BY <1>3
    <2>3. QED
      BY <1>1, <1>3, <1>5, <2>1, <2>2, RestInOrder DEF QueueInOrder
  <1>14. QED
    BY <1>2, <1>9, <1>10, <1>12, <1>13 DEF AckedInv

\* A write fails: the entries of the bulk leave the queue.  Those who are told make raft cut its log
\* before all of them; NoForgotten is needed for the requests behind the failing one.
LEMMA WalWriteFailsAck ==
    ASSUME AckedInv, NoFaults, NoForgotten, WalWriteFails PROVE AckedInv'
  <1>1. WalInv /\ LogHeld /\ StableHeld /\ CollectedHeld /\ QueueInOrder
    BY DEF AckedInv
  <1>2. WalInv'
    BY <1>1, WalWriteFailsWal
  <1>3. /\ walPc = "write" /\ walPc' = "notify" /\ sync_ok' = FALSE
        /\ failures < MaxFailures /\ failures' = failures + 1
        /\ m_queue_log' = Rest /\ batches' = <<>>
        /\ \E b \in DOMAIN Bulk : JoinWaiting(SubSeq(Bulk, 1, b))
        /\ UNCHANGED <<log_fd, m_logs, outcome, snapshot_index, written, requests>>
    BY DEF WalWriteFails, raftVars, clientVars
  <1>4. /\ failures \in Nat /\ MaxFailures \in Nat
    BY <1>1, PersisterAssumption DEF WalInv, TypeInv
  <1>5. /\ Bulk \in Seq(Request(requests)) /\ requests \in Nat /\ Len(batches) <= 1
        /\ kSyncBatchCount = 1 => Len(Bulk) <= 1
    BY <1>1, BulkAndRest DEF QueueInOrder, WalInv, TypeInv
  <1>6. PICK b \in 1 .. Len(Bulk) : JoinWaiting(SubSeq(Bulk, 1, b))
    BY <1>3, <1>5
  <1>7. \A i \in 1 .. b : Bulk[i] \in Collected'
    <2>1. PICK S : S = Request(requests)
      OBVIOUS
    <2>2. PICK c \in Seq(S) : c = SubSeq(Bulk, 1, b) /\ Len(c) = b /\ \A i \in 1 .. b : c[i] = Bulk[i]
      <3>1. Bulk \in Seq(S)
        BY <1>5, <2>1
      <3>2. SubSeq(Bulk, 1, b) \in Seq(S) /\ Len(SubSeq(Bulk, 1, b)) = b
            /\ \A i \in 1 .. b : SubSeq(Bulk, 1, b)[i] = Bulk[i]
        BY <3>1
      <3>3. QED
        BY <3>2
    <2>3. c \in Seq(Request(requests)) /\ JoinWaiting(c)
      BY <1>6, <2>1, <2>2
    <2>4. waiters \in Seq(Request(requests)) /\ callbacks \in Seq(Request(requests))
      BY <1>1, AllFacts
    <2>5. \A i \in 1 .. Len(c) : c[i] \in Collected'
      BY <1>5, <2>3, <2>4, JoinFacts
    <2>6. QED
      BY <2>2, <2>5
  <1>8. PICK w \in Seq(Entry), u \in Seq(Entry), v \in Seq(Entry) :
            w = written /\ u = Logs(Bulk) /\ v = Logs(Rest) /\ All = (w \o u) \o v
    BY <1>1, BulkFirst, AllFacts
  <1>9. All' = w \o v /\ Queue' = Rest
    <2>1. Queue' = <<>> \o Rest
      BY <1>3 DEF Queue
    <2>2. Rest \in Seq(Request(requests))
      BY <1>1, BulkAndRest DEF WalInv
    <2>3. Queue' = Rest
      BY <2>1, <2>2
    <2>4. Queued' = v /\ written' = w
      BY <1>3, <1>8, <2>3 DEF Queued
    <2>5. QED
      BY <2>3, <2>4 DEF All
  <1>10. /\ Durable \in Nat /\ Len(w) \in Nat /\ Durable <= Len(w) /\ Durable' = Len(w)
    <2>1. /\ Durable \in Nat /\ Len(w) \in Nat /\ Durable <= Len(w)
      BY <1>1, <1>8, DurableFacts
    <2>2. /\ files' = files /\ synced' = [synced EXCEPT ![log_fd] = Len(files[log_fd])] /\ log_fd # NoFile
      BY <1>1, FailsAtEnd
    <2>3. log_fd \in DOMAIN files /\ Len(files[log_fd]) \in Nat /\ synced \in [DOMAIN files -> Nat]
      BY <1>1, <2>2, OpenSegmentFacts
    <2>4. synced'[log_fd] = Len(files[log_fd])
      BY <2>2, <2>3
    <2>5. Durable' = Len(w) - (Len(files[log_fd]) - Len(files[log_fd]))
      BY <1>3, <1>8, <2>2, <2>4 DEF Durable
    <2>6. QED
      BY <2>1, <2>3, <2>5
  <1>11. snapshot_index \in Nat /\ m_logs \in Seq(Entry) /\ w \o v \in Seq(Entry)
    BY <1>1, <1>8, AllFacts, ConcatFacts
  <1>12. ASSUME NEW k \in 1 .. Len(m_logs), NEW x \in 1 .. Len(u), m_logs[k] = u[x]
         PROVE  Lost(m_logs[k])'
    <2>1. PICK i \in 1 .. Len(Bulk) : u[x].index >= Bulk[i].logs[1].index
      BY <1>1, <1>8, BulkFirst
    <2>2. \E r \in Collected' : r.logs[1].index <= u[x].index
      <3>1. /\ Bulk[i] \in Request(requests) /\ Bulk[b] \in Request(requests)
        BY <1>5
      <3>2. Bulk[i].logs[1].index \in Nat /\ Bulk[b].logs[1].index \in Nat /\ u[x].index \in Nat
        BY <1>5, <3>1, RequestFacts, EntryAt
      <3>3. CASE i <= b
        <4>1. Bulk[i] \in Collected'
          BY <1>7, <3>3
        <4>2. Bulk[i].logs[1].index <= u[x].index
          BY <2>1, <3>2
        <4>3. QED
          BY <4>1, <4>2, Zenon
      <3>4. CASE i > b
        <4>1. kSyncBatchCount # 1
          BY <1>5, <3>4
        <4>2. failures = 0
          <5>1. MaxFailures <= 1
            BY <4>1 DEF NoForgotten
          <5>2. QED
            BY <1>3, <1>4, <5>1
        <4>3. Bulk[b].logs[1].index < Bulk[i].logs[1].index
          BY <1>1, <3>4, <4>2, RestInOrder
        <4>4. Bulk[b] \in Collected'
          BY <1>7
        <4>5. Bulk[b].logs[1].index <= u[x].index
          <5>1. PICK g \in Nat, h \in Nat, o \in Nat :
                    g = Bulk[b].logs[1].index /\ h = Bulk[i].logs[1].index /\ o = u[x].index
            BY <3>2, Zenon
          <5>2. g < h /\ o >= h
            BY <2>1, <4>3, <5>1, Zenon
          <5>3. g <= o
            BY <5>2
          <5>4. QED
            BY <5>1, <5>3, Zenon
        <4>6. QED
          BY <4>4, <4>5, Zenon
      <3>5. i <= b \/ i > b
        OBVIOUS
      <3>6. QED
        BY <3>3, <3>4, <3>5, Zenon
    <2>3. QED
      BY <1>3, <1>12, <2>2 DEF Lost
  <1>13. ASSUME NEW k \in 1 .. Len(m_logs)
         PROVE  Holds(m_logs[k], All', Len(All'), snapshot_index) \/ Lost(m_logs[k])'
    <2>1. Holds(m_logs[k], (w \o u) \o v, Len(All), snapshot_index) /\ Len(All) \in Nat
      BY <1>1, <1>3, <1>8, AllFacts DEF LogHeld, Lost
    <2>2. PICK n \in Nat : n = Len(All)
      BY <2>1
    <2>3. \/ Holds(m_logs[k], w \o v, Len(w \o v), snapshot_index)
          \/ \E x \in 1 .. Len(u) : m_logs[k] = u[x]
      BY <1>11, <2>1, <2>2, HoldsDrop
    <2>4. QED
      BY <1>9, <1>12, <2>3
  <1>14. LogHeld'
    BY <1>1, <1>3, <1>13 DEF LogHeld
  <1>15. StableHeld'
    <2>1. ASSUME NEW k \in 1 .. Len(m_logs), NEW j \in 1 .. Len(m_logs), outcome[m_logs[k].id] = "stable", j <= k
          PROVE  Holds(m_logs[j], All', Durable', snapshot_index)
      <3>1. Holds(m_logs[j], (w \o u) \o v, Durable, snapshot_index)
        BY <1>1, <1>8, <2>1 DEF StableHeld
      <3>2. PICK d \in Nat, l \in Nat : d = Durable /\ l = Len(w) /\ d <= l
        BY <1>10
      <3>3. Holds(m_logs[j], w \o v, d, snapshot_index)
        BY <1>11, <3>1, <3>2, HoldsDrop
      <3>4. Holds(m_logs[j], w \o v, l, snapshot_index)
        <4>1. PICK c \in Seq(Entry) : c = w \o v
          BY <1>11
        <4>2. Holds(m_logs[j], c, d, snapshot_index)
          BY <3>3, <4>1
        <4>3. m_logs[j] \in Entry
          BY <1>11, <2>1
        <4>4. Holds(m_logs[j], c, l, snapshot_index)
          BY <1>11, <3>2, <4>2, <4>3, HoldsWiden
        <4>5. QED
          BY <4>1, <4>4
      <3>5. QED
        BY <1>9, <1>10, <3>2, <3>4
    <2>2. QED
      BY <1>3, <2>1 DEF StableHeld
  <1>16. CollectedHeld'
    BY <1>3 DEF CollectedHeld
  <1>17. QueueInOrder'
    <2>1. failures' > 0 /\ failures' <= MaxFailures /\ failures' # 0
      BY <1>3, <1>4
    <2>2. Len(batches') <= 1
      BY <1>3
    <2>3. QED
      BY <1>1, <1>3, <1>9, <2>1, <2>2, RestInOrder DEF QueueInOrder
  <1>18. QED
    BY <1>2, <1>14, <1>15, <1>16, <1>17 DEF AckedInv

\* Requests are told how they went.
LEMMA ToldAck ==
    ASSUME AckedInv, WalInv', walPc = "notify", NEW told, Told(told, sync_ok),
           \A r \in told : r \in Collected, \A r \in Collected : r \in told \/ r \in Collected',
           \A r \in Collected' : r \in Collected,
           UNCHANGED <<m_queue_log, walPc, batches, sync_ok, files, synced, log_fd, snapshot_index, requests,
                       failures, written>>
    PROVE  AckedInv'
  <1>1. WalInv /\ LogHeld /\ StableHeld /\ CollectedHeld /\ QueueInOrder /\ TypeInv /\ sync_ok \in BOOLEAN
    BY DEF AckedInv, WalInv, TypeInv
  <1>2. All' = All /\ Queue' = Queue /\ Durable' = Durable
    BY DEF All, Queued, Queue, Durable
  <1>3. /\ \A id \in 1 .. requests :
               outcome'[id] = IF \E r \in told : id = r.logs[1].id THEN (IF sync_ok THEN "stable" ELSE "failed")
                              ELSE outcome[id]
        /\ m_logs' \in Seq(Entry) /\ Len(m_logs') \in Nat /\ Len(m_logs') <= Len(m_logs)
        /\ sync_ok => m_logs' = m_logs
        /\ \A k \in 1 .. Len(m_logs') : m_logs'[k] = m_logs[k] /\ m_logs'[k].id \in 1 .. requests
        /\ ~sync_ok => \A k \in 1 .. Len(m_logs'), r \in told : m_logs'[k].index < r.logs[1].index
    BY <1>1, ToldFacts
  <1>4. m_logs \in Seq(Entry) /\ Len(m_logs) \in Nat
    BY <1>1, AllFacts
  <1>5. \A k \in 1 .. Len(m_logs') : k \in 1 .. Len(m_logs)
    BY <1>3, <1>4
  <1>6. ASSUME NEW k \in 1 .. Len(m_logs')
        PROVE  Holds(m_logs[k], All, Len(All), snapshot_index) \/ Lost(m_logs[k])'
    <2>1. Holds(m_logs[k], All, Len(All), snapshot_index) \/ Lost(m_logs[k])
      BY <1>1, <1>5 DEF LogHeld
    <2>2. ASSUME Lost(m_logs[k]) PROVE Lost(m_logs[k])'
      <3>1. ~sync_ok
        BY <2>2 DEF Lost
      <3>2. PICK r \in Collected : r.logs[1].index <= m_logs[k].index
        BY <2>2 DEF Lost
      <3>3. r \notin told
        <4>1. SUFFICES ASSUME r \in told PROVE FALSE
          OBVIOUS
        <4>2. m_logs[k].index < r.logs[1].index
          BY <1>3, <3>1, <4>1
        <4>3. m_logs[k].index \in Nat
          BY <1>4, <1>5, EntryAt
        <4>4. r.logs[1].index \in Nat
          <5>1. /\ waiters \in Seq(Request(requests)) /\ callbacks \in Seq(Request(requests)) /\ requests \in Nat
            BY <1>1, AllFacts
          <5>2. r \in Request(requests)
            BY <5>1 DEF Collected, ToSet
          <5>3. QED
            BY <5>1, <5>2, RequestFacts
        <4>5. QED
          BY <3>2, <4>2, <4>3, <4>4
      <3>4. r \in Collected'
        BY <3>3
      <3>5. m_logs'[k] = m_logs[k]
        BY <1>3
      <3>6. QED
        BY <3>1, <3>2, <3>4, <3>5 DEF Lost
    <2>3. QED
      BY <2>1, <2>2
  <1>7. LogHeld'
    BY <1>1, <1>2, <1>3, <1>5, <1>6 DEF LogHeld
  <1>8. StableHeld'
    <2>1. ASSUME NEW k \in 1 .. Len(m_logs'), NEW j \in 1 .. Len(m_logs'), outcome'[m_logs'[k].id] = "stable", j <= k
          PROVE  Holds(m_logs[j], All, Durable, snapshot_index)
      <3>1. k \in 1 .. Len(m_logs) /\ j \in 1 .. Len(m_logs) /\ m_logs'[k] = m_logs[k] /\ m_logs[k].id \in 1 .. requests
        BY <1>3, <1>5
      <3>2. CASE \E r \in told : m_logs[k].id = r.logs[1].id
        <4>1. sync_ok
          BY <1>3, <2>1, <3>1, <3>2
        <4>2. PICK r \in Collected : m_logs[k].id = r.logs[1].id
          BY <3>2
        <4>3. Holds(m_logs[j], All, Len(written), snapshot_index) /\ Durable = Len(written)
          BY <1>1, <2>1, <3>1, <4>1, <4>2 DEF CollectedHeld
        <4>4. QED
          BY <4>3
      <3>3. CASE ~ \E r \in told : m_logs[k].id = r.logs[1].id
        <4>1. outcome[m_logs[k].id] = "stable"
          BY <1>3, <2>1, <3>1, <3>3
        <4>2. QED
          BY <1>1, <2>1, <3>1, <4>1 DEF StableHeld
      <3>4. QED
        BY <3>2, <3>3
    <2>2. QED
      BY <1>2, <1>3, <2>1 DEF StableHeld
  <1>9. CollectedHeld'
    <2>1. CASE sync_ok
      <3>1. m_logs' = m_logs
        BY <1>3, <2>1
      <3>2. /\ \A r \in Collected, k \in 1 .. Len(m_logs), j \in 1 .. Len(m_logs) :
                   m_logs[k].id = r.logs[1].id /\ j <= k => Holds(m_logs[j], All, Len(written), snapshot_index)
            /\ Durable = Len(written)
        BY <1>1, <2>1 DEF CollectedHeld
      <3>3. QED
        BY <1>2, <3>1, <3>2 DEF CollectedHeld
    <2>2. CASE ~sync_ok
      BY <2>2 DEF CollectedHeld
    <2>3. QED
      BY <2>1, <2>2
  <1>10. QueueInOrder'
    <2>1. failures = 0 => m_logs' = m_logs
      <3>1. ~sync_ok => failures > 0
        BY <1>1 DEF QueueInOrder
      <3>2. QED
        BY <1>1, <1>3, <3>1
    <2>2. QED
      BY <1>1, <1>2, <2>1 DEF QueueInOrder
  <1>11. QED
    BY <1>7, <1>8, <1>9, <1>10 DEF AckedInv

\* AppendLogAndWaitStable returns.
LEMMA NotifyWaitersAck ==
    ASSUME AckedInv, NotifyWaiters PROVE AckedInv'
  <1>1. WalInv
    BY DEF AckedInv
  <1>2. WalInv'
    BY <1>1, NotifyWaitersWal
  <1>3. /\ walPc = "notify" /\ Told(ToSet(waiters), sync_ok) /\ waiters' = <<>> /\ callbacks' = callbacks
        /\ UNCHANGED <<m_queue_log, walPc, batches, sync_ok, files, synced, log_fd, snapshot_index, requests,
                       failures, written>>
    BY DEF NotifyWaiters, fileVars, segmentVars, raftVars
  <1>4. Collected = ToSet(waiters) \cup ToSet(callbacks) /\ Collected' = ToSet(callbacks)
    BY <1>3 DEF Collected, ToSet
  <1>5. PICK told : told = ToSet(waiters)
    OBVIOUS
  <1>6. Told(told, sync_ok)
    BY <1>3, <1>5
  <1>7. /\ \A r \in told : r \in Collected
        /\ \A r \in Collected : r \in told \/ r \in Collected'
        /\ \A r \in Collected' : r \in Collected
    BY <1>4, <1>5
  <1>8. QED
    BY <1>2, <1>3, <1>6, <1>7, ToldAck

\* onLogStable is called.
LEMMA NotifyCallbacksAck ==
    ASSUME AckedInv, NotifyCallbacks PROVE AckedInv'
  <1>1. WalInv
    BY DEF AckedInv
  <1>2. WalInv'
    BY <1>1, NotifyCallbacksWal
  <1>3. /\ walPc = "notify" /\ Told({Head(callbacks)}, sync_ok) /\ callbacks # <<>> /\ callbacks' = Tail(callbacks)
        /\ waiters' = waiters
        /\ UNCHANGED <<m_queue_log, walPc, batches, sync_ok, files, synced, log_fd, snapshot_index, requests,
                       failures, written>>
    BY DEF NotifyCallbacks, fileVars, segmentVars, raftVars
  <1>4. PICK S : callbacks \in Seq(S)
    BY <1>1 DEF WalInv, TypeInv
  <1>5. PICK told : told = {Head(callbacks)}
    OBVIOUS
  <1>6. Told(told, sync_ok)
    BY <1>3, <1>5
  <1>7. ToSet(callbacks) = told \cup ToSet(Tail(callbacks))
    <2>1. PICK n \in Nat : n = Len(callbacks) /\ n >= 1
      BY <1>3, <1>4
    <2>2. PICK c : c = Tail(callbacks)
      OBVIOUS
    <2>3. c \in Seq(S) /\ Len(c) = n - 1 /\ \A k \in 1 .. n - 1 : c[k] = callbacks[k + 1]
      BY <1>3, <1>4, <2>1, <2>2
    <2>4. DOMAIN callbacks = 1 .. n /\ DOMAIN c = 1 .. n - 1 /\ Head(callbacks) = callbacks[1]
      BY <1>3, <1>4, <2>1, <2>3
    <2>5. \A k \in 1 .. n : k = 1 \/ (k - 1 \in 1 .. n - 1 /\ (k - 1) + 1 = k)
      OBVIOUS
    <2>6. \A k \in 1 .. n - 1 : k + 1 \in 1 .. n
      OBVIOUS
    <2>7. ToSet(callbacks) = {callbacks[k] : k \in 1 .. n} /\ ToSet(c) = {c[k] : k \in 1 .. n - 1}
      BY <2>4 DEF ToSet
    <2>8. \A r \in ToSet(callbacks) : r \in told \/ r \in ToSet(c)
      <3>1. ASSUME NEW k \in 1 .. n PROVE callbacks[k] \in told \/ callbacks[k] \in ToSet(c)
        <4>1. CASE k = 1
          BY <1>5, <2>4, <4>1
        <4>2. CASE k # 1
          <5>1. PICK m \in 1 .. n - 1 : m + 1 = k
            BY <2>5, <4>2
          <5>2. QED
            BY <2>3, <2>7, <5>1
        <4>3. QED
          BY <4>1, <4>2
      <3>2. QED
        BY <2>7, <3>1
    <2>9. \A r \in ToSet(c) : r \in ToSet(callbacks)
      BY <2>3, <2>6, <2>7
    <2>10. Head(callbacks) \in ToSet(callbacks)
      BY <2>1, <2>4, <2>7
    <2>11. QED
      BY <1>5, <2>2, <2>8, <2>9, <2>10
  <1>8. Collected = ToSet(waiters) \cup ToSet(callbacks) /\ Collected' = ToSet(waiters) \cup ToSet(Tail(callbacks))
    BY <1>3 DEF Collected
  <1>9. /\ \A r \in told : r \in Collected
        /\ \A r \in Collected : r \in told \/ r \in Collected'
        /\ \A r \in Collected' : r \in Collected
    BY <1>7, <1>8
  <1>10. QED
    BY <1>2, <1>3, <1>6, <1>9, ToldAck

----------------------------------------------------------------------------
\* A new request.

\* Sums.
LEMMA SumFacts ==
    ASSUME NEW s \in Nat, NEW x \in Nat, NEW y \in Nat, NEW g \in Nat, g <= s + x
    PROVE  g < s + x + 1 /\ g <= s + (x + y)
  OBVIOUS

\* One more request at the end of the queue.
LEMMA OneMoreRequest ==
    ASSUME NEW n \in Nat, NEW q \in Seq(Request(n)), NEW r \in Request(n)
    PROVE  /\ Append(q, r) \in Seq(Request(n)) /\ Len(Append(q, r)) = Len(q) + 1
           /\ \A k \in 1 .. Len(q) : Append(q, r)[k] = q[k]
           /\ Append(q, r)[Len(q) + 1] = r
           /\ Logs(Append(q, r)) = Logs(q) \o r.logs
           /\ \A b \in Seq(Request(n)) : b \o Append(q, r) = Append(b \o q, r)
  <1>1. PICK S : S = Request(n)
    OBVIOUS
  <1>2. q \in Seq(S) /\ r \in S
    BY <1>1
  <1>3. <<r>> \in Seq(S) /\ Append(q, r) = q \o <<r>>
    BY <1>2
  <1>4. Logs(<<r>>) = r.logs
    <2>1. PICK V : V = Lists(Entry)
      OBVIOUS
    <2>2. V \subseteq Seq(Entry) /\ Seq(Entry) \subseteq V
      BY <2>1 DEF Lists
    <2>3. r.logs \in Seq(Entry)
      BY RequestFacts
    <2>4. Logs(<<r>>) = FlattenSeq(Append(<<>>, r.logs))
      <3>1. [k \in DOMAIN <<r>> |-> <<r>>[k].logs] = Append(<<>>, r.logs)
        OBVIOUS
      <3>2. QED
        BY <3>1 DEF Logs
    <2>5. <<>> \in Seq(V)
      OBVIOUS
    <2>6. FlattenSeq(Append(<<>>, r.logs)) = FlattenSeq(<<>>) \o r.logs
      BY <2>2, <2>3, <2>5, FlattenAppend
    <2>7. <<>> \o r.logs = r.logs
      BY <2>3
    <2>8. QED
      BY <2>4, <2>6, <2>7, FlattenEmpty
  <1>5. Logs(Append(q, r)) = Logs(q) \o r.logs
    <2>1. <<r>> \in Seq(Request(n))
      BY <1>1, <1>3
    <2>2. Logs(q \o <<r>>) = Logs(q) \o Logs(<<r>>)
      BY <2>1, LogsConcat
    <2>3. QED
      BY <1>3, <1>4, <2>2
  <1>6. ASSUME NEW b \in Seq(S) PROVE b \o Append(q, r) = Append(b \o q, r)
    <2>1. (b \o q) \o <<r>> = b \o (q \o <<r>>)
      BY <1>2, <1>3, ConcatAssoc
    <2>2. b \o q \in Seq(S)
      BY <1>2
    <2>3. (b \o q) \o <<r>> = Append(b \o q, r)
      BY <1>2, <2>2
    <2>4. QED
      BY <1>3, <2>1, <2>3
  <1>7. /\ Append(q, r) \in Seq(S) /\ Len(Append(q, r)) = Len(q) + 1
        /\ \A k \in 1 .. Len(q) : Append(q, r)[k] = q[k]
        /\ Append(q, r)[Len(q) + 1] = r
    BY <1>2
  <1>8. QED
    BY <1>1, <1>5, <1>6, <1>7

\* The entries of a new request go on where raft's log ends, and join what is to be written at the end.
LEMMA NewRequest ==
    ASSUME AckedInv, NEW kind \in {"wait", "async"}, NEW n \in 1 .. MaxBatch, AppendLog(kind, n)
    PROVE  \E r \in Request(requests + 1) :
               /\ r.logs \in Seq(Entry) /\ Len(r.logs) = n
               /\ \A k \in 1 .. n : /\ r.logs[k].index = snapshot_index + Len(m_logs) + k
                                    /\ r.logs[k].id = requests + 1
               /\ m_logs' = m_logs \o r.logs /\ All' = All \o r.logs
               /\ Queue \in Seq(Request(requests + 1)) /\ Queue' = Append(Queue, r)
  <1>1. TypeInv /\ LogHeld /\ WalInv
    BY DEF AckedInv, WalInv
  <1>2. PICK logs : logs = [k \in 1 .. n |-> [index |-> NextIndex + k - 1, id |-> requests + 1]]
    OBVIOUS
  <1>3. /\ NextIndex \in Nat
        /\ logs \in Seq(Entry) /\ Len(logs) = n /\ n \in Nat
        /\ \A k \in 1 .. n : logs[k].index = NextIndex + k - 1 /\ logs[k].id = requests + 1
        /\ [kind |-> kind, logs |-> logs] \in Request(requests + 1)
    BY <1>1, <1>2, NewEntries
  <1>4. /\ requests' = requests + 1 /\ m_logs' = m_logs \o logs /\ batches' = batches /\ written' = written
        /\ m_queue_log' = Append(m_queue_log, [kind |-> kind, logs |-> logs])
    BY <1>2, Zenon DEF AppendLog, walVars
  <1>5. NextIndex = snapshot_index + Len(m_logs) + 1
    <2>1. m_logs \in Seq(Entry) /\ snapshot_index \in Nat
      BY <1>1 DEF TypeInv
    <2>2. PICK x \in Nat : x = Len(m_logs)
      <3>1. Len(m_logs) \in Nat
        BY <2>1
      <3>2. QED
        BY <3>1
    <2>3. CASE m_logs = <<>>
      <3>1. x = 0
        BY <2>2, <2>3
      <3>2. NextIndex = snapshot_index + 1
        BY <2>3, Zenon DEF NextIndex
      <3>3. QED
        BY <2>2, <2>1, <3>1, <3>2
    <2>4. CASE m_logs # <<>>
      <3>1. x >= 1 /\ Last(m_logs) = m_logs[x]
        BY <2>2, <2>1, <2>4 DEF Last
      <3>2. m_logs[x].index = snapshot_index + x
        BY <1>1, <2>2, <3>1 DEF LogHeld
      <3>3. QED
        BY <2>2, <2>4, <3>1, <3>2 DEF NextIndex
    <2>5. QED
      BY <2>3, <2>4
  <1>6. PICK r : r = [kind |-> kind, logs |-> logs]
    OBVIOUS
  <1>7. r \in Request(requests + 1) /\ r.logs = logs /\ requests + 1 \in Nat /\ requests \in Nat
    BY <1>1, <1>3, <1>6 DEF TypeInv
  <1>8. /\ batches \in Seq(Request(requests + 1)) /\ m_queue_log \in Seq(Request(requests + 1))
        /\ Queue \in Seq(Request(requests + 1))
    <2>1. Queue \in Seq(Request(requests))
      BY <1>1, AllFacts
    <2>2. QED
      BY <1>1, <1>7, <2>1, RequestsWiden DEF TypeInv
  <1>9. Queue' = Append(Queue, r)
    <2>0. PICK c \in Nat : c = requests + 1
      BY <1>7
    <2>1. m_queue_log \in Seq(Request(c)) /\ batches \in Seq(Request(c)) /\ r \in Request(c)
      BY <1>7, <1>8, <2>0
    <2>2. \A b \in Seq(Request(c)) : b \o Append(m_queue_log, r) = Append(b \o m_queue_log, r)
      BY <2>1, OneMoreRequest
    <2>3. QED
      BY <1>4, <1>6, <2>1, <2>2 DEF Queue
  <1>10. All' = All \o logs
    <2>1. Logs(Append(Queue, r)) = Logs(Queue) \o r.logs
      BY <1>7, <1>8, OneMoreRequest
    <2>2. Queued' = Queued \o logs
      BY <1>7, <1>9, <2>1 DEF Queued
    <2>3. Queued \in Seq(Entry) /\ written \in Seq(Entry)
      BY <1>1, AllFacts
    <2>4. (written \o Queued) \o logs = written \o (Queued \o logs)
      BY <1>3, <2>3, ConcatAssoc
    <2>5. QED
      BY <1>4, <2>2, <2>4 DEF All
  <1>11. \A k \in 1 .. n : logs[k].index = snapshot_index + Len(m_logs) + k /\ logs[k].id = requests + 1
    <2>1. snapshot_index + Len(m_logs) \in Nat
      BY <1>1 DEF TypeInv
    <2>2. PICK b \in Nat : b = snapshot_index + Len(m_logs)
      BY <2>1
    <2>3. ASSUME NEW k \in 1 .. n PROVE logs[k].index = b + k
      BY <1>3, <1>5, <2>2
    <2>4. QED
      BY <1>3, <2>2, <2>3
  <1>12. QED
    BY <1>3, <1>4, <1>7, <1>8, <1>9, <1>10, <1>11

\* A new request.
LEMMA AppendLogAck ==
    ASSUME AckedInv, NEW kind \in {"wait", "async"}, NEW n \in 1 .. MaxBatch, AppendLog(kind, n)
    PROVE  AckedInv'
  <1>1. WalInv /\ LogHeld /\ StableHeld /\ CollectedHeld /\ QueueInOrder
    BY DEF AckedInv
  <1>2. WalInv'
    BY <1>1, AppendLogWal
  <1>3. /\ requests' = requests + 1 /\ outcome' = Append(outcome, "none")
        /\ UNCHANGED <<walPc, batches, waiters, callbacks, sync_ok, files, synced, log_fd, snapshot_index,
                       failures, written>>
    BY Zenon DEF AppendLog, walVars, fileVars, segmentVars, raftVars
  <1>4. PICK r \in Request(requests + 1) :
               /\ r.logs \in Seq(Entry) /\ Len(r.logs) = n
               /\ \A k \in 1 .. n : /\ r.logs[k].index = snapshot_index + Len(m_logs) + k
                                    /\ r.logs[k].id = requests + 1
               /\ m_logs' = m_logs \o r.logs /\ All' = All \o r.logs
               /\ Queue \in Seq(Request(requests + 1)) /\ Queue' = Append(Queue, r)
    BY NewRequest
  <1>5. PICK v \in Seq(Entry), m \in Seq(Entry), a \in Seq(Entry), s \in Nat :
            /\ v = r.logs /\ m = m_logs /\ a = All /\ s = snapshot_index
    BY <1>1, <1>4, AllFacts
  <1>6. PICK x \in Nat, z \in Nat, y \in Nat : x = Len(m) /\ z = Len(a) /\ y = n
    OBVIOUS
  <1>7. PICK M \in Seq(Entry) : /\ M = m_logs' /\ Len(M) = x + y
                                /\ \A k \in 1 .. x : M[k] = m[k]
                                /\ \A k \in x + 1 .. x + y : M[k] = v[k - x]
    <2>1. /\ m \o v \in Seq(Entry) /\ Len(m \o v) = Len(m) + Len(v)
          /\ \A k \in 1 .. Len(m) : (m \o v)[k] = m[k]
          /\ \A k \in Len(m) + 1 .. Len(m) + Len(v) : (m \o v)[k] = v[k - Len(m)]
      BY ConcatFacts
    <2>2. Len(m) = x /\ Len(v) = y /\ m_logs' = m \o v
      BY <1>4, <1>5, <1>6
    <2>3. QED
      BY <2>1, <2>2
  <1>8. PICK A \in Seq(Entry) : /\ A = All' /\ A = a \o v /\ Len(A) = z + y
                                /\ \A k \in z + 1 .. z + y : A[k] = v[k - z]
    <2>1. /\ a \o v \in Seq(Entry) /\ Len(a \o v) = Len(a) + Len(v)
          /\ \A k \in Len(a) + 1 .. Len(a) + Len(v) : (a \o v)[k] = v[k - Len(a)]
      BY ConcatFacts
    <2>2. Len(a) = z /\ Len(v) = y /\ All' = a \o v
      BY <1>4, <1>5, <1>6
    <2>3. QED
      BY <2>1, <2>2
  <1>9. /\ \A k \in 1 .. x : m[k].index = s + k /\ m[k].id \in 1 .. requests
        /\ \A k \in 1 .. y : v[k].index = s + x + k /\ v[k].id = requests + 1
        /\ Len(v) = y /\ requests \in Nat
    <2>1. \A k \in 1 .. x : m[k].index = s + k
      BY <1>1, <1>5, <1>6 DEF LogHeld
    <2>2. \A k \in 1 .. x : m[k].id \in 1 .. requests
      BY <1>1, <1>5, <1>6, AllFacts
    <2>3. QED
      BY <1>1, <1>4, <1>5, <1>6, <2>1, <2>2, AllFacts
  <1>10. ASSUME NEW k \in 1 .. x, NEW l \in Nat, Holds(m[k], a, l, s)
         PROVE  Holds(m[k], A, l, s)
    <2>1. \A i \in 1 .. Len(v) : v[i].index > m[k].index
      BY <1>9
    <2>2. Holds(m[k], a \o v, l, s)
      BY <1>10, <2>1, HoldsAppend
    <2>3. QED
      BY <1>8, <2>2
  <1>11. ASSUME NEW k \in x + 1 .. x + y
         PROVE  M[k].index = s + k /\ M[k].id = requests + 1 /\ Holds(M[k], A, z + y, s)
    <2>1. PICK i \in 1 .. y : i = k - x
      OBVIOUS
    <2>2. M[k] = v[i]
      BY <1>7, <2>1
    <2>3. v[i].index = s + x + i /\ v[i].id = requests + 1
      BY <1>9
    <2>4. PICK p \in 1 .. z + y : p = z + i
      <3>1. z + i \in 1 .. z + y
        OBVIOUS
      <3>2. QED
        BY <3>1
    <2>5. A[p] = v[i]
      <3>1. p \in z + 1 .. z + y /\ p - z = i
        BY <2>4
      <3>2. QED
        BY <1>8, <3>1
    <2>6. ASSUME NEW q \in p + 1 .. z + y PROVE A[q].index \notin s + 1 .. v[i].index
      <3>1. q \in z + 1 .. z + y /\ q - z \in 1 .. y /\ q - z > i
        BY <2>4
      <3>2. A[q] = v[q - z] /\ v[q - z].index = s + x + (q - z)
        BY <1>8, <1>9, <3>1
      <3>3. QED
        BY <2>3, <3>1, <3>2
    <2>7. Holds(v[i], A, z + y, s)
      <3>1. p <= z + y /\ z + y = Len(A)
        BY <1>8
      <3>2. PICK e : e = v[i]
        OBVIOUS
      <3>3. A[p] = e /\ \A q \in p + 1 .. z + y : A[q].index \notin s + 1 .. e.index
        BY <2>5, <2>6, <3>2
      <3>4. Holds(e, A, z + y, s)
        BY <3>1, <3>3, HoldsAt, Zenon
      <3>5. QED
        BY <3>2, <3>4
    <2>8. M[k].index = s + k
      BY <2>1, <2>2, <2>3
    <2>9. QED
      BY <2>2, <2>3, <2>7, <2>8
  <1>12. ASSUME NEW k \in 1 .. x + y
         PROVE  k \in 1 .. x \/ k \in x + 1 .. x + y
    OBVIOUS
  <1>13. LogHeld'
    <2>1. ASSUME NEW k \in 1 .. x + y
          PROVE  M[k].index = s + k /\ (Holds(M[k], A, Len(A), s) \/ Lost(M[k])')
      <3>1. CASE k \in 1 .. x
        <4>1. M[k] = m[k] /\ M[k].index = s + k
          BY <1>7, <1>9, <3>1
        <4>2. Holds(m[k], a, z, s) \/ Lost(m[k])
          BY <1>1, <1>5, <1>6, <3>1 DEF LogHeld
        <4>3. CASE Holds(m[k], a, z, s)
          <5>1. Holds(m[k], A, z, s)
            BY <1>10, <3>1, <4>3
          <5>2. Holds(m[k], A, z + y, s) /\ Len(A) = z + y
            <6>1. z + y \in Nat /\ z <= z + y /\ s <= s
              OBVIOUS
            <6>2. QED
              BY <1>8, <5>1, <6>1, HoldsWiden
          <5>3. QED
            BY <4>1, <5>2
        <4>4. CASE Lost(m[k])
          <5>1. Lost(m[k])'
            BY <1>3, <1>5, <4>4 DEF Lost, Collected
          <5>2. QED
            BY <4>1, <5>1
        <4>5. QED
          BY <4>2, <4>3, <4>4
      <3>2. CASE k \in x + 1 .. x + y
        BY <1>8, <1>11, <3>2
      <3>3. QED
        BY <1>12, <3>1, <3>2
    <2>2. QED
      BY <1>3, <1>5, <1>7, <1>8, <2>1 DEF LogHeld
  <1>14. /\ Durable' = Durable /\ Durable \in Nat /\ Collected' = Collected /\ Len(written) \in Nat
    <2>1. Durable' = Durable /\ Collected' = Collected
      BY <1>3 DEF Durable, Collected
    <2>2. QED
      BY <1>1, <2>1, DurableFacts
  <1>15. /\ \A i \in 1 .. requests : outcome'[i] = outcome[i]
         /\ outcome'[requests + 1] = "none"
    <2>1. PICK S : outcome \in Seq(S) /\ Len(outcome) = requests
      BY <1>1 DEF WalInv, TypeInv
    <2>2. QED
      BY <1>3, <1>9, <2>1
  <1>16. StableHeld'
    <2>1. ASSUME NEW k \in 1 .. x + y, NEW j \in 1 .. x + y, outcome'[M[k].id] = "stable", j <= k
          PROVE  Holds(M[j], A, Durable, s)
      <3>1. k \in 1 .. x
        <4>1. CASE k \in x + 1 .. x + y
          BY <1>11, <1>15, <2>1, <4>1
        <4>2. QED
          BY <1>12, <4>1
      <3>2. j \in 1 .. x
        BY <2>1, <3>1
      <3>3. outcome[m[k].id] = "stable"
        BY <1>7, <1>9, <1>15, <2>1, <3>1
      <3>4. Holds(m[j], a, Durable, s)
        BY <1>1, <1>5, <1>6, <2>1, <3>1, <3>2, <3>3 DEF StableHeld
      <3>5. PICK l \in Nat : l = Durable
        BY <1>14
      <3>6. Holds(m[j], A, l, s)
        BY <1>10, <3>2, <3>4, <3>5
      <3>7. QED
        BY <1>7, <3>2, <3>5, <3>6
    <2>2. QED
      BY <1>3, <1>5, <1>7, <1>8, <1>14, <2>1 DEF StableHeld
  <1>17. CollectedHeld'
    <2>1. ASSUME walPc # "notify" \/ sync_ok, NEW c \in Collected, NEW k \in 1 .. x + y, NEW j \in 1 .. x + y,
                 M[k].id = c.logs[1].id, j <= k
          PROVE  Holds(M[j], A, Len(written), s)
      <3>1. c.logs[1].id \in 1 .. requests
        <4>1. /\ waiters \in Seq(Request(requests)) /\ callbacks \in Seq(Request(requests)) /\ requests \in Nat
          BY <1>1, AllFacts
        <4>2. c \in Request(requests)
          BY <2>1, <4>1 DEF Collected, ToSet
        <4>3. QED
          BY <4>1, <4>2, RequestFacts
      <3>2. k \in 1 .. x
        <4>1. CASE k \in x + 1 .. x + y
          BY <1>9, <1>11, <2>1, <3>1, <4>1
        <4>2. QED
          BY <1>12, <4>1
      <3>3. j \in 1 .. x
        BY <2>1, <3>2
      <3>4. m[k].id = c.logs[1].id
        BY <1>7, <2>1, <3>2
      <3>5. Holds(m[j], a, Len(written), s)
        BY <1>1, <1>5, <1>6, <2>1, <3>2, <3>3, <3>4 DEF CollectedHeld
      <3>6. PICK l \in Nat : l = Len(written)
        BY <1>14
      <3>7. Holds(m[j], A, l, s)
        BY <1>10, <3>3, <3>5, <3>6
      <3>8. QED
        BY <1>7, <3>3, <3>6, <3>7
    <2>2. walPc \in {"rename", "open"} \/ (walPc = "notify" /\ sync_ok) => Durable = Len(written)
      BY <1>1 DEF CollectedHeld
    <2>3. QED
      BY <1>3, <1>5, <1>7, <1>8, <1>14, <2>1, <2>2 DEF CollectedHeld
  <1>18. QueueInOrder'
    <2>0. PICK n1 \in Nat : n1 = requests + 1
      BY <1>9
    <2>1. PICK q \in Seq(Request(n1)) : q = Queue
      BY <1>4, <2>0
    <2>2. PICK u \in Nat : u = Len(q)
      OBVIOUS
    <2>3. PICK Q \in Seq(Request(n1)) : /\ Q = Queue' /\ Len(Q) = u + 1 /\ Q[u + 1] = r
                                        /\ \A k \in 1 .. u : Q[k] = q[k]
      <3>1. r \in Request(n1) /\ n1 \in Nat
        BY <2>0
      <3>2. /\ Append(q, r) \in Seq(Request(n1)) /\ Len(Append(q, r)) = Len(q) + 1
            /\ \A k \in 1 .. Len(q) : Append(q, r)[k] = q[k]
            /\ Append(q, r)[Len(q) + 1] = r
        BY <3>1, OneMoreRequest
      <3>3. QED
        BY <1>4, <2>1, <2>2, <3>2
    <2>4. r.logs[1].id = requests + 1 /\ r.logs[1].index = s + x + 1
      BY <1>4, <1>5, <1>6, <1>9
    <2>5. \A i \in 1 .. u : q[i].logs[1].id \in 1 .. requests /\ q[i].logs[1].index \in Nat
      <3>1. Queue \in Seq(Request(requests)) /\ requests \in Nat
        BY <1>1, AllFacts
      <3>2. \A c \in Request(requests) : c.logs[1].id \in 1 .. requests /\ c.logs[1].index \in Nat
        BY <3>1, RequestFacts
      <3>4. \A i \in 1 .. Len(Queue) : Queue[i] \in Request(requests)
        BY <3>1
      <3>3. QED
        BY <2>1, <2>2, <3>2, <3>4
    <2>6. /\ \A i, j \in 1 .. u : i < j => q[i].logs[1].id < q[j].logs[1].id
          /\ failures = 0 =>
                /\ \A i, j \in 1 .. u : i < j => q[i].logs[1].index < q[j].logs[1].index
                /\ \A i \in 1 .. u : q[i].logs[1].index <= s + x
      BY <1>1, <1>5, <1>6, <2>1, <2>2 DEF QueueInOrder
    <2>7. \A i, j \in 1 .. u + 1 : i < j => i \in 1 .. u /\ (j \in 1 .. u \/ j = u + 1)
      OBVIOUS
    <2>8. \A i, j \in 1 .. u + 1 : i < j => Q[i].logs[1].id < Q[j].logs[1].id
      <3>1. ASSUME NEW i \in 1 .. u + 1, NEW j \in 1 .. u + 1, i < j
            PROVE  Q[i].logs[1].id < Q[j].logs[1].id
        <4>1. i \in 1 .. u /\ (j \in 1 .. u \/ j = u + 1)
          BY <2>7, <3>1
        <4>2. Q[i] = q[i] /\ q[i].logs[1].id \in 1 .. requests
          BY <2>3, <2>5, <4>1
        <4>3. CASE j \in 1 .. u
          BY <2>3, <2>6, <3>1, <4>1, <4>2, <4>3
        <4>4. CASE j = u + 1
          <5>1. Q[j].logs[1].id = requests + 1
            BY <2>3, <2>4, <4>4
          <5>2. PICK g \in 1 .. requests : g = Q[i].logs[1].id
            BY <4>2
          <5>3. g < requests + 1
            BY <1>9
          <5>4. QED
            BY <5>1, <5>2, <5>3, Zenon
        <4>5. QED
          BY <4>1, <4>3, <4>4
      <3>2. QED
        BY <3>1
    <2>9. ASSUME failures = 0
          PROVE  /\ \A i, j \in 1 .. u + 1 : i < j => Q[i].logs[1].index < Q[j].logs[1].index
                 /\ \A i \in 1 .. u + 1 : Q[i].logs[1].index <= s + (x + y)
      <3>1. ASSUME NEW i \in 1 .. u + 1, NEW j \in 1 .. u + 1, i < j
            PROVE  Q[i].logs[1].index < Q[j].logs[1].index
        <4>1. i \in 1 .. u /\ (j \in 1 .. u \/ j = u + 1)
          BY <2>7, <3>1
        <4>2. Q[i] = q[i] /\ q[i].logs[1].index \in Nat /\ q[i].logs[1].index <= s + x
          BY <2>3, <2>5, <2>6, <2>9, <4>1
        <4>3. CASE j \in 1 .. u
          BY <2>3, <2>6, <2>9, <3>1, <4>1, <4>2, <4>3
        <4>4. CASE j = u + 1
          <5>1. Q[j].logs[1].index = s + x + 1
            BY <2>3, <2>4, <4>4
          <5>2. PICK g \in Nat : g = Q[i].logs[1].index /\ g <= s + x
            BY <4>2
          <5>3. g < s + x + 1
            BY <5>2, SumFacts, Zenon
          <5>4. QED
            BY <5>1, <5>2, <5>3, Zenon
        <4>5. QED
          BY <4>1, <4>3, <4>4
      <3>2. y >= 1
        BY <1>6
      <3>3. \A i \in 1 .. u + 1 : i \in 1 .. u \/ i = u + 1
        OBVIOUS
      <3>4. \A i \in 1 .. u : Q[i].logs[1].index \in Nat /\ Q[i].logs[1].index <= s + x
        BY <2>3, <2>5, <2>6, <2>9
      <3>5. Q[u + 1].logs[1].index = s + x + 1
        BY <2>3, <2>4
      <3>6. ASSUME NEW i \in 1 .. u + 1 PROVE Q[i].logs[1].index <= s + (x + y)
        <4>1. CASE i \in 1 .. u
          <5>1. PICK g \in Nat : g = Q[i].logs[1].index /\ g <= s + x
            BY <3>4, <4>1
          <5>2. g <= s + (x + y)
            BY <3>2, <5>1, SumFacts, Zenon
          <5>3. QED
            BY <5>1, <5>2, Zenon
        <4>2. CASE i = u + 1
          <5>1. Q[i].logs[1].index = s + x + 1
            BY <3>5, <4>2
          <5>2. s + x + 1 <= s + (x + y)
            BY <3>2
          <5>3. QED
            BY <5>1, <5>2, Zenon
        <4>3. QED
          BY <3>3, <4>1, <4>2
      <3>7. QED
        BY <3>1, <3>6
    <2>10. Len(Queue') = u + 1 /\ Len(m_logs') = x + y /\ snapshot_index' = s
      BY <1>3, <1>5, <1>7, <2>3
    <2>11. QED
      BY <1>1, <1>3, <2>3, <2>8, <2>9, <2>10 DEF QueueInOrder
  <1>19. QED
    BY <1>2, <1>13, <1>16, <1>17, <1>18 DEF AckedInv

----------------------------------------------------------------------------
\* Snapshots and restarts.

\* A snapshot cuts off the front of raft's log.
LEMMA SaveRaftStateAck ==
    ASSUME AckedInv, NEW s \in SnapshotAt, SaveRaftState(s) PROVE AckedInv'
  <1>1. WalInv /\ LogHeld /\ StableHeld /\ CollectedHeld /\ QueueInOrder /\ TypeInv
    BY DEF AckedInv, WalInv
  <1>2. WalInv'
    BY <1>1, SaveRaftStateWal
  <1>3. /\ snapshot_index' = s
        /\ UNCHANGED <<m_queue_log, walPc, batches, waiters, callbacks, sync_ok, files, synced, log_fd,
                       requests, failures, outcome, written>>
    BY DEF SaveRaftState, walVars, fileVars, segmentVars
  <1>4. All' = All /\ Queue' = Queue /\ Durable' = Durable /\ Collected' = Collected
    BY <1>3 DEF All, Queued, Queue, Durable, Collected
  <1>5. /\ s \in Nat /\ s >= snapshot_index /\ m_logs' \in Seq(Entry) /\ Len(m_logs') \in Nat
        /\ \A k \in 1 .. Len(m_logs') : /\ k + (s - snapshot_index) \in 1 .. Len(m_logs)
                                        /\ m_logs'[k] = m_logs[k + (s - snapshot_index)]
        /\ Len(m_logs') = IF s - snapshot_index <= Len(m_logs) THEN Len(m_logs) - (s - snapshot_index) ELSE 0
    BY <1>1, Truncated
  <1>6. /\ snapshot_index \in Nat /\ m_logs \in Seq(Entry) /\ Len(m_logs) \in Nat /\ All \in Seq(Entry)
        /\ Len(All) \in Nat /\ Len(written) \in Nat /\ Durable \in Nat
    BY <1>1, AllFacts, DurableFacts
  <1>7. PICK i \in Nat, d \in Nat, x \in Nat : i = snapshot_index /\ d = s - i /\ x = Len(m_logs) /\ s = i + d
    <2>1. s - snapshot_index \in Nat /\ s = snapshot_index + (s - snapshot_index)
      BY <1>5, <1>6
    <2>2. QED
      BY <1>6, <2>1, Zenon
  <1>8. PICK n \in Nat : /\ n = Len(m_logs')
                         /\ \A k \in 1 .. n : k + d \in 1 .. x /\ m_logs'[k] = m_logs[k + d]
                         /\ i + x <= s + n
    <2>1. PICK n \in Nat : n = Len(m_logs')
      BY <1>5, Zenon
    <2>2. \A k \in 1 .. n : k + d \in 1 .. x /\ m_logs'[k] = m_logs[k + d]
      BY <1>5, <1>7, <2>1
    <2>3. n = IF d <= x THEN x - d ELSE 0
      BY <1>5, <1>7, <2>1
    <2>4. i + x <= s + n
      BY <1>7, <2>3
    <2>5. QED
      BY <2>1, <2>2, <2>4
  <1>9. ASSUME NEW k \in 1 .. x, NEW l \in Nat, Holds(m_logs[k], All, l, i)
        PROVE  Holds(m_logs[k], All, l, s)
    <2>1. i <= s /\ l <= l
      BY <1>7
    <2>2. QED
      BY <1>5, <1>6, <1>9, <2>1, HoldsWiden
  <1>10. LogHeld'
    <2>1. ASSUME NEW k \in 1 .. n
          PROVE  /\ m_logs'[k].index = s + k
                 /\ Holds(m_logs'[k], All, Len(All), s) \/ Lost(m_logs[k])'
      <3>1. PICK z \in 1 .. x : z = k + d /\ m_logs'[k] = m_logs[z]
        BY <1>8
      <3>2. m_logs[z].index = i + z /\ (Holds(m_logs[z], All, Len(All), i) \/ Lost(m_logs[z]))
        BY <1>1, <1>7 DEF LogHeld
      <3>3. i + z = s + k
        BY <1>7, <3>1
      <3>4. CASE Holds(m_logs[z], All, Len(All), i)
        <4>1. PICK l \in Nat : l = Len(All)
          BY <1>6
        <4>2. Holds(m_logs[z], All, l, s)
          BY <1>9, <3>4, <4>1
        <4>3. QED
          BY <3>1, <3>2, <3>3, <4>1, <4>2
      <3>5. CASE Lost(m_logs[z])
        <4>1. Lost(m_logs[k])'
          BY <1>3, <1>4, <3>1, <3>5 DEF Lost
        <4>2. QED
          BY <3>1, <3>2, <3>3, <4>1
      <3>6. QED
        BY <3>2, <3>4, <3>5
    <2>2. QED
      BY <1>3, <1>4, <1>8, <2>1 DEF LogHeld
  <1>11. \A j, k \in 1 .. n : j <= k => j + d <= k + d
    OBVIOUS
  <1>12. StableHeld'
    <2>1. ASSUME NEW k \in 1 .. n, NEW j \in 1 .. n, outcome[m_logs'[k].id] = "stable", j <= k
          PROVE  Holds(m_logs'[j], All, Durable, s)
      <3>1. PICK z \in 1 .. x, y \in 1 .. x : /\ z = k + d /\ m_logs'[k] = m_logs[z]
                                              /\ y = j + d /\ m_logs'[j] = m_logs[y] /\ y <= z
        BY <1>8, <1>11, <2>1
      <3>2. Holds(m_logs[y], All, Durable, i)
        BY <1>1, <1>7, <2>1, <3>1 DEF StableHeld
      <3>3. PICK l \in Nat : l = Durable
        BY <1>6
      <3>4. QED
        BY <1>9, <3>1, <3>2, <3>3
    <2>2. QED
      BY <1>3, <1>4, <1>8, <2>1 DEF StableHeld
  <1>13. CollectedHeld'
    <2>1. ASSUME walPc # "notify" \/ sync_ok, NEW r \in Collected, NEW k \in 1 .. n, NEW j \in 1 .. n,
                 m_logs'[k].id = r.logs[1].id, j <= k
          PROVE  Holds(m_logs'[j], All, Len(written), s)
      <3>1. PICK z \in 1 .. x, y \in 1 .. x : /\ z = k + d /\ m_logs'[k] = m_logs[z]
                                              /\ y = j + d /\ m_logs'[j] = m_logs[y] /\ y <= z
        BY <1>8, <1>11, <2>1
      <3>2. m_logs[z].id = r.logs[1].id
        BY <2>1, <3>1
      <3>3. Holds(m_logs[y], All, Len(written), i)
        BY <1>1, <1>7, <2>1, <3>1, <3>2 DEF CollectedHeld
      <3>4. PICK l \in Nat : l = Len(written)
        BY <1>6
      <3>5. QED
        BY <1>9, <3>1, <3>3, <3>4
    <2>2. walPc \in {"rename", "open"} \/ (walPc = "notify" /\ sync_ok) => Durable = Len(written)
      BY <1>1 DEF CollectedHeld
    <2>3. QED
      BY <1>3, <1>4, <1>8, <2>1, <2>2 DEF CollectedHeld
  <1>14. QueueInOrder'
    <2>1. ASSUME failures = 0, NEW a \in 1 .. Len(Queue)
          PROVE  Queue[a].logs[1].index <= s + n
      <3>1. Queue[a].logs[1].index <= i + x
        BY <1>1, <1>7, <2>1 DEF QueueInOrder
      <3>2. PICK g \in Nat : g = Queue[a].logs[1].index
        <4>1. Queue \in Seq(Request(requests)) /\ requests \in Nat
          BY <1>1, AllFacts
        <4>2. Queue[a].logs[1].index \in Nat
          BY <4>1, RequestFacts
        <4>3. QED
          BY <4>2
      <3>3. g <= s + n
        BY <1>7, <1>8, <3>1, <3>2
      <3>4. QED
        BY <3>2, <3>3
    <2>2. QED
      BY <1>1, <1>3, <1>4, <1>8, <2>1 DEF QueueInOrder
  <1>15. QED
    BY <1>2, <1>10, <1>12, <1>13, <1>14 DEF AckedInv

\* The rewrite: what is in the way of no replay is left out of the log.
LEMMA RewriteAck ==
    ASSUME AckedInv, NoFaults, RewriteWalFrom PROVE AckedInv'
  <1>1. WalInv /\ LogHeld /\ StableHeld /\ CollectedHeld /\ QueueInOrder
    BY DEF AckedInv
  <1>2. WalInv'
    BY <1>1, RewriteWal
  <1>3. /\ raftPc = "rewrite" /\ written' = ReadPersistedLogs(written, snapshot_index)
        /\ log_fd' = openSegmentName(snapshot_index + 1)
        /\ UNCHANGED <<m_queue_log, walPc, batches, waiters, callbacks, sync_ok, snapshot_index, m_logs,
                       requests, failures, outcome>>
    BY DEF RewriteWalFrom, walVars, clientVars
  <1>4. /\ walPc \in {"pop", "write"} /\ log_fd = NoFile
        /\ compacted = ReadPersistedLogs(written, snapshot_index)
    BY <1>1, <1>3 DEF WalInv, MutexesHeld, FilesInv, ContentsInv
  <1>5. PICK w \in Seq(Entry), u \in Seq(Entry), m \in Seq(Entry), s \in Nat :
            w = written /\ u = Queued /\ m = m_logs /\ s = snapshot_index /\ All = w \o u
    BY <1>1, AllFacts DEF All
  <1>6. PICK R \in Seq(Entry) : R = ReadPersistedLogs(w, s)
    BY ReplayKept
  <1>7. /\ Queue' = Queue /\ Collected' = Collected /\ written' = R /\ All' = R \o u
    <2>1. Queue' = Queue /\ Collected' = Collected /\ written' = R
      BY <1>3, <1>5, <1>6 DEF Queue, Collected
    <2>2. QED
      BY <1>5, <2>1 DEF All, Queued
  <1>8. Durable' = Len(R) /\ Durable = Len(w) /\ Len(w) \in Nat
    <2>1. Durable = Len(w)
      BY <1>1, <1>4, <1>5, DurableFacts
    <2>2. /\ files' = [f \in {log_fd'} |-> SubSeq(compacted, 1, Len(compacted))]
          /\ synced' = [f \in {log_fd'} |-> Len(compacted)]
      BY <1>3 DEF RewriteWalFrom, NoFaults
    <2>3. compacted = R /\ SubSeq(R, 1, Len(R)) = R
      BY <1>4, <1>5, <1>6
    <2>4. files'[log_fd'] = R /\ synced'[log_fd'] = Len(R)
      BY <2>2, <2>3
    <2>5. log_fd' # NoFile
      BY <1>3 DEF openSegmentName, NoFile
    <2>6. Durable' = Len(R) - (Len(R) - Len(R))
      BY <1>7, <2>4, <2>5 DEF Durable
    <2>7. QED
      BY <2>1, <2>6
  <1>9. \A k \in 1 .. Len(m) : m[k].index = s + k /\ Holds(m[k], w \o u, Len(w \o u), s)
    BY <1>1, <1>4, <1>5 DEF LogHeld, Lost
  <1>10. ASSUME NEW k \in 1 .. Len(m)
         PROVE  /\ Holds(m[k], R \o u, Len(R \o u), s)
                /\ Holds(m[k], w \o u, Len(w), s) => Holds(m[k], R \o u, Len(R), s)
    BY <1>6, <1>9, HoldsReplayed
  <1>11. LogHeld'
    BY <1>3, <1>5, <1>7, <1>9, <1>10 DEF LogHeld
  <1>12. StableHeld'
    <2>1. ASSUME NEW k \in 1 .. Len(m), NEW j \in 1 .. Len(m), outcome[m[k].id] = "stable", j <= k
          PROVE  Holds(m[j], R \o u, Len(R), s)
      <3>1. Holds(m[j], w \o u, Len(w), s)
        BY <1>1, <1>5, <1>8, <2>1 DEF StableHeld
      <3>2. QED
        BY <1>10, <3>1
    <2>2. QED
      BY <1>3, <1>5, <1>7, <1>8, <2>1 DEF StableHeld
  <1>13. CollectedHeld'
    <2>1. ASSUME NEW r \in Collected, NEW k \in 1 .. Len(m), NEW j \in 1 .. Len(m),
                 m[k].id = r.logs[1].id, j <= k
          PROVE  Holds(m[j], R \o u, Len(R), s)
      <3>1. Holds(m[j], w \o u, Len(w), s)
        BY <1>1, <1>4, <1>5, <2>1 DEF CollectedHeld
      <3>2. QED
        BY <1>10, <3>1
    <2>2. walPc' \notin {"rename", "open", "notify"}
      BY <1>3, <1>4
    <2>3. QED
      BY <1>3, <1>5, <1>7, <2>1, <2>2 DEF CollectedHeld
  <1>14. QueueInOrder'
    BY <1>1, <1>3, <1>7 DEF QueueInOrder
  <1>15. QED
    BY <1>2, <1>11, <1>12, <1>13, <1>14 DEF AckedInv

\* A restart: raft's log is what the replay makes of what is left.
LEMMA RestartAck ==
    ASSUME AckedInv, NoFaults, Restart PROVE AckedInv'
  <1>1. WalInv /\ QueueInOrder
    BY DEF AckedInv
  <1>2. WalInv'
    BY <1>1, RestartWal
  <1>3. /\ m_queue_log' = <<>> /\ batches' = <<>> /\ waiters' = <<>> /\ callbacks' = <<>>
        /\ walPc' = "pop" /\ sync_ok' = TRUE
        /\ UNCHANGED <<snapshot_index, requests, failures, outcome>>
    BY DEF Restart
  <1>4. /\ written' \in Seq(Entry) /\ m_logs' = ReadPersistedLogs(written', snapshot_index)
        /\ log_fd' \in Segment /\ synced'[log_fd'] = Len(files'[log_fd'])
    BY <1>1, RestartFacts
  <1>5. PICK w \in Seq(Entry), s \in Nat : w = written' /\ s = snapshot_index
    BY <1>1, <1>4, AllFacts
  <1>6. PICK R \in Seq(Entry) : /\ R = m_logs'
                                /\ \A j \in 1 .. Len(R) : R[j].index = s + j /\ Holds(R[j], w, Len(w), s)
    BY <1>4, <1>5, ReplayKept
  <1>7. Queue' = <<>> /\ All' = w
    <2>1. Queue' = <<>>
      BY <1>3 DEF Queue
    <2>2. Queued' = <<>>
      BY <2>1, FlattenEmpty DEF Queued, Logs
    <2>3. w \o <<>> = w
      OBVIOUS
    <2>4. QED
      BY <1>5, <2>1, <2>2, <2>3 DEF All
  <1>8. Durable' = Len(w)
    <2>1. log_fd' # NoFile
      BY <1>4 DEF Segment, NoFile
    <2>2. synced'[log_fd'] \in Nat
      <3>1. FilesInv' /\ log_fd' \in DOMAIN files'
        <4>1. FilesInv'
          BY <1>2 DEF WalInv
        <4>2. QED
          BY <2>1, <4>1 DEF FilesInv, Listed
      <3>2. QED
        BY <3>1 DEF FilesInv
    <2>3. PICK l \in Nat : l = synced'[log_fd'] /\ l = Len(files'[log_fd'])
      BY <1>4, <2>2
    <2>4. Durable' = Len(w) - (l - l)
      BY <1>5, <2>1, <2>3 DEF Durable
    <2>5. QED
      BY <2>4
  <1>9. LogHeld'
    BY <1>3, <1>5, <1>6, <1>7 DEF LogHeld
  <1>10. StableHeld'
    BY <1>3, <1>5, <1>6, <1>7, <1>8 DEF StableHeld
  <1>11. Collected' = {}
    BY <1>3 DEF Collected, ToSet
  <1>12. CollectedHeld'
    BY <1>3, <1>11 DEF CollectedHeld
  <1>13. QueueInOrder'
    BY <1>1, <1>3, <1>7 DEF QueueInOrder
  <1>14. QED
    BY <1>2, <1>9, <1>10, <1>12, <1>13 DEF AckedInv

\* At the start there is nothing.
LEMMA InitAck ==
    ASSUME Init PROVE AckedInv
  <1>1. WalInv
    BY InitWal
  <1>2. /\ m_logs = <<>> /\ Queue = <<>> /\ Collected = {} /\ batches = <<>> /\ sync_ok = TRUE /\ failures = 0
        /\ walPc = "pop"
    BY DEF Init, Queue, Collected, ToSet
  <1>3. LogHeld /\ StableHeld /\ CollectedHeld
    BY <1>2 DEF LogHeld, StableHeld, CollectedHeld
  <1>4. QueueInOrder
    BY <1>2, PersisterAssumption DEF QueueInOrder
  <1>5. QED
    BY <1>1, <1>3, <1>4 DEF AckedInv

\* One step per action.
LEMMA AckedStep ==
    ASSUME AckedInv, NoFaults, NoForgotten, WithinSegment, [Next]_vars PROVE AckedInv'
  <1>1. CASE Next
    BY <1>1, AppendLogAck, WalPopAck, WalWriteAck, WalTimeoutAck, WalSyncAck, RollSegmentAck, RollOpensAck,
       NotifyWaitersAck, NotifyCallbacksAck, WalUnlockAck, WalWriteFailsAck, SaveRaftStateAck, CompactWalAck,
       RewriteAck, RestartAck DEF Next, WalThread
  <1>2. CASE UNCHANGED vars
    <2>1. UNCHANGED <<m_queue_log, walVars, fileVars, segmentVars, m_mtx, raftVars, clientVars,
                      failures, crashes, outcome, written>>
      BY <1>2 DEF vars
    <2>2. WalInv'
      BY <1>2, WalStep DEF AckedInv
    <2>3. All' = All /\ Queue' = Queue /\ Durable' = Durable /\ Collected' = Collected
      BY <2>1 DEF All, Queued, Queue, Durable, Collected, walVars, fileVars, segmentVars
    <2>4. LogHeld' /\ StableHeld' /\ CollectedHeld'
      BY <2>1, <2>3 DEF AckedInv, LogHeld, StableHeld, CollectedHeld, Lost, walVars, raftVars, clientVars
    <2>5. QueueInOrder'
      BY <2>1, <2>3 DEF AckedInv, QueueInOrder, walVars, raftVars, clientVars
    <2>6. QED
      BY <2>2, <2>4, <2>5 DEF AckedInv
  <1>3. QED
    BY <1>1, <1>2

----------------------------------------------------------------------------

\* Wherever the WAL thread is, every entry of raft's log is written or queued, with nothing behind it in the
\* WAL that a replay would put in its place, or a request about to be told of a failure will cut it off;
\* and what onLogStable or AppendLogAndWaitStable has reported stable, or is about to, is on the disk with
\* all that comes before it in raft's log.
THEOREM AckedInvariant ==
    ASSUME NoFaults, NoForgotten
    PROVE  Spec /\ []WithinSegment => []AckedInv
  <1>1. Init => AckedInv
    BY InitAck
  <1>2. AckedInv /\ WithinSegment /\ [Next]_vars => AckedInv'
    BY AckedStep
  <1>3. QED
    BY <1>1, <1>2, PTL DEF Spec

----------------------------------------------------------------------------

\* What a death of the machine leaves on the disk is a beginning of what was written.
LEMMA OnDisk ==
    ASSUME WalInv, raftPc # "rewrite"
    PROVE  WalContents([f \in DOMAIN files |-> SubSeq(files[f], 1, synced[f])]) = SubSeq(written, 1, Durable)
  <1>1. TypeInv /\ FilesInv /\ ContentsInv /\ OpenInv
    BY DEF WalInv
  <1>2. PICK disk : disk = [f \in DOMAIN files |-> SubSeq(files[f], 1, synced[f])]
    OBVIOUS
  <1>3. files \in [DOMAIN files -> Seq(Entry)] /\ synced \in [DOMAIN files -> Nat]
    BY <1>1 DEF FilesInv
  <1>4. \A f \in DOMAIN files : f # log_fd => disk[f] = files[f]
    <2>1. ASSUME NEW f \in DOMAIN files, f # log_fd PROVE disk[f] = files[f]
      <3>1. synced[f] = Len(files[f])
        <4>1. PICK names : names = ListSegments(files)
          OBVIOUS
        <4>2. DOMAIN files = {names[k] : k \in 1 .. Len(names)}
          BY <1>1, <4>1 DEF FilesInv, Listed
        <4>3. PICK k \in 1 .. Len(names) : f = names[k]
          BY <4>2
        <4>4. QED
          BY <1>1, <2>1, <4>1, <4>3 DEF FilesInv
      <3>2. files[f] \in Seq(Entry)
        BY <1>3
      <3>3. SubSeq(files[f], 1, Len(files[f])) = files[f]
        BY <3>2, HeadsOf
      <3>4. QED
        BY <1>2, <3>1, <3>3
    <2>2. QED
      BY <2>1
  <1>5. CASE log_fd = NoFile
    <2>1. \A f \in DOMAIN files : f # NoFile
      <3>1. NoFile \notin Segment
        BY DEF Segment, NoFile
      <3>2. \A f \in DOMAIN files : f \in Segment
        BY <1>1 DEF FilesInv, Listed
      <3>3. QED
        BY <3>1, <3>2
    <2>2. disk = files
      BY <1>2, <1>3, <1>4, <1>5, <2>1
    <2>3. Durable = Len(written)
      BY <1>5, DurableFacts
    <2>4. written \in Seq(Entry)
      BY <1>1 DEF TypeInv
    <2>5. SubSeq(written, 1, Len(written)) = written
      BY <2>4, HeadsOf
    <2>6. WalContents(files) = written
      BY <1>1 DEF ContentsInv
    <2>7. QED
      BY <1>2, <2>2, <2>3, <2>5, <2>6
  <1>6. CASE log_fd # NoFile
    <2>1. PICK old, names, front, keep : /\ old = files[log_fd] /\ names = ListSegments(files)
                                         /\ front = BeforeLast(files, names) /\ keep = synced[log_fd]
      OBVIOUS
    <2>2. /\ log_fd \in DOMAIN files /\ old \in Seq(Entry)
          /\ front \in Seq(Entry) /\ written = front \o old
          /\ keep \in Nat /\ Len(old) \in Nat /\ keep <= Len(old)
      BY <1>6, <2>1, OpenSegmentFacts
    <2>3. keep \in 0 .. Len(old)
      BY <2>2
    <2>4. /\ SubSeq(old, 1, keep) \in Seq(Entry)
          /\ SubSeq(front \o old, 1, Len(front \o old) - (Len(old) - keep)) = front \o SubSeq(old, 1, keep)
      BY <2>2, <2>3, CutEnd
    <2>5. disk[log_fd] = SubSeq(old, 1, keep)
      BY <1>2, <2>1, <2>2
    <2>6. SubSeq(written, 1, Durable) = front \o disk[log_fd]
      BY <1>6, <2>1, <2>2, <2>4, <2>5 DEF Durable
    <2>7. names # <<>> /\ Listed(names, files) /\ log_fd = names[Len(names)]
      BY <1>1, <1>6, <2>1, DiskFacts
    <2>8. \A f \in DOMAIN disk : disk[f] \in Seq(Entry)
      BY <1>2, <1>3, <1>4, <2>4, <2>5
    <2>9. DOMAIN disk = DOMAIN files /\ \A f \in DOMAIN files : f # names[Len(names)] => disk[f] = files[f]
      BY <1>2, <1>4, <2>7
    <2>10. WalContents(disk) = front \o disk[log_fd]
      BY <1>3, <2>1, <2>7, <2>8, <2>9, Replaced
    <2>11. QED
      BY <1>2, <2>6, <2>10
  <1>7. QED
    BY <1>5, <1>6

\* What was reported stable is replayed.
LEMMA StableReplayed ==
    ASSUME AckedInv PROVE StableSurvives
  <1>1. WalInv /\ LogHeld /\ StableHeld
    BY DEF AckedInv
  <1>2. PICK w \in Seq(Entry), u \in Seq(Entry), m \in Seq(Entry), s \in Nat, n \in Nat :
            /\ w = written /\ u = Queued /\ m = m_logs /\ s = snapshot_index /\ n = Durable /\ n <= Len(w)
            /\ All = w \o u
    BY <1>1, AllFacts, DurableFacts DEF All
  <1>3. PICK D \in Seq(Entry) : D = SubSeq(w, 1, n) /\ Len(D) = n
    <2>1. SubSeq(w, 1, n) \in Seq(Entry) /\ Len(SubSeq(w, 1, n)) = n
      BY <1>2
    <2>2. QED
      BY <2>1
  <1>4. ASSUME NEW k \in 1 .. Len(m), outcome[m[k].id] = "stable"
        PROVE  Contains(ReadPersistedLogs(D, s), m[k])
    <2>1. ASSUME NEW j \in 1 .. k PROVE m[j].index = s + j /\ Holds(m[j], D, Len(D), s)
      <3>1. j \in 1 .. Len(m) /\ j <= k
        OBVIOUS
      <3>2. Holds(m[j], w \o u, n, s)
        BY <1>1, <1>2, <1>4, <3>1 DEF StableHeld
      <3>3. Holds(m[j], D, n, s)
        BY <1>2, <1>3, <3>2, HoldsPrefix
      <3>4. m[j].index = s + j
        BY <1>1, <1>2, <3>1 DEF LogHeld
      <3>5. QED
        BY <1>3, <3>3, <3>4
    <2>2. HoldsFirst(m, k, D, s)
      BY <2>1 DEF HoldsFirst
    <2>3. k \in Nat /\ k <= Len(m) /\ k >= 1
      OBVIOUS
    <2>4. StartsWith(ReadPersistedLogs(D, s), m, k)
      BY <2>2, <2>3, ReplayHas
    <2>5. PICK R \in Seq(Entry) : R = ReadPersistedLogs(D, s)
      BY ReplayKept
    <2>6. k <= Len(R) /\ R[k] = m[k]
      BY <2>3, <2>4, <2>5 DEF StartsWith
    <2>7. k \in 1 .. Len(R)
      BY <2>3, <2>5, <2>6
    <2>8. QED
      BY <2>5, <2>6, <2>7 DEF Contains
  <1>5. ASSUME raftPc # "rewrite"
        PROVE  WalContents([f \in DOMAIN files |-> SubSeq(files[f], 1, synced[f])]) = D
    BY <1>1, <1>2, <1>3, <1>5, OnDisk
  <1>6. DOMAIN m_logs = 1 .. Len(m)
    BY <1>2
  <1>7. QED
    BY <1>2, <1>4, <1>5, <1>6 DEF StableSurvives

\* What was reported stable survives: whenever the machine dies, with some of the open segment forced out
\* and the rest lost, the replay of the disk has every entry of raft's log whose request was told "stable".
THEOREM StableSurvivesHolds ==
    ASSUME NoFaults, NoForgotten
    PROVE  Spec /\ []WithinSegment => []StableSurvives
  <1>1. AckedInv => StableSurvives
    BY StableReplayed
  <1>2. QED
    BY <1>1, AckedInvariant, PTL
=============================================================================

--------------------------- MODULE ReadersProofs ---------------------------
(***************************************************************************)
(* What readers that keep messages for themselves return.                  *)
(***************************************************************************)
EXTENDS Readers, FiniteSetTheorems, SequenceTheorems, TLAPS
-----------------------------------------------------------------------------
(***************************************************************************)
(* Fragments: what recv returns is of one message, and whole unless part   *)
(* of it was overwritten or collected.                                     *)
(***************************************************************************)

\* Fragments, sends under way and unfinished messages
Parts == Nat \X (Nat \ {0})
Fragment == [id : Nat, left : Nat \ {0}, part : Parts]
Send == [msg : Nat, part : Nat \ {0}, size : Nat \ {0}, id : Nat]
Entry == [size : Nat, parts : Seq(Parts)]

FragTypes ==
    /\ ring \in Seq(Fragment) /\ acc \in Nat /\ nsent \in Nat
    /\ fsending \in [Writers -> Send \cup {G!Idle}]
    /\ \A w \in Writers : fsending[w] # G!Idle => fsending[w].part <= fsending[w].size
    /\ \A i \in DOMAIN cache : cache[i] \in Entry

Busy(w) == fsending[w] # G!Idle

\* The fragments about to be pushed
Pending == {G!FragmentOf(fsending[w]) : w \in {v \in Writers : Busy(v)}}

\* Fragment e is an earlier one of f's message; the one right before it.
Kin(e, f) ==
    e.part[1] = f.part[1] /\ e.part[2] < f.part[2] /\ e.part[2] + e.left = f.part[2] + f.left
Follows(e, f) == e.id = f.id /\ Kin(e, f) /\ f.part[2] = e.part[2] + 1

\* An unfinished message to which f may be added; all that comes before f
Holds(e, f) ==
    /\ G!OfOne(e.parts, f.part[1]) /\ G!Ascending(e.parts)
    /\ \A i \in DOMAIN e.parts : e.parts[i][2] \in 1 .. f.part[2] - 1
Before(f) == [size |-> f.part[2] + f.left - 1, parts |-> G!WholeOf(f.part[1], f.part[2] - 1)]
Through(f) == [size |-> f.part[2] + f.left - 1, parts |-> G!WholeOf(f.part[1], f.part[2])]

\* Fragment f comes after the first n of q, at a receiver with cache ca; re and cu are
\* the messages of a used id and those cut.
AheadOK(f, q, n) == \A j \in 1 .. n : q[j].id = f.id => Kin(q[j], f)
CachedOK(f, ca, re) == f.part[1] \notin re /\ f.id \in DOMAIN ca => Holds(ca[f.id], f)
FirstOrNext(f, ca) ==
    \/ f.part[2] = 1 /\ f.id \notin DOMAIN ca
    \/ f.part[2] # 1 /\ f.id \in DOMAIN ca /\ ca[f.id] = Before(f)
NextOK(f, q, n, ca, re, cu) ==
    f.part[1] \notin re \cup cu =>
        \/ \E j \in 1 .. n : Follows(q[j], f)
        \/ (\A j \in 1 .. n : q[j].id # f.id) /\ FirstOrNext(f, ca)
FragmentOK(f, q, n, ca, re, cu) ==
    AheadOK(f, q, n) /\ CachedOK(f, ca, re) /\ NextOK(f, q, n, ca, re, cu)

\* All fragments of a ring q, and those of T that come after them
StreamOK(q, T, ca, re, cu) ==
    /\ \A k \in 1 .. Len(q) : FragmentOK(q[k], q, k - 1, ca, re, cu)
    /\ \A f \in T : FragmentOK(f, q, Len(q), ca, re, cu)

\* Ids are given once between two restarts.
IdsOK ==
    /\ \A k \in 1 .. Len(ring) : ring[k].id < acc
    /\ \A w \in Writers : Busy(w) => fsending[w].id < acc
    /\ \A v, w \in Writers : Busy(v) /\ Busy(w) /\ v # w => fsending[v].id # fsending[w].id

FragInv ==
    FragTypes /\ IdsOK /\ StreamOK(ring, Pending, cache, reused, cut) /\ FragmentsWholeMessages

\* Sequences one longer and one shorter
LEMMA Longer ==
    ASSUME NEW D, NEW q \in Seq(D), NEW f \in D
    PROVE  /\ Append(q, f) \in Seq(D) /\ Len(q) \in Nat
           /\ Len(Append(q, f)) = Len(q) + 1
           /\ Append(q, f)[Len(q) + 1] = f
           /\ \A k \in 1 .. Len(q) : Append(q, f)[k] = q[k]
OBVIOUS

LEMMA Shorter ==
    ASSUME NEW D, NEW q \in Seq(D), q # <<>>
    PROVE  /\ Tail(q) \in Seq(D) /\ Len(q) \in Nat /\ Len(q) >= 1 /\ Len(Tail(q)) = Len(q) - 1
           /\ \A k \in 1 .. Len(q) - 1 : Tail(q)[k] = q[k + 1]
           /\ \A k \in 1 .. Len(q) : q[k] \in D
           /\ Head(q) = q[1] /\ q[1] \in D
OBVIOUS

\* What is before one fragment of a message is before the next one.
LEMMA KinNext ==
    ASSUME NEW e \in Fragment, NEW f \in Fragment, NEW g \in Fragment, Kin(e, f), Follows(f, g)
    PROVE  Kin(e, g)
<1>1. /\ e.part[2] \in Nat /\ f.part[2] \in Nat /\ g.part[2] \in Nat
      /\ e.left \in Nat /\ f.left \in Nat /\ g.left \in Nat
  BY DEF Fragment, Parts
<1> QED
  BY <1>1 DEF Kin, Follows

\* A fragment that a push put on the ring, or that did not come to it
LEMMA StreamLess ==
    ASSUME NEW q, NEW T, NEW U \in SUBSET T, NEW ca, NEW re, NEW cu, StreamOK(q, T, ca, re, cu)
    PROVE  StreamOK(q, U, ca, re, cu)
BY DEF StreamOK

\* A send begins.
LEMMA StreamBegins ==
    ASSUME NEW q, NEW T, NEW ca, NEW re, NEW cu, StreamOK(q, T, ca, re, cu),
           NEW f, f.part[2] = 1, \A k \in 1 .. Len(q) : q[k].id # f.id,
           NEW rf, re \subseteq rf, f.id \in DOMAIN ca => f.part[1] \in rf
    PROVE  StreamOK(q, T \cup {f}, ca, rf, cu)
<1>1. ASSUME NEW g, NEW n, FragmentOK(g, q, n, ca, re, cu) PROVE FragmentOK(g, q, n, ca, rf, cu)
  BY <1>1 DEF FragmentOK, CachedOK, NextOK
<1>2. FragmentOK(f, q, Len(q), ca, rf, cu)
  BY DEF FragmentOK, AheadOK, CachedOK, NextOK, FirstOrNext
<1> QED
  BY <1>1, <1>2 DEF StreamOK

\* A fragment goes onto the ring; what comes after it is of another id, or follows it.
LEMMA StreamGrows ==
    ASSUME NEW q \in Seq(Fragment), NEW T, NEW ca, NEW re, NEW cu, StreamOK(q, T, ca, re, cu),
           NEW f \in Fragment, f \in T, NEW U \in SUBSET Fragment,
           \A g \in U : (g \in T /\ g.id # f.id) \/ Follows(f, g)
    PROVE  StreamOK(Append(q, f), U, ca, re, cu)
<1> DEFINE r == Append(q, f)
           n == Len(q)
<1>1. n \in Nat /\ Len(r) = n + 1 /\ r[n + 1] = f /\ \A k \in 1 .. n : r[k] = q[k]
  BY Longer
<1>2. /\ \A k \in 1 .. n : FragmentOK(q[k], q, k - 1, ca, re, cu)
      /\ \A g \in T : FragmentOK(g, q, n, ca, re, cu)
  BY DEF StreamOK
<1> HIDE DEF r, n
<1>3. ASSUME NEW g, NEW m \in 0 .. n, FragmentOK(g, q, m, ca, re, cu)
      PROVE  FragmentOK(g, r, m, ca, re, cu)
  <2>1. \A j \in 1 .. m : r[j] = q[j]
    BY <1>1, <1>3
  <2> QED
    BY <1>3, <2>1 DEF FragmentOK, AheadOK, NextOK
<1>4. \A k \in 1 .. n + 1 : FragmentOK(r[k], r, k - 1, ca, re, cu)
  <2>1. ASSUME NEW k \in 1 .. n PROVE FragmentOK(r[k], r, k - 1, ca, re, cu)
    BY <1>1, <1>2, <1>3
  <2>2. FragmentOK(r[n + 1], r, (n + 1) - 1, ca, re, cu)
    <3>1. FragmentOK(f, r, n, ca, re, cu) /\ (n + 1) - 1 = n
      BY <1>1, <1>2, <1>3
    <3> QED
      BY <1>1, <3>1
  <2>3. \A k \in 1 .. n + 1 : k \in 1 .. n \/ k = n + 1
    BY <1>1
  <2> QED
    BY <2>1, <2>2, <2>3
<1>5. ASSUME NEW g \in U PROVE FragmentOK(g, r, n + 1, ca, re, cu)
  <2>0. \A j \in 1 .. n + 1 : j \in 1 .. n \/ j = n + 1
    BY <1>1
  <2>1. CASE g \in T /\ g.id # f.id
    <3>1. FragmentOK(g, r, n, ca, re, cu)
      BY <1>1, <1>2, <1>3, <2>1
    <3>2. r[n + 1].id # g.id /\ 1 .. n \subseteq 1 .. n + 1
      BY <1>1, <2>1
    <3> QED
      BY <2>0, <3>1, <3>2 DEF FragmentOK, AheadOK, NextOK
  <2>2. CASE Follows(f, g)
    <3>1. /\ f.id = g.id /\ f.part[1] = g.part[1] /\ g.part[2] = f.part[2] + 1
          /\ f.part[2] + f.left = g.part[2] + g.left /\ f.part[2] \in Nat /\ g.part[2] \in Nat
          /\ Kin(f, g)
      BY <2>2 DEF Follows, Kin, Fragment, Parts
    <3>2. FragmentOK(f, r, n, ca, re, cu)
      BY <1>1, <1>2, <1>3
    <3>3. AheadOK(g, r, n + 1)
      <4>1. ASSUME NEW j \in 1 .. n, r[j].id = g.id PROVE Kin(r[j], g)
        <5>1. Kin(r[j], f) /\ r[j] \in Fragment
          BY <1>1, <3>1, <3>2, <4>1 DEF FragmentOK, AheadOK, n
        <5> QED
          BY <2>2, <5>1, KinNext
      <4> QED
        BY <1>1, <2>0, <3>1, <4>1 DEF AheadOK
    <3>4. CachedOK(g, ca, re)
      <4>1. ASSUME g.part[1] \notin re, g.id \in DOMAIN ca PROVE Holds(ca[g.id], g)
        <5>1. Holds(ca[f.id], f)
          BY <3>1, <3>2, <4>1 DEF FragmentOK, CachedOK
        <5>2. 1 .. f.part[2] - 1 \subseteq 1 .. g.part[2] - 1
          BY <3>1
        <5> QED
          BY <3>1, <5>1, <5>2 DEF Holds
      <4> QED
        BY <4>1 DEF CachedOK
    <3>5. NextOK(g, r, n + 1, ca, re, cu)
      <4>1. n + 1 \in 1 .. n + 1 /\ Follows(r[n + 1], g)
        BY <1>1, <2>2
      <4> QED
        BY <4>1 DEF NextOK
    <3> QED
      BY <3>3, <3>4, <3>5 DEF FragmentOK
  <2> QED
    BY <2>1, <2>2
<1> QED
  BY <1>1, <1>4, <1>5 DEF StreamOK, r

\* The oldest fragment leaves the ring.  What the receiver knows then of a fragment f that
\* comes later is what it knew, or has from the one that left.
LEMMA StreamShrinks ==
    ASSUME NEW q \in Seq(Fragment), q # <<>>, NEW T \in SUBSET Fragment,
           NEW ca, NEW cb, NEW re, NEW cu, NEW cv, cu \subseteq cv, StreamOK(q, T, ca, re, cu),
           \A f \in Fragment :
               CachedOK(f, ca, re) /\ (q[1].id = f.id => Kin(q[1], f)) => CachedOK(f, cb, re),
           \A f \in Fragment :
               f.part[1] \notin re \cup cv =>
                   /\ Follows(q[1], f) => FirstOrNext(f, cb)
                   /\ q[1].id # f.id /\ FirstOrNext(f, ca) => FirstOrNext(f, cb)
    PROVE  StreamOK(Tail(q), T, cb, re, cv)
<1> DEFINE r == Tail(q)
           h == q[1]
           n == Len(q)
<1>1. /\ r \in Seq(Fragment) /\ n \in Nat /\ n >= 1 /\ Len(r) = n - 1
      /\ \A k \in 1 .. n - 1 : r[k] = q[k + 1] /\ k + 1 \in 1 .. n
      /\ \A k \in 1 .. n : q[k] \in Fragment
  BY Shorter
<1>2. /\ \A k \in 1 .. n : FragmentOK(q[k], q, k - 1, ca, re, cu)
      /\ \A g \in T : FragmentOK(g, q, n, ca, re, cu)
  BY DEF StreamOK
<1>3. h = q[1] /\ h \in Fragment
  BY <1>1
<1>4. /\ \A f \in Fragment :
            CachedOK(f, ca, re) /\ (h.id = f.id => Kin(h, f)) => CachedOK(f, cb, re)
      /\ \A f \in Fragment :
            f.part[1] \notin re \cup cv =>
               /\ Follows(h, f) => FirstOrNext(f, cb)
               /\ h.id # f.id /\ FirstOrNext(f, ca) => FirstOrNext(f, cb)
  OBVIOUS
<1> HIDE DEF r, h, n
<1>5. ASSUME NEW f \in Fragment, NEW m \in 1 .. n, FragmentOK(f, q, m, ca, re, cu)
      PROVE  FragmentOK(f, r, m - 1, cb, re, cv)
  <2>1. /\ AheadOK(f, q, m) /\ CachedOK(f, ca, re) /\ NextOK(f, q, m, ca, re, cu)
        /\ \A k \in 1 .. m - 1 : r[k] = q[k + 1] /\ k + 1 \in 1 .. m /\ k + 1 \in 1 .. n
        /\ \A k \in 1 .. m : k = 1 \/ (k - 1 \in 1 .. m - 1 /\ r[k - 1] = q[k])
        /\ 1 \in 1 .. m
    <3>1. \A k \in 1 .. m : k = 1 \/ (k - 1 \in 1 .. n - 1 /\ (k - 1) + 1 = k /\ k - 1 \in 1 .. m - 1)
      BY <1>1
    <3>2. \A k \in 1 .. m - 1 : k \in 1 .. n - 1 /\ k + 1 \in 1 .. m
      BY <1>1
    <3> QED
      BY <1>1, <1>5, <3>1, <3>2 DEF FragmentOK
  <2>2. AheadOK(f, r, m - 1)
    BY <2>1 DEF AheadOK
  <2>3. h.id = f.id => Kin(h, f)
    BY <1>3, <2>1 DEF AheadOK
  <2>4. CachedOK(f, cb, re)
    BY <1>4, <2>1, <2>3
  <2>5. ASSUME f.part[1] \notin re \cup cv
        PROVE  \/ \E j \in 1 .. m - 1 : Follows(r[j], f)
               \/ (\A j \in 1 .. m - 1 : r[j].id # f.id) /\ FirstOrNext(f, cb)
    <3>1. \/ \E j \in 1 .. m : Follows(q[j], f)
          \/ (\A j \in 1 .. m : q[j].id # f.id) /\ FirstOrNext(f, ca)
      BY <2>1, <2>5 DEF NextOK
    <3>2. CASE Follows(h, f)
      <4>1. ASSUME NEW j \in 1 .. m - 1, r[j].id = f.id PROVE FALSE
        <5>1. /\ q[j + 1].id = f.id /\ h.id = f.id /\ Kin(q[j + 1], f)
              /\ q[j + 1] \in Fragment /\ FragmentOK(q[j + 1], q, (j + 1) - 1, ca, re, cu)
          BY <1>1, <1>2, <2>1, <3>2, <4>1 DEF AheadOK, Follows
        <5>2. (j + 1) - 1 = j /\ 1 \in 1 .. j
          OBVIOUS
        <5>3. Kin(h, q[j + 1])
          BY <1>3, <5>1, <5>2 DEF FragmentOK, AheadOK
        <5>4. h.part[2] \in Nat /\ q[j + 1].part[2] \in Nat /\ f.part[2] \in Nat
          BY <1>3, <5>1 DEF Fragment, Parts
        <5> QED
          BY <3>2, <5>1, <5>3, <5>4 DEF Kin, Follows
      <4> QED
        BY <1>4, <2>5, <3>2, <4>1
    <3>3. CASE \E j \in 1 .. m : Follows(q[j], f) /\ ~Follows(h, f)
      BY <1>3, <2>1, <3>3
    <3>4. CASE (\A j \in 1 .. m : q[j].id # f.id) /\ FirstOrNext(f, ca)
      BY <1>3, <1>4, <2>1, <2>5, <3>4
    <3> QED
      BY <3>1, <3>2, <3>3, <3>4
  <2> QED
    BY <2>2, <2>4, <2>5 DEF FragmentOK, NextOK
<1>6. ASSUME NEW k \in 1 .. n - 1 PROVE FragmentOK(r[k], r, k - 1, cb, re, cv)
  <2>1. k \in 1 .. n /\ k + 1 \in 1 .. n /\ (k + 1) - 1 = k
    BY <1>1
  <2> QED
    BY <1>1, <1>2, <1>5, <2>1
<1>7. ASSUME NEW g \in T PROVE FragmentOK(g, r, n - 1, cb, re, cv)
  <2>1. n \in 1 .. n
    BY <1>1
  <2> QED
    BY <1>2, <1>5, <2>1
<1> QED
  BY <1>1, <1>6, <1>7 DEF StreamOK, r

\* A push overwrites the oldest fragment: its message is cut.
LEMMA StreamDrops ==
    ASSUME NEW q \in Seq(Fragment), q # <<>>, NEW T \in SUBSET Fragment,
           NEW ca, NEW re, NEW cu, StreamOK(q, T, ca, re, cu)
    PROVE  StreamOK(Tail(q), T, ca, re, cu \cup {q[1].part[1]})
<1>1. \A f : Follows(q[1], f) => f.part[1] = q[1].part[1]
  BY DEF Follows, Kin
<1>2. \A f \in Fragment :
         f.part[1] \notin re \cup (cu \cup {q[1].part[1]}) =>
            /\ Follows(q[1], f) => FirstOrNext(f, ca)
            /\ q[1].id # f.id /\ FirstOrNext(f, ca) => FirstOrNext(f, ca)
  BY <1>1
<1> QED
  BY <1>2, StreamShrinks

\* The fragments of a message up to one, as a sequence
LEMMA WholeFacts ==
    ASSUME NEW D, NEW m, NEW p \in Nat \ {0}, \A i \in Nat \ {0} : <<m, i>> \in D
    PROVE  /\ G!WholeOf(m, p) \in Seq(D) /\ Len(G!WholeOf(m, p - 1)) = p - 1
           /\ Append(G!WholeOf(m, p - 1), <<m, p>>) = G!WholeOf(m, p)
           /\ <<<<m, 1>>>> = G!WholeOf(m, 1)
<1> DEFINE w(k) == [i \in 1 .. k |-> <<m, i>>]
<1>1. \A k \in Nat : w(k) \in Seq(D) /\ Len(w(k)) = k
  OBVIOUS
<1>2. p - 1 \in Nat /\ 1 \in Nat
  OBVIOUS
<1>3. Append(w(p - 1), <<m, p>>) = w(p)
  <2>1. w(p - 1) \in Seq(D) /\ Len(w(p - 1)) = p - 1 /\ <<m, p>> \in D
    BY <1>1, <1>2
  <2>2. \A i \in 1 .. p - 1 : w(p - 1)[i] = w(p)[i]
    OBVIOUS
  <2>3. /\ Append(w(p - 1), <<m, p>>) \in Seq(D) /\ Len(Append(w(p - 1), <<m, p>>)) = p
        /\ \A i \in 1 .. p : Append(w(p - 1), <<m, p>>)[i] = w(p)[i]
    BY <2>1, <2>2
  <2> QED
    BY <1>1, <2>3
<1>4. <<<<m, 1>>>> = w(1)
  OBVIOUS
<1>5. \A k \in Nat : G!WholeOf(m, k) = w(k)
  BY DEF G!WholeOf, G!Part
<1> QED
  BY <1>1, <1>2, <1>3, <1>4, <1>5

\* A fragment for which the buffer has room
LEMMA AppendedOne ==
    ASSUME NEW z \in Nat, NEW w, NEW x, Len(w) \in Nat, Len(w) < z
    PROVE  G!Appended([size |-> z, parts |-> w], x) = [size |-> z, parts |-> Append(w, x)]
<1> DEFINE e == [size |-> z, parts |-> w]
<1>1. e.parts = w /\ e.size = z
  OBVIOUS
<1>2. ~(Len(w) >= z)
  OBVIOUS
<1>3. \A v : [e EXCEPT !.parts = v] = [size |-> z, parts |-> v]
  OBVIOUS
<1>4. G!Appended(e, x) = [e EXCEPT !.parts = Append(w, x)]
  BY <1>1, <1>2 DEF G!Appended
<1> QED
  BY <1>3, <1>4

\* A fragment is added to an unfinished message of its own.
LEMMA HoldsMore ==
    ASSUME NEW e \in Entry, NEW h \in Fragment, Holds(e, h)
    PROVE  LET w == G!Appended(e, h.part).parts
           IN  /\ w \in Seq(Parts) /\ G!OfOne(w, h.part[1]) /\ G!Ascending(w)
               /\ \A i \in DOMAIN w : w[i][2] \in 1 .. h.part[2]
<1> DEFINE v == e.parts
           x == h.part
           w == G!Appended(e, x).parts
<1>1. /\ v \in Seq(Parts) /\ x \in Parts /\ x[2] \in Nat \ {0} /\ DOMAIN v = 1 .. Len(v)
      /\ Len(v) \in Nat
  BY DEF Entry, Fragment, Parts
<1>2. /\ \A i \in DOMAIN v : v[i][1] = x[1] /\ v[i][2] \in 1 .. x[2] - 1
      /\ \A i, j \in DOMAIN v : i < j => v[i][2] < v[j][2]
  BY DEF Holds, G!OfOne, G!Ascending
<1>3. w = v \/ w = Append(v, x)
  BY DEF G!Appended, Entry
<1>4. /\ Append(v, x) \in Seq(Parts) /\ DOMAIN Append(v, x) = 1 .. Len(v) + 1
      /\ Append(v, x)[Len(v) + 1] = x /\ \A i \in 1 .. Len(v) : Append(v, x)[i] = v[i]
  BY <1>1
<1> HIDE DEF v, x, w
<1>5. 1 .. x[2] - 1 \subseteq 1 .. x[2] /\ x[2] \in 1 .. x[2]
  BY <1>1
<1>6. CASE w = v
  BY <1>1, <1>2, <1>5, <1>6 DEF G!OfOne, G!Ascending, w, x
<1>7. CASE w = Append(v, x)
  <2>1. /\ w \in Seq(Parts)
        /\ \A i \in DOMAIN w :
              (i \in DOMAIN v /\ w[i] = v[i]) \/ (i = Len(v) + 1 /\ w[i] = x)
    BY <1>1, <1>4, <1>7
  <2>2. \A i \in DOMAIN w : w[i][1] = x[1] /\ w[i][2] \in 1 .. x[2]
    BY <1>2, <1>5, <2>1
  <2>3. ASSUME NEW i \in DOMAIN w, NEW j \in DOMAIN w, i < j PROVE w[i][2] < w[j][2]
    <3>1. i \in 1 .. Len(v) /\ w[i] = v[i]
      BY <1>1, <1>4, <1>7, <2>1, <2>3
    <3>2. CASE j \in DOMAIN v
      BY <1>1, <1>2, <2>1, <2>3, <3>1, <3>2
    <3>3. CASE j \notin DOMAIN v
      BY <1>1, <1>2, <2>1, <3>1, <3>3
    <3> QED
      BY <3>2, <3>3
  <2>4. G!OfOne(w, x[1]) /\ G!Ascending(w)
    BY <2>2, <2>3 DEF G!OfOne, G!Ascending
  <2> QED
    BY <2>1, <2>2, <2>4 DEF w, x
<1> QED
  BY <1>3, <1>6, <1>7

\* With the next fragment, all that comes before it becomes all up to it.
LEMMA BeforeThrough ==
    ASSUME NEW h \in Fragment
    PROVE  /\ Through(h).parts = G!WholeOf(h.part[1], h.part[2])
           /\ h.part[2] = 1 => Through(h) = [size |-> h.left, parts |-> <<h.part>>]
           /\ h.part[2] # 1 => G!Appended(Before(h), h.part) = Through(h)
           /\ h.part[2] # 1 => Before(h).parts[1][1] = h.part[1]
           /\ \A f \in Fragment : Follows(h, f) =>
                  /\ Before(f) = Through(h) /\ h.left # 1 /\ f.part[2] # 1
                  /\ h.id = f.id /\ h.part[1] = f.part[1]
<1> DEFINE p == h.part[2]
           m == h.part[1]
<1>1. p \in Nat \ {0} /\ h.left \in Nat \ {0} /\ h.part = <<m, p>> /\ m \in Nat
  BY DEF Fragment, Parts
<1>2. /\ Len(G!WholeOf(m, p - 1)) = p - 1
      /\ Append(G!WholeOf(m, p - 1), <<m, p>>) = G!WholeOf(m, p)
      /\ <<<<m, 1>>>> = G!WholeOf(m, 1)
  <2>1. \A i \in Nat \ {0} : <<m, i>> \in Parts
    BY <1>1 DEF Parts
  <2> QED
    BY <1>1, <2>1, WholeFacts
<1>3. /\ Through(h) = [size |-> p + h.left - 1, parts |-> G!WholeOf(m, p)]
      /\ Before(h) = [size |-> p + h.left - 1, parts |-> G!WholeOf(m, p - 1)]
  BY DEF Through, Before
<1>4. p # 1 => Before(h).parts[1][1] = m
  <2>1. p # 1 => 1 \in 1 .. p - 1
    BY <1>1
  <2> HIDE DEF p, m
  <2> QED
    BY <1>3, <2>1 DEF G!WholeOf, G!Part
<1>5. ASSUME NEW f \in Fragment, Follows(h, f)
      PROVE  /\ Before(f) = Through(h) /\ h.left # 1 /\ f.part[2] # 1
             /\ h.id = f.id /\ m = f.part[1]
  <2>1. f.part[2] \in Nat \ {0} /\ f.left \in Nat \ {0}
    BY DEF Fragment, Parts
  <2>2. f.id = h.id /\ f.part[1] = m /\ f.part[2] = p + 1 /\ p + h.left = f.part[2] + f.left
    BY <1>5 DEF Follows, Kin
  <2>3. f.part[2] - 1 = p /\ f.part[2] + f.left - 1 = p + h.left - 1 /\ h.left # 1 /\ f.part[2] # 1
    BY <1>1, <2>1, <2>2
  <2> QED
    BY <1>3, <2>2, <2>3 DEF Before
<1> HIDE DEF p, m
<1>6. p # 1 => G!Appended(Before(h), h.part) = Through(h)
  <2> DEFINE w == G!WholeOf(m, p - 1)
             z == p + h.left - 1
  <2>1. Len(w) < z /\ Len(w) \in Nat /\ z \in Nat
    BY <1>1, <1>2
  <2> HIDE DEF w, z
  <2>2. G!Appended([size |-> z, parts |-> w], <<m, p>>) = [size |-> z, parts |-> Append(w, <<m, p>>)]
    BY <2>1, AppendedOne
  <2>3. Append(w, <<m, p>>) = G!WholeOf(m, p) /\ Before(h) = [size |-> z, parts |-> w]
    BY <1>2, <1>3 DEF w, z
  <2> QED
    BY <1>1, <1>3, <2>2, <2>3 DEF z
<1>7. p = 1 => Through(h) = [size |-> h.left, parts |-> <<h.part>>]
  <2>1. p = 1 => p + h.left - 1 = h.left
    BY <1>1
  <2> QED
    BY <1>1, <1>2, <1>3, <2>1
<1> QED
  BY <1>3, <1>4, <1>5, <1>6, <1>7 DEF p, m

\* recv takes fragment h: its cache ca becomes cb, and the messages in cv are cut.
Takes(h, ca, cb, cv) ==
    /\ \A i \in DOMAIN cb \ {h.id} : i \in DOMAIN ca /\ cb[i] = ca[i]
    /\ \A i \in DOMAIN ca \ (DOMAIN cb \cup {h.id}) : ca[i].parts[1][1] \in cv
    /\ h.left = 1 => h.id \notin DOMAIN cb
    /\ h.left # 1 /\ h.id \in DOMAIN ca =>
           h.id \in DOMAIN cb /\ cb[h.id] = G!Appended(ca[h.id], h.part)
    /\ h.left # 1 /\ h.id \notin DOMAIN ca =>
           h.id \in DOMAIN cb /\ cb[h.id] = [size |-> h.left, parts |-> <<h.part>>]

LEMMA StreamTaken ==
    ASSUME NEW q \in Seq(Fragment), q # <<>>, NEW T \in SUBSET Fragment,
           NEW ca, \A i \in DOMAIN ca : ca[i] \in Entry, NEW cb, NEW re, NEW cu, NEW cv,
           cu \subseteq cv, StreamOK(q, T, ca, re, cu), Takes(q[1], ca, cb, cv)
    PROVE  StreamOK(Tail(q), T, cb, re, cv)
<1> DEFINE h == q[1]
<1>1. h \in Fragment /\ FragmentOK(h, q, 0, ca, re, cu) /\ Takes(h, ca, cb, cv)
  <2>1. Len(q) \in Nat /\ Len(q) >= 1 /\ h \in Fragment
    BY Shorter
  <2>2. 1 \in 1 .. Len(q) /\ 1 - 1 = 0
    BY <2>1
  <2> QED
    BY <2>1, <2>2 DEF StreamOK
<1>2. h = q[1]
  OBVIOUS
<1> HIDE DEF h
<1>3. h.part[1] \notin re \cup cu => FirstOrNext(h, ca)
  <2>1. 1 .. 0 = {}
    OBVIOUS
  <2> QED
    BY <1>1, <2>1 DEF FragmentOK, NextOK
<1>4. ASSUME NEW f \in Fragment, CachedOK(f, ca, re), h.id = f.id => Kin(h, f)
      PROVE  CachedOK(f, cb, re)
  <2>1. SUFFICES ASSUME f.part[1] \notin re, f.id \in DOMAIN cb PROVE Holds(cb[f.id], f)
    BY DEF CachedOK
  <2>2. CASE f.id # h.id
    BY <1>1, <1>4, <2>1, <2>2 DEF Takes, CachedOK
  <2>3. CASE f.id = h.id
    <3>1. /\ h.left # 1 /\ Kin(h, f) /\ h.part[1] = f.part[1]
          /\ h.part[2] \in Nat \ {0} /\ f.part[2] \in Nat /\ h.part[2] < f.part[2]
          /\ 1 .. h.part[2] \subseteq 1 .. f.part[2] - 1
      <4>1. h.part[2] \in Nat \ {0} /\ f.part[2] \in Nat
        BY <1>1 DEF Fragment, Parts
      <4>2. h.left # 1 /\ Kin(h, f) /\ h.part[1] = f.part[1] /\ h.part[2] < f.part[2]
        BY <1>1, <1>4, <2>1, <2>3 DEF Takes, Kin
      <4> QED
        BY <4>1, <4>2
    <3>2. CASE h.id \in DOMAIN ca
      <4>1. Holds(ca[h.id], h) /\ ca[h.id] \in Entry
        BY <1>1, <2>1, <3>1, <3>2 DEF FragmentOK, CachedOK
      <4>2. cb[f.id] = G!Appended(ca[h.id], h.part)
        BY <1>1, <2>3, <3>1, <3>2 DEF Takes
      <4> QED
        BY <1>1, <3>1, <4>1, <4>2, HoldsMore DEF Holds
    <3>3. CASE h.id \notin DOMAIN ca
      <4>1. cb[f.id].parts = <<h.part>>
        BY <1>1, <2>3, <3>1, <3>3 DEF Takes
      <4>2. DOMAIN <<h.part>> = {1} /\ <<h.part>>[1] = h.part /\ h.part[2] \in 1 .. f.part[2] - 1
        BY <3>1
      <4> QED
        BY <3>1, <4>1, <4>2 DEF Holds, G!OfOne, G!Ascending
    <3> QED
      BY <3>2, <3>3
  <2> QED
    BY <2>2, <2>3
<1>5. ASSUME NEW f \in Fragment, f.part[1] \notin re \cup cv, Follows(h, f)
      PROVE  FirstOrNext(f, cb)
  <2>1. /\ Before(f) = Through(h) /\ h.left # 1 /\ f.part[2] # 1
        /\ h.id = f.id /\ h.part[1] = f.part[1]
    BY <1>1, <1>5, BeforeThrough
  <2>2. FirstOrNext(h, ca)
    BY <1>3, <1>5, <2>1
  <2>3. h.id \in DOMAIN cb /\ cb[h.id] = Through(h)
    BY <1>1, <2>1, <2>2, BeforeThrough DEF FirstOrNext, Takes
  <2> QED
    BY <2>1, <2>3 DEF FirstOrNext
<1>6. ASSUME NEW f \in Fragment, f.part[1] \notin re \cup cv, h.id # f.id, FirstOrNext(f, ca)
      PROVE  FirstOrNext(f, cb)
  BY <1>1, <1>6, BeforeThrough DEF FirstOrNext, Takes
<1> QED
  BY <1>2, <1>4, <1>5, <1>6, StreamShrinks

\* The fragment about to be pushed, and the ones about to be pushed after a step that
\* changes the send of one writer
LEMMA PendingType ==
    ASSUME FragTypes
    PROVE  /\ Pending \subseteq Fragment
           /\ \A w \in Writers : Busy(w) =>
                  /\ fsending[w] \in Send /\ G!FragmentOf(fsending[w]) \in Fragment
                  /\ G!FragmentOf(fsending[w]) \in Pending
<1>1. ASSUME NEW w \in Writers, Busy(w)
      PROVE  fsending[w] \in Send /\ G!FragmentOf(fsending[w]) \in Fragment
  <2> DEFINE s == fsending[w]
  <2>1. s \in Send /\ s.part <= s.size
    BY <1>1 DEF FragTypes, Busy
  <2>2. s.id \in Nat /\ s.msg \in Nat /\ s.part \in Nat \ {0} /\ s.size - s.part + 1 \in Nat \ {0}
    BY <2>1 DEF Send
  <2> HIDE DEF s
  <2> QED
    BY <2>1, <2>2 DEF G!FragmentOf, G!Part, Fragment, Parts, s
<1> QED
  BY <1>1 DEF Pending

LEMMA PendingOthers ==
    ASSUME FragTypes, NEW w \in Writers, NEW s, fsending' = [fsending EXCEPT ![w] = s]
    PROVE  /\ fsending'[w] = s
           /\ \A v \in Writers : v # w => fsending'[v] = fsending[v]
           /\ \A g \in Pending' :
                \/ s # G!Idle /\ g = G!FragmentOf(s)
                \/ \E v \in Writers : v # w /\ Busy(v) /\ g = G!FragmentOf(fsending[v])
<1>1. fsending'[w] = s /\ \A v \in Writers : v # w => fsending'[v] = fsending[v]
  BY DEF FragTypes
<1>2. Pending' = {G!FragmentOf(fsending'[v]) : v \in {u \in Writers : fsending'[u] # G!Idle}}
  BY DEF Pending, Busy
<1> QED
  BY <1>1, <1>2 DEF Busy

\* A send begins with the next id.
LEMMA SendBeginKeeps ==
    ASSUME ReadersAssumption, FragInv, NEW w \in Writers, NEW n \in Sizes, G!SendBegin(w, n)
    PROVE  FragInv'
<1> DEFINE s == [msg |-> nsent + 1, part |-> 1, size |-> n, id |-> acc]
           f == G!FragmentOf(s)
<1>1. /\ fsending[w] = G!Idle /\ fsending' = [fsending EXCEPT ![w] = s]
      /\ reused' = reused \cup (IF acc \in DOMAIN cache THEN {nsent + 1} ELSE {})
      /\ nsent' = nsent + 1 /\ acc' = acc + 1
      /\ ring' = ring /\ cache' = cache /\ delivered' = delivered /\ cut' = cut
  BY DEF G!SendBegin, G!MayBegin, G!Begun
<1>2. /\ FragTypes /\ IdsOK /\ StreamOK(ring, Pending, cache, reused, cut)
      /\ acc \in Nat /\ nsent \in Nat /\ n \in Nat \ {0}
      /\ ring \in Seq(Fragment) /\ Len(ring) \in Nat
  BY DEF FragInv, FragTypes, ReadersAssumption
<1>3. /\ s \in Send /\ s.part = 1 /\ s.size = n /\ s.id = acc /\ s # G!Idle
      /\ f.part[1] = nsent + 1 /\ f.part[2] = 1 /\ f.id = acc
  BY <1>2 DEF Send, G!Idle, G!FragmentOf, G!Part
<1> HIDE DEF s, f
<1>9. \A k \in 1 .. Len(ring) : ring[k].id < acc /\ ring[k].id \in Nat
  <2>1. \A k \in 1 .. Len(ring) : ring[k] \in Fragment
    BY <1>2
  <2> QED
    BY <1>2, <2>1 DEF IdsOK, Fragment
<1>4. /\ fsending'[w] = s
      /\ \A v \in Writers : v # w => fsending'[v] = fsending[v]
      /\ \A g \in Pending' :
            \/ g = G!FragmentOf(s)
            \/ \E v \in Writers : v # w /\ Busy(v) /\ g = G!FragmentOf(fsending[v])
  <2>1. fsending' = [fsending EXCEPT ![w] = s] /\ FragTypes
    BY <1>1, <1>2
  <2>2. /\ fsending'[w] = s
        /\ \A v \in Writers : v # w => fsending'[v] = fsending[v]
    BY <2>1, PendingOthers
  <2>3. \A g \in Pending' :
           \/ s # G!Idle /\ g = G!FragmentOf(s)
           \/ \E v \in Writers : v # w /\ Busy(v) /\ g = G!FragmentOf(fsending[v])
    BY <2>1, PendingOthers
  <2> QED
    BY <2>2, <2>3
<1>5. FragTypes'
  <2>1. fsending' \in [Writers -> Send \cup {G!Idle}]
    BY <1>1, <1>2, <1>3 DEF FragTypes
  <2>2. \A v \in Writers : fsending'[v] # G!Idle => fsending'[v].part <= fsending'[v].size
    BY <1>2, <1>3, <1>4 DEF FragTypes
  <2> QED
    BY <1>1, <1>2, <2>1, <2>2 DEF FragTypes
<1>6. IdsOK'
  <2>2. \A v \in Writers : Busy(v) => fsending[v].id < acc /\ fsending[v].id \in Nat
    BY <1>2, PendingType DEF IdsOK, Send
  <2>3. \A k \in 1 .. Len(ring) : ring[k].id < acc + 1
    BY <1>2, <1>9
  <2>4. \A v \in Writers : v # w /\ Busy(v) => fsending[v].id < acc + 1 /\ fsending[v].id # acc
    BY <1>2, <2>2
  <2>5. s.id < acc + 1 /\ s.id = acc
    BY <1>2, <1>3
  <2> QED
    BY <1>1, <1>2, <1>4, <2>3, <2>4, <2>5 DEF IdsOK, Busy
<1>7. StreamOK(ring, Pending', cache, reused', cut)
  <2>1. StreamOK(ring, Pending \cup {f}, cache, reused', cut)
    <3>1. \A k \in 1 .. Len(ring) : ring[k].id # f.id
      BY <1>2, <1>3, <1>9
    <3>2. reused \subseteq reused' /\ (f.id \in DOMAIN cache => f.part[1] \in reused')
      BY <1>1, <1>3
    <3> QED
      BY <1>2, <1>3, <3>1, <3>2, StreamBegins
  <2>2. Pending' \subseteq Pending \cup {f}
    BY <1>2, <1>4, PendingType DEF f
  <2> QED
    BY <2>1, <2>2, StreamLess
<1>8. FragmentsWholeMessages'
  BY <1>1 DEF FragInv, FragmentsWholeMessages, G!WholeMessages
<1> QED
  BY <1>1, <1>5, <1>6, <1>7, <1>8 DEF FragInv

\* A send whose push failed ends.
LEMMA PushFailsKeeps ==
    ASSUME FragInv, NEW w \in Writers, G!PushFails(w)
    PROVE  FragInv'
<1>1. /\ fsending' = [fsending EXCEPT ![w] = G!Idle]
      /\ ring' = ring /\ acc' = acc /\ nsent' = nsent /\ cache' = cache
      /\ delivered' = delivered /\ cut' = cut /\ reused' = reused
  BY DEF G!PushFails
<1>2. FragTypes /\ IdsOK /\ StreamOK(ring, Pending, cache, reused, cut)
  BY DEF FragInv
<1>3. /\ fsending'[w] = G!Idle /\ \A v \in Writers : v # w => fsending'[v] = fsending[v]
      /\ \A g \in Pending' :
            \E v \in Writers : v # w /\ Busy(v) /\ g = G!FragmentOf(fsending[v])
  <2>1. fsending' = [fsending EXCEPT ![w] = G!Idle] /\ FragTypes
    BY <1>1, <1>2
  <2>2. fsending'[w] = G!Idle /\ \A v \in Writers : v # w => fsending'[v] = fsending[v]
    BY <2>1, PendingOthers
  <2>3. \A g \in Pending' :
           \/ G!Idle # G!Idle /\ g = G!FragmentOf(G!Idle)
           \/ \E v \in Writers : v # w /\ Busy(v) /\ g = G!FragmentOf(fsending[v])
    BY <2>1, PendingOthers
  <2> QED
    BY <2>2, <2>3
<1>4. FragTypes'
  BY <1>1, <1>2, <1>3 DEF FragTypes
<1>5. IdsOK'
  BY <1>1, <1>2, <1>3 DEF IdsOK, Busy
<1>6. StreamOK(ring, Pending', cache, reused, cut)
  <2>1. Pending' \subseteq Pending
    BY <1>2, <1>3, PendingType
  <2> QED
    BY <1>2, <2>1, StreamLess
<1>7. FragmentsWholeMessages'
  BY <1>1 DEF FragInv, FragmentsWholeMessages, G!WholeMessages
<1> QED
  BY <1>1, <1>4, <1>5, <1>6, <1>7 DEF FragInv

\* A fragment goes onto the ring, a full one drops its oldest first.
LEMMA PushKeeps ==
    ASSUME ReadersAssumption, FragInv, NEW w \in Writers, G!PushFragment(w)
    PROVE  FragInv'
<1> DEFINE s == fsending[w]
           t == IF s.part = s.size THEN G!Idle ELSE [s EXCEPT !.part = @ + 1]
           f == G!FragmentOf(s)
           room == IF G!Full THEN Tail(ring) ELSE ring
           cv == cut \cup (IF G!Full THEN {Head(ring).part[1]} ELSE {})
<1>1. /\ Busy(w) /\ ring' = Append(room, f) /\ cut' = cv
      /\ fsending' = [fsending EXCEPT ![w] = t]
      /\ acc' = acc /\ nsent' = nsent /\ cache' = cache /\ delivered' = delivered
      /\ reused' = reused
  BY DEF G!PushFragment, Busy
<1>2. /\ FragTypes /\ IdsOK /\ StreamOK(ring, Pending, cache, reused, cut)
      /\ ring \in Seq(Fragment) /\ acc \in Nat /\ Pending \subseteq Fragment
  BY PendingType DEF FragInv, FragTypes
<1>3. /\ s \in Send /\ f \in Fragment /\ f \in Pending /\ s.part <= s.size /\ s.id < acc
      /\ s.id \in Nat /\ s.msg \in Nat /\ s.part \in Nat \ {0} /\ s.size \in Nat \ {0}
      /\ f.id = s.id /\ f.left = s.size - s.part + 1 /\ f.part[1] = s.msg /\ f.part[2] = s.part
  <2>1. s \in Send /\ f \in Fragment /\ f \in Pending /\ s.part <= s.size /\ s.id < acc
    BY <1>1, <1>2, PendingType DEF FragTypes, IdsOK, Busy
  <2> HIDE DEF s
  <2> QED
    BY <2>1 DEF Send, G!FragmentOf, G!Part
<1>4. t # G!Idle => /\ t \in Send /\ t.part <= t.size /\ t.id = s.id
                    /\ G!FragmentOf(t) \in Fragment /\ Follows(f, G!FragmentOf(t))
  <2>1. SUFFICES ASSUME t # G!Idle
                 PROVE  /\ t \in Send /\ t.part <= t.size /\ t.id = s.id
                        /\ G!FragmentOf(t) \in Fragment /\ Follows(f, G!FragmentOf(t))
    OBVIOUS
  <2> DEFINE g == G!FragmentOf(t)
  <2>2. s.part # s.size /\ t = [s EXCEPT !.part = s.part + 1]
    BY <2>1
  <2> HIDE DEF s, t, f
  <2>3. t \in Send /\ t.id = s.id /\ t.msg = s.msg /\ t.size = s.size /\ t.part = s.part + 1
    BY <1>3, <2>2 DEF Send
  <2>4. /\ g.id = s.id /\ g.part[1] = s.msg /\ g.part[2] = s.part + 1
        /\ g.left = s.size - (s.part + 1) + 1 /\ g.part = <<s.msg, s.part + 1>>
        /\ g = [id |-> g.id, left |-> g.left, part |-> g.part]
    BY <2>3 DEF G!FragmentOf, G!Part
  <2>5. t.part <= t.size /\ s.size - (s.part + 1) + 1 \in Nat \ {0} /\ s.part + 1 \in Nat \ {0}
    BY <1>3, <2>2, <2>3
  <2>6. g \in Fragment
    BY <1>3, <2>4, <2>5 DEF Fragment, Parts
  <2>7. Follows(f, g)
    BY <1>3, <2>4, <2>5 DEF Follows, Kin
  <2> QED
    BY <2>3, <2>5, <2>6, <2>7
<1>5. G!Full => ring # <<>> /\ Head(ring) = ring[1]
  <2>1. Len(<<>>) = 0
    OBVIOUS
  <2> QED
    BY <1>2, <2>1, Shorter DEF G!Full, ReadersAssumption
<1>6. /\ room \in Seq(Fragment) /\ StreamOK(room, Pending, cache, reused, cv)
      /\ \A k \in 1 .. Len(room) : room[k].id < acc
  <2>1. CASE G!Full
    <3>1. /\ Tail(ring) \in Seq(Fragment) /\ Len(ring) \in Nat /\ Len(Tail(ring)) = Len(ring) - 1
          /\ \A k \in 1 .. Len(ring) - 1 : Tail(ring)[k] = ring[k + 1]
      BY <1>2, <1>5, <2>1, Shorter
    <3>2. \A k \in 1 .. Len(Tail(ring)) : Tail(ring)[k].id < acc
      <4>1. \A k \in 1 .. Len(Tail(ring)) : k + 1 \in 1 .. Len(ring) /\ Tail(ring)[k] = ring[k + 1]
        BY <3>1
      <4> QED
        BY <1>2, <4>1 DEF IdsOK
    <3>3. StreamOK(Tail(ring), Pending, cache, reused, cut \cup {ring[1].part[1]})
      BY <1>2, <1>5, <2>1, StreamDrops
    <3> QED
      BY <1>5, <2>1, <3>1, <3>2, <3>3
  <2>2. CASE ~G!Full
    BY <1>2, <2>2 DEF IdsOK
  <2> QED
    BY <2>1, <2>2
<1> HIDE DEF s, t, f, room, cv
<1>7. /\ fsending'[w] = t
      /\ \A v \in Writers : v # w => fsending'[v] = fsending[v]
      /\ \A g \in Pending' :
            \/ t # G!Idle /\ g = G!FragmentOf(t)
            \/ \E v \in Writers : v # w /\ Busy(v) /\ g = G!FragmentOf(fsending[v])
  BY <1>1, <1>2, PendingOthers
<1>8. FragTypes'
  <2>1. ring' \in Seq(Fragment)
    BY <1>1, <1>3, <1>6, Longer
  <2>2. fsending' \in [Writers -> Send \cup {G!Idle}]
    BY <1>1, <1>2, <1>4 DEF FragTypes
  <2>3. \A v \in Writers : fsending'[v] # G!Idle => fsending'[v].part <= fsending'[v].size
    BY <1>2, <1>4, <1>7 DEF FragTypes
  <2> QED
    BY <1>1, <1>2, <2>1, <2>2, <2>3 DEF FragTypes
<1>9. IdsOK'
  <2>1. \A k \in 1 .. Len(ring') : ring'[k].id < acc
    <3>1. /\ Len(ring') = Len(room) + 1 /\ Len(room) \in Nat /\ ring'[Len(room) + 1] = f
          /\ \A k \in 1 .. Len(room) : ring'[k] = room[k]
      BY <1>1, <1>3, <1>6, Longer
    <3>2. \A k \in 1 .. Len(ring') : k \in 1 .. Len(room) \/ k = Len(room) + 1
      BY <3>1
    <3> QED
      BY <1>3, <1>6, <3>1, <3>2
  <2>2. \A v \in Writers : fsending'[v] # G!Idle =>
                              Busy(v) /\ fsending'[v].id = fsending[v].id
    BY <1>1, <1>4, <1>7 DEF Busy, s
  <2> QED
    BY <1>1, <1>2, <2>1, <2>2 DEF IdsOK, Busy
<1>10. StreamOK(Append(room, f), Pending', cache, reused, cv)
  <2>1. ASSUME NEW g \in Pending'
        PROVE  g \in Fragment /\ ((g \in Pending /\ g.id # f.id) \/ Follows(f, g))
    <3>1. CASE t # G!Idle /\ g = G!FragmentOf(t)
      BY <1>4, <3>1
    <3>2. CASE \E v \in Writers : v # w /\ Busy(v) /\ g = G!FragmentOf(fsending[v])
      <4>1. PICK v \in Writers : v # w /\ Busy(v) /\ g = G!FragmentOf(fsending[v])
        BY <3>2
      <4>2. g.id = fsending[v].id /\ fsending[v].id # fsending[w].id
        BY <1>1, <1>2, <4>1 DEF IdsOK, G!FragmentOf
      <4> QED
        BY <1>2, <1>3, <4>1, <4>2, PendingType DEF s
    <3> QED
      BY <1>7, <3>1, <3>2
  <2>2. Pending' \subseteq Fragment
    BY <2>1
  <2> QED
    BY <1>2, <1>3, <1>6, <2>1, <2>2, StreamGrows
<1>11. FragmentsWholeMessages'
  <2>1. cut \subseteq cut'
    BY <1>1 DEF cv
  <2> QED
    BY <1>1, <2>1 DEF FragInv, FragmentsWholeMessages, G!WholeMessages
<1> QED
  BY <1>1, <1>8, <1>9, <1>10, <1>11 DEF FragInv

\* What recv returns with fragment h, the next one at a receiver with cache ca
LEMMA Returns ==
    ASSUME NEW h \in Fragment, NEW q, NEW ca, NEW re, NEW cu, FragmentOK(h, q, 0, ca, re, cu),
           \A i \in DOMAIN ca : ca[i] \in Entry, h.part[1] \notin re,
           NEW w, h.id \in DOMAIN ca => w = G!Appended(ca[h.id], h.part).parts,
           h.id \notin DOMAIN ca => w = <<h.part>>
    PROVE  /\ G!OfOne(w, h.part[1]) /\ G!Ascending(w)
           /\ h.part[1] \notin cu => w = G!WholeOf(h.part[1], h.part[2])
<1>1. h.part[1] \notin cu => FirstOrNext(h, ca)
  <2>1. 1 .. 0 = {}
    OBVIOUS
  <2> QED
    BY <2>1 DEF FragmentOK, NextOK
<1>2. CASE h.id \in DOMAIN ca
  <2>1. Holds(ca[h.id], h) /\ ca[h.id] \in Entry
    BY <1>2 DEF FragmentOK, CachedOK
  <2>2. G!OfOne(w, h.part[1]) /\ G!Ascending(w)
    BY <1>2, <2>1, HoldsMore
  <2>3. h.part[1] \notin cu => w = G!WholeOf(h.part[1], h.part[2])
    BY <1>1, <1>2, BeforeThrough DEF FirstOrNext
  <2> QED
    BY <2>2, <2>3
<1>3. CASE h.id \notin DOMAIN ca
  <2>1. DOMAIN w = {1} /\ w[1] = h.part /\ w = <<h.part>>
    BY <1>3
  <2>2. G!OfOne(w, h.part[1]) /\ G!Ascending(w)
    BY <2>1 DEF G!OfOne, G!Ascending
  <2>3. h.part[1] \notin cu => w = G!WholeOf(h.part[1], h.part[2])
    <3>1. h.part[1] \notin cu => h.part[2] = 1
      BY <1>1, <1>3 DEF FirstOrNext
    <3>2. h.part[2] = 1 => Through(h) = [size |-> h.left, parts |-> <<h.part>>]
      BY BeforeThrough
    <3>3. Through(h).parts = G!WholeOf(h.part[1], h.part[2])
      BY BeforeThrough
    <3> QED
      BY <2>1, <3>1, <3>2, <3>3
  <2> QED
    BY <2>2, <2>3
<1> QED
  BY <1>2, <1>3

LEMMA AppendedType ==
    ASSUME NEW e \in Entry, NEW x \in Parts
    PROVE  G!Appended(e, x) \in Entry
<1>1. e.size \in Nat /\ e.parts \in Seq(Parts) /\ Append(e.parts, x) \in Seq(Parts)
  BY DEF Entry
<1>2. \A v \in Seq(Parts) : [e EXCEPT !.parts = v] \in Entry
  BY DEF Entry
<1>3. \/ G!Appended(e, x) = [e EXCEPT !.parts = e.parts]
      \/ G!Appended(e, x) = [e EXCEPT !.parts = Append(e.parts, x)]
  BY DEF G!Appended
<1> QED
  BY <1>1, <1>2, <1>3

\* recv takes a fragment: it returns, or keeps it.
LEMMA RecvKeeps == ASSUME FragInv, G!Recv PROVE FragInv'
<1> DEFINE h == ring[1]
<1>1. /\ FragTypes /\ IdsOK /\ StreamOK(ring, Pending, cache, reused, cut)
      /\ ring \in Seq(Fragment) /\ Pending \subseteq Fragment /\ ring # <<>>
      /\ \A i \in DOMAIN cache : cache[i] \in Entry
  BY PendingType DEF FragInv, FragTypes, G!Recv
<1>2. /\ Head(ring) = h /\ h \in Fragment /\ Len(ring) \in Nat /\ Len(ring) >= 1
      /\ Tail(ring) \in Seq(Fragment) /\ Len(Tail(ring)) = Len(ring) - 1
      /\ \A k \in 1 .. Len(ring) - 1 : Tail(ring)[k] = ring[k + 1]
  BY <1>1, Shorter
<1>3. /\ ring' = Tail(ring) /\ acc' = acc /\ fsending' = fsending /\ nsent' = nsent
      /\ reused' = reused /\ (G!RecvFirst(h) \/ G!RecvNext(h))
  BY <1>2 DEF G!Recv
<1>4. /\ h.left \in Nat \ {0} /\ h.part \in Parts /\ FragmentOK(h, ring, 0, cache, reused, cut)
  <2>1. h.left \in Nat \ {0} /\ h.part \in Parts
    BY <1>2 DEF Fragment
  <2>2. 1 \in 1 .. Len(ring) /\ 1 - 1 = 0
    BY <1>2
  <2> QED
    BY <1>1, <2>1, <2>2 DEF StreamOK
<1>5. ring[1] = h
  OBVIOUS
<1> HIDE DEF h
<1>6. /\ Takes(h, cache, cache', cut') /\ cut \subseteq cut'
      /\ \/ delivered' = delivered
         \/ \E w : /\ delivered' = delivered \cup {[last |-> h.part, parts |-> w]}
                   /\ h.id \in DOMAIN cache => w = G!Appended(cache[h.id], h.part).parts
                   /\ h.id \notin DOMAIN cache => w = <<h.part>>
  <2>1. CASE G!RecvFirst(h)
    <3>1. CASE h.left = 1
      <4>1. /\ h.id \notin DOMAIN cache /\ cache' = cache /\ cut' = cut
            /\ delivered' = delivered \cup {[last |-> h.part, parts |-> <<h.part>>]}
        BY <2>1, <3>1 DEF G!RecvFirst, G!Returned
      <4> QED
        BY <3>1, <4>1 DEF Takes
    <3>2. CASE h.left # 1
      <4> DEFINE gone == G!Collected(h.id)
                 v == [size |-> h.left, parts |-> <<h.part>>]
      <4>1. /\ h.id \notin DOMAIN cache /\ delivered' = delivered
            /\ cache' = G!With(G!Without(cache, gone), h.id, v)
            /\ cut' = cut \cup {cache[i].parts[1][1] : i \in gone}
        BY <2>1, <3>2 DEF G!RecvFirst
      <4>2. gone \subseteq DOMAIN cache
        BY DEF G!Collected
      <4> HIDE DEF gone, v
      <4>3. /\ DOMAIN cache' = (DOMAIN cache \ gone) \cup {h.id}
            /\ cache'[h.id] = v
            /\ \A i \in DOMAIN cache \ gone : i # h.id => cache'[i] = cache[i]
        BY <4>1 DEF G!With, G!Without
      <4> QED
        BY <3>2, <4>1, <4>2, <4>3 DEF Takes, v
    <3> QED
      BY <3>1, <3>2
  <2>2. CASE G!RecvNext(h)
    <3> DEFINE e == G!Appended(cache[h.id], h.part)
    <3>1. CASE h.left = 1
      <4>1. /\ h.id \in DOMAIN cache /\ cut' = cut /\ cache' = G!Without(cache, {h.id})
            /\ delivered' = delivered \cup {[last |-> h.part, parts |-> e.parts]}
        BY <2>2, <3>1 DEF G!RecvNext, G!Returned
      <4>2. /\ DOMAIN cache' = DOMAIN cache \ {h.id}
            /\ \A i \in DOMAIN cache \ {h.id} : cache'[i] = cache[i]
        BY <4>1 DEF G!Without
      <4> QED
        BY <3>1, <4>1, <4>2 DEF Takes
    <3>2. CASE h.left # 1
      <4>1. /\ h.id \in DOMAIN cache /\ cut' = cut /\ delivered' = delivered
            /\ cache' = G!With(cache, h.id, e)
        BY <2>2, <3>2 DEF G!RecvNext
      <4> HIDE DEF e
      <4>2. /\ DOMAIN cache' = DOMAIN cache /\ cache'[h.id] = e
            /\ \A i \in DOMAIN cache \ {h.id} : cache'[i] = cache[i]
        BY <4>1 DEF G!With
      <4> QED
        BY <3>2, <4>1, <4>2 DEF Takes, e
    <3> QED
      BY <3>1, <3>2
  <2> QED
    BY <1>3, <2>1, <2>2
<1>7. FragTypes'
  <2>1. ASSUME NEW i \in DOMAIN cache' PROVE cache'[i] \in Entry
    <3>1. CASE i # h.id
      BY <1>1, <1>6, <3>1 DEF Takes
    <3>2. CASE i = h.id /\ h.id \in DOMAIN cache
      <4>1. cache'[i] = G!Appended(cache[i], h.part) /\ cache[i] \in Entry
        BY <1>1, <1>6, <2>1, <3>2 DEF Takes
      <4> QED
        BY <1>4, <4>1, AppendedType
    <3>3. CASE i = h.id /\ h.id \notin DOMAIN cache
      <4>1. cache'[i] = [size |-> h.left, parts |-> <<h.part>>]
        BY <1>6, <2>1, <3>3 DEF Takes
      <4>2. <<h.part>> \in Seq(Parts)
        BY <1>4
      <4> QED
        BY <1>4, <4>1, <4>2 DEF Entry
    <3> QED
      BY <3>1, <3>2, <3>3
  <2> QED
    BY <1>1, <1>2, <1>3, <2>1 DEF FragTypes
<1>8. IdsOK'
  <2>1. \A k \in 1 .. Len(Tail(ring)) : k + 1 \in 1 .. Len(ring) /\ Tail(ring)[k] = ring[k + 1]
    BY <1>2
  <2>2. \A k \in 1 .. Len(Tail(ring)) : Tail(ring)[k].id < acc
    BY <1>1, <2>1 DEF IdsOK
  <2> QED
    BY <1>1, <1>3, <2>2 DEF IdsOK, Busy
<1>9. StreamOK(Tail(ring), Pending, cache', reused, cut')
  BY <1>1, <1>5, <1>6, StreamTaken
<1>10. Pending' = Pending
  BY <1>3 DEF Pending, Busy
<1>11. FragmentsWholeMessages'
  <2>1. \A d \in delivered : d.last[1] \notin reused =>
           /\ G!OfOne(d.parts, d.last[1]) /\ G!Ascending(d.parts)
           /\ d.last[1] \notin cut => d.parts = G!WholeOf(d.last[1], d.last[2])
    BY DEF FragInv, FragmentsWholeMessages, G!WholeMessages
  <2>2. ASSUME NEW w, h.part[1] \notin reused,
               h.id \in DOMAIN cache => w = G!Appended(cache[h.id], h.part).parts,
               h.id \notin DOMAIN cache => w = <<h.part>>
        PROVE  /\ G!OfOne(w, h.part[1]) /\ G!Ascending(w)
               /\ h.part[1] \notin cut => w = G!WholeOf(h.part[1], h.part[2])
    BY <1>1, <1>2, <1>4, <2>2, Returns
  <2>3. \A d \in delivered' : d.last[1] \notin reused =>
           /\ G!OfOne(d.parts, d.last[1]) /\ G!Ascending(d.parts)
           /\ d.last[1] \notin cut => d.parts = G!WholeOf(d.last[1], d.last[2])
    BY <1>6, <2>1, <2>2
  <2> QED
    BY <1>3, <1>6, <2>3 DEF FragmentsWholeMessages, G!WholeMessages
<1> QED
  BY <1>3, <1>7, <1>8, <1>9, <1>10, <1>11 DEF FragInv

\* The storage is made again: nothing comes, and what is cached stays.
LEMMA RestartKeeps == ASSUME FragInv, G!Restart PROVE FragInv'
<1>1. /\ ring' = <<>> /\ acc' = 0 /\ fsending' = [w \in Writers |-> G!Idle]
      /\ nsent' = nsent /\ cache' = cache /\ delivered' = delivered
      /\ cut' = cut /\ reused' = reused
  BY DEF G!Restart
<1>2. FragTypes'
  BY <1>1 DEF FragInv, FragTypes
<1>3. Pending' = {} /\ Len(<<>>) = 0 /\ 1 .. 0 = {}
  BY <1>1 DEF Pending, Busy
<1>4. IdsOK' /\ StreamOK(ring, Pending, cache, reused, cut)'
  BY <1>1, <1>3 DEF IdsOK, Busy, StreamOK
<1>5. FragmentsWholeMessages'
  BY <1>1 DEF FragInv, FragmentsWholeMessages, G!WholeMessages
<1> QED
  BY <1>2, <1>4, <1>5 DEF FragInv

\* Nothing has been sent.
LEMMA FragInit == G!Init => FragInv
<1> SUFFICES ASSUME G!Init PROVE FragInv
  OBVIOUS
<1>1. FragTypes
  BY DEF G!Init, FragTypes
<1>2. Pending = {} /\ Len(<<>>) = 0 /\ 1 .. 0 = {}
  BY DEF G!Init, Pending, Busy
<1>3. IdsOK /\ StreamOK(ring, Pending, cache, reused, cut)
  BY <1>2 DEF G!Init, IdsOK, Busy, StreamOK
<1>4. FragmentsWholeMessages
  BY DEF G!Init, FragmentsWholeMessages, G!WholeMessages
<1> QED
  BY <1>1, <1>3, <1>4 DEF FragInv

\* Every step keeps the invariant.
LEMMA FragNext == FragInv /\ [G!Next]_G!vars => FragInv'
<1> SUFFICES ASSUME FragInv, [G!Next]_G!vars PROVE FragInv'
  OBVIOUS
<1>1. CASE UNCHANGED G!vars
  <2>1. /\ ring' = ring /\ acc' = acc /\ fsending' = fsending /\ nsent' = nsent
        /\ cache' = cache /\ delivered' = delivered /\ cut' = cut /\ reused' = reused
    BY <1>1 DEF G!vars
  <2>2. Pending' = Pending
    BY <2>1 DEF Pending, Busy
  <2>3. FragTypes' /\ IdsOK' /\ FragmentsWholeMessages'
    BY <2>1 DEF FragInv, FragTypes, IdsOK, Busy, FragmentsWholeMessages, G!WholeMessages
  <2>4. StreamOK(ring, Pending, cache, reused, cut)'
    BY <2>1, <2>2 DEF FragInv
  <2> QED
    BY <2>3, <2>4 DEF FragInv
<1>2. CASE G!Next
  <2>1. CASE \E w \in Writers, n \in Sizes : G!SendBegin(w, n)
    BY <2>1, ReadersAssumption, SendBeginKeeps
  <2>2. CASE \E w \in Writers : G!PushFragment(w) \/ G!PushFails(w)
    BY <2>2, ReadersAssumption, PushKeeps, PushFailsKeeps
  <2>3. CASE G!Recv \/ G!Restart
    BY <2>3, RecvKeeps, RestartKeeps
  <2> QED
    BY <1>2, <2>1, <2>2, <2>3 DEF G!Next
<1> QED
  BY <1>1, <1>2

\* recv returns the fragments of one message in their order, and all of them unless one was
\* overwritten or collected, for any writers, sizes, ring and cache limits, whatever sends
\* fail half way and whenever the storage is made again - unless the message's id was cached
\* from before that (ipc.cpp send, recv, recv_cache, in a thread that reads one channel).
THEOREM OnlyWholeMessages == G!Spec => []FragmentsWholeMessages
<1>1. FragInv => FragmentsWholeMessages
  BY DEF FragInv
<1> QED
  BY <1>1, FragInit, FragNext, PTL DEF G!Spec
-----------------------------------------------------------------------------
(***************************************************************************)
(* Values computed step by step: what a recursive function finds           *)
(***************************************************************************)

\* A set of numbers has a least one.
LEMMA Least ==
    ASSUME NEW T \in SUBSET Nat, T # {}
    PROVE  \E x \in T : \A y \in T : x <= y
<1> DEFINE R == {ss \in Nat \X Nat : ss[1] < ss[2]}
<1>1. IsWellFoundedOn(R, Nat)
  BY NatLessThanWellFounded DEF OpToRel
<1> HIDE DEF R
<1>2. PICK x \in T : \A y \in T : ~(<<y, x>> \in R)
  BY <1>1, WFMin
<1>3. \A y \in T : <<y, x>> \in Nat \X Nat /\ <<y, x>>[1] = y /\ <<y, x>>[2] = x
  OBVIOUS
<1>4. \A y \in T : ~(y < x)
  BY <1>2, <1>3 DEF R
<1> QED
  BY <1>4

\* Induction up to n, over a set
LEMMA UpTo ==
    ASSUME NEW n \in Nat, NEW T, 0 \in T, \A k \in 0 .. n - 1 : k \in T => k + 1 \in T
    PROVE  \A k \in 0 .. n : k \in T
<1> DEFINE Out == {k \in 0 .. n : k \notin T}
<1>1. SUFFICES ASSUME Out # {} PROVE FALSE
  OBVIOUS
<1>2. PICK x \in Out : \A y \in Out : x <= y
  <2>1. Out \in SUBSET Nat
    OBVIOUS
  <2> HIDE DEF Out
  <2> QED
    BY <1>1, <2>1, Least
<1>3. x # 0 /\ x \in 1 .. n /\ x - 1 \in 0 .. n - 1
  OBVIOUS
<1>4. x - 1 \in T
  BY <1>2, <1>3
<1> QED
  BY <1>3, <1>4

\* What is computed step by step exists.
Computed(f, n, D, a, step) ==
    /\ f \in [0 .. n -> D] /\ f[0] = a
    /\ \A i \in 1 .. n : f[i] = step[i][f[i - 1]]

LEMMA Recursion ==
    ASSUME NEW n \in Nat, NEW D, NEW a \in D, NEW step \in [1 .. n -> [D -> D]]
    PROVE  \E f : Computed(f, n, D, a, step)
<1> DEFINE Fits(f, k) == Computed(f, k, D, a, step)
           T == {k \in 0 .. n : \E f : Fits(f, k)}
<1>1. 0 \in T
  <2>1. Fits([i \in 0 .. 0 |-> a], 0)
    BY DEF Computed
  <2>2. 0 \in 0 .. n
    OBVIOUS
  <2> HIDE DEF Fits
  <2> QED
    BY <2>1, <2>2, Zenon
<1>2. ASSUME NEW k \in 0 .. n - 1, k \in T
      PROVE  k + 1 \in T
  <2>1. PICK f : Computed(f, k, D, a, step)
    BY <1>2
  <2> DEFINE g == [i \in 0 .. k + 1 |-> IF i <= k THEN f[i] ELSE step[k + 1][f[k]]]
  <2>2. step[k + 1][f[k]] \in D
    BY <2>1 DEF Computed
  <2>3. g \in [0 .. k + 1 -> D] /\ g[0] = a
    BY <2>1, <2>2 DEF Computed
  <2>4. g[k + 1] = step[k + 1][g[k]]
    OBVIOUS
  <2>5. ASSUME NEW i \in 1 .. k
        PROVE  g[i] = step[i][g[i - 1]]
    <3>1. g[i] = f[i] /\ g[i - 1] = f[i - 1]
      OBVIOUS
    <3> QED
      BY <2>1, <3>1 DEF Computed
  <2>6. \A i \in 1 .. k + 1 : g[i] = step[i][g[i - 1]]
    <3> HIDE DEF g
    <3> QED
      BY <2>4, <2>5
  <2>7. Fits(g, k + 1)
    BY <2>3, <2>6 DEF Computed
  <2>8. k + 1 \in 0 .. n
    OBVIOUS
  <2> HIDE DEF Fits
  <2> QED
    BY <2>7, <2>8, Zenon
<1>3. n \in T
  <2>1. \A k \in 0 .. n - 1 : k \in T => k + 1 \in T
    BY <1>2
  <2> HIDE DEF T
  <2>2. \A k \in 0 .. n : k \in T
    BY <1>1, <2>1, UpTo
  <2> QED
    BY <2>2
<1> QED
  BY <1>3
-----------------------------------------------------------------------------
(***************************************************************************)
(* EventLog: the bags hold every event that was queued.                    *)
(***************************************************************************)

\* The events that can be written
LEMMA WritableIs ==
    ASSUME NEW s \in Seq(Nat)
    PROVE  \E f \in [0 .. Len(s) -> Seq(Nat)] :
              /\ L!Writable(s) = f[Len(s)] /\ f[0] = <<>>
              /\ \A i \in 1 .. Len(s) :
                    f[i] = IF s[i] \in Huge THEN f[i - 1] ELSE Append(f[i - 1], s[i])
<1> DEFINE D == Seq(Nat)
           n == Len(s)
           step == [i \in 1 .. n |-> [x \in D |-> IF s[i] \in Huge THEN x ELSE Append(x, s[i])]]
           Body(F) == [i \in 0 .. n |-> IF i = 0 THEN <<>>
                         ELSE IF s[i] \in Huge THEN F[i - 1] ELSE Append(F[i - 1], s[i])]
<1>1. n \in Nat /\ <<>> \in D
  OBVIOUS
<1>2. step \in [1 .. n -> [D -> D]]
  <2>1. ASSUME NEW i \in 1 .. n, NEW x \in D
        PROVE  (IF s[i] \in Huge THEN x ELSE Append(x, s[i])) \in D
    OBVIOUS
  <2> HIDE DEF D, n
  <2> QED
    BY <2>1
<1>3. PICK f \in [0 .. n -> D] : f[0] = <<>> /\ \A i \in 1 .. n : f[i] = step[i][f[i - 1]]
  <2> HIDE DEF D, n, step
  <2>1. \E f : Computed(f, n, D, <<>>, step)
    BY <1>1, <1>2, Recursion
  <2> QED
    BY <2>1 DEF Computed
<1>4. ASSUME NEW i \in 1 .. n
      PROVE  f[i] = IF s[i] \in Huge THEN f[i - 1] ELSE Append(f[i - 1], s[i])
  <2>1. i - 1 \in 0 .. n
    OBVIOUS
  <2>2. f[i - 1] \in D
    BY <1>3, <2>1
  <2>3. f[i] = step[i][f[i - 1]]
    BY <1>3
  <2> HIDE DEF D, n
  <2> QED
    BY <2>2, <2>3
<1>5. f = Body(f)
  <2>1. n \in Nat /\ DOMAIN f = 0 .. n
    BY <1>1, <1>3
  <2>2. \A i \in 0 .. n : i = 0 \/ i \in 1 .. n
    OBVIOUS
  <2> HIDE DEF D, n, step
  <2>3. \A i \in 0 .. n : f[i] = Body(f)[i]
    BY <1>3, <1>4, <2>1, <2>2
  <2> QED
    BY <1>3, <2>1, <2>3
<1> DEFINE g == CHOOSE F : F = Body(F)
<1>6. g = Body(g)
  <2> HIDE DEF Body
  <2> QED
    BY <1>5
<1>7. L!Writable(s) = g[n]
  BY DEF L!Writable
<1> HIDE DEF g, step
<1>8. g[0] = <<>> /\ \A i \in 1 .. n :
          g[i] = IF s[i] \in Huge THEN g[i - 1] ELSE Append(g[i - 1], s[i])
  <2>1. n \in Nat /\ 0 \in 0 .. n /\ \A i \in 1 .. n : i \in 0 .. n /\ i # 0
    BY <1>1
  <2>2. \A i \in 0 .. n : g[i] = Body(g)[i]
    BY <1>6
  <2> HIDE DEF n
  <2> QED
    BY <2>1, <2>2
<1> DEFINE T == {i \in 0 .. n : g[i] = f[i]}
<1>9. 0 \in T
  BY <1>1, <1>3, <1>8
<1>10. \A k \in 0 .. n - 1 : k \in T => k + 1 \in T
  <2> HIDE DEF n, D
  <2> QED
    BY <1>1, <1>4, <1>8
<1>11. n \in T
  <2> HIDE DEF T, n
  <2>1. \A k \in 0 .. n : k \in T
    BY <1>1, <1>9, <1>10, UpTo
  <2> QED
    BY <1>1, <2>1
<1> QED
  BY <1>3, <1>4, <1>7, <1>11

LEMMA WritableOfNone == L!Writable(<<>>) = <<>>
<1>1. <<>> \in Seq(Nat) /\ Len(<<>>) = 0
  OBVIOUS
<1> QED
  BY <1>1, WritableIs

LEMMA WritableOfMore ==
    ASSUME NEW s \in Seq(Nat), NEW e \in Nat
    PROVE  /\ L!Writable(s) \in Seq(Nat)
           /\ L!Writable(Append(s, e)) =
                 IF e \in Huge THEN L!Writable(s) ELSE Append(L!Writable(s), e)
<1> DEFINE n == Len(s)
           t == Append(s, e)
<1>1. /\ n \in Nat /\ t \in Seq(Nat) /\ Len(t) = n + 1 /\ t[n + 1] = e
      /\ \A i \in 1 .. n : t[i] = s[i]
  OBVIOUS
<1>2. PICK f \in [0 .. n -> Seq(Nat)] :
          /\ L!Writable(s) = f[n] /\ f[0] = <<>>
          /\ \A i \in 1 .. n :
                f[i] = IF s[i] \in Huge THEN f[i - 1] ELSE Append(f[i - 1], s[i])
  BY WritableIs
<1> HIDE DEF t
<1>3. PICK g \in [0 .. n + 1 -> Seq(Nat)] :
          /\ L!Writable(t) = g[n + 1] /\ g[0] = <<>>
          /\ \A i \in 1 .. n + 1 :
                g[i] = IF t[i] \in Huge THEN g[i - 1] ELSE Append(g[i - 1], t[i])
  <2>1. \E g \in [0 .. Len(t) -> Seq(Nat)] :
          /\ L!Writable(t) = g[Len(t)] /\ g[0] = <<>>
          /\ \A i \in 1 .. Len(t) :
                g[i] = IF t[i] \in Huge THEN g[i - 1] ELSE Append(g[i - 1], t[i])
    BY <1>1, WritableIs
  <2> QED
    BY <1>1, <2>1
<1> HIDE DEF n
<1> DEFINE T == {i \in 0 .. n : g[i] = f[i]}
<1>4. 0 \in T
  BY <1>1, <1>2, <1>3
<1>5. ASSUME NEW k \in 0 .. n - 1, k \in T
      PROVE  k + 1 \in T
  <2>1. k + 1 \in 1 .. n /\ k + 1 \in 1 .. n + 1 /\ k + 1 \in 0 .. n /\ (k + 1) - 1 = k
    BY <1>1
  <2>2. g[k] = f[k]
    BY <1>5
  <2>3. f[k + 1] = IF s[k + 1] \in Huge THEN f[k] ELSE Append(f[k], s[k + 1])
    BY <1>2, <2>1
  <2>4. g[k + 1] = IF t[k + 1] \in Huge THEN g[k] ELSE Append(g[k], t[k + 1])
    BY <1>3, <2>1
  <2>5. t[k + 1] = s[k + 1]
    BY <1>1, <2>1
  <2> QED
    BY <2>1, <2>2, <2>3, <2>4, <2>5
<1>6. g[n] = f[n]
  <2> HIDE DEF T
  <2>1. \A k \in 0 .. n : k \in T
    BY <1>1, <1>4, <1>5, UpTo
  <2> USE DEF T
  <2> QED
    BY <1>1, <2>1
<1>7. g[n + 1] = IF e \in Huge THEN g[n] ELSE Append(g[n], e)
  <2>1. n + 1 \in 1 .. n + 1 /\ (n + 1) - 1 = n
    BY <1>1
  <2> QED
    BY <1>1, <1>3, <2>1
<1>8. f[n] \in Seq(Nat)
  BY <1>1, <1>2
<1> QED
  BY <1>2, <1>3, <1>6, <1>7, <1>8 DEF t

\* The bags one after the other
LEMMA FlatIs ==
    ASSUME NEW b \in Seq(Seq(Nat))
    PROVE  \E f \in [0 .. Len(b) -> Seq(Nat)] :
              /\ L!FlattenSeq(b) = f[Len(b)] /\ f[0] = <<>>
              /\ \A i \in 1 .. Len(b) : f[i] = f[i - 1] \o b[i]
<1> DEFINE D == Seq(Nat)
           n == Len(b)
           step == [i \in 1 .. n |-> [x \in D |-> x \o b[i]]]
           Body(F) == [i \in 1 .. n |-> IF i = 1 THEN b[i] ELSE F[i - 1] \o b[i]]
<1>1. n \in Nat /\ <<>> \in D /\ \A i \in 1 .. n : b[i] \in D
  OBVIOUS
<1>2. step \in [1 .. n -> [D -> D]]
  <2>1. ASSUME NEW i \in 1 .. n, NEW x \in D
        PROVE  x \o b[i] \in D
    BY <1>1
  <2> HIDE DEF D, n
  <2> QED
    BY <2>1
<1>3. PICK f \in [0 .. n -> D] : f[0] = <<>> /\ \A i \in 1 .. n : f[i] = step[i][f[i - 1]]
  <2> HIDE DEF D, n, step
  <2>1. \E f : Computed(f, n, D, <<>>, step)
    BY <1>1, <1>2, Recursion
  <2> QED
    BY <2>1 DEF Computed
<1>4. ASSUME NEW i \in 1 .. n
      PROVE  f[i] = f[i - 1] \o b[i]
  <2>1. i - 1 \in 0 .. n
    OBVIOUS
  <2>2. f[i - 1] \in D
    BY <1>3, <2>1
  <2>3. f[i] = step[i][f[i - 1]]
    BY <1>3
  <2> HIDE DEF D, n
  <2> QED
    BY <2>2, <2>3
<1> HIDE DEF step
<1>5. CASE n = 0
  <2>1. L!FlattenSeq(b) = <<>>
    BY <1>5 DEF L!FlattenSeq
  <2> QED
    BY <1>3, <1>4, <1>5, <2>1
<1>6. CASE n # 0
  <2> DEFINE h == [i \in 1 .. n |-> f[i]]
             g == CHOOSE F : F = Body(F)
             T == {i \in 0 .. n : i = 0 \/ g[i] = f[i]}
  <2>1. h = Body(h)
    <3>1. ASSUME NEW i \in 1 .. n
          PROVE  h[i] = Body(h)[i]
      <4>1. CASE i = 1
        <5>1. f[i] = f[i - 1] \o b[i] /\ b[i] \in Seq(Nat)
          BY <1>1, <1>4
        <5>2. f[i - 1] = <<>>
          BY <1>3, <4>1
        <5>3. f[i] = b[i]
          BY <5>1, <5>2
        <5> QED
          BY <4>1, <5>3
      <4>2. CASE i # 1
        <5>1. i - 1 \in 1 .. n
          BY <1>1, <4>2
        <5>2. h[i - 1] = f[i - 1] /\ h[i] = f[i]
          BY <5>1
        <5> QED
          BY <1>4, <4>2, <5>2
      <4> QED
        BY <4>1, <4>2
    <3> QED
      BY <3>1
  <2>2. g = Body(g)
    <3> HIDE DEF Body, h
    <3> QED
      BY <2>1
  <2>3. L!FlattenSeq(b) = g[n]
    BY <1>6 DEF L!FlattenSeq
  <2> HIDE DEF g
  <2>4. \A i \in 1 .. n : g[i] = IF i = 1 THEN b[i] ELSE g[i - 1] \o b[i]
    BY <2>2
  <2>5. ASSUME NEW i \in 1 .. n
        PROVE  f[i] = IF i = 1 THEN b[i] ELSE f[i - 1] \o b[i]
    <3>1. h[i] = Body(h)[i]
      BY <2>1
    <3>2. i # 1 => i - 1 \in 1 .. n
      BY <1>1
    <3>3. h[i] = f[i] /\ (i # 1 => h[i - 1] = f[i - 1])
      BY <3>2
    <3> QED
      BY <3>1, <3>3
  <2>6. 0 \in T
    BY <1>1
  <2> HIDE DEF n, D
  <2>7. ASSUME NEW k \in 0 .. n - 1, k \in T
        PROVE  k + 1 \in T
    <3>1. k + 1 \in 1 .. n /\ k + 1 \in 0 .. n /\ (k + 1) - 1 = k /\ (k = 0 <=> k + 1 = 1)
      BY <1>1
    <3>2. k # 0 => g[k] = f[k]
      BY <2>7
    <3> QED
      BY <2>4, <2>5, <3>1, <3>2
  <2>8. n \in T
    <3> HIDE DEF T
    <3>1. \A k \in 0 .. n : k \in T
      BY <1>1, <2>6, <2>7, UpTo
    <3> QED
      BY <1>1, <3>1
  <2>9. g[n] = f[n]
    BY <1>6, <2>8
  <2> USE DEF n, D
  <2> QED
    BY <1>3, <1>4, <2>3, <2>9
<1> QED
  BY <1>5, <1>6

LEMMA FlatOfNone == L!FlattenSeq(<<>>) = <<>>
BY DEF L!FlattenSeq

LEMMA FlatOfMore ==
    ASSUME NEW b \in Seq(Seq(Nat)), NEW c \in Seq(Nat)
    PROVE  /\ L!FlattenSeq(b) \in Seq(Nat)
           /\ L!FlattenSeq(Append(b, c)) = L!FlattenSeq(b) \o c
<1> DEFINE n == Len(b)
           d == Append(b, c)
<1>1. /\ n \in Nat /\ d \in Seq(Seq(Nat)) /\ Len(d) = n + 1 /\ d[n + 1] = c
      /\ \A i \in 1 .. n : d[i] = b[i]
  OBVIOUS
<1>2. PICK f \in [0 .. n -> Seq(Nat)] :
          /\ L!FlattenSeq(b) = f[n] /\ f[0] = <<>>
          /\ \A i \in 1 .. n : f[i] = f[i - 1] \o b[i]
  BY FlatIs
<1> HIDE DEF d
<1>3. PICK g \in [0 .. n + 1 -> Seq(Nat)] :
          /\ L!FlattenSeq(d) = g[n + 1] /\ g[0] = <<>>
          /\ \A i \in 1 .. n + 1 : g[i] = g[i - 1] \o d[i]
  <2>1. \E g \in [0 .. Len(d) -> Seq(Nat)] :
          /\ L!FlattenSeq(d) = g[Len(d)] /\ g[0] = <<>>
          /\ \A i \in 1 .. Len(d) : g[i] = g[i - 1] \o d[i]
    BY <1>1, FlatIs
  <2> QED
    BY <1>1, <2>1
<1> HIDE DEF n
<1> DEFINE T == {i \in 0 .. n : g[i] = f[i]}
<1>4. 0 \in T
  BY <1>1, <1>2, <1>3
<1>5. ASSUME NEW k \in 0 .. n - 1, k \in T
      PROVE  k + 1 \in T
  <2>0. n \in Nat
    BY <1>1
  <2>1. k + 1 \in 1 .. n /\ k + 1 \in 1 .. n + 1 /\ k + 1 \in 0 .. n /\ (k + 1) - 1 = k
    BY <2>0
  <2>2. g[k] = f[k]
    BY <1>5
  <2>3. f[k + 1] = f[k] \o b[k + 1]
    BY <1>2, <2>1
  <2>4. g[k + 1] = g[k] \o d[k + 1]
    BY <1>3, <2>1
  <2>5. d[k + 1] = b[k + 1]
    BY <1>1, <2>1
  <2> QED
    BY <2>1, <2>2, <2>3, <2>4, <2>5
<1>6. g[n] = f[n]
  <2> HIDE DEF T
  <2>1. \A k \in 0 .. n : k \in T
    BY <1>1, <1>4, <1>5, UpTo
  <2> USE DEF T
  <2> QED
    BY <1>1, <2>1
<1>7. g[n + 1] = g[n] \o c
  <2>1. n + 1 \in 1 .. n + 1 /\ (n + 1) - 1 = n
    BY <1>1
  <2> QED
    BY <1>1, <1>3, <2>1
<1>8. f[n] \in Seq(Nat)
  BY <1>1, <1>2
<1> QED
  BY <1>2, <1>3, <1>6, <1>7, <1>8 DEF d

\* Times, queued events and bags
LogTypes ==
    /\ queue \in Seq(Nat) /\ accepted \in Seq(Nat) /\ chunk \in Seq(Nat) /\ bags \in Seq(Seq(Nat))
    /\ event \in Nat /\ clock \in Nat /\ stamped \in [Recorders -> Nat]

\* The event the writer holds that is yet to be written
Held == IF writer = "append" \/ (writer = "serialize" /\ event \notin Huge) THEN <<event>> ELSE <<>>

\* What was put on record, in the bags or the chunk
Out == L!FlattenSeq(bags) \o chunk

\* What was queued is what the writer took, and what it took was put on record or is held.
AccountOK == \E t \in Seq(Nat) : accepted = t \o queue /\ L!Writable(t) = Out \o Held

\* Without a writer nothing waits, nor before the next bag is opened.
RestOK ==
    /\ writer = "none" => ~running /\ queue = <<>> /\ (control = "finish" \/ chunk = <<>>)
    /\ writer = "done" => ~running /\ queue = <<>>
    /\ control = "finish" => writer = "none"
    /\ writer \in {"check", "sleep", "serialize", "append", "finalize"} => open
    /\ ~open => chunk = <<>>

LogInv == LogTypes /\ (~lost => AccountOK /\ RestOK)

LEMMA Joined ==
    ASSUME NEW x \in Seq(Nat), NEW y \in Seq(Nat), NEW e \in Nat
    PROVE  /\ x \o y \in Seq(Nat) /\ Append(x, e) \in Seq(Nat) /\ <<>> \in Seq(Nat)
           /\ x \o <<>> = x /\ <<>> \o x = x /\ x \o <<e>> = Append(x, e)
           /\ x \o Append(y, e) = Append(x \o y, e)
           /\ y # <<>> => Append(x, Head(y)) \o Tail(y) = x \o y
<1>1. x \o <<>> = x /\ <<>> \o x = x /\ x \o <<e>> = Append(x, e)
  OBVIOUS
<1>2. x \o Append(y, e) = Append(x \o y, e)
  OBVIOUS
<1>3. ASSUME y # <<>>
      PROVE  Append(x, Head(y)) \o Tail(y) = x \o y
  BY <1>3
<1>4. x \o y \in Seq(Nat) /\ Append(x, e) \in Seq(Nat) /\ <<>> \in Seq(Nat)
  OBVIOUS
<1> QED
  BY <1>1, <1>2, <1>3, <1>4, Zenon

LEMMA LogInit == L!Init => LogInv
<1> SUFFICES ASSUME L!Init PROVE LogInv
  OBVIOUS
<1>1. LogTypes
  BY DEF L!Init, LogTypes
<1>2. AccountOK
  <2>1. <<>> \in Seq(Nat) /\ <<>> \o <<>> = <<>>
    OBVIOUS
  <2>2. accepted = <<>> \o queue /\ Held = <<>>
    BY <2>1 DEF L!Init, Held
  <2>3. Out = <<>>
    BY <2>1, FlatOfNone DEF L!Init, Out
  <2> QED
    BY <2>1, <2>2, <2>3, WritableOfNone DEF AccountOK
<1>3. RestOK
  BY DEF L!Init, RestOK
<1> QED
  BY <1>1, <1>2, <1>3 DEF LogInv

LEMMA LogTypesKept == LogTypes /\ [L!Next]_L!vars => LogTypes'
<1> SUFFICES ASSUME LogTypes, [L!Next]_L!vars
             PROVE  LogTypes'
  OBVIOUS
<1> USE DEF LogTypes
<1>0. <<>> \in Seq(Nat) /\ Append(bags, chunk) \in Seq(Seq(Nat))
  OBVIOUS
<1>1. CASE L!Start
  <2>1. L!Started \in Seq(Nat)
    <3>1. Metas \in Nat /\ \A i \in 1 .. Metas : clock + i \in Nat
      BY ReadersAssumption
    <3> QED
      BY <3>1 DEF L!Started
  <2>2. clock + Metas \in Nat /\ accepted \o L!Started \in Seq(Nat)
    BY <2>1, ReadersAssumption
  <2>3. queue' \in Seq(Nat) /\ accepted' \in Seq(Nat) /\ clock' \in Nat /\ chunk' \in Seq(Nat)
    BY <1>0, <1>1, <2>1, <2>2 DEF L!Start
  <2>4. UNCHANGED <<bags, event, stamped>>
    BY <1>1 DEF L!Start
  <2> QED
    BY <2>3, <2>4
<1>2. CASE L!StopBegin
  BY <1>2 DEF L!StopBegin, L!fileVars
<1>3. CASE L!StopNotify \/ L!StopJoin
  BY <1>3 DEF L!StopNotify, L!StopJoin, L!fileVars
<1>4. CASE L!StopFinish
  BY <1>0, <1>4 DEF L!StopFinish
<1>5. ASSUME NEW r \in Recorders, L!RecordBegin(r)
      PROVE  LogTypes'
  BY <1>5 DEF L!RecordBegin, L!fileVars
<1>6. ASSUME NEW r \in Recorders, L!RecordPush(r)
      PROVE  LogTypes'
  <2>1. stamped[r] \in Nat
    OBVIOUS
  <2>2. Append(queue, stamped[r]) \in Seq(Nat) /\ Append(accepted, stamped[r]) \in Seq(Nat)
    BY <2>1
  <2>3. queue' \in Seq(Nat) /\ accepted' \in Seq(Nat)
    BY <1>6, <2>2 DEF L!RecordPush
  <2>4. stamped' \in [Recorders -> Nat] /\ UNCHANGED <<chunk, bags, event, clock>>
    BY <1>6 DEF L!RecordPush, L!fileVars
  <2> QED
    BY <2>3, <2>4
<1>7. CASE L!TakeOrSleep
  <2>1. queue # <<>> => Head(queue) \in Nat /\ Tail(queue) \in Seq(Nat)
    OBVIOUS
  <2>2. queue' \in Seq(Nat) /\ event' \in Nat
    BY <1>7, <2>1 DEF L!TakeOrSleep
  <2>3. UNCHANGED <<accepted, chunk, bags, clock, stamped>>
    BY <1>7 DEF L!TakeOrSleep, L!fileVars, L!callVars
  <2> QED
    BY <2>2, <2>3
<1>8. CASE L!DeadlineReached \/ L!Reopen
  BY <1>8 DEF L!DeadlineReached, L!Reopen, L!fileVars, L!callVars
<1>9. CASE L!Serialize
  BY <1>9 DEF L!Serialize, L!fileVars, L!callVars
<1>10. CASE L!ReopenFailed
  BY <1>0, <1>10 DEF L!ReopenFailed, L!fileVars, L!callVars
<1>11. ASSUME NEW b \in BOOLEAN, L!AppendEvent(b)
       PROVE  LogTypes'
  BY <1>11 DEF L!AppendEvent, L!fileVars, L!callVars
<1>12. CASE L!Finalize
  BY <1>0, <1>12 DEF L!Finalize, L!fileVars, L!callVars
<1>13. CASE UNCHANGED L!vars
  BY <1>13 DEF L!vars
<1> HIDE DEF LogTypes
<1> QED
  BY <1>1, <1>2, <1>3, <1>4, <1>5, <1>6, <1>7, <1>8, <1>9, <1>10, <1>11, <1>12, <1>13
     DEF L!Next, L!Writer, L!Stop

\* Steps that put nothing on record
LEMMA AccountStays ==
    ASSUME AccountOK, UNCHANGED <<queue, accepted, bags, chunk>>, Held' = Held
    PROVE  AccountOK'
BY DEF AccountOK, Out

LEMMA RestKept ==
    ASSUME LogTypes, ~lost, RestOK, [L!Next]_L!vars, ~lost'
    PROVE  RestOK'
<1> USE DEF RestOK
<1>1. CASE L!Start
  BY <1>1 DEF L!Start
<1>2. CASE L!StopBegin
  BY <1>2 DEF L!StopBegin, L!fileVars
<1>3. CASE L!StopNotify \/ L!StopJoin
  BY <1>3 DEF L!StopNotify, L!StopJoin, L!fileVars, L!Woken
<1>11. CASE L!StopFinish
  BY <1>11 DEF L!StopFinish
<1>4. ASSUME NEW r \in Recorders, L!RecordBegin(r)
      PROVE  RestOK'
  BY <1>4 DEF L!RecordBegin, L!fileVars
<1>5. ASSUME NEW r \in Recorders, L!RecordPush(r)
      PROVE  RestOK'
  BY <1>5 DEF L!RecordPush, L!fileVars, L!Woken
<1>6. CASE L!TakeOrSleep
  BY <1>6 DEF L!TakeOrSleep, L!fileVars, L!callVars
<1>7. CASE L!DeadlineReached \/ L!Serialize \/ L!Reopen \/ L!ReopenFailed
  BY <1>7 DEF L!DeadlineReached, L!Serialize, L!Reopen, L!ReopenFailed, L!fileVars, L!callVars
<1>8. ASSUME NEW b \in BOOLEAN, L!AppendEvent(b)
      PROVE  RestOK'
  BY <1>8 DEF L!AppendEvent, L!fileVars, L!callVars
<1>9. CASE L!Finalize
  BY <1>9 DEF L!Finalize, L!fileVars, L!callVars
<1>10. CASE UNCHANGED L!vars
  BY <1>10 DEF L!vars
<1> QED
  BY <1>1, <1>2, <1>3, <1>11, <1>4, <1>5, <1>6, <1>7, <1>8, <1>9, <1>10
     DEF L!Next, L!Writer, L!Stop

LEMMA AccountKept ==
    ASSUME LogTypes, ~lost, AccountOK, RestOK, [L!Next]_L!vars, ~lost'
    PROVE  AccountOK'
<1>1. PICK t \in Seq(Nat) : accepted = t \o queue /\ L!Writable(t) = Out \o Held
  BY DEF AccountOK
<1>2. /\ queue \in Seq(Nat) /\ accepted \in Seq(Nat) /\ chunk \in Seq(Nat) /\ event \in Nat
      /\ bags \in Seq(Seq(Nat)) /\ stamped \in [Recorders -> Nat]
  BY DEF LogTypes
<1>3. L!FlattenSeq(bags) \in Seq(Nat) /\ Out \in Seq(Nat) /\ <<>> \in Seq(Nat)
  BY <1>2, FlatOfMore, Joined DEF Out
<1>4. CASE L!Start
  <2>1. queue = <<>> /\ chunk = <<>> /\ Held = <<>> /\ accepted = t
    <3>1. queue = <<>> /\ chunk = <<>> /\ Held = <<>>
      BY <1>4 DEF L!Start, RestOK, Held
    <3> QED
      BY <1>1, <3>1, Joined
  <2>2. Held' = <<>> /\ Out' = Out
    BY <1>4, <2>1 DEF L!Start, Held, Out
  <2>3. accepted' = t \o queue'
    <3>1. CASE accepted' = accepted \o L!Started /\ queue' = L!Started
      BY <2>1, <3>1
    <3>2. CASE accepted' = accepted /\ queue' = <<>>
      BY <2>1, <3>2, Joined
    <3> QED
      BY <1>4, <3>1, <3>2 DEF L!Start
  <2> QED
    BY <1>1, <2>1, <2>2, <2>3 DEF AccountOK
<1>5. CASE L!StopBegin \/ L!StopNotify \/ L!StopJoin \/ L!DeadlineReached \/ L!Reopen
  <2>1. UNCHANGED <<queue, accepted, bags, chunk>>
    BY <1>5 DEF L!StopBegin, L!StopNotify, L!StopJoin, L!DeadlineReached, L!Reopen, L!fileVars
  <2>2. Held' = Held
    BY <1>5 DEF L!StopBegin, L!StopNotify, L!StopJoin, L!DeadlineReached, L!Reopen, Held, L!Woken
  <2> QED
    BY <2>1, <2>2, AccountStays
<1>6. CASE L!Serialize
  <2>1. UNCHANGED <<queue, accepted, bags, chunk>>
    BY <1>6 DEF L!Serialize, L!fileVars
  <2>2. Held' = Held
    BY <1>6 DEF L!Serialize, Held
  <2> QED
    BY <2>1, <2>2, AccountStays
<1>7. CASE L!ReopenFailed
  BY <1>7 DEF L!ReopenFailed
<1>8. ASSUME L!StopFinish
      PROVE  AccountOK'
  <2>1. /\ queue = <<>> /\ writer = "none" /\ (~open => chunk = <<>>) /\ accepted' = accepted
        /\ queue' = <<>> /\ chunk' = <<>> /\ bags' = IF open THEN Append(bags, chunk) ELSE bags
        /\ writer' = writer
    BY <1>8 DEF L!StopFinish, RestOK
  <2>2. Out' = Out
    <3>1. Out' = L!FlattenSeq(bags') \o <<>>
      BY <2>1 DEF Out
    <3>2. CASE open
      <4>1. L!FlattenSeq(bags') = L!FlattenSeq(bags) \o chunk
        BY <1>2, <2>1, <3>2, FlatOfMore
      <4> QED
        BY <1>3, <3>1, <4>1, Joined DEF Out
    <3>3. CASE ~open
      BY <2>1, <3>1, <3>3 DEF Out
    <3> QED
      BY <3>2, <3>3
  <2>3. Held' = Held
    BY <2>1 DEF Held
  <2> QED
    BY <1>1, <2>1, <2>2, <2>3 DEF AccountOK
<1>9. ASSUME NEW r \in Recorders, L!RecordBegin(r)
      PROVE  AccountOK'
  <2>1. UNCHANGED <<queue, accepted, bags, chunk, writer, event>>
    BY <1>9 DEF L!RecordBegin, L!fileVars
  <2> QED
    BY <2>1, AccountStays DEF Held
<1>10. ASSUME NEW r \in Recorders, L!RecordPush(r)
       PROVE  AccountOK'
  <2>1. /\ bags' = bags /\ chunk' = chunk /\ Held' = Held
    BY <1>10 DEF L!RecordPush, L!fileVars, L!Woken, Held
  <2>2. CASE queue' = queue /\ accepted' = accepted
    BY <2>1, <2>2, AccountStays
  <2>3. CASE queue' = Append(queue, stamped[r]) /\ accepted' = Append(accepted, stamped[r])
    <3>1. accepted' = t \o queue'
      <4> DEFINE e == stamped[r]
      <4>1. e \in Nat
        BY <1>2
      <4>2. accepted' = Append(t \o queue, e) /\ queue' = Append(queue, e)
        BY <1>1, <2>3
      <4> HIDE DEF e
      <4>3. t \o Append(queue, e) = Append(t \o queue, e)
        BY <1>2, <4>1, Joined
      <4> QED
        BY <4>2, <4>3
    <3> QED
      BY <1>1, <2>1, <3>1 DEF AccountOK, Out
  <2> QED
    BY <1>10, <2>2, <2>3 DEF L!RecordPush
<1>11. ASSUME L!TakeOrSleep
       PROVE  AccountOK'
  <2>1. /\ bags' = bags /\ chunk' = chunk /\ accepted' = accepted /\ Held = <<>>
    BY <1>11 DEF L!TakeOrSleep, L!fileVars, Held
  <2>2. CASE queue' = queue /\ writer' \in {"sleep", "done"}
    BY <2>1, <2>2, AccountStays DEF Held
  <2>3. ASSUME queue # <<>>, event' = Head(queue), queue' = Tail(queue), writer' = "serialize"
        PROVE  AccountOK'
    <3> DEFINE e == Head(queue)
    <3>1. e \in Nat
      BY <1>2, <2>3
    <3> HIDE DEF e
    <3>2. accepted' = Append(t, e) \o queue' /\ Append(t, e) \in Seq(Nat)
      BY <1>1, <1>2, <2>1, <2>3, <3>1, Joined DEF e
    <3>3. Out' = Out /\ L!Writable(t) = Out
      BY <1>1, <1>3, <2>1, Joined DEF Out
    <3>4. Held' = IF e \notin Huge THEN <<e>> ELSE <<>>
      BY <2>3 DEF Held, e
    <3>5. L!Writable(Append(t, e)) = Out' \o Held'
      <4>1. L!Writable(Append(t, e)) = IF e \in Huge THEN Out ELSE Append(Out, e)
        BY <3>1, <3>3, WritableOfMore
      <4>2. Out \o <<>> = Out /\ Out \o <<e>> = Append(Out, e)
        BY <1>3, <3>1, Joined
      <4> QED
        BY <3>3, <3>4, <4>1, <4>2
    <3> QED
      BY <3>2, <3>5 DEF AccountOK
  <2> QED
    BY <1>11, <2>2, <2>3 DEF L!TakeOrSleep
<1>12. ASSUME NEW b \in BOOLEAN, L!AppendEvent(b)
       PROVE  AccountOK'
  <2>1. /\ queue' = queue /\ accepted' = accepted /\ bags' = bags /\ chunk' = Append(chunk, event)
        /\ Held = <<event>> /\ Held' = <<>>
    BY <1>12 DEF L!AppendEvent, L!fileVars, Held
  <2>2. Out' \o <<>> = Out \o <<event>>
    <3>1. Out' = Append(Out, event)
      BY <1>2, <1>3, <2>1, Joined DEF Out
    <3>2. Out \o <<event>> = Append(Out, event) /\ Append(Out, event) \in Seq(Nat)
      BY <1>2, <1>3, Joined
    <3> QED
      BY <3>1, <3>2, Joined
  <2> QED
    BY <1>1, <2>1, <2>2 DEF AccountOK
<1>13. ASSUME L!Finalize
       PROVE  AccountOK'
  <2>1. /\ queue' = queue /\ accepted' = accepted /\ bags' = Append(bags, chunk) /\ chunk' = <<>>
        /\ Held = <<>> /\ Held' = <<>>
    BY <1>13 DEF L!Finalize, Held
  <2>2. Out' = Out
    BY <1>2, <1>3, <2>1, FlatOfMore, Joined DEF Out
  <2> QED
    BY <1>1, <2>1, <2>2 DEF AccountOK
<1>14. CASE UNCHANGED L!vars
  BY <1>14, AccountStays DEF L!vars, Held
<1> QED
  BY <1>4, <1>5, <1>6, <1>7, <1>8, <1>9, <1>10, <1>11, <1>12, <1>13, <1>14
     DEF L!Next, L!Writer, L!Stop

LEMMA LogNext == LogInv /\ [L!Next]_L!vars => LogInv'
<1>1. [L!Next]_L!vars /\ lost => lost'
  BY DEF L!Next, L!Writer, L!Stop, L!Start, L!StopBegin, L!StopNotify, L!StopJoin, L!StopFinish,
         L!RecordBegin, L!RecordPush, L!TakeOrSleep, L!DeadlineReached, L!Serialize, L!AppendEvent,
         L!Finalize, L!Reopen, L!ReopenFailed, L!vars
<1> QED
  BY <1>1, LogTypesKept, RestKept, AccountKept DEF LogInv

LEMMA LogTells == LogInv => LogNothingLost
<1> SUFFICES ASSUME LogInv, writer = "none", control = "idle", ~lost
             PROVE  L!FlattenSeq(bags) = L!Writable(accepted)
  BY DEF LogNothingLost, L!NothingLost
<1>1. PICK t \in Seq(Nat) : accepted = t \o queue /\ L!Writable(t) = Out \o Held
  BY DEF LogInv, AccountOK
<1>2. queue = <<>> /\ chunk = <<>> /\ Held = <<>>
  BY DEF LogInv, RestOK, Held
<1>3. accepted = t /\ L!FlattenSeq(bags) \in Seq(Nat)
  <2>1. <<>> \in Seq(Nat) /\ bags \in Seq(Seq(Nat))
    BY DEF LogInv, LogTypes
  <2> QED
    BY <1>1, <1>2, <2>1, Joined, FlatOfMore
<1>4. Out \o <<>> = L!FlattenSeq(bags)
  BY <1>2, <1>3, Joined DEF Out
<1> QED
  BY <1>1, <1>2, <1>3, <1>4

\* The bags hold every event that was queued and fits a record, once and in order, when
\* stop() has returned: through rotations that let go of the mutex, restarts, failed
\* starts and threads that record meanwhile, for any limits of queue and chunk (dzipc_log.cc
\* record, writer_loop, do_rotate, start, stop) - unless a rotation could not open its file.
THEOREM BagsHoldAll == L!Spec => []LogNothingLost
BY LogInit, LogNext, LogTells, PTL DEF L!Spec
=============================================================================

---------------------------- MODULE ClaimOrder ----------------------------
(***************************************************************************)
(* The order of the claims of one connection on one channel, and what a    *)
(* loss detector can conclude from their numbers: the arithmetic behind    *)
(* the proofs about Capture.  Claim i, of n, was made under registration   *)
(* ep[i] and took the number sq[i].                                        *)
(***************************************************************************)
EXTENDS Integers, TLAPS

CONSTANT Epoch   \* the registrations

(* A leaf that names no prover is tried with Zenon, then with SMT.          *)
USE ZenonT(3), SMTT(30), ZenonT(30)

(* Numbers are dense under a registration and grow with the claims: n       *)
(* claims, and sn[e] numbers taken under e.                                 *)
Counted(n, sn, ep, sq) ==
    /\ \A i \in 1 .. n : sq[i] < sn[ep[i]]
    /\ \A i, j \in 1 .. n : i < j /\ ep[i] = ep[j] => sq[i] < sq[j]
    /\ \A e \in Epoch : \A s \in Nat :
          s < sn[e] => \E i \in 1 .. n : ep[i] = e /\ sq[i] = s

(* A record r of channel h and cookie c is one of the claims.               *)
Stamped(r, h, c, n, ep, sq) ==
    r.chan = h /\ r.cookie = c =>
        r.num \in 1 .. n /\ ep[r.num] = r.epoch /\ sq[r.num] = r.seq

(* What the entry was shown (b first, g in all) and told (t), under the     *)
(* registrations u.                                                         *)
Shown(n, ep, b, g, t, u) ==
    /\ g \subseteq 1 .. n
    /\ \A i \in g : ep[i] \in u
    /\ IF g = {} THEN b = 0 ELSE b \in g
    /\ \A i \in t : \E j \in g : i < j
    /\ \A i \in 1 .. n :
          u = {ep[i]} /\ b < i /\ i \notin g /\ (\E j \in g : i < j) => i \in t

Highest(sq, g, last) == (\E i \in g : sq[i] = last) /\ (\A i \in g : sq[i] <= last)

-----------------------------------------------------------------------------
(* One claim more: f and its value for the new one.                         *)
More(f, n, v) == [i \in 1 .. n + 1 |-> IF i = n + 1 THEN v ELSE f[i]]

LEMMA MoreLemma ==
    ASSUME NEW n \in Nat, NEW f, NEW v
    PROVE  /\ More(f, n, v)[n + 1] = v
           /\ \A i \in 1 .. n : i \in 1 .. n + 1 /\ More(f, n, v)[i] = f[i]
BY DEF More

LEMMA CountedMore ==
    ASSUME NEW n \in Nat, NEW sn \in [Epoch -> Nat], NEW e0 \in Epoch,
           NEW ep \in [1 .. n -> Epoch], NEW sq \in [1 .. n -> Nat], Counted(n, sn, ep, sq),
           NEW s0 \in Nat, s0 = sn[e0],
           NEW sn1, \A e \in Epoch : sn1[e] = IF e = e0 THEN s0 + 1 ELSE sn[e]
    PROVE  Counted(n + 1, sn1, More(ep, n, e0), More(sq, n, s0))
<1> DEFINE ep1 == More(ep, n, e0)
           sq1 == More(sq, n, s0)
<1>1. /\ \A i \in 1 .. n : ep1[i] = ep[i] /\ sq1[i] = sq[i]
      /\ ep1[n + 1] = e0 /\ sq1[n + 1] = s0
  BY MoreLemma
<1>2. \A e \in Epoch : sn1[e] = IF e = e0 THEN s0 + 1 ELSE sn[e]
  OBVIOUS
<1>3. \A i \in 1 .. n + 1 : i \in 1 .. n \/ i = n + 1
  OBVIOUS
<1> HIDE DEF ep1, sq1
<1>4. ASSUME NEW i \in 1 .. n + 1
      PROVE  sq1[i] < sn1[ep1[i]]
  <2>1. CASE i \in 1 .. n
    <3>1. ep[i] \in Epoch /\ sq[i] \in Nat /\ sq[i] < sn[ep[i]] /\ sn[ep[i]] \in Nat
      BY <2>1 DEF Counted
    <3>2. sn1[ep[i]] = IF ep[i] = e0 THEN s0 + 1 ELSE sn[ep[i]]
      BY <3>1, <1>2
    <3>3. ep1[i] = ep[i] /\ sq1[i] = sq[i]
      BY <2>1, <1>1
    <3> QED BY <3>1, <3>2, <3>3
  <2>2. CASE i = n + 1
    BY <2>2, <1>1, <1>2
  <2> QED BY <2>1, <2>2, <1>3
<1>5. ASSUME NEW i \in 1 .. n + 1, NEW j \in 1 .. n + 1, i < j, ep1[i] = ep1[j]
      PROVE  sq1[i] < sq1[j]
  <2>1. i \in 1 .. n
    BY <1>5
  <2>2. CASE j = n + 1
    <3>1. ep[i] = e0 /\ sq1[i] = sq[i] /\ sq1[j] = s0
      BY <1>1, <1>5, <2>1, <2>2
    <3>2. sq[i] < sn[ep[i]]
      BY <2>1 DEF Counted
    <3> QED BY <3>1, <3>2
  <2>3. CASE j \in 1 .. n
    BY <1>1, <1>5, <2>1, <2>3 DEF Counted
  <2> QED BY <2>2, <2>3, <1>3
<1>6. ASSUME NEW e \in Epoch, NEW s \in Nat, s < sn1[e]
      PROVE  \E i \in 1 .. n + 1 : ep1[i] = e /\ sq1[i] = s
  <2>1. CASE s < sn[e]
    <3>1. PICK i \in 1 .. n : ep[i] = e /\ sq[i] = s
      BY <2>1 DEF Counted
    <3>2. i \in 1 .. n + 1 /\ ep1[i] = e /\ sq1[i] = s
      BY <3>1, <1>1
    <3> QED BY <3>2
  <2>2. CASE ~(s < sn[e])
    <3>1. e = e0 /\ s = s0
      BY <2>2, <1>2, <1>6
    <3> QED BY <3>1, <1>1
  <2> QED BY <2>1, <2>2
<1>7. Counted(n + 1, sn1, ep1, sq1)
  BY <1>4, <1>5, <1>6 DEF Counted
<1> QED BY <1>7 DEF ep1, sq1

LEMMA StampedMore ==
    ASSUME NEW n \in Nat, NEW ep \in [1 .. n -> Epoch], NEW sq \in [1 .. n -> Nat],
           NEW e0 \in Epoch, NEW s0 \in Nat, NEW h, NEW c, NEW r,
           Stamped(r, h, c, n, ep, sq)
    PROVE  Stamped(r, h, c, n + 1, More(ep, n, e0), More(sq, n, s0))
BY MoreLemma DEF Stamped

LEMMA ShownMore ==
    ASSUME NEW n \in Nat, NEW ep \in [1 .. n -> Epoch], NEW e0 \in Epoch,
           NEW b, NEW g, NEW t, NEW u, Shown(n, ep, b, g, t, u)
    PROVE  Shown(n + 1, More(ep, n, e0), b, g, t, u)
<1> DEFINE ep1 == More(ep, n, e0)
<1>1. \A i \in 1 .. n : i \in 1 .. n + 1 /\ ep1[i] = ep[i]
  BY MoreLemma
<1> HIDE DEF ep1
<1>2. g \subseteq 1 .. n
  BY DEF Shown
<1>3. g \subseteq 1 .. n + 1 /\ \A i \in g : ep1[i] \in u
  BY <1>1, <1>2 DEF Shown
<1>4. ASSUME NEW i \in 1 .. n + 1, u = {ep1[i]}, b < i, i \notin g, \E j \in g : i < j
      PROVE  i \in t
  <2>1. i \in 1 .. n
    BY <1>2, <1>4
  <2> QED BY <1>1, <1>4, <2>1 DEF Shown
<1>5. Shown(n + 1, ep1, b, g, t, u)
  BY <1>3, <1>4 DEF Shown
<1> QED BY <1>5 DEF ep1

(* What the history becomes when the m-th claim is shown, on paper.         *)
Between(b, g, m) == IF b = 0 THEN {} ELSE (b + 1 .. m - 1) \ g

LEMMA ShownFirst ==
    ASSUME NEW n \in Nat, NEW ep \in [1 .. n -> Epoch], NEW m \in 1 .. n
    PROVE  Shown(n, ep, m, {m}, {}, {ep[m]})
BY DEF Shown

LEMMA ShownNone ==
    ASSUME NEW n \in Nat, NEW ep \in [1 .. n -> Epoch], NEW u
    PROVE  Shown(n, ep, 0, {}, {}, u)
BY DEF Shown

(* A claim that a detector with baseline last sees after a hole tells of    *)
(* everything in between.                                                   *)
LEMMA ShownNext ==
    ASSUME NEW n \in Nat, NEW ep \in [1 .. n -> Epoch], NEW sq \in [1 .. n -> Nat], NEW sn,
           Counted(n, sn, ep, sq),
           NEW b \in Nat, NEW g, NEW t, NEW u, Shown(n, ep, b, g, t, u),
           NEW m \in 1 .. n, NEW last \in Nat,
           u = {ep[m]} => /\ \E i \in g : sq[i] = last
                          /\ \A i \in g : sq[i] <= last,
           NEW miss, miss \subseteq Between(b, g, m),
           u = {ep[m]} /\ sq[m] > last + 1 => miss = Between(b, g, m)
    PROVE  Shown(n, ep, IF b = 0 THEN m ELSE b, g \cup {m}, t \cup miss, u \cup {ep[m]})
<1> DEFINE b1 == IF b = 0 THEN m ELSE b
           g1 == g \cup {m}
           t1 == t \cup miss
           u1 == u \cup {ep[m]}
<1>1. /\ g \subseteq 1 .. n /\ \A i \in g : ep[i] \in u
      /\ IF g = {} THEN b = 0 ELSE b \in g
  BY DEF Shown
<1>2. b = 0 <=> g = {}
  BY <1>1
<1>3. g1 \subseteq 1 .. n /\ (\A i \in g1 : ep[i] \in u1) /\ g1 # {} /\ b1 \in g1
  BY <1>1, <1>2
<1>4. ASSUME NEW i \in t1
      PROVE  \E j \in g1 : i < j
  <2>1. CASE i \in t
    BY <2>1 DEF Shown
  <2>2. CASE i \in miss
    <3>1. i \in b + 1 .. m - 1
      BY <2>2 DEF Between
    <3>2. i < m /\ m \in g1
      BY <3>1
    <3> QED BY <3>2
  <2> QED BY <2>1, <2>2
<1>5. ASSUME NEW i \in 1 .. n, u1 = {ep[i]}, b1 < i, i \notin g1, \E j \in g1 : i < j
      PROVE  i \in t1
  <2>1. ep[i] = ep[m]
    BY <1>5
  <2>2. b # 0 /\ g # {} /\ b1 = b
    BY <1>2, <1>5
  <2>3. u = {ep[i]}
    BY <1>1, <1>5, <2>2
  <2>4. CASE \E j \in g : i < j
    BY <1>5, <2>2, <2>3, <2>4 DEF Shown
  <2>5. CASE ~\E j \in g : i < j
    <3>1. i < m
      BY <1>5, <2>5
    <3>2. PICK j \in g : sq[j] = last
      BY <2>1, <2>3
    <3>3. j \in 1 .. n /\ j < i /\ ep[j] = ep[i]
      BY <1>1, <1>5, <2>3, <2>5, <3>2
    <3>4. sq[j] < sq[i] /\ sq[i] < sq[m]
      BY <2>1, <3>1, <3>3 DEF Counted
    <3>5. sq[m] > last + 1
      BY <3>2, <3>3, <3>4
    <3>6. i \in Between(b, g, m)
      BY <1>5, <2>2, <3>1 DEF Between
    <3> QED BY <2>1, <2>3, <3>5, <3>6
  <2> QED BY <2>4, <2>5
<1> HIDE DEF b1, g1, t1, u1
<1>6. Shown(n, ep, b1, g1, t1, u1)
  BY <1>3, <1>4, <1>5 DEF Shown
<1> QED BY <1>6 DEF b1, g1, t1, u1

(* A number above the next one under the same registration: some claim in   *)
(* between was never shown, nor reported.                                   *)
LEMMA HoleBetween ==
    ASSUME NEW n \in Nat, NEW ep \in [1 .. n -> Epoch], NEW sq \in [1 .. n -> Nat],
           NEW sn \in [Epoch -> Nat], Counted(n, sn, ep, sq),
           NEW b \in Nat, NEW g, NEW t, NEW u, Shown(n, ep, b, g, t, u),
           NEW m \in 1 .. n, NEW last \in Nat, u = {ep[m]},
           \E i \in g : sq[i] = last, \A i \in g : sq[i] <= last,
           sq[m] > last + 1
    PROVE  Between(b, g, m) \ t # {}
<1>1. /\ g \subseteq 1 .. n /\ (\A i \in g : ep[i] = ep[m]) /\ g # {} /\ b \in g
      /\ \A i \in t : \E j \in g : i < j
  BY DEF Shown
<1>2. ep[m] \in Epoch /\ sq[m] < sn[ep[m]] /\ sn[ep[m]] \in Nat
  BY DEF Counted
<1>3. last + 1 < sn[ep[m]]
  BY <1>2
<1>4. PICK i \in 1 .. n : ep[i] = ep[m] /\ sq[i] = last + 1
  BY <1>2, <1>3 DEF Counted
<1>5. ASSUME NEW j \in 1 .. n, NEW k \in 1 .. n, ep[j] = ep[m], ep[k] = ep[m], sq[j] < sq[k]
      PROVE  j < k
  <2>1. sq[j] \in Nat /\ sq[k] \in Nat
    OBVIOUS
  <2>2. k < j => sq[k] < sq[j]
    BY <1>5 DEF Counted
  <2>3. j < k \/ j = k \/ k < j
    OBVIOUS
  <2> QED BY <1>5, <2>1, <2>2, <2>3
<1>6. i < m
  BY <1>4, <1>5
<1>7. ASSUME NEW j \in g
      PROVE  j < i
  <2>1. j \in 1 .. n /\ ep[j] = ep[m] /\ sq[j] < sq[i]
    BY <1>1, <1>4, <1>7
  <2> QED BY <1>4, <1>5, <2>1
<1>8. i \notin g /\ i \notin t /\ b < i /\ b # 0
  BY <1>1, <1>7
<1>9. i \in b + 1 .. m - 1
  BY <1>6, <1>8
<1>10. i \in Between(b, g, m)
  BY <1>8, <1>9 DEF Between
<1> QED BY <1>8, <1>10

(* The highest number shown.                                                *)
LEMMA HighestFirst ==
    ASSUME NEW n \in Nat, NEW sq \in [1 .. n -> Nat], NEW m \in 1 .. n, NEW g, g = {},
           NEW l, l = sq[m]
    PROVE  Highest(sq, g \cup {m}, l)
<1>1. sq[m] \in Nat
  OBVIOUS
<1> QED BY <1>1 DEF Highest

LEMMA HighestNext ==
    ASSUME NEW n \in Nat, NEW sq \in [1 .. n -> Nat], NEW g, g \subseteq 1 .. n,
           NEW m \in 1 .. n, NEW last \in Nat,
           Highest(sq, g, last), NEW l, l = IF sq[m] > last THEN sq[m] ELSE last
    PROVE  Highest(sq, g \cup {m}, l)
<1>1. sq[m] \in Nat
  OBVIOUS
<1>2. l \in Nat /\ sq[m] <= l /\ last <= l /\ (l = sq[m] \/ l = last)
  BY <1>1
<1>3. ASSUME NEW i \in g
      PROVE  sq[i] <= l
  <2>1. sq[i] \in Nat /\ sq[i] <= last
    BY DEF Highest
  <2> QED BY <1>2, <2>1
<1> QED BY <1>2, <1>3 DEF Highest

=============================================================================

-------------------------- MODULE ConnTableProofs --------------------------
(***************************************************************************)
(* Machine-checked proofs about ConnTable, for every set of cookies, every *)
(* ceiling, timeout, skew and width of the sequence numbers.               *)
(*                                                                         *)
(* The inductive invariant is TableOK(tab).  It is proved operation by     *)
(* operation: each function of conn_table.c, given a table that satisfies  *)
(* TableOK, returns one that does.  The actions are compositions of these  *)
(* functions, so their cases only cite the lemmas.                         *)
(***************************************************************************)
EXTENDS ConnTable, FiniteSetTheorems, SequenceTheorems, WellFoundedInduction, TLAPS

(* A leaf that names no prover is tried with Zenon, then with SMT.          *)
USE ZenonT(3), SMTT(30), ZenonT(30)

Injective(l) == \A i, j \in 1 .. Len(l) : l[i] = l[j] => i = j

Elements(l) == {l[i] : i \in 1 .. Len(l)}

TableOK(t) ==
    /\ t \in TableType
    /\ LruExact(t)
    /\ Bounded(t)
    /\ TlsGaugeExact(t)
    /\ StateOwned(t)
    /\ LruOrdered(t)

-----------------------------------------------------------------------------
(* lru_unlink on a list without duplicates: one element shorter, the        *)
(* elements but c, in the same order.                                       *)
LEMMA LruUnlinkLemma ==
    ASSUME NEW S, NEW l \in Seq(S), Injective(l), NEW c \in Elements(l)
    PROVE  /\ LruUnlink(l, c) \in Seq(S)
           /\ Len(LruUnlink(l, c)) = Len(l) - 1
           /\ Injective(LruUnlink(l, c))
           /\ Elements(LruUnlink(l, c)) = Elements(l) \ {c}
           /\ LruIndex(l, c) \in 1 .. Len(l)
           /\ \A i \in 1 .. Len(l) - 1 :
                 LruUnlink(l, c)[i] = IF i < LruIndex(l, c) THEN l[i] ELSE l[i + 1]
<1> DEFINE k == LruIndex(l, c)
           n == Len(l) - 1
           u == LruUnlink(l, c)
<1>1. k \in 1 .. Len(l) /\ l[k] = c
  BY DEF LruIndex, Elements
<1>2. Len(l) \in Nat /\ n \in Nat
  BY <1>1, LenProperties
<1>3. u = [i \in 1 .. n |-> IF i < k THEN l[i] ELSE l[i + 1]]
  BY DEF LruUnlink
<1>4. \A i \in 1 .. n : u[i] = (IF i < k THEN l[i] ELSE l[i + 1]) /\ u[i] \in S
  BY <1>1, <1>2, <1>3, LenProperties
<1>5. u \in [1 .. n -> S]
  BY <1>3, <1>4
<1>6. u \in Seq(S) /\ Len(u) = n
  BY <1>2, <1>5
<1>7. Injective(u)
  BY <1>1, <1>2, <1>4, <1>6 DEF Injective
<1>8. Elements(u) = Elements(l) \ {c}
  <2> HIDE DEF k, u
  <2>1. ASSUME NEW i \in 1 .. n PROVE u[i] \in Elements(l) \ {c}
    <3>1. PICK j \in 1 .. Len(l) : j # k /\ u[i] = l[j]
      BY <1>1, <1>2, <1>4
    <3>2. l[j] # c
      BY <3>1, <1>1 DEF Injective
    <3> QED BY <3>1, <3>2 DEF Elements
  <2>2. ASSUME NEW j \in 1 .. Len(l), l[j] # c PROVE \E i \in 1 .. n : u[i] = l[j]
    <3>1. CASE j < k
      BY <3>1, <1>1, <1>2, <1>4
    <3>2. CASE j > k
      <4>1. j - 1 \in 1 .. n /\ ~(j - 1 < k) /\ (j - 1) + 1 = j
        BY <3>2, <1>1, <1>2
      <4> QED BY <4>1, <1>4
    <3> QED BY <3>1, <3>2, <2>2, <1>1, <1>2
  <2>3. Elements(u) \subseteq Elements(l) \ {c}
    BY <2>1, <1>6 DEF Elements
  <2>4. Elements(l) \ {c} \subseteq Elements(u)
    BY <2>2, <1>6 DEF Elements
  <2> QED BY <2>3, <2>4
<1> QED BY <1>1, <1>4, <1>6, <1>7, <1>8

(* lru_push_front of an element that is not in the list.                    *)
LEMMA LruPushFrontLemma ==
    ASSUME NEW S, NEW l \in Seq(S), Injective(l), NEW c \in S, c \notin Elements(l)
    PROVE  /\ LruPushFront(l, c) \in Seq(S)
           /\ Len(LruPushFront(l, c)) = Len(l) + 1
           /\ Injective(LruPushFront(l, c))
           /\ Elements(LruPushFront(l, c)) = Elements(l) \cup {c}
           /\ LruPushFront(l, c)[1] = c
           /\ \A i \in 1 .. Len(l) : LruPushFront(l, c)[i + 1] = l[i]
<1> DEFINE n == Len(l) + 1
           u == LruPushFront(l, c)
<1>1. Len(l) \in Nat /\ n \in Nat
  BY LenProperties
<1>2. u = [i \in 1 .. n |-> IF i = 1 THEN c ELSE l[i - 1]]
  BY DEF LruPushFront
<1>3. \A i \in 1 .. n : u[i] = (IF i = 1 THEN c ELSE l[i - 1]) /\ u[i] \in S
  BY <1>1, <1>2, LenProperties
<1>4. u \in Seq(S) /\ Len(u) = n
  <2>1. u \in [1 .. n -> S]
    BY <1>2, <1>3
  <2> QED BY <2>1, <1>1
<1> HIDE DEF u
<1>5. u[1] = c /\ \A i \in 1 .. Len(l) : u[i + 1] = l[i]
  BY <1>1, <1>3
<1>6. Injective(u)
  <2> SUFFICES ASSUME NEW i \in 1 .. n, NEW j \in 1 .. n, u[i] = u[j]
               PROVE  i = j
    BY <1>4 DEF Injective
  <2>1. CASE i = 1 \/ j = 1
    BY <2>1, <1>1, <1>3 DEF Elements
  <2>2. CASE i # 1 /\ j # 1
    <3>1. i - 1 \in 1 .. Len(l) /\ j - 1 \in 1 .. Len(l) /\ l[i - 1] = l[j - 1]
      BY <2>2, <1>1, <1>3
    <3> QED BY <3>1 DEF Injective
  <2> QED BY <2>1, <2>2
<1>7. Elements(u) = Elements(l) \cup {c}
  <2>1. ASSUME NEW i \in 1 .. n PROVE u[i] \in Elements(l) \cup {c}
    BY <1>1, <1>3 DEF Elements
  <2>2. ASSUME NEW j \in 1 .. Len(l) PROVE \E i \in 1 .. n : u[i] = l[j]
    BY <1>1, <1>5
  <2>3. \E i \in 1 .. n : u[i] = c
    BY <1>1, <1>5
  <2>4. Elements(u) \subseteq Elements(l) \cup {c}
    BY <2>1, <1>4 DEF Elements
  <2>5. Elements(l) \cup {c} \subseteq Elements(u)
    BY <2>2, <2>3, <1>4 DEF Elements
  <2> QED BY <2>4, <2>5
<1> QED BY <1>4, <1>5, <1>6, <1>7 DEF u


-----------------------------------------------------------------------------
(* destroy keeps the table whole, takes c out and leaves room for one more. *)
LEMMA DestroyLemma ==
    ASSUME NEW t, TableOK(t), NEW c \in Live(t)
    PROVE  /\ TableOK(Destroy(t, c))
           /\ Live(Destroy(t, c)) = Live(t) \ {c}
           /\ Destroy(t, c).active = t.active - 1
           /\ \A x \in Live(t) \ {c} : Destroy(t, c).conn[x] = t.conn[x]
<1> DEFINE r == Destroy(t, c)
<1> USE DEF TableOK, TableType
<1>1. /\ r.conn = [t.conn EXCEPT ![c] = NULL]
      /\ r.lru = LruUnlink(t.lru, c)
      /\ r.active = t.active - 1
      /\ r.tls_active = t.tls_active - (IF t.conn[c].tls THEN 1 ELSE 0)
      /\ r.heap = t.heap \ {<<c, t.conn[c].ops>>}
  BY DEF Destroy
<1>2. /\ t.lru \in Seq(Cookie) /\ Injective(t.lru) /\ Elements(t.lru) = Live(t)
      /\ c \in Cookie /\ t.conn[c] \in Conn /\ c \in Elements(t.lru)
  BY DEF LruExact, Injective, Elements, Live, Lookup
<1>3. /\ r.lru \in Seq(Cookie)
      /\ Len(r.lru) = Len(t.lru) - 1
      /\ Injective(r.lru)
      /\ Elements(r.lru) = Live(t) \ {c}
      /\ LruIndex(t.lru, c) \in 1 .. Len(t.lru)
      /\ \A i \in 1 .. Len(t.lru) - 1 :
            r.lru[i] = IF i < LruIndex(t.lru, c) THEN t.lru[i] ELSE t.lru[i + 1]
  <2> HIDE DEF TableOK, TableType, r
  <2> QED BY <1>1, <1>2, LruUnlinkLemma
<1>4. \A x \in Cookie : r.conn[x] = IF x = c THEN NULL ELSE t.conn[x]
  BY <1>1
<1>5. Live(r) = Live(t) \ {c}
  BY <1>4 DEF Live, Lookup
<1>6. TlsLive(r) = TlsLive(t) \ {c}
  BY <1>4, <1>5 DEF TlsLive, Live
<1>7. r \in TableType
  <2>1. r.conn \in [Cookie -> Conn \cup {NULL}]
    BY ZenonT(30), <1>1
  <2>2. r.active \in Int /\ r.tls_active \in Int /\ r.heap \in SUBSET (Cookie \X Proto)
    BY <1>1
  <2> QED BY <2>1, <2>2, <1>3 DEF Destroy
<1>8. LruExact(r)
  BY ZenonT(30), <1>3, <1>5 DEF LruExact, Injective, Elements
<1>9. Bounded(r)
  BY <1>1, <1>3, <1>2, LenProperties, MaxConnsAssumption DEF Bounded
<1>10. TlsGaugeExact(r)
  <2>1. IsFiniteSet(TlsLive(t))
    BY CookieAssumption, FS_Subset DEF TlsLive, Live
  <2>2. Cardinality(TlsLive(r)) =
           IF c \in TlsLive(t) THEN Cardinality(TlsLive(t)) - 1
                               ELSE Cardinality(TlsLive(t))
    BY ZenonT(30), <2>1, <1>6, FS_RemoveElement
  <2>3. c \in TlsLive(t) <=> t.conn[c].tls
    BY DEF TlsLive
  <2>4. Cardinality(TlsLive(t)) \in Nat
    BY <2>1, FS_CardinalityType
  <2> QED BY <2>2, <2>3, <2>4, <1>1 DEF TlsGaugeExact
<1>11. StateOwned(r)
  <2>1. ASSUME NEW x \in Live(t) \ {c} PROVE r.conn[x] = t.conn[x]
    BY <1>4 DEF Live
  <2> QED BY <2>1, <1>1, <1>5 DEF StateOwned
<1>12. LruOrdered(r)
  <2> SUFFICES ASSUME NEW i \in 1 .. Len(r.lru), NEW j \in 1 .. Len(r.lru), i < j
               PROVE  r.conn[r.lru[i]].age <= r.conn[r.lru[j]].age + Skew
    BY DEF LruOrdered
  <2> DEFINE k == LruIndex(t.lru, c)
  <2>1. /\ k \in 1 .. Len(t.lru)
        /\ \A h \in 1 .. Len(t.lru) - 1 :
              r.lru[h] = IF h < k THEN t.lru[h] ELSE t.lru[h + 1]
    BY <1>3
  <2> HIDE DEF k
  <2>2. PICK a \in 1 .. Len(t.lru), b \in 1 .. Len(t.lru) :
           a < b /\ r.lru[i] = t.lru[a] /\ r.lru[j] = t.lru[b]
    <3> DEFINE a == IF i < k THEN i ELSE i + 1
               b == IF j < k THEN j ELSE j + 1
    <3>1. Len(t.lru) \in Nat /\ i \in 1 .. Len(t.lru) - 1 /\ j \in 1 .. Len(t.lru) - 1
      BY <1>2, <1>3, LenProperties
    <3>2. a \in 1 .. Len(t.lru) /\ b \in 1 .. Len(t.lru) /\ a < b
      BY <2>1, <3>1
    <3>3. r.lru[i] = t.lru[a] /\ r.lru[j] = t.lru[b]
      BY <2>1, <3>1
    <3> QED BY <3>2, <3>3
  <2>3. r.lru[i] \in Live(t) \ {c} /\ r.lru[j] \in Live(t) \ {c}
    BY <1>3 DEF Elements
  <2>4. r.conn[r.lru[i]] = t.conn[t.lru[a]] /\ r.conn[r.lru[j]] = t.conn[t.lru[b]]
    BY <2>2, <2>3, <1>4 DEF Live
  <2> QED BY <2>2, <2>4 DEF LruOrdered
<1> QED BY <1>1, <1>4, <1>5, <1>7, <1>8, <1>9, <1>10, <1>11, <1>12 DEF Live


(* An entry rewritten in place and moved to the front, with its TLS flag,   *)
(* protocol and parser state kept: touch, touch_tls, note_tls_drop.         *)
LEMMA LruTouchLemma ==
    ASSUME NEW t, TableOK(t), NEW c \in Live(t), NEW e \in Conn,
           e.tls = t.conn[c].tls, e.ops = t.conn[c].ops,
           e.proto_state = t.conn[c].proto_state, e.age <= Skew
    PROVE  /\ TableOK(LruTouch(t, c, e))
           /\ Live(LruTouch(t, c, e)) = Live(t)
           /\ LruTouch(t, c, e).conn[c] = e
           /\ \A x \in Live(t) \ {c} : LruTouch(t, c, e).conn[x] = t.conn[x]
<1> DEFINE r == LruTouch(t, c, e)
           u == LruUnlink(t.lru, c)
<1>1. /\ t \in TableType /\ c \in Cookie /\ t.conn[c] \in Conn
      /\ t.lru \in Seq(Cookie) /\ Injective(t.lru) /\ Elements(t.lru) = Live(t)
      /\ c \in Elements(t.lru)
  BY DEF TableOK, TableType, LruExact, Injective, Elements, Live, Lookup
<1>2. /\ r.conn = [t.conn EXCEPT ![c] = e]
      /\ r.lru = LruPushFront(u, c)
      /\ r.active = t.active
      /\ r.tls_active = t.tls_active
      /\ r.heap = t.heap
      /\ r = [conn |-> r.conn, lru |-> r.lru, active |-> r.active,
              tls_active |-> r.tls_active, heap |-> r.heap]
  <2>1. r = [conn |-> [t.conn EXCEPT ![c] = e], lru |-> LruPushFront(u, c),
             active |-> t.active, tls_active |-> t.tls_active, heap |-> t.heap]
    <3> HIDE DEF u
    <3>1. r = [t EXCEPT !.conn[c] = e, !.lru = LruPushFront(u, c)]
      BY DEF LruTouch, u
    <3> QED BY ZenonT(30), <3>1, <1>1 DEF TableType
  <2> QED BY <2>1
<1>3. /\ u \in Seq(Cookie) /\ Len(u) = Len(t.lru) - 1 /\ Injective(u)
      /\ Elements(u) = Live(t) \ {c}
      /\ LruIndex(t.lru, c) \in 1 .. Len(t.lru)
      /\ \A i \in 1 .. Len(t.lru) - 1 :
            u[i] = IF i < LruIndex(t.lru, c) THEN t.lru[i] ELSE t.lru[i + 1]
  BY <1>1, LruUnlinkLemma
<1> HIDE DEF u
<1>4. /\ r.lru \in Seq(Cookie) /\ Len(r.lru) = Len(u) + 1 /\ Injective(r.lru)
      /\ Elements(r.lru) = Elements(u) \cup {c}
      /\ r.lru[1] = c
      /\ \A i \in 1 .. Len(u) : r.lru[i + 1] = u[i]
  BY <1>1, <1>2, <1>3, LruPushFrontLemma
<1> HIDE DEF r
<1>5. \A x \in Cookie : r.conn[x] = IF x = c THEN e ELSE t.conn[x]
  BY <1>1, <1>2 DEF TableType
<1>6. Live(r) = Live(t) /\ TlsLive(r) = TlsLive(t)
  <2>1. e # NULL /\ t.conn[c] # NULL
    BY <1>1, NullAssumption
  <2>2. Live(r) = Live(t)
    BY <2>1, <1>1, <1>5 DEF Live, Lookup
  <2>3. \A x \in Live(t) : r.conn[x].tls = t.conn[x].tls
    BY <1>5 DEF Live
  <2> QED BY <2>2, <2>3 DEF TlsLive
<1>7. r \in TableType
  <2>1. r.conn \in [Cookie -> Conn \cup {NULL}]
    BY <1>1, <1>2 DEF TableType
  <2>2. r.active \in Int /\ r.tls_active \in Int /\ r.heap \in SUBSET (Cookie \X Proto)
    BY <1>1, <1>2 DEF TableType
  <2> QED BY <2>1, <2>2, <1>2, <1>4 DEF TableType
<1>8. LruExact(r)
  <2>1. Elements(r.lru) = Live(r)
    BY <1>1, <1>3, <1>4, <1>6
  <2> QED BY <2>1, <1>4 DEF LruExact, Injective, Elements
<1>9. Bounded(r)
  <2>1. Len(t.lru) \in Nat
    BY <1>1, LenProperties
  <2> QED BY <2>1, <1>2, <1>3, <1>4 DEF Bounded, TableOK
<1>10. TlsGaugeExact(r)
  BY <1>2, <1>6 DEF TlsGaugeExact, TableOK
<1>11. StateOwned(r)
  <2>1. \A x \in Live(t) : /\ r.conn[x].ops = t.conn[x].ops
                           /\ r.conn[x].proto_state = t.conn[x].proto_state
    BY <1>5 DEF Live
  <2> QED BY <2>1, <1>2, <1>6 DEF StateOwned, TableOK
<1>12. LruOrdered(r)
  <2> SUFFICES ASSUME NEW i \in 1 .. Len(r.lru), NEW j \in 1 .. Len(r.lru), i < j
               PROVE  r.conn[r.lru[i]].age <= r.conn[r.lru[j]].age + Skew
    BY DEF LruOrdered
  <2> DEFINE k == LruIndex(t.lru, c)
             at(h) == IF h - 1 < k THEN h - 1 ELSE h
  <2>1. /\ Len(t.lru) \in Nat /\ Len(r.lru) = Len(t.lru)
        /\ k \in 1 .. Len(t.lru)
    BY <1>1, <1>3, <1>4, LenProperties
  <2>2. ASSUME NEW h \in 1 .. Len(r.lru), h # 1
        PROVE  /\ at(h) \in 1 .. Len(t.lru) /\ r.lru[h] = t.lru[at(h)]
               /\ r.lru[h] # c /\ r.conn[r.lru[h]] = t.conn[t.lru[at(h)]]
    <3>1. h - 1 \in 1 .. Len(u) /\ (h - 1) + 1 = h /\ h - 1 \in 1 .. Len(t.lru) - 1
      BY <2>1, <2>2, <1>3, <1>4
    <3>2. r.lru[h] = u[h - 1]
      BY <3>1, <1>4
    <3>3. u[h - 1] = t.lru[at(h)]
      BY <3>1, <1>3
    <3>4. at(h) \in 1 .. Len(t.lru)
      BY <3>1, <2>1
    <3>5. r.lru[h] \in Live(t) \ {c}
      BY <3>1, <3>2, <1>3 DEF Elements
    <3> QED BY <3>2, <3>3, <3>4, <3>5, <1>5 DEF Live
  <2>3. r.lru[j] \in Live(r) /\ r.conn[r.lru[j]].age \in Nat
    <3>1. r.lru[j] \in Cookie /\ r.lru[j] \in Live(r)
      <4>1. r.lru[j] \in Elements(r.lru)
        BY DEF Elements
      <4>2. Elements(r.lru) = Live(r)
        BY <1>1, <1>3, <1>4, <1>6
      <4> QED BY <4>1, <4>2 DEF Live
    <3>2. r.conn[r.lru[j]] \in Conn
      BY <3>1, <1>7 DEF Live, Lookup, TableType
    <3> QED BY <3>1, <3>2, TimeAssumption DEF Conn, Age
  <2>4. CASE i = 1
    <3>1. r.conn[r.lru[i]].age = e.age
      BY <2>4, <1>1, <1>4, <1>5
    <3>2. e.age \in Nat /\ Skew \in Nat /\ r.conn[r.lru[j]].age \in Nat
      BY <2>3, TimeAssumption DEF Age, Conn
    <3> QED BY <3>1, <3>2
  <2>5. CASE i # 1
    <3>1. at(i) < at(j)
      BY <2>1, <2>5
    <3>2. /\ at(i) \in 1 .. Len(t.lru) /\ r.conn[r.lru[i]] = t.conn[t.lru[at(i)]]
          /\ at(j) \in 1 .. Len(t.lru) /\ r.conn[r.lru[j]] = t.conn[t.lru[at(j)]]
      <4>1. i \in 1 .. Len(r.lru) /\ j \in 1 .. Len(r.lru) /\ i # 1 /\ j # 1
        BY <2>5
      <4> HIDE DEF at, r
      <4> QED BY <2>2, <4>1
    <3> HIDE DEF at
    <3> QED BY <3>1, <3>2 DEF LruOrdered, TableOK
  <2> QED BY <2>4, <2>5
<1> QED BY <1>1, <1>5, <1>6, <1>7, <1>8, <1>9, <1>10, <1>11, <1>12 DEF TableOK, r, Live


(* The eviction at the ceiling: afterwards there is room for one entry, and *)
(* no entry appeared.                                                       *)
LEMMA MakeRoomLemma ==
    ASSUME NEW t, TableOK(t)
    PROVE  /\ TableOK(MakeRoom(t))
           /\ MakeRoom(t).active < MaxConns
           /\ Live(MakeRoom(t)) \subseteq Live(t)
           /\ \A x \in Live(MakeRoom(t)) : MakeRoom(t).conn[x] = t.conn[x]
<1>1. /\ t.lru \in Seq(Cookie) /\ Len(t.lru) \in Nat /\ t.active = Len(t.lru)
      /\ t.active <= MaxConns
  BY LenProperties DEF TableOK, TableType, Bounded
<1>2. CASE t.active >= MaxConns /\ t.lru # <<>>
  <2> DEFINE c == t.lru[Len(t.lru)]
  <2>1. c \in Live(t)
    BY <1>1, <1>2, EmptySeq DEF TableOK, LruExact
  <2>2. MakeRoom(t) = Destroy(t, c)
    BY <1>2 DEF MakeRoom
  <2> HIDE DEF c
  <2> QED BY <1>1, <2>1, <2>2, DestroyLemma, MaxConnsAssumption
<1>3. CASE ~(t.active >= MaxConns /\ t.lru # <<>>)
  <2>1. MakeRoom(t) = t
    BY <1>3 DEF MakeRoom
  <2>2. t.active < MaxConns
    BY <1>1, <1>3, MaxConnsAssumption
  <2> QED BY <2>1, <2>2
<1> QED BY <1>2, <1>3

(* create: a fresh entry, neither TLS nor with a parser state, where there  *)
(* is room.                                                                 *)
LEMMA CreateLemma ==
    ASSUME NEW t, TableOK(t), t.active < MaxConns,
           NEW c \in Cookie, c \notin Live(t),
           NEW e \in Conn, ~e.tls, ~e.proto_state, e.age <= Skew
    PROVE  /\ TableOK(Create(t, c, e))
           /\ Live(Create(t, c, e)) = Live(t) \cup {c}
           /\ Create(t, c, e).conn[c] = e
           /\ \A x \in Live(t) : Create(t, c, e).conn[x] = t.conn[x]
<1> DEFINE r == Create(t, c, e)
<1>1. /\ t \in TableType /\ t.lru \in Seq(Cookie) /\ Len(t.lru) \in Nat
      /\ Injective(t.lru) /\ Elements(t.lru) = Live(t) /\ c \notin Elements(t.lru)
  BY LenProperties DEF TableOK, TableType, LruExact, Injective, Elements
<1>2. /\ r.conn = [t.conn EXCEPT ![c] = e]
      /\ r.lru = LruPushFront(t.lru, c)
      /\ r.active = t.active + 1
      /\ r.tls_active = t.tls_active
      /\ r.heap = t.heap
      /\ r = [conn |-> r.conn, lru |-> r.lru, active |-> r.active,
              tls_active |-> r.tls_active, heap |-> r.heap]
  <2>1. r = [conn |-> [t.conn EXCEPT ![c] = e], lru |-> LruPushFront(t.lru, c),
             active |-> t.active + 1, tls_active |-> t.tls_active, heap |-> t.heap]
    <3> DEFINE l == LruPushFront(t.lru, c)
               f == [t.conn EXCEPT ![c] = e]
               n == t.active + 1
    <3>1. r = [t EXCEPT !.conn = f, !.lru = l, !.active = n]
      BY <1>1 DEF Create, TableType
    <3> HIDE DEF l, f, n
    <3>2. r = [conn |-> f, lru |-> l, active |-> n, tls_active |-> t.tls_active,
               heap |-> t.heap]
      BY ZenonT(30), <3>1, <1>1 DEF TableType
    <3> QED BY <3>2 DEF l, f, n
  <2> QED BY <2>1
<1> HIDE DEF r
<1>3. /\ r.lru \in Seq(Cookie) /\ Len(r.lru) = Len(t.lru) + 1 /\ Injective(r.lru)
      /\ Elements(r.lru) = Live(t) \cup {c}
      /\ r.lru[1] = c
      /\ \A i \in 1 .. Len(t.lru) : r.lru[i + 1] = t.lru[i]
  BY <1>1, <1>2, LruPushFrontLemma
<1>4. \A x \in Cookie : r.conn[x] = IF x = c THEN e ELSE t.conn[x]
  BY <1>1, <1>2 DEF TableType
<1>5. Live(r) = Live(t) \cup {c} /\ TlsLive(r) = TlsLive(t)
  <2>1. e # NULL
    BY NullAssumption
  <2>2. Live(r) = Live(t) \cup {c}
    BY <2>1, <1>4 DEF Live, Lookup
  <2>3. \A x \in Live(t) : r.conn[x] = t.conn[x]
    BY <1>4 DEF Live
  <2> QED BY <2>2, <2>3, <1>4 DEF TlsLive
<1>6. r \in TableType
  <2>1. r.conn \in [Cookie -> Conn \cup {NULL}]
    BY <1>1, <1>2 DEF TableType
  <2>2. r.active \in Int /\ r.tls_active \in Int /\ r.heap \in SUBSET (Cookie \X Proto)
    BY <1>1, <1>2 DEF TableType
  <2> QED BY <2>1, <2>2, <1>2, <1>3 DEF TableType
<1>7. LruExact(r)
  BY <1>3, <1>5 DEF LruExact, Injective, Elements
<1>8. Bounded(r)
  BY <1>1, <1>2, <1>3, MaxConnsAssumption DEF Bounded, TableOK
<1>9. TlsGaugeExact(r)
  BY <1>2, <1>5 DEF TlsGaugeExact, TableOK
<1>10. StateOwned(r)
  <2>1. \A x \in Live(t) : r.conn[x] = t.conn[x]
    BY <1>4 DEF Live
  <2>2. {x \in Live(r) : r.conn[x].proto_state} = {x \in Live(t) : t.conn[x].proto_state}
    BY <2>1, <1>4, <1>5
  <2> QED BY <2>1, <2>2, <1>2 DEF StateOwned, TableOK
<1>11. LruOrdered(r)
  <2> SUFFICES ASSUME NEW i \in 1 .. Len(r.lru), NEW j \in 1 .. Len(r.lru), i < j
               PROVE  r.conn[r.lru[i]].age <= r.conn[r.lru[j]].age + Skew
    BY DEF LruOrdered
  <2>1. ASSUME NEW h \in 1 .. Len(r.lru), h # 1
        PROVE  h - 1 \in 1 .. Len(t.lru) /\ r.conn[r.lru[h]] = t.conn[t.lru[h - 1]]
    <3>1. h - 1 \in 1 .. Len(t.lru) /\ (h - 1) + 1 = h
      BY <2>1, <1>1, <1>3
    <3>2. r.lru[h] = t.lru[h - 1]
      BY <3>1, <1>3
    <3>3. t.lru[h - 1] \in Live(t)
      BY <3>1, <1>1 DEF Elements
    <3> QED BY <3>1, <3>2, <3>3, <1>4 DEF Live
  <2>2. r.conn[r.lru[j]].age \in Nat
    <3>1. r.lru[j] \in Live(r)
      BY <1>7 DEF LruExact
    <3>2. r.conn[r.lru[j]] \in Conn
      BY <3>1, <1>6 DEF Live, Lookup, TableType
    <3> QED BY <3>2, TimeAssumption DEF Conn, Age
  <2>3. CASE i = 1
    <3>1. r.conn[r.lru[i]].age = e.age
      BY <2>3, <1>3, <1>4
    <3>2. e.age \in Int /\ Skew \in Int
      BY TimeAssumption DEF Age, Conn
    <3> QED BY <3>1, <3>2, <2>2
  <2>4. CASE i # 1
    <3>1. PICK a \in 1 .. Len(t.lru), b \in 1 .. Len(t.lru) :
             /\ r.conn[r.lru[i]] = t.conn[t.lru[a]]
             /\ r.conn[r.lru[j]] = t.conn[t.lru[b]]
             /\ a < b
      <4> DEFINE a == i - 1
                 b == j - 1
      <4>1. /\ a \in 1 .. Len(t.lru) /\ r.conn[r.lru[i]] = t.conn[t.lru[a]]
            /\ b \in 1 .. Len(t.lru) /\ r.conn[r.lru[j]] = t.conn[t.lru[b]]
        BY <2>1, <2>4, <1>3, <1>1
      <4>2. a < b
        BY <1>1, <1>3
      <4> HIDE DEF a, b
      <4> QED BY <4>1, <4>2
    <3> QED BY <3>1 DEF LruOrdered, TableOK
  <2> QED BY <2>3, <2>4
<1> QED BY <1>4, <1>5, <1>6, <1>7, <1>8, <1>9, <1>10, <1>11 DEF TableOK, r, Live


(* apply_cap_policy touches one flag.                                       *)
LEMMA ApplyCapPolicyLemma ==
    ASSUME NEW e \in Conn
    PROVE  /\ ApplyCapPolicy(e) \in Conn
           /\ ApplyCapPolicy(e).age = e.age
           /\ ApplyCapPolicy(e).ops = e.ops
           /\ ApplyCapPolicy(e).tls = e.tls
           /\ ApplyCapPolicy(e).proto_state = e.proto_state
BY ZenonT(30) DEF ApplyCapPolicy, Conn

(* What a record makes of an entry after the lookup: TLS and parser state   *)
(* only ever appear, and the gauge and the heap follow.                     *)
LEMMA SettleLemma ==
    ASSUME NEW t, TableOK(t), NEW c \in Live(t), NEW e \in Conn,
           e.age = t.conn[c].age, e.ops = t.conn[c].ops,
           t.conn[c].tls => e.tls, t.conn[c].proto_state => e.proto_state
    PROVE  TableOK(Settle(t, c, e))
<1> DEFINE r == Settle(t, c, e)
           e1 == ApplyCapPolicy(e)
           n == t.tls_active + (IF e.tls /\ ~t.conn[c].tls THEN 1 ELSE 0)
           h == t.heap \cup (IF e.proto_state THEN {<<c, e.ops>>} ELSE {})
<1>1. /\ t \in TableType /\ c \in Cookie /\ t.conn[c] \in Conn /\ t.conn[c] # NULL
  BY NullAssumption DEF TableOK, TableType, Live, Lookup
<1>2. /\ e1 \in Conn /\ e1.age = t.conn[c].age /\ e1.ops = t.conn[c].ops
      /\ e1.tls = e.tls /\ e1.proto_state = e.proto_state /\ e1 # NULL
  BY ApplyCapPolicyLemma, NullAssumption
<1> HIDE DEF e1
<1>3. r = [conn |-> [t.conn EXCEPT ![c] = e1], lru |-> t.lru, active |-> t.active,
           tls_active |-> n, heap |-> h]
  <2> DEFINE f == [t.conn EXCEPT ![c] = e1]
  <2>1. r = [t EXCEPT !.conn = f, !.tls_active = n, !.heap = h]
    BY <1>1 DEF Settle, TableType, e1
  <2> HIDE DEF f, n, h
  <2>2. r = [conn |-> f, lru |-> t.lru, active |-> t.active, tls_active |-> n,
             heap |-> h]
    BY ZenonT(30), <2>1, <1>1 DEF TableType
  <2> QED BY <2>2 DEF f
<1>4. /\ r.conn = [t.conn EXCEPT ![c] = e1] /\ r.lru = t.lru /\ r.active = t.active
      /\ r.tls_active = n /\ r.heap = h
  BY <1>3
<1> HIDE DEF r
<1>5. \A x \in Cookie : r.conn[x] = IF x = c THEN e1 ELSE t.conn[x]
  BY <1>1, <1>4 DEF TableType
<1>6. Live(r) = Live(t)
  BY <1>1, <1>2, <1>5 DEF Live, Lookup
<1>7. \A x \in Live(t) \ {c} : r.conn[x] = t.conn[x]
  BY <1>5 DEF Live
<1>8. r \in TableType
  <2>1. r.conn \in [Cookie -> Conn \cup {NULL}]
    BY <1>1, <1>2, <1>4 DEF TableType
  <2>2. r.active \in Int /\ r.tls_active \in Int /\ r.lru \in Seq(Cookie)
    BY <1>1, <1>4 DEF TableType
  <2>3. r.heap \in SUBSET (Cookie \X Proto)
    <3>1. e.ops \in Proto
      BY DEF Conn
    <3> QED BY <3>1, <1>1, <1>4 DEF TableType
  <2> HIDE DEF n, h
  <2> QED BY <2>1, <2>2, <2>3, <1>3, <1>4 DEF TableType
<1>9. LruExact(r) /\ Bounded(r)
  BY <1>4, <1>6 DEF LruExact, Bounded, TableOK
<1>10. TlsGaugeExact(r)
  <2>1. IsFiniteSet(TlsLive(t))
    BY CookieAssumption, FS_Subset DEF TlsLive, Live
  <2>2. CASE e.tls /\ ~t.conn[c].tls
    <3>1. TlsLive(r) = TlsLive(t) \cup {c} /\ c \notin TlsLive(t)
      BY ZenonT(30), <2>2, <1>1, <1>2, <1>5, <1>6, <1>7 DEF TlsLive, Live
    <3>2. Cardinality(TlsLive(r)) = Cardinality(TlsLive(t)) + 1
      BY ZenonT(30), <2>1, <3>1, FS_AddElement
    <3> QED BY <2>2, <3>2, <1>4 DEF TlsGaugeExact, TableOK
  <2>3. CASE ~(e.tls /\ ~t.conn[c].tls)
    <3>1. e1.tls = t.conn[c].tls
      BY <2>3, <1>1, <1>2 DEF Conn
    <3>2. TlsLive(r) = TlsLive(t)
      BY <3>1, <1>5, <1>6 DEF TlsLive, Live
    <3>3. r.tls_active = t.tls_active
      BY <2>3, <1>1, <1>4 DEF TableType
    <3> QED BY <3>2, <3>3 DEF TlsGaugeExact, TableOK
  <2> QED BY <2>2, <2>3
<1>11. StateOwned(r)
  <2>1. r.conn[c] = e1
    BY <1>1, <1>5
  <2> QED BY <2>1, <1>2, <1>4, <1>6, <1>7 DEF StateOwned, TableOK
<1>12. LruOrdered(r)
  <2>1. \A x \in Live(t) : r.conn[x].age = t.conn[x].age
    BY <1>2, <1>5 DEF Live
  <2>2. \A i \in 1 .. Len(t.lru) : t.lru[i] \in Live(t)
    BY DEF TableOK, LruExact
  <2> QED BY <2>1, <2>2, <1>4 DEF LruOrdered, TableOK
<1> QED BY <1>8, <1>9, <1>10, <1>11, <1>12 DEF TableOK, r

(* The clock: every age grows by at most one and saturates, so the order of *)
(* activity along the list stays.                                           *)
LEMMA TickLemma ==
    ASSUME NEW t, TableOK(t), NEW r,
           r = [t EXCEPT !.conn =
                  [c \in Cookie |->
                     IF t.conn[c] = NULL \/ Idle(t, c) THEN t.conn[c]
                     ELSE [t.conn[c] EXCEPT !.age = @ + 1]]]
    PROVE  TableOK(r) /\ Live(r) = Live(t)
<1> DEFINE f == [c \in Cookie |-> IF t.conn[c] = NULL \/ Idle(t, c) THEN t.conn[c]
                                  ELSE [t.conn[c] EXCEPT !.age = @ + 1]]
<1>1. t \in TableType
  BY DEF TableOK
<1>2. ASSUME NEW c \in Live(t)
      PROVE  /\ f[c] \in Conn /\ f[c] # NULL
             /\ f[c].tls = t.conn[c].tls /\ f[c].ops = t.conn[c].ops
             /\ f[c].proto_state = t.conn[c].proto_state
             /\ f[c].age = IF t.conn[c].age >= IdleTimeout THEN t.conn[c].age
                           ELSE t.conn[c].age + 1
             /\ t.conn[c].age \in Age
  <2>1. t.conn[c] \in Conn /\ t.conn[c] # NULL /\ c \in Cookie
    BY <1>1 DEF Live, Lookup, TableType
  <2>2. CASE Idle(t, c)
    BY <2>1, <2>2 DEF Idle, Conn
  <2>3. CASE ~Idle(t, c)
    <3>1. f[c] = [t.conn[c] EXCEPT !.age = @ + 1]
      BY <2>1, <2>3
    <3>2. t.conn[c].age \in Age /\ t.conn[c].age + 1 \in Age
      BY <2>1, <2>3, TimeAssumption DEF Idle, Conn, Age
    <3>3. f[c] \in Conn
      BY <2>1, <3>1, <3>2 DEF Conn
    <3> QED BY <2>1, <2>3, <3>1, <3>2, <3>3, NullAssumption DEF Conn, Idle
  <2> QED BY <2>2, <2>3
<1>3. ASSUME NEW c \in Cookie, c \notin Live(t) PROVE f[c] = NULL
  BY <1>3 DEF Live, Lookup
<1> HIDE DEF f
<1>4. r = [conn |-> f, lru |-> t.lru, active |-> t.active,
           tls_active |-> t.tls_active, heap |-> t.heap]
  BY <1>1 DEF TableType, f
<1>5. /\ r.conn = f /\ r.lru = t.lru /\ r.active = t.active
      /\ r.tls_active = t.tls_active /\ r.heap = t.heap
  BY <1>4
<1>6. Live(r) = Live(t)
  BY <1>2, <1>3, <1>5 DEF Live, Lookup
<1>7. r \in TableType
  <2>1. f \in [Cookie -> Conn \cup {NULL}]
    <3>1. \A c \in Cookie : f[c] \in Conn \cup {NULL}
      BY <1>2, <1>3
    <3> QED BY <3>1 DEF f
  <2>2. /\ t.lru \in Seq(Cookie) /\ t.active \in Int /\ t.tls_active \in Int
        /\ t.heap \in SUBSET (Cookie \X Proto)
    BY <1>1 DEF TableType
  <2>3. [conn |-> f, lru |-> t.lru, active |-> t.active,
         tls_active |-> t.tls_active, heap |-> t.heap] \in TableType
    BY <2>1, <2>2, Zenon DEF TableType
  <2> QED BY <2>3, <1>4, Zenon
<1>8. LruExact(r) /\ Bounded(r)
  BY <1>5, <1>6 DEF LruExact, Bounded, TableOK
<1>9. TlsGaugeExact(r)
  <2>1. TlsLive(r) = TlsLive(t)
    BY <1>2, <1>5, <1>6 DEF TlsLive
  <2> QED BY <2>1, <1>5 DEF TlsGaugeExact, TableOK
<1>10. StateOwned(r)
  <2>1. {x \in Live(r) : r.conn[x].proto_state} = {x \in Live(t) : t.conn[x].proto_state}
    BY <1>2, <1>5, <1>6
  <2>2. \A x \in Live(t) : r.conn[x].ops = t.conn[x].ops
    BY <1>2, <1>5
  <2> QED BY ZenonT(30), <2>1, <2>2, <1>5 DEF StateOwned, TableOK
<1>11. LruOrdered(r)
  <2> SUFFICES ASSUME NEW i \in 1 .. Len(t.lru), NEW j \in 1 .. Len(t.lru), i < j
               PROVE  f[t.lru[i]].age <= f[t.lru[j]].age + Skew
    BY ZenonT(30), <1>5 DEF LruOrdered
  <2>1. t.lru[i] \in Live(t) /\ t.lru[j] \in Live(t)
    BY DEF TableOK, LruExact
  <2>2. t.conn[t.lru[i]].age <= t.conn[t.lru[j]].age + Skew
    BY DEF LruOrdered, TableOK
  <2> DEFINE a == t.conn[t.lru[i]].age
             b == t.conn[t.lru[j]].age
  <2>3. /\ a \in Age /\ f[t.lru[i]].age = IF a >= IdleTimeout THEN a ELSE a + 1
        /\ b \in Age /\ f[t.lru[j]].age = IF b >= IdleTimeout THEN b ELSE b + 1
    BY <2>1, <1>2
  <2> HIDE DEF a, b
  <2>4. a <= b + Skew
    BY <2>2 DEF a, b
  <2> QED BY <2>3, <2>4, TimeAssumption DEF Age
<1> QED BY <1>6, <1>7, <1>8, <1>9, <1>10, <1>11 DEF TableOK

(* A nonempty set of naturals has a least element.                          *)
LEMMA LeastNatural ==
    ASSUME NEW T, T \subseteq Nat, T # {}
    PROVE  \E x \in T : \A y \in T : x <= y
<1> DEFINE R == OpToRel(<, Nat)
<1>1. IsWellFoundedOn(R, Nat)
  BY NatLessThanWellFounded, Zenon
<1> HIDE DEF R
<1>2. PICK x \in T : \A y \in T : ~ (<<y, x>> \in R)
  BY ZenonT(30), <1>1, WFMin
<1>3. \A y \in T : ~ (y < x)
  BY ZenonT(30), <1>2 DEF R, OpToRel
<1> QED BY <1>3

(* The loop of lk_conn_table_sweep stops: there is a last entry that is not *)
(* idle, or all of them go.                                                 *)
LEMMA SweepKeepLemma ==
    ASSUME NEW t, t.lru \in Seq(Cookie)
    PROVE  /\ SweepKeep(t) \in 0 .. Len(t.lru)
           /\ \A i \in SweepKeep(t) + 1 .. Len(t.lru) : Idle(t, t.lru[i])
<1> DEFINE n == Len(t.lru)
           P(k) == \A i \in k + 1 .. n : Idle(t, t.lru[i])
           T == {k \in 0 .. n : P(k)}
<1>1. n \in Nat
  BY LenProperties
<1>2. T \subseteq Nat /\ T # {}
  <2>1. n \in T
    BY <1>1
  <2> QED BY <2>1, <1>1
<1>3. PICK k \in T : \A y \in T : k <= y
  <2> HIDE DEF T
  <2> QED BY ZenonT(30), <1>2, LeastNatural
<1>4. k > 0 => ~Idle(t, t.lru[k])
  <2> SUFFICES ASSUME k > 0, Idle(t, t.lru[k]) PROVE FALSE
    OBVIOUS
  <2> DEFINE m == k - 1
  <2>1. m \in 0 .. n /\ m < k /\ k \in 1 .. n
    BY <1>1
  <2>2. P(m)
    <3> SUFFICES ASSUME NEW i \in m + 1 .. n PROVE Idle(t, t.lru[i])
      OBVIOUS
    <3>1. CASE i = k
      BY <3>1
    <3>2. CASE i # k
      BY <3>2, <1>1
    <3> QED BY <3>1, <3>2
  <2>3. m \in T
    BY <2>1, <2>2
  <2>4. k <= m
    <3> HIDE DEF T, m
    <3> QED BY <2>3, <1>3
  <2> QED BY <2>1, <2>4, <1>1
<1>5. \E j \in 0 .. n : P(j) /\ (j > 0 => ~Idle(t, t.lru[j]))
  BY <1>4
<1> QED BY <1>5 DEF SweepKeep

(* The sweep: what stays is a prefix of the list.                           *)
LEMMA SweepLemma ==
    ASSUME NEW t, TableOK(t)
    PROVE  /\ TableOK(SweepTable(t))
           /\ Live(SweepTable(t)) \subseteq Live(t)
           /\ \A c \in Live(SweepTable(t)) : SweepTable(t).conn[c] = t.conn[c]
           /\ \A c \in Live(t) : c \notin Live(SweepTable(t)) => Idle(t, c)
<1> DEFINE k == SweepKeep(t)
           n == Len(t.lru)
           gone == {t.lru[i] : i \in k + 1 .. n}
           kept == SubSeq(t.lru, 1, k)
           f == [c \in Cookie |-> IF c \in gone THEN NULL ELSE t.conn[c]]
           r == SweepTable(t)
<1>1. t \in TableType /\ t.lru \in Seq(Cookie) /\ n \in Nat
  <2>1. t \in TableType
    BY DEF TableOK
  <2> QED BY <2>1, LenProperties DEF TableType
<1>2. k \in 0 .. n /\ \A i \in k + 1 .. n : Idle(t, t.lru[i])
  BY <1>1, SweepKeepLemma
<1>3. /\ r.conn = f /\ r.lru = kept /\ r.active = t.active - (n - k)
      /\ r.tls_active = t.tls_active - Cardinality(gone \cap TlsLive(t))
      /\ r.heap = t.heap \ {<<c, t.conn[c].ops>> : c \in gone}
  BY ZenonT(30) DEF SweepTable
<1>4. r = [conn |-> r.conn, lru |-> r.lru, active |-> r.active,
           tls_active |-> r.tls_active, heap |-> r.heap]
  BY DEF SweepTable
<1> HIDE DEF k, r
<1>5. kept \in Seq(Cookie) /\ Len(kept) = k /\ \A i \in 1 .. k : kept[i] = t.lru[i]
  BY <1>1, <1>2
<1>6. Injective(t.lru) /\ Live(t) = Elements(t.lru)
  BY DEF TableOK, LruExact, Injective, Elements
<1>7. gone \subseteq Live(t) /\ Live(t) \subseteq Cookie
  BY <1>1, <1>2, <1>6 DEF Elements, Live
<1>8. Elements(kept) = Live(t) \ gone
  <2>1. ASSUME NEW i \in 1 .. k PROVE t.lru[i] \in Live(t) \ gone
    <3>1. t.lru[i] \in Live(t)
      BY <1>1, <1>2, <1>6 DEF Elements
    <3>2. ASSUME NEW j \in k + 1 .. n PROVE t.lru[i] # t.lru[j]
      BY <1>1, <1>2, <1>6 DEF Injective
    <3> QED BY <3>1, <3>2
  <2>2. ASSUME NEW c \in Live(t) \ gone PROVE \E i \in 1 .. k : t.lru[i] = c
    <3>1. PICK i \in 1 .. n : t.lru[i] = c
      BY <1>6 DEF Elements
    <3>2. i \notin k + 1 .. n
      BY <3>1
    <3> QED BY <3>1, <3>2, <1>1, <1>2
  <2>3. Elements(kept) = {t.lru[i] : i \in 1 .. k}
    BY <1>5 DEF Elements
  <2> QED BY <2>1, <2>2, <2>3
<1> HIDE DEF gone, kept
<1>9. /\ \A c \in Live(t) \ gone : f[c] = t.conn[c] /\ f[c] # NULL
      /\ \A c \in Cookie : c \notin Live(t) \ gone => f[c] = NULL
  BY <1>7 DEF Live, Lookup
<1>10. f \in [Cookie -> Conn \cup {NULL}]
  BY <1>1 DEF TableType
<1> HIDE DEF f
<1>11. Live(r) = Live(t) \ gone
  BY <1>3, <1>7, <1>9 DEF Live, Lookup
<1>12. /\ IsFiniteSet(TlsLive(t)) /\ IsFiniteSet(gone \cap TlsLive(t))
       /\ Cardinality(gone \cap TlsLive(t)) \in Nat
  BY CookieAssumption, FS_Subset, FS_CardinalityType DEF TlsLive, Live
<1>13. r \in TableType
  <2>1. r.lru \in Seq(Cookie)
    BY <1>3, <1>5
  <2>2. r.active \in Int /\ r.tls_active \in Int
    BY <1>1, <1>2, <1>3, <1>12 DEF TableType
  <2>3. r.heap \in SUBSET (Cookie \X Proto)
    BY <1>1, <1>3 DEF TableType
  <2>4. r.conn \in [Cookie -> Conn \cup {NULL}]
    BY <1>3, <1>10
  <2>5. [conn |-> r.conn, lru |-> r.lru, active |-> r.active,
         tls_active |-> r.tls_active, heap |-> r.heap] \in TableType
    BY <2>1, <2>2, <2>3, <2>4, Zenon DEF TableType
  <2> QED BY <2>5, <1>4, Zenon
<1>14. LruExact(r)
  <2>1. Injective(kept)
    BY <1>1, <1>2, <1>5, <1>6 DEF Injective
  <2> QED BY <2>1, <1>3, <1>8, <1>11 DEF LruExact, Injective, Elements
<1>15. Bounded(r)
  BY <1>1, <1>2, <1>3, <1>5, MaxConnsAssumption DEF Bounded, TableOK
<1>16. TlsGaugeExact(r)
  <2>1. TlsLive(r) = TlsLive(t) \ gone
    BY <1>3, <1>9, <1>11 DEF TlsLive
  <2>2. Cardinality(TlsLive(t) \ gone)
          = Cardinality(TlsLive(t)) - Cardinality(TlsLive(t) \cap gone)
    BY ZenonT(30), <1>12, FS_Difference
  <2>3. TlsLive(t) \cap gone = gone \cap TlsLive(t)
    OBVIOUS
  <2> QED BY ZenonT(30), <2>1, <2>2, <2>3, <1>3 DEF TlsGaugeExact, TableOK
<1>17. StateOwned(r)
  <2> DEFINE own(x) == <<x, t.conn[x].ops>>
  <2>1. t.heap = {own(x) : x \in {y \in Live(t) : t.conn[y].proto_state}}
    BY DEF StateOwned, TableOK
  <2>2. {own(x) : x \in {y \in Live(t) : t.conn[y].proto_state}} \ {own(x) : x \in gone}
          = {own(x) : x \in {y \in Live(t) \ gone : t.conn[y].proto_state}}
    OBVIOUS
  <2>3. \A x \in Live(t) \ gone : r.conn[x] = t.conn[x]
    BY <1>3, <1>9
  <2> QED BY <2>1, <2>2, <2>3, <1>3, <1>11 DEF StateOwned
<1>18. LruOrdered(r)
  <2>1. \A i \in 1 .. k : r.conn[kept[i]] = t.conn[t.lru[i]]
    <3>1. \A i \in 1 .. k : kept[i] \in Live(t) \ gone
      BY <1>5, <1>8 DEF Elements
    <3> QED BY <3>1, <1>3, <1>5, <1>9
  <2>2. \A i, j \in 1 .. k : i < j => t.conn[t.lru[i]].age <= t.conn[t.lru[j]].age + Skew
    BY <1>1, <1>2 DEF LruOrdered, TableOK
  <2> QED BY <2>1, <2>2, <1>3, <1>5 DEF LruOrdered
<1>19. TableOK(r)
  BY <1>13, <1>14, <1>15, <1>16, <1>17, <1>18 DEF TableOK
<1>20. \A c \in Live(t) : c \notin Live(r) => Idle(t, c)
  BY <1>2, <1>11 DEF gone
<1> QED BY <1>3, <1>9, <1>11, <1>19, <1>20 DEF r

-----------------------------------------------------------------------------
(* The entries the operations write.                                        *)
LEMMA SeqnoLemma ==
    ASSUME NEW seq \in Seqno, NEW last \in Seqno
    PROVE  SeqAdvance(seq, last) \in Seqno /\ SeqLost(seq, last) \in Nat
<1>1. (last + 1) % SeqMod \in 0 .. SeqMod - 1
  BY SeqAssumption DEF Seqno
<1> DEFINE w == (last + 1) % SeqMod
<1> HIDE DEF w
<1>2. w \in Nat /\ seq \in Nat
  BY <1>1, SeqAssumption DEF w, Seqno
<1>3. SeqLost(seq, last) = IF seq > w THEN seq - w ELSE 0
  BY DEF SeqLost, SeqGap, w
<1> QED BY <1>2, <1>3 DEF SeqAdvance

LEMMA MarkDirtyLemma ==
    ASSUME NEW e \in Conn
    PROVE  /\ MarkDirty(e) \in Conn
           /\ MarkDirty(e).tls = e.tls /\ MarkDirty(e).ops = e.ops
           /\ MarkDirty(e).proto_state = e.proto_state /\ MarkDirty(e).age = e.age
           /\ MarkDirty(e).cap_headers = e.cap_headers
<1>1. [d \in Dir |-> TRUE] \in [Dir -> BOOLEAN]
  OBVIOUS
<1> DEFINE f == [d \in Dir |-> TRUE]
<1> HIDE DEF f
<1>2. MarkDirty(e) = [e EXCEPT !.dirty = f]
  BY DEF MarkDirty, f
<1> QED BY ZenonT(30), <1>1, <1>2 DEF Conn, f

LEMMA NewConnLemma ==
    ASSUME NEW seq \in Seqno, NEW age \in 0 .. Skew
    PROVE  /\ NewConn(seq, age) \in Conn
           /\ ~NewConn(seq, age).tls /\ ~NewConn(seq, age).proto_state
           /\ NewConn(seq, age).age = age /\ ~NewConn(seq, age).cap_headers
<1>1. age \in Age /\ 0 \in Seqno
  BY TimeAssumption, SeqAssumption DEF Age, Seqno
<1>2. [d \in Dir |-> FALSE] \in [Dir -> BOOLEAN] /\ ProtoDflt \in Proto
  BY ProtoAssumption
<1>3. "framed" \in Mode
  BY DEF Mode
<1> QED BY <1>1, <1>2, <1>3 DEF NewConn, Conn

(* touch: the record moves the entry to the front, and nothing of it but    *)
(* the baseline, the age and the dirty flags changes.                       *)
LEMMA TouchLemma ==
    ASSUME NEW t, TableOK(t), NEW c \in Live(t),
           NEW seq \in Seqno, NEW age \in 0 .. Skew
    PROVE  LET r == Touch(t, c, seq, age)
           IN  /\ TableOK(r) /\ Live(r) = Live(t) /\ r.conn[c] \in Conn
               /\ r.conn[c].cap_headers = t.conn[c].cap_headers
               /\ \A x \in Live(t) \ {c} : r.conn[x] = t.conn[x]
<1> DEFINE e == t.conn[c]
           e1 == IF SeqGap(seq, e.last_seq) THEN MarkDirty(e) ELSE e
           last == SeqAdvance(seq, e.last_seq)
           e2 == [e1 EXCEPT !.last_seq = last, !.age = age]
<1>1. e \in Conn /\ age \in Age
  BY TimeAssumption DEF TableOK, TableType, Live, Lookup, Age
<1>2. /\ e1 \in Conn /\ e1.tls = e.tls /\ e1.ops = e.ops
      /\ e1.proto_state = e.proto_state /\ e1.cap_headers = e.cap_headers
  BY <1>1, MarkDirtyLemma
<1>3. last \in Seqno
  BY <1>1, SeqnoLemma DEF Conn
<1>4. Touch(t, c, seq, age) = LruTouch(t, c, e2)
  BY DEF Touch
<1> HIDE DEF e1, last
<1>5. /\ e2 \in Conn /\ e2.tls = e.tls /\ e2.ops = e.ops
      /\ e2.proto_state = e.proto_state /\ e2.cap_headers = e.cap_headers
      /\ e2.age <= Skew
  <2> HIDE DEF e
  <2>1. e2 \in Conn /\ e2.age = age
    BY ZenonT(30), <1>1, <1>2, <1>3 DEF Conn
  <2>2. /\ e2.tls = e1.tls /\ e2.ops = e1.ops
        /\ e2.proto_state = e1.proto_state /\ e2.cap_headers = e1.cap_headers
    BY <1>1, <1>2, <1>3 DEF Conn
  <2> QED BY <2>1, <2>2, <1>2, TimeAssumption DEF Age
<1> HIDE DEF e2
<1> QED BY <1>4, <1>5, LruTouchLemma

LEMMA TouchTlsLemma ==
    ASSUME NEW t, TableOK(t), NEW c \in Live(t),
           NEW seq \in Seqno, NEW age \in 0 .. Skew
    PROVE  LET r == TouchTls(t, c, seq, age)
           IN  /\ TableOK(r) /\ Live(r) = Live(t) /\ r.conn[c] \in Conn
               /\ r.conn[c].cap_headers = t.conn[c].cap_headers
               /\ \A x \in Live(t) \ {c} : r.conn[x] = t.conn[x]
<1> DEFINE e == t.conn[c]
           e1 == IF TlsGap(e, seq) THEN MarkDirty(e) ELSE e
           last == IF e.tls_seq_seen THEN SeqAdvance(seq, e.tls_last_seq) ELSE seq
           e2 == [e1 EXCEPT !.tls_seq_seen = TRUE, !.tls_last_seq = last, !.age = age]
<1>1. e \in Conn /\ age \in Age
  BY TimeAssumption DEF TableOK, TableType, Live, Lookup, Age
<1>2. /\ e1 \in Conn /\ e1.tls = e.tls /\ e1.ops = e.ops
      /\ e1.proto_state = e.proto_state /\ e1.cap_headers = e.cap_headers
  BY <1>1, MarkDirtyLemma
<1>3. last \in Seqno
  BY <1>1, SeqnoLemma DEF Conn
<1>4. TouchTls(t, c, seq, age) = LruTouch(t, c, e2)
  BY DEF TouchTls
<1> HIDE DEF e1, last
<1>5. /\ e2 \in Conn /\ e2.tls = e.tls /\ e2.ops = e.ops
      /\ e2.proto_state = e.proto_state /\ e2.cap_headers = e.cap_headers
      /\ e2.age <= Skew
  <2> HIDE DEF e
  <2>1. e2 \in Conn /\ e2.age = age
    BY ZenonT(30), <1>1, <1>2, <1>3 DEF Conn
  <2>2. /\ e2.tls = e1.tls /\ e2.ops = e1.ops
        /\ e2.proto_state = e1.proto_state /\ e2.cap_headers = e1.cap_headers
    BY <1>1, <1>2, <1>3 DEF Conn
  <2> QED BY <2>1, <2>2, <1>2, TimeAssumption DEF Age
<1> HIDE DEF e2
<1> QED BY <1>4, <1>5, LruTouchLemma

LEMMA NoteTlsDropLemma ==
    ASSUME NEW t, TableOK(t), NEW c \in Live(t),
           NEW seq \in Seqno, NEW age \in 0 .. Skew
    PROVE  LET r == NoteTlsDrop(t, c, seq, age)
           IN  /\ TableOK(r) /\ Live(r) = Live(t) /\ r.conn[c] \in Conn
               /\ r.conn[c].cap_headers = t.conn[c].cap_headers
               /\ \A x \in Live(t) \ {c} : r.conn[x] = t.conn[x]
<1> DEFINE e == t.conn[c]
           last == SeqAdvance(seq, e.last_seq)
           e2 == [e EXCEPT !.last_seq = last, !.age = age]
<1>1. e \in Conn /\ age \in Age
  BY TimeAssumption DEF TableOK, TableType, Live, Lookup, Age
<1>2. last \in Seqno
  BY <1>1, SeqnoLemma DEF Conn
<1>3. NoteTlsDrop(t, c, seq, age) = LruTouch(t, c, e2)
  BY DEF NoteTlsDrop
<1> HIDE DEF last
<1>4. /\ e2 \in Conn /\ e2.tls = e.tls /\ e2.ops = e.ops
      /\ e2.proto_state = e.proto_state /\ e2.cap_headers = e.cap_headers
      /\ e2.age <= Skew
  <2> HIDE DEF e
  <2>1. e2 \in Conn /\ e2.age = age
    BY ZenonT(30), <1>1, <1>2 DEF Conn
  <2>2. /\ e2.tls = e.tls /\ e2.ops = e.ops
        /\ e2.proto_state = e.proto_state /\ e2.cap_headers = e.cap_headers
    BY <1>1, <1>2 DEF Conn
  <2> QED BY <2>1, <2>2, TimeAssumption DEF Age
<1> HIDE DEF e2
<1> QED BY <1>3, <1>4, LruTouchLemma

(* --cap-headers on an OPEN of a known cookie: one flag of one entry.       *)
LEMMA CapOnOpenLemma ==
    ASSUME NEW t, TableOK(t), NEW c \in Live(t), NEW r,
           r = FlagOnOpen(t, c)
    PROVE  /\ TableOK(r) /\ Live(r) = Live(t)
           /\ r.conn[c].cap_headers => t.conn[c].cap_headers \/ CapHeaders
           /\ \A x \in Live(t) \ {c} : r.conn[x] = t.conn[x]
<1> DEFINE e == CapOnOpen(t.conn[c])
           f == [t.conn EXCEPT ![c] = e]
<1>1. t \in TableType
  BY DEF TableOK
<1>2. t.conn[c] \in Conn /\ t.conn[c] # NULL /\ c \in Cookie
  BY <1>1 DEF Live, Lookup, TableType
<1>3. /\ e \in Conn /\ e.tls = t.conn[c].tls /\ e.ops = t.conn[c].ops
      /\ e.proto_state = t.conn[c].proto_state /\ e.age = t.conn[c].age
      /\ e.cap_headers = (t.conn[c].cap_headers \/ CapHeaders)
  BY <1>2, CapHeadersAssumption DEF CapOnOpen, Conn
<1>4. r = [t EXCEPT !.conn = f]
  BY <1>1, <1>2 DEF TableType, FlagOnOpen
<1> HIDE DEF e
<1>5. /\ f \in [Cookie -> Conn \cup {NULL}] /\ f[c] = e /\ e # NULL
      /\ \A x \in Cookie \ {c} : f[x] = t.conn[x]
  BY <1>1, <1>2, <1>3, NullAssumption DEF TableType
<1> HIDE DEF f
<1>6. r = [conn |-> f, lru |-> t.lru, active |-> t.active,
           tls_active |-> t.tls_active, heap |-> t.heap]
  BY <1>1, <1>4 DEF TableType
<1>7. /\ r.conn = f /\ r.lru = t.lru /\ r.active = t.active
      /\ r.tls_active = t.tls_active /\ r.heap = t.heap
  BY <1>6
<1>8. Live(r) = Live(t)
  BY <1>2, <1>5, <1>7 DEF Live, Lookup
<1>9. \A x \in Live(t) : /\ r.conn[x].tls = t.conn[x].tls /\ r.conn[x].ops = t.conn[x].ops
                         /\ r.conn[x].proto_state = t.conn[x].proto_state
                         /\ r.conn[x].age = t.conn[x].age
  BY <1>3, <1>5, <1>7 DEF Live
<1>10. r \in TableType
  <2>1. /\ t.lru \in Seq(Cookie) /\ t.active \in Int /\ t.tls_active \in Int
        /\ t.heap \in SUBSET (Cookie \X Proto)
    BY <1>1 DEF TableType
  <2>2. [conn |-> f, lru |-> t.lru, active |-> t.active,
         tls_active |-> t.tls_active, heap |-> t.heap] \in TableType
    BY <2>1, <1>5, Zenon DEF TableType
  <2> QED BY <2>2, <1>6, Zenon
<1>11. LruExact(r) /\ Bounded(r)
  BY <1>7, <1>8 DEF LruExact, Bounded, TableOK
<1>12. TlsGaugeExact(r)
  <2>1. TlsLive(r) = TlsLive(t)
    BY <1>8, <1>9 DEF TlsLive
  <2> QED BY <2>1, <1>7 DEF TlsGaugeExact, TableOK
<1>13. StateOwned(r)
  <2>1. {x \in Live(r) : r.conn[x].proto_state} = {x \in Live(t) : t.conn[x].proto_state}
    BY <1>8, <1>9
  <2>2. \A x \in Live(t) : r.conn[x].ops = t.conn[x].ops
    BY <1>9
  <2> QED BY <2>1, <2>2, <1>7 DEF StateOwned, TableOK
<1>14. LruOrdered(r)
  <2>1. \A i \in 1 .. Len(t.lru) : t.lru[i] \in Live(t)
    BY DEF TableOK, LruExact
  <2> QED BY <2>1, <1>7, <1>9 DEF LruOrdered, TableOK
<1>15. TableOK(r)
  BY <1>10, <1>11, <1>12, <1>13, <1>14 DEF TableOK
<1>16. \A x \in Live(t) \ {c} : r.conn[x] = t.conn[x]
  BY <1>5, <1>7 DEF Live
<1> QED BY ZenonT(30), <1>3, <1>5, <1>7, <1>8, <1>15, <1>16

(* What the framer may do to an entry.                                      *)
LEMMA ReasmDataLemma ==
    ASSUME NEW e \in Conn, NEW d \in Dir, NEW b \in BOOLEAN,
           NEW x \in ReasmData(e, d, b)
    PROVE  /\ x \in Conn /\ x.age = e.age /\ x.ops = e.ops
           /\ x.cap_headers = e.cap_headers
           /\ e.tls => x.tls
           /\ e.proto_state => x.proto_state
<1>1. x = e \/ \E w \in FramerEffect : x = Framed(e, d, w)
  <2>1. CASE e.mode = "off" \/ (e.tls /\ ~b)
    BY <2>1 DEF ReasmData
  <2>2. CASE ~(e.mode = "off" \/ (e.tls /\ ~b))
    BY <2>2 DEF ReasmData
  <2> QED BY <2>1, <2>2
<1>2. ASSUME NEW w \in FramerEffect, x = Framed(e, d, w)
      PROVE  /\ x \in Conn /\ x.age = e.age /\ x.ops = e.ops
             /\ x.cap_headers = e.cap_headers
             /\ e.tls => x.tls
             /\ e.proto_state => x.proto_state
  <2> DEFINE f == [e.dirty EXCEPT ![d] = w.dirty]
             o == IF w.mode = "framed" THEN e.mode ELSE w.mode
             u == e.tls \/ w.tls
             v == e.proto_state \/ w.state
  <2>1. f \in [Dir -> BOOLEAN] /\ o \in Mode /\ u \in BOOLEAN /\ v \in BOOLEAN
    BY DEF Conn, FramerEffect
  <2>2. x = [e EXCEPT !.dirty = f, !.mode = o, !.tls = u, !.proto_state = v]
    BY <1>2 DEF Conn, Framed
  <2>3. (e.tls => u) /\ (e.proto_state => v)
    OBVIOUS
  <2> HIDE DEF f, o, u, v
  <2>4. /\ x \in Conn /\ x.age = e.age /\ x.ops = e.ops
        /\ x.cap_headers = e.cap_headers /\ x.tls = u /\ x.proto_state = v
    BY ZenonT(30), <2>1, <2>2 DEF Conn
  <2> QED BY <2>3, <2>4
<1> QED BY <1>1, <1>2

LEMMA TlsResetFramingLemma ==
    ASSUME NEW e \in Conn, NEW b \in BOOLEAN
    PROVE  /\ TlsResetFraming(e, b) \in Conn
           /\ TlsResetFraming(e, b).age = e.age /\ TlsResetFraming(e, b).ops = e.ops
           /\ TlsResetFraming(e, b).tls = e.tls
           /\ TlsResetFraming(e, b).proto_state = e.proto_state
           /\ TlsResetFraming(e, b).cap_headers = e.cap_headers
<1> DEFINE f == [d \in Dir |-> b]
<1>1. f \in [Dir -> BOOLEAN]
  OBVIOUS
<1>2. TlsResetFraming(e, b) = [e EXCEPT !.dirty = f]
  BY DEF TlsResetFraming
<1> HIDE DEF f
<1> QED BY <1>1, <1>2 DEF Conn

(* Settle writes one entry, and flags it only together with the override.   *)
LEMMA SettleFrameLemma ==
    ASSUME NEW t, TableOK(t), NEW c \in Live(t), NEW e \in Conn
    PROVE  /\ Live(Settle(t, c, e)) = Live(t)
           /\ \A x \in Live(t) \ {c} : Settle(t, c, e).conn[x] = t.conn[x]
           /\ Settle(t, c, e).conn[c].cap_headers =>
                 e.cap_headers \/ NeedsCapHeaders(e)
<1> DEFINE e1 == ApplyCapPolicy(e)
           r == Settle(t, c, e)
<1>1. e1 \in Conn /\ e1 # NULL /\ (e1.cap_headers => e.cap_headers \/ NeedsCapHeaders(e))
  BY NullAssumption, ApplyCapPolicyLemma DEF ApplyCapPolicy
<1>2. t.conn \in [Cookie -> Conn \cup {NULL}] /\ c \in Cookie
  BY DEF TableOK, TableType, Live
<1>3. r.conn = [t.conn EXCEPT ![c] = e1]
  <2> DEFINE g == t.tls_active + (IF e.tls /\ ~t.conn[c].tls THEN 1 ELSE 0)
             h == t.heap \cup (IF e.proto_state THEN {<<c, e.ops>>} ELSE {})
             f == [t.conn EXCEPT ![c] = e1]
  <2>1. r = [t EXCEPT !.conn = f, !.tls_active = g, !.heap = h]
    BY DEF Settle, TableOK, TableType
  <2> HIDE DEF e1, r, g, h, f
  <2>2. r.conn = f
    BY <2>1 DEF TableOK, TableType
  <2> QED BY <2>2 DEF f
<1> HIDE DEF e1, r
<1>4. r.conn[c] = e1 /\ \A x \in Cookie \ {c} : r.conn[x] = t.conn[x]
  BY <1>2, <1>3
<1>5. Live(r) = Live(t)
  BY <1>1, <1>2, <1>4 DEF Live, Lookup
<1>6. \A x \in Live(t) \ {c} : r.conn[x] = t.conn[x]
  BY <1>4 DEF Live
<1> QED BY <1>1, <1>4, <1>5, <1>6 DEF r

-----------------------------------------------------------------------------
(* The entry of the connection before the framer runs: touched or created.  *)
(* An entry that goes on the way is the coldest one of a full table.        *)
Justified(t, r) ==
    \A x \in Live(t) :
        x \notin Live(r) => t.active = MaxConns /\ t.lru[Len(t.lru)] = x

Entered(t, r, c) ==
    /\ TableOK(r)
    /\ c \in Live(r)
    /\ Live(r) \subseteq Live(t) \cup {c}
    /\ r.conn[c] \in Conn
    /\ r.conn[c].cap_headers => c \in Live(t) /\ t.conn[c].cap_headers
    /\ \A x \in Live(r) \ {c} : r.conn[x] = t.conn[x]
    /\ Justified(t, r)

LEMMA LiveConnLemma ==
    ASSUME NEW t, TableOK(t), NEW c \in Live(t)
    PROVE  c \in Cookie /\ t.conn[c] \in Conn
BY DEF TableOK, TableType, Live, Lookup

LEMMA MakeRoomVictimLemma ==
    ASSUME NEW t, TableOK(t)
    PROVE  Justified(t, MakeRoom(t))
<1>1. CASE t.active >= MaxConns /\ t.lru # <<>>
  <2> DEFINE v == t.lru[Len(t.lru)]
  <2>1. t.lru \in Seq(Cookie) /\ Len(t.lru) \in 1 .. Len(t.lru)
    <3>1. t.lru \in Seq(Cookie)
      BY DEF TableOK, TableType
    <3> QED BY <3>1, <1>1, LenProperties, EmptySeq
  <2>2. v \in Live(t)
    BY <2>1 DEF TableOK, LruExact
  <2>3. t.active = MaxConns
    <3>1. t.active <= MaxConns /\ t.active \in Int
      BY DEF TableOK, Bounded, TableType
    <3> QED BY <3>1, <1>1, MaxConnsAssumption
  <2>4. MakeRoom(t) = Destroy(t, v)
    BY <1>1 DEF MakeRoom
  <2> HIDE DEF v
  <2>5. Live(MakeRoom(t)) = Live(t) \ {v}
    BY <2>2, <2>4, DestroyLemma
  <2> QED BY <2>3, <2>5 DEF v, Justified
<1>2. CASE ~(t.active >= MaxConns /\ t.lru # <<>>)
  BY <1>2 DEF MakeRoom, Justified
<1> QED BY <1>1, <1>2

LEMMA MakeAndCreateLemma ==
    ASSUME NEW t, TableOK(t), NEW c \in Cookie, c \notin Live(t),
           NEW e \in Conn, ~e.tls, ~e.proto_state, e.age <= Skew
    PROVE  LET r == Create(MakeRoom(t), c, e)
           IN  /\ TableOK(r)
               /\ Live(r) = Live(MakeRoom(t)) \cup {c}
               /\ Live(MakeRoom(t)) \subseteq Live(t)
               /\ r.conn[c] = e
               /\ \A x \in Live(r) \ {c} : r.conn[x] = t.conn[x]
               /\ Justified(t, r)
<1> DEFINE m == MakeRoom(t)
           r == Create(m, c, e)
<1>1. /\ TableOK(m) /\ m.active < MaxConns /\ Live(m) \subseteq Live(t)
      /\ \A x \in Live(m) : m.conn[x] = t.conn[x]
  BY MakeRoomLemma
<1>2. Justified(t, m)
  BY MakeRoomVictimLemma
<1> HIDE DEF m
<1>3. c \notin Live(m)
  BY <1>1
<1>4. /\ TableOK(r) /\ Live(r) = Live(m) \cup {c} /\ r.conn[c] = e
      /\ \A x \in Live(m) : r.conn[x] = m.conn[x]
  BY <1>1, <1>3, CreateLemma
<1> HIDE DEF r
<1>5. \A x \in Live(r) \ {c} : r.conn[x] = t.conn[x]
  BY <1>1, <1>4
<1>6. Justified(t, r)
  BY <1>2, <1>4 DEF Justified
<1> QED BY <1>1, <1>4, <1>5, <1>6 DEF r, m

(* lk_conn_table_data.                                                      *)
LEMMA DataEntryLemma ==
    ASSUME NEW t, TableOK(t), NEW c \in Cookie,
           NEW seq \in Seqno, NEW age \in 0 .. Skew
    PROVE  Entered(t, DataEntry(t, c, seq, age), c)
<1> DEFINE r == DataEntry(t, c, seq, age)
<1>1. CASE Lookup(t, c)
  <2>1. c \in Live(t) /\ r = Touch(t, c, seq, age)
    BY <1>1 DEF Live, DataEntry
  <2> HIDE DEF r
  <2>2. /\ TableOK(r) /\ Live(r) = Live(t) /\ r.conn[c] \in Conn
        /\ r.conn[c].cap_headers = t.conn[c].cap_headers
        /\ \A x \in Live(t) \ {c} : r.conn[x] = t.conn[x]
    BY <2>1, TouchLemma
  <2>3. Entered(t, r, c)
    BY <2>1, <2>2 DEF Entered, Justified
  <2> QED BY <2>3 DEF r
<1>2. CASE ~Lookup(t, c)
  <2> DEFINE e == MarkDirty(NewConn(seq, age))
  <2>1. /\ e \in Conn /\ ~e.tls /\ ~e.proto_state /\ e.age = age /\ ~e.cap_headers
    BY NewConnLemma, MarkDirtyLemma
  <2>2. e.age <= Skew /\ c \notin Live(t)
    BY <2>1, <1>2, TimeAssumption DEF Age, Live
  <2>3. r = Create(MakeRoom(t), c, e)
    BY <1>2 DEF DataEntry
  <2> HIDE DEF e, r
  <2>4. /\ TableOK(r) /\ Live(r) = Live(MakeRoom(t)) \cup {c}
        /\ Live(MakeRoom(t)) \subseteq Live(t) /\ r.conn[c] = e
        /\ \A x \in Live(r) \ {c} : r.conn[x] = t.conn[x]
        /\ Justified(t, r)
    BY <2>1, <2>2, <2>3, MakeAndCreateLemma
  <2>5. Entered(t, r, c)
    BY <2>1, <2>4 DEF Entered
  <2> QED BY <2>5 DEF r
<1> QED BY <1>1, <1>2

(* lk_conn_table_data_decrypted.                                            *)
LEMMA DecryptedEntryLemma ==
    ASSUME NEW t, TableOK(t), NEW c \in Cookie,
           NEW seq \in Seqno, NEW age \in 0 .. Skew
    PROVE  Entered(t, DecryptedEntry(t, c, seq, age), c)
<1> DEFINE r == DecryptedEntry(t, c, seq, age)
<1>1. CASE Lookup(t, c)
  <2>1. c \in Live(t) /\ r = TouchTls(t, c, seq, age)
    BY <1>1 DEF Live, DecryptedEntry
  <2> HIDE DEF r
  <2>2. /\ TableOK(r) /\ Live(r) = Live(t) /\ r.conn[c] \in Conn
        /\ r.conn[c].cap_headers = t.conn[c].cap_headers
        /\ \A x \in Live(t) \ {c} : r.conn[x] = t.conn[x]
    BY <2>1, TouchTlsLemma
  <2>3. Entered(t, r, c)
    BY <2>1, <2>2 DEF Entered, Justified
  <2> QED BY <2>3 DEF r
<1>2. CASE ~Lookup(t, c)
  <2> DEFINE e0 == MarkDirty(NewConn(seq, age))
             e == [e0 EXCEPT !.tls_seq_seen = TRUE, !.tls_last_seq = seq]
  <2>1. /\ e0 \in Conn /\ ~e0.tls /\ ~e0.proto_state /\ e0.age = age
        /\ ~e0.cap_headers
    BY NewConnLemma, MarkDirtyLemma
  <2>2. r = Create(MakeRoom(t), c, e)
    BY <1>2 DEF DecryptedEntry
  <2> HIDE DEF e0, r
  <2>3. /\ e \in Conn /\ ~e.tls /\ ~e.proto_state /\ e.age = age /\ ~e.cap_headers
    BY ZenonT(30), <2>1 DEF Conn
  <2> HIDE DEF e
  <2>4. e.age <= Skew /\ c \notin Live(t)
    BY <2>3, <1>2, TimeAssumption DEF Age, Live
  <2>5. /\ TableOK(r) /\ Live(r) = Live(MakeRoom(t)) \cup {c}
        /\ Live(MakeRoom(t)) \subseteq Live(t) /\ r.conn[c] = e
        /\ \A x \in Live(r) \ {c} : r.conn[x] = t.conn[x]
        /\ Justified(t, r)
    BY <2>2, <2>3, <2>4, MakeAndCreateLemma
  <2>6. Entered(t, r, c)
    BY <2>3, <2>5 DEF Entered
  <2> QED BY <2>6 DEF r
<1> QED BY <1>1, <1>2

(* The table of lk_conn_table_new.                                          *)
LEMMA EmptyLemma == TableOK(EmptyTable) /\ Live(EmptyTable) = {}
<1> DEFINE t == EmptyTable
<1>1. Live(t) = {} /\ TlsLive(t) = {} /\ t.lru = <<>>
  BY DEF EmptyTable, Live, Lookup, TlsLive
<1>2. t \in TableType
  BY DEF EmptyTable, TableType
<1>3. Len(t.lru) = 0
  BY <1>1
<1>4. LruExact(t) /\ LruOrdered(t)
  BY <1>1, <1>3 DEF LruExact, LruOrdered
<1>5. Bounded(t)
  BY <1>3, MaxConnsAssumption DEF Bounded, EmptyTable
<1>6. TlsGaugeExact(t)
  BY ZenonT(30), <1>1, FS_EmptySet DEF TlsGaugeExact, EmptyTable
<1>7. StateOwned(t)
  BY ZenonT(30), <1>1 DEF StateOwned, EmptyTable
<1> QED BY <1>1, <1>2, <1>4, <1>5, <1>6, <1>7 DEF TableOK

(* lk_conn_table_free: every entry goes, and with it every parser state.    *)
LEMMA FreeLemma ==
    ASSUME NEW t, TableOK(t), NEW r, r = FreeTable(t)
    PROVE  TableOK(r) /\ Live(r) = {}
<1>1. t \in TableType /\ t.active \in Int /\ t.tls_active \in Int
  BY DEF TableOK, TableType
<1>2. t.active - Len(t.lru) = 0 /\ t.tls_active - Cardinality(TlsLive(t)) = 0
  BY <1>1 DEF TableOK, Bounded, TlsGaugeExact
<1>3. t.heap \ {<<c, t.conn[c].ops>> : c \in Live(t)} = {}
  BY DEF TableOK, StateOwned
<1>4. r = [EmptyTable EXCEPT !.active = 0, !.tls_active = 0, !.heap = {}]
  BY ZenonT(30), <1>2, <1>3 DEF FreeTable
<1>5. r = EmptyTable
  BY ZenonT(30), <1>4 DEF EmptyTable
<1> QED BY <1>5, EmptyLemma

-----------------------------------------------------------------------------
(* The inductive invariant of the specification.                            *)
IInv ==
    /\ TableOK(tab)
    /\ capmode \in [Cookie -> CapMode]
    /\ lost \in Nat
    /\ running \in BOOLEAN
    /\ CapGuardBacked

(* set_cap_headers leaves an override asked for, and every other alone.     *)
Asks(m, c) ==
    /\ m \in [Cookie -> CapMode]
    /\ m[c] # "full"
    /\ \A x \in Cookie \ {c} : m[x] = capmode[x]

LEMMA SetCapHeadersLemma ==
    ASSUME capmode \in [Cookie -> CapMode], NEW c \in Cookie, NEW m \in SetCapHeaders(c)
    PROVE  Asks(m, c)
<1>1. CASE m = [capmode EXCEPT ![c] = "headers"]
  BY <1>1 DEF Asks, CapMode
<1>2. CASE m = [capmode EXCEPT ![c] = IF @ = "headers" THEN @ ELSE "forgot"]
  BY <1>2 DEF Asks, CapMode
<1> QED BY <1>1, <1>2 DEF SetCapHeaders

(* Why an entry may go in one step.                                         *)
StepJustified ==
    \A c \in Live(tab) :
        c \notin Live(tab') =>
           \/ \E seq \in Seqno, age \in 0 .. Skew : Close(c, seq, age)
           \/ tab.active = MaxConns /\ tab.lru[Len(tab.lru)] = c
           \/ Idle(tab, c)
           \/ ~running'

LEMMA InitLemma == Init => IInv
BY EmptyLemma DEF Init, IInv, CapGuardBacked, CapMode

(* A record that ends in Settle keeps the invariant.                        *)
LEMMA SettledLemma ==
    ASSUME IInv, NEW c \in Cookie, NEW t, Entered(tab, t, c), NEW e \in Conn,
           e.age = t.conn[c].age, e.ops = t.conn[c].ops,
           t.conn[c].tls => e.tls, t.conn[c].proto_state => e.proto_state,
           e.cap_headers => t.conn[c].cap_headers,
           tab' = Settle(t, c, e), capmode' \in CapmodeAfter(c, e)
    PROVE  /\ TableOK(tab') /\ capmode' \in [Cookie -> CapMode] /\ CapGuardBacked'
           /\ StepJustified
<1>1. /\ TableOK(t) /\ c \in Live(t) /\ Live(t) \subseteq Live(tab) \cup {c}
      /\ t.conn[c].cap_headers => c \in Live(tab) /\ tab.conn[c].cap_headers
      /\ \A x \in Live(t) \ {c} : t.conn[x] = tab.conn[x]
      /\ Justified(tab, t)
  BY DEF Entered
<1>2. TableOK(tab')
  BY <1>1, SettleLemma
<1>3. /\ Live(tab') = Live(t)
      /\ \A x \in Live(t) \ {c} : tab'.conn[x] = t.conn[x]
      /\ tab'.conn[c].cap_headers => e.cap_headers \/ NeedsCapHeaders(e)
  BY <1>1, SettleFrameLemma
<1>4. \/ NeedsCapHeaders(e) /\ Asks(capmode', c)
      \/ ~NeedsCapHeaders(e) /\ capmode' = capmode
  BY SetCapHeadersLemma DEF CapmodeAfter, IInv
<1>5. capmode' \in [Cookie -> CapMode]
  BY <1>4 DEF Asks, IInv
<1>6. CapGuardBacked'
  <2> SUFFICES ASSUME NEW x \in Live(tab'), tab'.conn[x].cap_headers
               PROVE  capmode'[x] # "full"
    BY DEF CapGuardBacked
  <2>1. CASE x = c
    BY <2>1, <1>1, <1>3, <1>4 DEF IInv, CapGuardBacked, Asks
  <2>2. CASE x # c
    <3>1. x \in Live(tab) /\ tab'.conn[x] = tab.conn[x]
      BY <2>2, <1>1, <1>3
    <3>2. capmode'[x] = capmode[x]
      BY <2>2, <3>1, <1>4 DEF Asks, Live
    <3> QED BY <3>1, <3>2 DEF IInv, CapGuardBacked
  <2> QED BY <2>1, <2>2
<1>7. StepJustified
  BY <1>1, <1>3 DEF StepJustified, Justified
<1> QED BY <1>2, <1>5, <1>6, <1>7

LEMMA SeqLostType ==
    ASSUME IInv, NEW c \in Live(tab), NEW seq \in Seqno
    PROVE  /\ SeqLost(seq, tab.conn[c].last_seq) \in Nat
           /\ SeqLost(seq, tab.conn[c].tls_last_seq) \in Nat
<1>1. tab.conn[c].last_seq \in Seqno /\ tab.conn[c].tls_last_seq \in Seqno
  BY LiveConnLemma DEF IInv, Conn
<1> QED BY <1>1, SeqnoLemma

(* A step of the specification keeps the invariant, and removes an entry    *)
(* only for one of the four reasons.                                        *)
LEMMA StepLemma ==
    ASSUME IInv, Next
    PROVE  IInv' /\ StepJustified
<1>0. TableOK(tab) /\ capmode \in [Cookie -> CapMode] /\ CapGuardBacked
  BY DEF IInv
<1>1. ASSUME NEW c \in Cookie, NEW seq \in Seqno, NEW age \in 0 .. Skew,
             OpenKnown(c, seq, age)
      PROVE  IInv' /\ StepJustified
  <2> DEFINE t == Touch(tab, c, seq, age)
  <2>1. c \in Live(tab)
    BY <1>1 DEF OpenKnown, Live
  <2>2. /\ TableOK(t) /\ Live(t) = Live(tab)
        /\ t.conn[c].cap_headers = tab.conn[c].cap_headers
        /\ \A x \in Live(tab) \ {c} : t.conn[x] = tab.conn[x]
    BY <1>0, <2>1, TouchLemma
  <2>3. tab' = FlagOnOpen(t, c)
    BY <1>1 DEF OpenKnown
  <2> HIDE DEF t
  <2>4. /\ TableOK(tab') /\ Live(tab') = Live(t)
        /\ tab'.conn[c].cap_headers => t.conn[c].cap_headers \/ CapHeaders
        /\ \A x \in Live(t) \ {c} : tab'.conn[x] = t.conn[x]
    <3>1. c \in Live(t)
      BY <2>1, <2>2
    <3> QED BY <3>1, <2>2, <2>3, CapOnOpenLemma
  <2>5. \/ CapHeaders /\ Asks(capmode', c)
        \/ ~CapHeaders /\ capmode' = capmode
    BY <1>0, <1>1, SetCapHeadersLemma DEF OpenKnown, OpenCapmode
  <2>6. CapGuardBacked' /\ capmode' \in [Cookie -> CapMode]
    BY <1>0, <2>1, <2>2, <2>4, <2>5 DEF CapGuardBacked, Asks, Live
  <2>7. lost' \in Nat /\ running' \in BOOLEAN
    BY <1>1, <2>1, SeqLostType DEF OpenKnown, IInv
  <2> QED BY <1>0, <2>2, <2>4, <2>5, <2>6, <2>7 DEF IInv, StepJustified
<1>2. ASSUME NEW c \in Cookie, NEW seq \in Seqno, NEW age \in 0 .. Skew,
             NEW port \in Port, NEW synthetic \in BOOLEAN,
             OpenNew(c, seq, age, port, synthetic)
      PROVE  IInv' /\ StepJustified
  <2> DEFINE n == NewConn(seq, age)
             p == [n EXCEPT !.ops = PortProto[port]]
             o == OpenedConn(seq, age, port, synthetic)
             e == CapOnOpen(o)
  <2>1. n \in Conn /\ ~n.tls /\ ~n.proto_state /\ n.age = age /\ ~n.cap_headers
    BY NewConnLemma
  <2>2. o = IF synthetic THEN MarkDirty(p) ELSE p
    BY DEF OpenedConn
  <2> HIDE DEF n, o
  <2>3. p \in Conn /\ ~p.tls /\ ~p.proto_state /\ p.age = age /\ ~p.cap_headers
    BY <2>1, ProtoAssumption DEF Conn
  <2> HIDE DEF p
  <2>4. o \in Conn /\ ~o.tls /\ ~o.proto_state /\ o.age = age /\ ~o.cap_headers
    BY <2>2, <2>3, MarkDirtyLemma
  <2>5. /\ e \in Conn /\ ~e.tls /\ ~e.proto_state /\ e.age = age
        /\ e.cap_headers => CapHeaders
    BY <2>4, CapHeadersAssumption DEF CapOnOpen, Conn
  <2>6. tab' = Create(MakeRoom(tab), c, e) /\ c \notin Live(tab)
    BY <1>2 DEF OpenNew, Live, o
  <2> HIDE DEF e
  <2>7. e.age <= Skew
    BY <2>5, TimeAssumption DEF Age
  <2>8. /\ TableOK(tab') /\ Live(tab') = Live(MakeRoom(tab)) \cup {c}
        /\ Live(MakeRoom(tab)) \subseteq Live(tab) /\ tab'.conn[c] = e
        /\ \A x \in Live(tab') \ {c} : tab'.conn[x] = tab.conn[x]
        /\ Justified(tab, tab')
    BY <1>0, <2>5, <2>6, <2>7, MakeAndCreateLemma
  <2>9. \/ CapHeaders /\ Asks(capmode', c)
        \/ ~CapHeaders /\ capmode' = capmode
    BY <1>0, <1>2, SetCapHeadersLemma DEF OpenNew, OpenCapmode
  <2>10. CapGuardBacked' /\ capmode' \in [Cookie -> CapMode]
    BY <1>0, <2>5, <2>8, <2>9 DEF CapGuardBacked, Asks, Live
  <2>11. lost' \in Nat /\ running' \in BOOLEAN
    BY <1>2 DEF OpenNew, IInv
  <2> QED BY <1>0, <2>8, <2>9, <2>10, <2>11 DEF IInv, StepJustified, Justified
<1>3. ASSUME NEW c \in Cookie, CreateFails(c)
      PROVE  IInv' /\ StepJustified
  <2>1. tab' = MakeRoom(tab) /\ capmode' = capmode
    BY <1>3 DEF CreateFails
  <2>2. /\ TableOK(tab') /\ Live(tab') \subseteq Live(tab)
        /\ \A x \in Live(tab') : tab'.conn[x] = tab.conn[x]
    BY <1>0, <2>1, MakeRoomLemma
  <2>3. Justified(tab, tab')
    BY <1>0, <2>1, MakeRoomVictimLemma
  <2>4. CapGuardBacked'
    BY <1>0, <2>1, <2>2 DEF CapGuardBacked
  <2>5. lost' \in Nat /\ running' \in BOOLEAN
    BY <1>3 DEF CreateFails, IInv
  <2> QED BY <1>0, <2>1, <2>2, <2>3, <2>4, <2>5 DEF IInv, StepJustified, Justified
<1>4. ASSUME NEW c \in Cookie, NEW seq \in Seqno, NEW age \in 0 .. Skew,
             Close(c, seq, age)
      PROVE  IInv' /\ StepJustified
  <2>1. /\ TableOK(tab') /\ Live(tab') = Live(tab) \ {c}
        /\ \A x \in Live(tab') : tab'.conn[x] = tab.conn[x]
        /\ lost' \in Nat
    <3>1. CASE Lookup(tab, c)
      <4> DEFINE t == Touch(tab, c, seq, age)
      <4>1. c \in Live(tab) /\ tab' = Destroy(t, c)
        BY <1>4, <3>1 DEF Close, Live
      <4>2. /\ TableOK(t) /\ Live(t) = Live(tab)
            /\ \A x \in Live(tab) \ {c} : t.conn[x] = tab.conn[x]
        BY <1>0, <4>1, TouchLemma
      <4>3. lost' \in Nat
        BY <1>4, <3>1, <4>1, SeqLostType DEF Close
      <4> HIDE DEF t
      <4>4. /\ TableOK(tab') /\ Live(tab') = Live(t) \ {c}
            /\ \A x \in Live(t) \ {c} : tab'.conn[x] = t.conn[x]
        BY <4>1, <4>2, DestroyLemma
      <4> QED BY <4>2, <4>3, <4>4
    <3>2. CASE ~Lookup(tab, c)
      BY <1>0, <1>4, <3>2 DEF Close, Live
    <3> QED BY <3>1, <3>2
  <2>2. capmode' = [capmode EXCEPT ![c] = "full"] /\ running' \in BOOLEAN
    BY <1>4 DEF Close, IInv
  <2>3. CapGuardBacked' /\ capmode' \in [Cookie -> CapMode]
    BY <1>0, <2>1, <2>2 DEF CapGuardBacked, CapMode, Live
  <2>4. StepJustified
    BY <1>4, <2>1 DEF StepJustified
  <2> QED BY <1>0, <2>1, <2>2, <2>3, <2>4 DEF IInv
<1>5. ASSUME NEW c \in Cookie, NEW seq \in Seqno, NEW age \in 0 .. Skew,
             DataCiphertext(c, seq, age)
      PROVE  IInv' /\ StepJustified
  <2> DEFINE t == NoteTlsDrop(tab, c, seq, age)
             e == t.conn[c]
  <2>1. c \in Live(tab)
    BY <1>5 DEF DataCiphertext, Live
  <2>2. /\ TableOK(t) /\ Live(t) = Live(tab) /\ e \in Conn
        /\ e.cap_headers = tab.conn[c].cap_headers
        /\ \A x \in Live(tab) \ {c} : t.conn[x] = tab.conn[x]
    BY <1>0, <2>1, NoteTlsDropLemma
  <2>3. tab' = Settle(t, c, e) /\ capmode' \in CapmodeAfter(c, e)
    BY <1>5 DEF DataCiphertext
  <2>4. lost' \in Nat /\ running' \in BOOLEAN
    BY <1>5 DEF DataCiphertext, IInv
  <2> HIDE DEF t
  <2>5. Entered(tab, t, c)
    BY <2>1, <2>2 DEF Entered, Justified
  <2>6. /\ TableOK(tab') /\ capmode' \in [Cookie -> CapMode] /\ CapGuardBacked'
        /\ StepJustified
    BY <2>2, <2>3, <2>5, SettledLemma
  <2> QED BY <2>4, <2>6 DEF IInv
<1>6. ASSUME NEW c \in Cookie, NEW seq \in Seqno, NEW age \in 0 .. Skew,
             NEW d \in Dir, Data(c, seq, age, d)
      PROVE  IInv' /\ StepJustified
  <2> DEFINE t == DataEntry(tab, c, seq, age)
  <2>1. Entered(tab, t, c)
    BY <1>0, DataEntryLemma
  <2>2. PICK e \in ReasmData(t.conn[c], d, FALSE) :
          /\ tab' = Settle(t, c, IF e.tls THEN TlsResetFraming(e, FALSE) ELSE e)
          /\ capmode' \in CapmodeAfter(c, IF e.tls THEN TlsResetFraming(e, FALSE) ELSE e)
    BY ZenonT(30), <1>6 DEF Data
  <2>3. lost' \in Nat /\ running' \in BOOLEAN
    BY <1>6, SeqLostType DEF Data, Live, IInv
  <2> HIDE DEF t
  <2> DEFINE e1 == IF e.tls THEN TlsResetFraming(e, FALSE) ELSE e
  <2>4. /\ e \in Conn /\ e.age = t.conn[c].age /\ e.ops = t.conn[c].ops
        /\ e.cap_headers = t.conn[c].cap_headers
        /\ t.conn[c].tls => e.tls
        /\ t.conn[c].proto_state => e.proto_state
    <3>1. t.conn[c] \in Conn
      BY <2>1 DEF Entered
    <3> QED BY ZenonT(30), <3>1, <2>2, ReasmDataLemma
  <2>5. /\ e1 \in Conn /\ e1.age = e.age /\ e1.ops = e.ops /\ e1.tls = e.tls
        /\ e1.proto_state = e.proto_state /\ e1.cap_headers = e.cap_headers
    BY ZenonT(30), <2>4, TlsResetFramingLemma
  <2>6. tab' = Settle(t, c, e1) /\ capmode' \in CapmodeAfter(c, e1)
    BY <2>2
  <2> HIDE DEF e1
  <2>7. /\ TableOK(tab') /\ capmode' \in [Cookie -> CapMode] /\ CapGuardBacked'
        /\ StepJustified
    BY ZenonT(30), <2>1, <2>4, <2>5, <2>6, SettledLemma
  <2> QED BY <2>3, <2>7 DEF IInv
<1>7. ASSUME NEW c \in Cookie, NEW seq \in Seqno, NEW age \in 0 .. Skew,
             NEW d \in Dir, DataDecrypted(c, seq, age, d)
      PROVE  IInv' /\ StepJustified
  <2> DEFINE t == DecryptedEntry(tab, c, seq, age)
             e0 == t.conn[c]
             a == TlsResetFraming(e0, TRUE)
             e1 == IF e0.tls THEN e0 ELSE [a EXCEPT !.tls = TRUE]
  <2>1. Entered(tab, t, c)
    BY <1>0, DecryptedEntryLemma
  <2>2. PICK e \in ReasmData(e1, d, TRUE) :
          tab' = Settle(t, c, e) /\ capmode' \in CapmodeAfter(c, e)
    BY ZenonT(30), <1>7 DEF DataDecrypted
  <2>3. lost' \in Nat /\ running' \in BOOLEAN
    BY <1>7, SeqLostType DEF DataDecrypted, Live, IInv
  <2> HIDE DEF t
  <2>4. e0 \in Conn
    BY <2>1 DEF Entered
  <2>5. /\ a \in Conn /\ a.age = e0.age /\ a.ops = e0.ops
        /\ a.proto_state = e0.proto_state /\ a.cap_headers = e0.cap_headers
    BY ZenonT(30), <2>4, TlsResetFramingLemma
  <2> HIDE DEF e0, a
  <2>6. /\ e1 \in Conn /\ e1.age = e0.age /\ e1.ops = e0.ops /\ e1.tls
        /\ e1.proto_state = e0.proto_state /\ e1.cap_headers = e0.cap_headers
    BY ZenonT(30), <2>4, <2>5 DEF Conn
  <2> HIDE DEF e1
  <2>7. /\ e \in Conn /\ e.age = e1.age /\ e.ops = e1.ops
        /\ e.cap_headers = e1.cap_headers
        /\ e1.tls => e.tls
        /\ e1.proto_state => e.proto_state
    BY ZenonT(30), <2>2, <2>6, ReasmDataLemma
  <2>8. /\ TableOK(tab') /\ capmode' \in [Cookie -> CapMode] /\ CapGuardBacked'
        /\ StepJustified
    BY <2>1, <2>2, <2>6, <2>7, SettledLemma DEF e0
  <2> QED BY <2>3, <2>8 DEF IInv
<1>8. CASE Sweep
  <2>1. tab' = SweepTable(tab) /\ capmode' = capmode
    BY <1>8 DEF Sweep
  <2>2. /\ TableOK(tab') /\ Live(tab') \subseteq Live(tab)
        /\ \A c \in Live(tab') : tab'.conn[c] = tab.conn[c]
        /\ \A c \in Live(tab) : c \notin Live(tab') => Idle(tab, c)
    BY <1>0, <2>1, SweepLemma
  <2>3. CapGuardBacked'
    BY <1>0, <2>1, <2>2 DEF CapGuardBacked
  <2>4. lost' \in Nat /\ running' \in BOOLEAN
    BY <1>8 DEF Sweep, IInv
  <2> QED BY <1>0, <2>1, <2>2, <2>3, <2>4 DEF IInv, StepJustified
<1>9. CASE Free
  <2>1. TableOK(tab') /\ Live(tab') = {}
    <3>1. tab' = FreeTable(tab)
      BY <1>9 DEF Free
    <3> QED BY <3>1, <1>0, FreeLemma
  <2>2. lost' \in Nat /\ running' = FALSE /\ capmode' = capmode
    BY <1>9 DEF Free, IInv
  <2> QED BY ZenonT(30), <1>0, <2>1, <2>2 DEF IInv, StepJustified, CapGuardBacked
<1>10. CASE Tick
  <2>1. tab' = [tab EXCEPT !.conn =
                 [c \in Cookie |->
                    IF tab.conn[c] = NULL \/ Idle(tab, c) THEN tab.conn[c]
                    ELSE [tab.conn[c] EXCEPT !.age = @ + 1]]]
    BY <1>10 DEF Tick
  <2>2. TableOK(tab') /\ Live(tab') = Live(tab)
    BY <1>0, <2>1, TickLemma
  <2>3. \A c \in Live(tab) : tab'.conn[c].cap_headers = tab.conn[c].cap_headers
    BY <1>0, <2>1, LiveConnLemma DEF TableOK, TableType, Conn
  <2>4. lost' \in Nat /\ running' \in BOOLEAN /\ capmode' = capmode
    BY <1>10 DEF Tick, IInv
  <2>5. CapGuardBacked'
    BY <1>0, <2>2, <2>3, <2>4 DEF CapGuardBacked
  <2> QED BY <1>0, <2>2, <2>4, <2>5 DEF IInv, StepJustified
<1>11. ASSUME NEW c \in Cookie, CapAges(c) PROVE IInv' /\ StepJustified
  <2>1. tab' = tab /\ lost' = lost /\ running' = running
    BY <1>11 DEF CapAges
  <2>2. capmode' = [capmode EXCEPT ![c] = "forgot"]
    BY <1>11 DEF CapAges
  <2>3. CapGuardBacked' /\ capmode' \in [Cookie -> CapMode]
    BY <1>0, <2>1, <2>2 DEF CapGuardBacked, CapMode, Live
  <2> QED BY ZenonT(30), <1>0, <2>1, <2>3 DEF IInv, StepJustified
<1> QED BY <1>1, <1>2, <1>3, <1>4, <1>5, <1>6, <1>7, <1>8, <1>9, <1>10, <1>11
        DEF Next, HandleEvent

-----------------------------------------------------------------------------
(* The inductive invariant holds in every reachable state.                  *)
THEOREM Invariance == Spec => []IInv
<1>1. Init => IInv
  BY InitLemma
<1>2. IInv /\ [Next]_vars => IInv'
  <2> SUFFICES ASSUME IInv, [Next]_vars PROVE IInv'
    OBVIOUS
  <2>1. CASE Next
    BY <2>1, StepLemma
  <2>2. CASE UNCHANGED vars
    BY <2>2 DEF vars, IInv, CapGuardBacked
  <2> QED BY <2>1, <2>2
<1> QED BY <1>1, <1>2, PTL DEF Spec

(* The variables keep their types.                                          *)
THEOREM TypeCorrect == Spec => []TypeOK
<1>1. IInv => TypeOK
  BY DEF IInv, TableOK, TypeOK
<1> QED BY <1>1, Invariance, PTL

(* Hash table and LRU list hold the same entries, for every number of      *)
(* connections and every ceiling (create, destroy, touch, sweep, free).     *)
THEOREM LruMatchesHashAlways == Spec => []LruMatchesHash
<1>1. IInv => LruMatchesHash
  BY DEF IInv, TableOK, LruMatchesHash
<1> QED BY <1>1, Invariance, PTL

(* The number of entries is counted exactly and never exceeds --max-conns   *)
(* (create evicts before it links).                                         *)
THEOREM TableAlwaysBounded == Spec => []TableBounded
<1>1. IInv => TableBounded
  BY DEF IInv, TableOK, TableBounded
<1> QED BY <1>1, Invariance, PTL

(* The gauge of TLS connections is exact (note_tls_open, destroy).           *)
THEOREM TlsGaugeAlwaysExact == Spec => []TlsGauge
<1>1. IInv => TlsGauge
  BY DEF IInv, TableOK, TlsGauge
<1> QED BY <1>1, Invariance, PTL

(* No parser state outlives its entry and none is freed under a live one    *)
(* (on_destroy in destroy).                                                 *)
THEOREM ParserStateAlwaysOwned == Spec => []ParserStateOwned
<1>1. IInv => ParserStateOwned
  BY DEF IInv, TableOK, ParserStateOwned
<1> QED BY <1>1, Invariance, PTL

(* The LRU list is in order of activity up to the timestamp skew (touch,     *)
(* lk_conn_table_sweep).                                                    *)
THEOREM LruAlwaysByActivity == Spec => []LruByActivity
<1>1. IInv => LruByActivity
  BY DEF IInv, TableOK, LruByActivity
<1> QED BY <1>1, Invariance, PTL

(* The one-shot flag LK_CONN_CAP_HEADERS never stands for an override that  *)
(* was not asked for since the last CLOSE, whatever writes the kernel       *)
(* refuses and whatever entries it drops (apply_cap_policy, handle_event).  *)
THEOREM CapGuardAlwaysBacked == Spec => []CapGuardBacked
<1>1. IInv => CapGuardBacked
  BY DEF IInv, TableOK, CapGuardBacked
<1> QED BY <1>1, Invariance, PTL

(* An entry leaves the table only with its CLOSE, as the coldest entry of a *)
(* full table, as idle, or at teardown (close, create, sweep, free).        *)
THEOREM RemovalAlwaysJustified == Spec => RemovalJustified
<1>1. IInv /\ [Next]_vars => [StepJustified]_vars
  BY StepLemma
<1>2. [StepJustified]_vars =>
      [\A c \in Live(tab) :
          c \notin Live(tab') =>
             \/ \E seq \in Seqno, age \in 0 .. Skew : Close(c, seq, age)
             \/ tab.active = MaxConns /\ tab.lru[Len(tab.lru)] = c
             \/ Idle(tab, c)
             \/ ~running']_vars
  BY DEF StepJustified
<1> QED BY <1>1, <1>2, Invariance, PTL DEF Spec, RemovalJustified

=============================================================================

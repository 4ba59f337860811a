--------------------------- MODULE ExporterProofs ---------------------------
(***************************************************************************)
(* Proofs about Exporters, for any number of slots, clients, spans and     *)
(* observations: no event reaches a later registration, the loop's table   *)
(* and its users agree, and every export is counted once.                  *)
(*                                                                         *)
(* The invariant is stated of a world, which is what the handlers pass     *)
(* from one to the next.  Between two handlers a world is Sound; within    *)
(* one it may have a request charged that is not in flight yet, or a       *)
(* registration that does not fit the state any more (Flying).             *)
(***************************************************************************)
EXTENDS Exporters, FiniteSetTheorems, TLAPS

(* A leaf that names no prover is tried with Zenon, then with SMT.          *)
USE ZenonT(3), SMTT(30), ZenonT(30)

LoopType ==
    [fds: [Slot -> Registration \union {NULL}],
     held: SUBSET Slot, batch: SUBSET Slot, stale: SUBSET Slot]

ConnType == [state: {"FREE", "READ", "WRITE"}, fd: Nat \union {NULL}, ttl: Nat]

OtlpType ==
    [state: {"IDLE", "CONNECT", "WRITE", "READ"}, cur: Signal, fd: Nat \union {NULL}, ttl: Nat,
     pending_traces: BOOLEAN, skip: Nat, status: {"none", "busy", "other"}, carried: Nat,
     owed: [Signal -> Int]]

SpanType == [count: Nat, wm_fired: BOOLEAN, owed: Int]

World == [loop: LoopType, conns: [Place -> ConnType], otlp: OtlpType, spans: SpanType]

Regs(l) == {l.fds[s] : s \in Active(l)}

(* Why no event is stale: a slot is held back from the moment it is freed    *)
(* until the batch that may hold an event for it is over.                   *)
LoopOK(l) ==
    /\ l \in LoopType
    /\ l.stale \subseteq l.held
    /\ l.stale \subseteq l.batch
    /\ \A s \in l.held : l.fds[s] = NULL
    /\ \A s, t \in Active(l) : l.fds[s].fd = l.fds[t].fd => s = t

(* Nothing is owed; or the request of the current signal is.                 *)
Clear(o, sp) ==
    /\ \A sig \in Signal : o.owed[sig] = 0
    /\ o.carried = 0
    /\ sp.owed = sp.count

Charged(o, sp) ==
    /\ \A sig \in Signal : o.owed[sig] = IF o.cur = sig THEN 1 ELSE 0
    /\ sp.owed = sp.count + o.carried

Sound(w) ==
    /\ w \in World
    /\ LoopOK(w.loop)
    /\ Regs(w.loop) = Standing \union Clients(w.conns) \union Export(w.otlp)
    /\ Idle(w.otlp) => w.otlp.fd = NULL /\ Clear(w.otlp, w.spans)
    /\ ~Idle(w.otlp) => Charged(w.otlp, w.spans)

(* In flight, whatever the loop has under the request's file.                *)
Flying(w) ==
    /\ w \in World
    /\ LoopOK(w.loop)
    /\ ~Idle(w.otlp)
    /\ w.otlp.fd \in Nat
    /\ {r \in Regs(w.loop) : r.fd # w.otlp.fd} = Standing \union Clients(w.conns)
    /\ Charged(w.otlp, w.spans)

-----------------------------------------------------------------------------
(* Numbers.                                                                 *)

(* A set of naturals has a least element.                                   *)
LEMMA MinLemma ==
    ASSUME NEW S \in SUBSET Nat, S # {}
    PROVE  Min(S) \in S /\ \A y \in S : Min(S) <= y
<1> DEFINE R == OpToRel(<, Nat)
<1>1. IsWellFoundedOn(R, Nat)
  BY NatLessThanWellFounded
<1>2. \A x, y \in Nat : x < y => <<x, y>> \in R
  BY DEF OpToRel
<1> HIDE DEF R
<1>3. PICK x \in S : \A y \in S : ~(<<y, x>> \in R)
  BY <1>1, WFMin
<1>4. ASSUME NEW y \in S PROVE x <= y
  <2>1. x \in Nat /\ y \in Nat /\ ~(y < x)
    BY <1>2, <1>3
  <2> QED
    BY <2>1
<1> QED
  BY <1>4 DEF Min

(* Among n + 1 numbers there is one that n slots do not use.                 *)
LEMMA FreshNumber ==
    ASSUME NEW n \in Nat, NEW f, NEW D \in SUBSET (1 .. n)
    PROVE  \E k \in 1 .. n + 1 : \A s \in D : f[s] # k
<1> SUFFICES ASSUME \A k \in 1 .. n + 1 : \E s \in D : f[s] = k PROVE FALSE
  OBVIOUS
<1> DEFINE g == [k \in 1 .. n + 1 |-> CHOOSE s \in D : f[s] = k]
<1>1. g \in [1 .. n + 1 -> 1 .. n] /\ \A k \in 1 .. n + 1 : f[g[k]] = k
  OBVIOUS
<1>2. IsFiniteSet(1 .. n) /\ Cardinality(1 .. n) = n
  <2>1. IsFiniteSet(1 .. n) /\ Cardinality(1 .. n) = IF 1 > n THEN 0 ELSE n - 1 + 1
    BY FS_Interval
  <2> QED
    BY <2>1
<1>3. IsFiniteSet(1 .. n + 1) /\ Cardinality(1 .. n + 1) = n + 1
  <2>1. n + 1 \in Int
    OBVIOUS
  <2>2. IsFiniteSet(1 .. n + 1) /\ Cardinality(1 .. n + 1) = IF 1 > n + 1 THEN 0 ELSE n + 1 - 1 + 1
    BY <2>1, FS_Interval
  <2> QED
    BY <2>2
<1> DEFINE A == 1 .. n + 1
           B == 1 .. n
<1> HIDE DEF g
<1>4. Cardinality(1 .. n) < Cardinality(1 .. n + 1)
  BY <1>2, <1>3
<1>5. g \in [A -> B] /\ IsFiniteSet(A) /\ IsFiniteSet(B) /\ Cardinality(B) < Cardinality(A)
  BY <1>1, <1>2, <1>3, <1>4
<1> HIDE DEF A, B
<1>6. PICK x \in A, y \in A : x # y /\ g[x] = g[y]
  BY <1>5, FS_PigeonHole
<1> QED
  BY <1>1, <1>6 DEF A

-----------------------------------------------------------------------------
(* The loop.                                                                *)

(* The active slots and their registrations.                                *)
LEMMA ActiveFacts ==
    ASSUME NEW l \in LoopType
    PROVE  /\ Active(l) \subseteq Slot
           /\ \A s \in Slot : s \in Active(l) <=> l.fds[s] # NULL
           /\ \A s \in Active(l) : l.fds[s] \in Registration
           /\ Regs(l) \subseteq Registration
BY DEF Active, LoopType, Regs

(* A new file's number is nobody's (socket, accept4).                       *)
LEMMA NewFdFresh ==
    ASSUME NEW l \in LoopType
    PROVE  NewFd(l) \in 1 .. NFds + 1 /\ \A r \in Regs(l) : r.fd # NewFd(l)
<1> DEFINE f == [s \in Slot |-> l.fds[s].fd]
           unused == {n \in 1 .. NFds + 1 : FindSlot(l, n) = {}}
<1>1. Active(l) \in SUBSET (1 .. NFds) /\ NFds \in Nat
  BY ActiveFacts, FdsAssumption DEF Slot
<1> HIDE DEF f
<1>2. \E k \in 1 .. NFds + 1 : \A s \in Active(l) : f[s] # k
  BY <1>1, FreshNumber
<1>3. \A k : FindSlot(l, k) = {} <=> \A s \in Active(l) : l.fds[s].fd # k
  BY DEF FindSlot
<1>4. unused # {}
  BY <1>1, <1>2, <1>3 DEF Slot, f
<1>5. unused \in SUBSET Nat
  BY <1>1
<1>6. Min(unused) \in unused
  BY <1>4, <1>5, MinLemma
<1> QED
  BY <1>3, <1>6 DEF NewFd, Regs

(* lk_loop_add_fd registers one file more, or leaves the loop as it was.    *)
LEMMA AddLemma ==
    ASSUME NEW l, LoopOK(l), NEW fd \in 1 .. NFds + 1, \A r \in Regs(l) : r.fd # fd,
           NEW o \in Owner, NEW ctl \in BOOLEAN,
           NEW a, a = LkLoopAddFd(l, fd, o, ctl)
    PROVE  /\ LoopOK(a.loop)
           /\ a.ok => Regs(a.loop) = Regs(l) \union {[fd |-> fd, owner |-> o, wants |-> "in"]}
           /\ ~a.ok => a.loop = l
           /\ a.ok \in BOOLEAN
<1> DEFINE r == [fd |-> fd, owner |-> o, wants |-> "in"]
           s == Min(AllocSlot(l))
<1>1. CASE AllocSlot(l) = {} \/ ~ctl
  BY <1>1 DEF LkLoopAddFd
<1>2. CASE AllocSlot(l) # {} /\ ctl
  <2>1. a = [ok |-> TRUE, loop |-> [l EXCEPT !.fds[s] = r]]
    BY <1>2 DEF LkLoopAddFd
  <2>2. AllocSlot(l) \in SUBSET Nat
    BY FdsAssumption DEF AllocSlot, Slot
  <2>3. s \in Slot /\ l.fds[s] = NULL /\ s \notin l.held
    BY <1>2, <2>2, MinLemma DEF AllocSlot, Active
  <2> HIDE DEF s
  <2>4. r \in Registration /\ r # NULL
    BY NullAssumption DEF Registration
  <2>5. l \in LoopType
    BY DEF LoopOK
  <2> HIDE DEF r
  <2>6. /\ a.ok /\ a.loop \in LoopType
        /\ a.loop.fds = [l.fds EXCEPT ![s] = r]
        /\ a.loop.held = l.held /\ a.loop.batch = l.batch /\ a.loop.stale = l.stale
    BY <2>1, <2>3, <2>4, <2>5 DEF LoopType
  <2>7. l.fds \in [Slot -> Registration \union {NULL}]
    BY <2>5 DEF LoopType
  <2>8. Active(a.loop) = Active(l) \union {s}
    BY <2>3, <2>4, <2>6, <2>7 DEF Active
  <2>9. \A t \in Active(l) : t # s /\ a.loop.fds[t] = l.fds[t] /\ l.fds[t].fd # fd
    BY <2>3, <2>6, <2>7 DEF Active, Regs
  <2>10. a.loop.fds[s] = r /\ r.fd = fd
    BY <2>3, <2>6, <2>7 DEF r
  <2>11. Regs(a.loop) = Regs(l) \union {r}
    BY <2>8, <2>9, <2>10 DEF Regs
  <2>12. \A t, u \in Active(a.loop) : a.loop.fds[t].fd = a.loop.fds[u].fd => t = u
    BY <2>8, <2>9, <2>10 DEF LoopOK
  <2>13. l.held \subseteq Slot
    BY <2>5 DEF LoopType
  <2>14. \A t \in a.loop.held : a.loop.fds[t] = NULL
    BY <2>3, <2>6, <2>7, <2>13 DEF LoopOK
  <2> QED
    BY <2>6, <2>11, <2>12, <2>14 DEF LoopOK, r
<1> QED
  BY <1>1, <1>2

(* A slot that changes what it waits for.                                   *)
LEMMA ModLemma ==
    ASSUME NEW l, LoopOK(l), NEW fd, NEW wants \in {"in", "out"}, NEW ctl \in BOOLEAN,
           NEW m, m = LkLoopModFd(l, fd, wants, ctl)
    PROVE  /\ LoopOK(m.loop)
           /\ {r \in Regs(m.loop) : r.fd # fd} = {r \in Regs(l) : r.fd # fd}
           /\ m.ok => \A r \in Regs(l) : r.fd = fd =>
                         [fd |-> fd, owner |-> r.owner, wants |-> wants] \in Regs(m.loop)
           /\ ~m.ok => m.loop = l
           /\ m.ok \in BOOLEAN
<1> DEFINE s == Min(FindSlot(l, fd))
<1>1. CASE FindSlot(l, fd) = {} \/ ~ctl
  BY <1>1 DEF LkLoopModFd
<1>2. CASE FindSlot(l, fd) # {} /\ ctl
  <2>1. m = [ok |-> TRUE, loop |-> [l EXCEPT !.fds[s].wants = wants]]
    BY <1>2 DEF LkLoopModFd
  <2>2. l \in LoopType /\ l.fds \in [Slot -> Registration \union {NULL}] /\ l.held \subseteq Slot
    BY DEF LoopOK, LoopType
  <2>3. FindSlot(l, fd) \in SUBSET Nat
    BY FdsAssumption DEF FindSlot, Active, Slot
  <2>4. s \in Active(l) /\ l.fds[s].fd = fd
    BY <1>2, <2>3, MinLemma DEF FindSlot
  <2> HIDE DEF s
  <2> DEFINE r == [l.fds[s] EXCEPT !.wants = wants]
  <2>5. s \in Slot /\ l.fds[s] \in Registration
    BY <2>2, <2>4, ActiveFacts
  <2>6. r \in Registration /\ r # NULL /\ r.fd = fd /\ r = [fd |-> fd, owner |-> l.fds[s].owner, wants |-> wants]
    BY <2>4, <2>5, NullAssumption DEF Registration
  <2> HIDE DEF r
  <2>7. m.loop = [l EXCEPT !.fds = [@ EXCEPT ![s] = r]] /\ m.ok
    BY <2>1 DEF r
  <2>8. /\ m.loop \in LoopType
        /\ m.loop.fds = [l.fds EXCEPT ![s] = r]
        /\ m.loop.held = l.held /\ m.loop.batch = l.batch /\ m.loop.stale = l.stale
    BY <2>2, <2>5, <2>6, <2>7 DEF LoopType
  <2>9. Active(m.loop) = Active(l)
    BY <2>2, <2>4, <2>6, <2>8 DEF Active
  <2>10. m.loop.fds[s] = r /\ \A t \in Active(l) : t # s => m.loop.fds[t] = l.fds[t]
    BY <2>2, <2>5, <2>8 DEF Active
  <2>11. \A t, u \in Active(m.loop) : m.loop.fds[t].fd = m.loop.fds[u].fd => t = u
    BY <2>4, <2>6, <2>9, <2>10 DEF LoopOK
  <2>12. \A t \in m.loop.held : m.loop.fds[t] = NULL
    BY <2>2, <2>4, <2>8 DEF LoopOK, Active
  <2>13. LoopOK(m.loop)
    BY <2>8, <2>11, <2>12 DEF LoopOK
  <2>14. {x \in Regs(m.loop) : x.fd # fd} = {x \in Regs(l) : x.fd # fd}
    BY <2>4, <2>6, <2>9, <2>10 DEF Regs
  <2>15. \A x \in Regs(l) : x.fd = fd => x = l.fds[s]
    BY <2>4 DEF Regs, LoopOK
  <2>16. r \in Regs(m.loop)
    BY <2>4, <2>9, <2>10 DEF Regs
  <2> QED
    BY <2>6, <2>7, <2>13, <2>14, <2>15, <2>16
<1> QED
  BY <1>1, <1>2

(* lk_loop_del_fd forgets the files, and holds their slots back.            *)
LEMMA DelLemma ==
    ASSUME NEW l, LoopOK(l), NEW F, NEW d, d = LkLoopDelFds(l, F)
    PROVE  LoopOK(d) /\ Regs(d) = {r \in Regs(l) : r.fd \notin F}
<1> DEFINE gone == UNION {FindSlot(l, fd) : fd \in F}
<1>1. l \in LoopType /\ l.fds \in [Slot -> Registration \union {NULL}] /\ l.held \subseteq Slot
  BY DEF LoopOK, LoopType
<1>2. \A s : s \in gone <=> s \in Active(l) /\ l.fds[s].fd \in F
  BY DEF FindSlot
<1>3. gone \subseteq Slot
  BY <1>1, <1>2, ActiveFacts
<1>4. d = [l EXCEPT !.fds = [s \in Slot |-> IF s \in gone THEN NULL ELSE @[s]],
                    !.held = @ \union gone,
                    !.stale = @ \union (gone \intersect l.batch)]
  BY DEF LkLoopDelFds
<1> HIDE DEF gone
<1>5. /\ d.fds = [s \in Slot |-> IF s \in gone THEN NULL ELSE l.fds[s]]
      /\ d.held = l.held \union gone /\ d.batch = l.batch
      /\ d.stale = l.stale \union (gone \intersect l.batch)
  BY <1>1, <1>4 DEF LoopType
<1>6. d \in LoopType
  <2>1. d.fds \in [Slot -> Registration \union {NULL}]
    BY <1>1, <1>5
  <2>2. d.held \subseteq Slot /\ d.batch \subseteq Slot /\ d.stale \subseteq Slot
    BY <1>1, <1>3, <1>5 DEF LoopType
  <2>3. d = [fds |-> d.fds, held |-> d.held, batch |-> d.batch, stale |-> d.stale]
    BY <1>1, <1>4 DEF LoopType
  <2> QED
    BY <2>1, <2>2, <2>3 DEF LoopType
<1>7. \A s : s \in Active(d) <=> s \in Active(l) /\ l.fds[s].fd \notin F
  BY <1>1, <1>2, <1>5 DEF Active
<1>8. \A s \in Active(d) : d.fds[s] = l.fds[s]
  BY <1>2, <1>5, <1>7, <1>1, ActiveFacts
<1>9. Regs(d) = {r \in Regs(l) : r.fd \notin F}
  BY <1>7, <1>8 DEF Regs
<1>10. \A s, t \in Active(d) : d.fds[s].fd = d.fds[t].fd => s = t
  BY <1>7, <1>8 DEF LoopOK
<1>11. \A s \in d.held : d.fds[s] = NULL
  BY <1>1, <1>3, <1>5 DEF LoopOK
<1> QED
  BY <1>5, <1>6, <1>9, <1>10, <1>11 DEF LoopOK

(* Taking an event, ending a batch and beginning one leave the registrations *)
(* alone.                                                                   *)
LEMMA BatchLemma ==
    ASSUME NEW l, LoopOK(l)
    PROVE  /\ LoopOK(Settled(l)) /\ Regs(Settled(l)) = Regs(l)
           /\ \A s \in l.batch : LoopOK(Taken(l, s)) /\ Regs(Taken(l, s)) = Regs(l)
           /\ \A ready \in SUBSET Slot : LoopOK(NewBatch(l, ready)) /\ Regs(NewBatch(l, ready)) = Regs(l)
           /\ LET x == [l EXCEPT !.batch = {}, !.stale = {}] IN LoopOK(x) /\ Regs(x) = Regs(l)
<1> DEFINE Same(x) == x.fds = l.fds /\ x \in LoopType
<1>1. l \in LoopType
  BY DEF LoopOK
<1>2. ASSUME NEW x, Same(x) PROVE Active(x) = Active(l) /\ Regs(x) = Regs(l)
  BY <1>2 DEF Active, Regs
<1>3. ASSUME NEW x, Same(x), x.stale \subseteq x.held, x.stale \subseteq x.batch, x.held \subseteq l.held
      PROVE  LoopOK(x)
  BY <1>2, <1>3 DEF LoopOK
<1>4. LoopOK(Settled(l)) /\ Regs(Settled(l)) = Regs(l)
  <2>1. CASE l.batch = {}
    <3> DEFINE x == [l EXCEPT !.held = {}]
    <3>1. Same(x) /\ x.stale \subseteq x.held /\ x.stale \subseteq x.batch /\ x.held \subseteq l.held
      BY <1>1, <2>1 DEF LoopType, LoopOK
    <3>2. Settled(l) = x
      BY <2>1 DEF Settled
    <3> HIDE DEF x, Same
    <3> QED
      BY <1>2, <1>3, <3>1, <3>2
  <2>2. CASE l.batch # {}
    BY <2>2 DEF Settled
  <2> QED
    BY <2>1, <2>2
<1>5. ASSUME NEW s \in l.batch PROVE LoopOK(Taken(l, s)) /\ Regs(Taken(l, s)) = Regs(l)
  <2> DEFINE x == Taken(l, s)
  <2>1. Same(x) /\ x.stale \subseteq x.held /\ x.stale \subseteq x.batch /\ x.held \subseteq l.held
    BY <1>1 DEF LoopType, LoopOK, Taken
  <2> HIDE DEF x, Same
  <2>2. LoopOK(x) /\ Regs(x) = Regs(l)
    BY <1>2, <1>3, <2>1
  <2> QED
    BY <2>2 DEF x
<1>6. ASSUME NEW ready \in SUBSET Slot
      PROVE  LoopOK(NewBatch(l, ready)) /\ Regs(NewBatch(l, ready)) = Regs(l)
  <2> DEFINE x == NewBatch(l, ready)
  <2>1. Same(x) /\ x.stale \subseteq x.held /\ x.stale \subseteq x.batch /\ x.held \subseteq l.held
    BY <1>1 DEF LoopType, LoopOK, NewBatch
  <2> HIDE DEF x, Same
  <2>2. LoopOK(x) /\ Regs(x) = Regs(l)
    BY <1>2, <1>3, <2>1
  <2> QED
    BY <2>2 DEF x
<1>7. LET x == [l EXCEPT !.batch = {}, !.stale = {}] IN LoopOK(x) /\ Regs(x) = Regs(l)
  <2> DEFINE x == [l EXCEPT !.batch = {}, !.stale = {}]
  <2>1. Same(x) /\ x.stale \subseteq x.held /\ x.stale \subseteq x.batch /\ x.held \subseteq l.held
    BY <1>1 DEF LoopType, LoopOK
  <2> HIDE DEF x, Same
  <2>2. LoopOK(x) /\ Regs(x) = Regs(l)
    BY <1>2, <1>3, <2>1
  <2> QED
    BY <2>2 DEF x
<1> QED
  BY <1>4, <1>5, <1>6, <1>7

-----------------------------------------------------------------------------
(* Worlds.                                                                  *)

(* A world and its four parts.                                              *)
LEMMA WorldFields ==
    ASSUME NEW w \in World
    PROVE  /\ w.loop \in LoopType /\ w.conns \in [Place -> ConnType]
           /\ w.otlp \in OtlpType /\ w.spans \in SpanType
           /\ w = [loop |-> w.loop, conns |-> w.conns, otlp |-> w.otlp, spans |-> w.spans]
BY DEF World

(* The three kinds of owners.                                               *)
LEMMA Owners ==
    /\ \A r \in Standing : r.owner \in {<<"timer">>, <<"ring">>, <<"listen">>} /\ r.fd \in 1 .. 3
    /\ \A cs : \A r \in Clients(cs) : \E i \in Open(cs) : r.owner = ConnOwner(i) /\ r.fd = cs[i].fd
    /\ \A o : \A r \in Export(o) : r.owner = <<"otlp">> /\ r.fd = o.fd /\ ~Idle(o)
    /\ \A i : ConnOwner(i) \notin {<<"timer">>, <<"ring">>, <<"listen">>, <<"otlp">>}
    /\ \A i, j : ConnOwner(i) = ConnOwner(j) => i = j
    /\ \A i \in Place : ConnOwner(i) \in Owner
    /\ <<"otlp">> \in Owner /\ <<"otlp">> \notin {<<"timer">>, <<"ring">>, <<"listen">>}
<1>1. DOMAIN Fixed = 1 .. 3 /\ Fixed[1] = <<"timer">> /\ Fixed[2] = <<"ring">> /\ Fixed[3] = <<"listen">>
  BY DEF Fixed
<1>2. \A r \in Standing : r.owner \in {<<"timer">>, <<"ring">>, <<"listen">>} /\ r.fd \in 1 .. 3
  BY <1>1 DEF Standing
<1>3. \A cs : \A r \in Clients(cs) : \E i \in Open(cs) : r.owner = ConnOwner(i) /\ r.fd = cs[i].fd
  BY DEF Clients
<1>4. \A o : \A r \in Export(o) : r.owner = <<"otlp">> /\ r.fd = o.fd /\ ~Idle(o)
  BY DEF Export
<1>5. \A i : ConnOwner(i) \notin {<<"timer">>, <<"ring">>, <<"listen">>, <<"otlp">>}
  BY DEF ConnOwner
<1>6. \A i, j : ConnOwner(i) = ConnOwner(j) => i = j
  BY DEF ConnOwner
<1>7. (\A i \in Place : ConnOwner(i) \in Owner) /\ <<"otlp">> \in Owner
  BY DEF Owner
<1>8. <<"otlp">> \notin {<<"timer">>, <<"ring">>, <<"listen">>}
  OBVIOUS
<1> QED
  BY <1>2, <1>3, <1>4, <1>5, <1>6, <1>7, <1>8

(* One file, one registration.                                              *)
LEMMA OneFile ==
    ASSUME NEW l, LoopOK(l), NEW r \in Regs(l), NEW q \in Regs(l), r.fd = q.fd
    PROVE  r = q
BY DEF LoopOK, Regs

(* A sound world in flight is Flying, and a Flying one whose request is      *)
(* registered for what it waits for is sound.                               *)
LEMMA SoundFlying ==
    ASSUME NEW w, Sound(w), ~Idle(w.otlp)
    PROVE  Flying(w) /\ Export(w.otlp) \subseteq Regs(w.loop)
<1> DEFINE x == [fd |-> w.otlp.fd, owner |-> <<"otlp">>, wants |-> Awaited(w.otlp.state)]
<1>1. w \in World /\ LoopOK(w.loop) /\ w.loop \in LoopType
  BY WorldFields DEF Sound
<1>2. Export(w.otlp) = {x}
  BY DEF Export
<1>3. x \in Regs(w.loop) /\ x.fd = w.otlp.fd /\ x.owner = <<"otlp">>
  BY <1>2 DEF Sound
<1> HIDE DEF x
<1>4. w.otlp.fd \in Nat
  BY <1>1, <1>3, ActiveFacts, FdsAssumption DEF Registration
<1>5. ASSUME NEW r \in Standing \union Clients(w.conns) PROVE r \in Regs(w.loop) /\ r.fd # w.otlp.fd
  <2>1. r \in Regs(w.loop)
    BY <1>5 DEF Sound
  <2>2. r.owner # <<"otlp">>
    BY <1>5, Owners
  <2> QED
    BY <1>1, <1>3, <2>1, <2>2, OneFile
<1>6. {r \in Regs(w.loop) : r.fd # w.otlp.fd} = Standing \union Clients(w.conns)
  BY <1>2, <1>3, <1>5 DEF Sound
<1> QED
  BY <1>1, <1>2, <1>3, <1>4, <1>6 DEF Flying, Sound

(* The other way round.                                                     *)
LEMMA FlyingSound ==
    ASSUME NEW w, Flying(w), Export(w.otlp) \subseteq Regs(w.loop)
    PROVE  Sound(w)
<1> DEFINE x == [fd |-> w.otlp.fd, owner |-> <<"otlp">>, wants |-> Awaited(w.otlp.state)]
<1>1. Export(w.otlp) = {x} /\ x.fd = w.otlp.fd
  BY DEF Export, Flying
<1>2. x \in Regs(w.loop)
  BY <1>1
<1> HIDE DEF x
<1>3. \A r \in Regs(w.loop) : r.fd = w.otlp.fd => r = x
  BY <1>1, <1>2, OneFile DEF Flying
<1>4. Regs(w.loop) = Standing \union Clients(w.conns) \union {x}
  BY <1>1, <1>2, <1>3 DEF Flying
<1> QED
  BY <1>1, <1>4 DEF Sound, Flying

-----------------------------------------------------------------------------
(* The push exporter.                                                       *)

(* Counted, and not torn down yet.                                          *)
Done(w) ==
    /\ w \in World
    /\ LoopOK(w.loop)
    /\ w.otlp.fd \in Nat
    /\ {r \in Regs(w.loop) : r.fd # w.otlp.fd} = Standing \union Clients(w.conns)
    /\ Clear(w.otlp, w.spans)

(* Counting a charged request clears the books.                             *)
LEMMA CountedFields ==
    ASSUME NEW w \in World, Charged(w.otlp, w.spans), NEW c, c = Counted(w)
    PROVE  /\ c \in World
           /\ c.loop = w.loop /\ c.conns = w.conns
           /\ c.otlp.fd = w.otlp.fd /\ c.otlp.state = w.otlp.state
           /\ Clear(c.otlp, c.spans)
<1> DEFINE k == [w.otlp.owed EXCEPT ![w.otlp.cur] = @ - 1]
           o == [w.otlp EXCEPT !.owed = k, !.carried = 0]
           p == [w.spans EXCEPT !.owed = @ - w.otlp.carried]
<1>1. w.otlp \in OtlpType /\ w.spans \in SpanType
  BY WorldFields
<1>2. c = [loop |-> w.loop, conns |-> w.conns, otlp |-> o, spans |-> p]
  BY WorldFields DEF Counted, World
<1>3. /\ w.otlp.owed \in [Signal -> Int] /\ w.otlp.cur \in Signal /\ w.otlp.carried \in Nat
      /\ w.spans.owed \in Int /\ w.spans.count \in Nat
  BY <1>1 DEF OtlpType, SpanType
<1>4. k \in [Signal -> Int]
  BY <1>3
<1> HIDE DEF k
<1>5. o \in OtlpType /\ p \in SpanType
  <2>1. o \in OtlpType
    BY <1>1, <1>4 DEF OtlpType
  <2>2. w.spans.owed - w.otlp.carried \in Int
    BY <1>3
  <2>3. p \in SpanType
    BY <1>1, <2>2 DEF SpanType
  <2> QED
    BY <2>1, <2>3
<1>6. /\ o.fd = w.otlp.fd /\ o.state = w.otlp.state /\ o.carried = 0
      /\ o.owed = [w.otlp.owed EXCEPT ![w.otlp.cur] = @ - 1]
  BY <1>1 DEF OtlpType, k
<1>7. p.count = w.spans.count /\ p.owed = w.spans.owed - w.otlp.carried
  BY <1>1 DEF SpanType
<1> HIDE DEF o, p
<1>8. p.owed = p.count
  BY <1>3, <1>7 DEF Charged
<1>9. ASSUME NEW sig \in Signal PROVE o.owed[sig] = 0
  BY <1>3, <1>6 DEF Charged
<1>10. Clear(o, p)
  BY <1>6, <1>8, <1>9 DEF Clear
<1>11. c.loop = w.loop /\ c.conns = w.conns /\ c.otlp = o /\ c.spans = p
  BY <1>2
<1>12. c \in World
  BY <1>2, <1>5, WorldFields DEF World
<1> QED
  BY <1>6, <1>10, <1>11, <1>12

(* Whatever is in flight may be counted.                                    *)
LEMMA FlyingDone ==
    ASSUME NEW w, Flying(w)
    PROVE  Done(Counted(w)) /\ Counted(w).conns = w.conns
<1> DEFINE c == Counted(w)
<1>1. w \in World /\ Charged(w.otlp, w.spans)
  BY DEF Flying
<1>2. /\ c \in World /\ c.loop = w.loop /\ c.conns = w.conns /\ c.otlp.fd = w.otlp.fd
      /\ Clear(c.otlp, c.spans)
  BY <1>1, CountedFields
<1> HIDE DEF c
<1>3. Done(c)
  BY <1>2 DEF Done, Flying
<1> QED
  BY <1>2, <1>3 DEF c

(* The pause a collector asked for.                                         *)
LEMMA SkipDone ==
    ASSUME NEW w, Done(w), NEW n \in Nat
    PROVE  Done([w EXCEPT !.otlp.skip = n])
<1> DEFINE o == [w.otlp EXCEPT !.skip = n]
           x == [w EXCEPT !.otlp.skip = n]
<1>1. w \in World /\ w.otlp \in OtlpType
  BY WorldFields DEF Done
<1>2. o \in OtlpType /\ o.fd = w.otlp.fd /\ o.owed = w.otlp.owed /\ o.carried = w.otlp.carried
  BY <1>1 DEF OtlpType
<1>3. /\ x \in World /\ x.loop = w.loop /\ x.conns = w.conns /\ x.spans = w.spans /\ x.otlp = o
  BY <1>1, <1>2 DEF World
<1> HIDE DEF o, x
<1>4. Done(x)
  BY <1>2, <1>3 DEF Done, Clear
<1> QED
  BY <1>4 DEF x

(* otlp_finish leaves the exporter idle, and nothing in the loop.           *)
LEMMA FinishSound ==
    ASSUME NEW w, Done(w)
    PROVE  Sound(OtlpFinish(w)) /\ Idle(OtlpFinish(w).otlp)
<1> DEFINE d == LkLoopDelFds(w.loop, {w.otlp.fd})
           o == [w.otlp EXCEPT !.fd = NULL, !.status = "none", !.state = "IDLE", !.ttl = 0]
           x == OtlpFinish(w)
<1>1. w \in World /\ w.otlp \in OtlpType /\ w.otlp.fd # NULL
  BY WorldFields, NullAssumption DEF Done
<1>2. LoopOK(d) /\ Regs(d) = Standing \union Clients(w.conns)
  <2>1. LoopOK(d) /\ Regs(d) = {r \in Regs(w.loop) : r.fd \notin {w.otlp.fd}}
    BY DelLemma DEF Done
  <2> QED
    BY <2>1 DEF Done
<1>3. /\ o \in OtlpType /\ o.fd = NULL /\ o.state = "IDLE"
      /\ o.owed = w.otlp.owed /\ o.carried = w.otlp.carried
  BY <1>1 DEF OtlpType
<1>4. x = [w EXCEPT !.loop = d, !.otlp = o]
  BY <1>1 DEF OtlpFinish, LkLoopDelFd, World
<1> HIDE DEF d, o, x
<1>5. x \in World /\ x.loop = d /\ x.conns = w.conns /\ x.otlp = o /\ x.spans = w.spans
  BY <1>1, <1>2, <1>3, <1>4 DEF World, LoopOK
<1>6. Idle(o) /\ Export(o) = {}
  BY <1>3 DEF Idle, Export
<1>7. Sound(x) /\ Idle(x.otlp)
  BY <1>2, <1>3, <1>5, <1>6 DEF Sound, Done, Clear
<1> QED
  BY <1>7 DEF x

(* However an export in flight ends, the world is sound.                    *)
LEMMA EndsSound ==
    ASSUME NEW w, Flying(w)
    PROVE  /\ Sound(Failed(w).world)
           /\ \A r \in OtlpOnResponseDone(w) : Sound(r.world)
<1>1. Sound(Failed(w).world)
  BY FlyingDone, FinishSound DEF Failed, Ends
<1>2. ASSUME NEW r \in OtlpOnResponseDone(w) PROVE Sound(r.world)
  <2>1. CASE r = Ends(Counted(w))
    BY <2>1, FlyingDone, FinishSound DEF Ends
  <2>2. ASSUME NEW n \in RetryAfter, r = Ends([Counted(w) EXCEPT !.otlp.skip = n]) PROVE Sound(r.world)
    <3>1. n \in Nat
      BY OtlpAssumption
    <3>2. Done([Counted(w) EXCEPT !.otlp.skip = n])
      BY <3>1, FlyingDone, SkipDone
    <3> QED
      BY <2>2, <3>2, FinishSound DEF Ends
  <2> QED
    BY <1>2, <2>1, <2>2 DEF OtlpOnResponseDone
<1> QED
  BY <1>1, <1>2

(* The request goes on to state st: in step with the loop if the loop takes  *)
(* the change, otherwise still in flight.                                   *)
LEMMA MovedOn ==
    ASSUME NEW w, Sound(w), ~Idle(w.otlp), NEW st \in {"WRITE", "READ"}, NEW ctl \in BOOLEAN,
           NEW m, m = LkLoopModFd(w.loop, w.otlp.fd, Awaited(st), ctl),
           NEW x, x = [w EXCEPT !.otlp.state = st, !.loop = m.loop]
    PROVE  Flying(x) /\ ~Idle(x.otlp) /\ (m.ok => Sound(x))
<1> DEFINE o == [w.otlp EXCEPT !.state = st]
           e == [fd |-> w.otlp.fd, owner |-> <<"otlp">>, wants |-> Awaited(w.otlp.state)]
<1>1. Flying(w) /\ Export(w.otlp) \subseteq Regs(w.loop) /\ w \in World /\ w.otlp \in OtlpType
  BY SoundFlying, WorldFields DEF Sound
<1>2. Awaited(st) \in {"in", "out"}
  BY DEF Awaited
<1>3. LoopOK(w.loop)
  BY DEF Sound
<1>4. /\ LoopOK(m.loop)
      /\ {r \in Regs(m.loop) : r.fd # w.otlp.fd} = {r \in Regs(w.loop) : r.fd # w.otlp.fd}
      /\ m.ok => \A r \in Regs(w.loop) : r.fd = w.otlp.fd =>
                    [fd |-> w.otlp.fd, owner |-> r.owner, wants |-> Awaited(st)] \in Regs(m.loop)
  BY <1>2, <1>3, ModLemma
<1>5. /\ o \in OtlpType /\ o.state = st /\ o.fd = w.otlp.fd /\ o.cur = w.otlp.cur
      /\ o.owed = w.otlp.owed /\ o.carried = w.otlp.carried
  BY <1>1 DEF OtlpType
<1>6. x = [w EXCEPT !.otlp = o, !.loop = m.loop]
  OBVIOUS
<1>7. e \in Regs(w.loop) /\ e.fd = w.otlp.fd /\ e.owner = <<"otlp">>
  BY <1>1 DEF Export
<1> HIDE DEF o, e
<1>8. x \in World /\ x.loop = m.loop /\ x.conns = w.conns /\ x.otlp = o /\ x.spans = w.spans
  BY ZenonT(30), <1>1, <1>4, <1>5, <1>6 DEF World, LoopOK
<1>9. ~Idle(o)
  BY <1>5 DEF Idle
<1>10. Flying(x)
  BY <1>1, <1>4, <1>5, <1>8, <1>9 DEF Flying, Charged
<1>11. m.ok => Export(o) \subseteq Regs(m.loop)
  BY <1>4, <1>5, <1>7, <1>9 DEF Export
<1> QED
  BY <1>8, <1>9, <1>10, <1>11, FlyingSound

(* The fields of the exporter that only its own decisions read.              *)
LEMMA SameFlight ==
    ASSUME NEW w, Sound(w), NEW o \in OtlpType,
           o.state = w.otlp.state, o.fd = w.otlp.fd, o.cur = w.otlp.cur,
           o.owed = w.otlp.owed, o.carried = w.otlp.carried,
           NEW x, x = [w EXCEPT !.otlp = o]
    PROVE  Sound(x) /\ x.otlp = o /\ x.spans = w.spans
<1>1. w \in World
  BY DEF Sound
<1>2. x \in World /\ x.loop = w.loop /\ x.conns = w.conns /\ x.otlp = o /\ x.spans = w.spans
  BY <1>1 DEF World
<1>3. (Idle(o) <=> Idle(w.otlp)) /\ Export(o) = Export(w.otlp)
  BY DEF Idle, Export
<1> QED
  BY <1>2, <1>3 DEF Sound, Clear, Charged

(* otlp_read: an answer, the end of it, or a failure.                       *)
LEMMA ReadSound ==
    ASSUME NEW w, Sound(w), ~Idle(w.otlp), NEW r \in OtlpRead(w)
    PROVE  Sound(r.world)
<1> DEFINE seen == IF w.otlp.status # "none" THEN {w}
                   ELSE {[w EXCEPT !.otlp.status = c] : c \in {"none", "busy", "other"}}
<1>1. ASSUME NEW x \in seen PROVE Sound(x) /\ ~Idle(x.otlp)
  <2>1. CASE x = w
    BY <2>1
  <2>2. ASSUME NEW c \in {"none", "busy", "other"}, x = [w EXCEPT !.otlp.status = c]
        PROVE  Sound(x) /\ ~Idle(x.otlp)
    <3> DEFINE o == [w.otlp EXCEPT !.status = c]
    <3>1. w.otlp \in OtlpType
      BY WorldFields DEF Sound
    <3>2. /\ o \in OtlpType /\ o.state = w.otlp.state /\ o.fd = w.otlp.fd /\ o.cur = w.otlp.cur
          /\ o.owed = w.otlp.owed /\ o.carried = w.otlp.carried
      BY <3>1 DEF OtlpType
    <3>3. x = [w EXCEPT !.otlp = o]
      BY <2>2
    <3> HIDE DEF o
    <3>4. Sound(x) /\ x.otlp = o
      BY <3>2, <3>3, SameFlight
    <3> QED
      BY <3>2, <3>4 DEF Idle
  <2> QED
    BY <1>1, <2>1, <2>2
<1>2. Flying(w) /\ \A x \in seen : Flying(x)
  BY <1>1, SoundFlying
<1>3. \/ \E x \in seen : r = Stays(x)
      \/ \E x \in seen : r \in OtlpOnResponseDone(x)
      \/ r = Failed(w)
  BY DEF OtlpRead
<1> HIDE DEF seen
<1> QED
  BY <1>1, <1>2, <1>3, EndsSound DEF Stays

(* otlp_write.                                                              *)
LEMMA WriteSound ==
    ASSUME NEW w, Sound(w), ~Idle(w.otlp), NEW r \in OtlpWrite(w)
    PROVE  Sound(r.world)
<1>1. CASE r = Stays(w)
  BY <1>1 DEF Stays
<1>2. CASE r = Failed(w)
  BY <1>2, SoundFlying, EndsSound
<1>3. ASSUME NEW ctl \in BOOLEAN, NEW m, m = LkLoopModFd(w.loop, w.otlp.fd, "in", ctl),
             NEW x, x = [w EXCEPT !.otlp.state = "READ", !.loop = m.loop],
             r \in IF m.ok THEN OtlpRead(x) ELSE {Failed(x)}
      PROVE  Sound(r.world)
  <2>1. Awaited("READ") = "in"
    BY DEF Awaited
  <2>2. Flying(x) /\ ~Idle(x.otlp) /\ (m.ok => Sound(x))
    BY <1>3, <2>1, MovedOn
  <2> QED
    BY <1>3, <2>2, ReadSound, EndsSound
<1> QED
  BY <1>1, <1>2, <1>3 DEF OtlpWrite

(* The connection stands, or does not.                                      *)
LEMMA ConnectedSound ==
    ASSUME NEW w, Sound(w), ~Idle(w.otlp), NEW r \in OtlpConnected(w)
    PROVE  Sound(r.world)
<1>1. CASE r = Failed(w)
  BY <1>1, SoundFlying, EndsSound
<1>2. ASSUME NEW ctl \in BOOLEAN, NEW m, m = LkLoopModFd(w.loop, w.otlp.fd, "out", ctl),
             NEW x, x = [w EXCEPT !.otlp.state = "WRITE", !.loop = m.loop],
             r \in IF m.ok THEN OtlpWrite(x) ELSE {Failed(x)}
      PROVE  Sound(r.world)
  <2>1. Awaited("WRITE") = "out"
    BY DEF Awaited
  <2>2. Flying(x) /\ ~Idle(x.otlp) /\ (m.ok => Sound(x))
    BY <1>2, <2>1, MovedOn
  <2> QED
    BY <1>2, <2>2, WriteSound, EndsSound
<1> QED
  BY <1>1, <1>2 DEF OtlpConnected

(* An event of the collector's socket.                                      *)
LEMMA OnConnSound ==
    ASSUME NEW w, Sound(w), ~Idle(w.otlp), NEW r \in OtlpOnConn(w)
    PROVE  Sound(r.world)
<1>1. w.otlp.state \in {"CONNECT", "WRITE", "READ"}
  BY WorldFields DEF Sound, Idle, OtlpType
<1> QED
  BY <1>1, ConnectedSound, WriteSound, ReadSound DEF OtlpOnConn

(* A request is built: charged, and not in flight yet.                       *)
Built(w) ==
    /\ w \in World
    /\ LoopOK(w.loop)
    /\ Idle(w.otlp) /\ w.otlp.fd = NULL
    /\ Regs(w.loop) = Standing \union Clients(w.conns)
    /\ Charged(w.otlp, w.spans)

(* otlp_build_request charges the request.                                  *)
LEMMA BuildBuilt ==
    ASSUME NEW w, Sound(w), Idle(w.otlp), NEW sig \in Signal
    PROVE  Built(OtlpBuildRequest(w, sig))
<1> DEFINE k == [w.otlp.owed EXCEPT ![sig] = @ + 1]
           o == [w.otlp EXCEPT !.cur = sig, !.owed = k]
           ot == [o EXCEPT !.carried = w.spans.count]
           b == OtlpBuildRequest(w, sig)
           p == LkSpansDrain(w.spans)
<1>1. w \in World /\ w.otlp \in OtlpType /\ w.spans \in SpanType
  BY WorldFields DEF Sound
<1>2. /\ w.otlp.owed \in [Signal -> Int] /\ w.spans.count \in Nat
      /\ \A g \in Signal : w.otlp.owed[g] = 0
      /\ w.otlp.carried = 0 /\ w.spans.owed = w.spans.count
  BY <1>1 DEF OtlpType, SpanType, Sound, Clear
<1>3. k \in [Signal -> Int] /\ \A g \in Signal : k[g] = IF sig = g THEN 1 ELSE 0
  BY <1>2
<1>4. o \in OtlpType /\ o.cur = sig /\ o.owed = k /\ o.fd = w.otlp.fd /\ o.state = w.otlp.state
      /\ o.carried = w.otlp.carried
  <2> HIDE DEF k
  <2> QED
    BY <1>1, <1>3 DEF OtlpType
<1>5. [w EXCEPT !.otlp.cur = sig, !.otlp.owed[sig] = @ + 1] = [w EXCEPT !.otlp = o]
  BY <1>1 DEF World, OtlpType
<1> HIDE DEF k, o
<1>6. /\ ot \in OtlpType /\ ot.cur = sig /\ ot.owed = k /\ ot.fd = w.otlp.fd /\ ot.state = w.otlp.state
      /\ ot.carried = w.spans.count
  BY <1>2, <1>4 DEF OtlpType
<1>7. p \in SpanType /\ p.count = 0 /\ p.owed = w.spans.owed
  BY <1>1 DEF SpanType, LkSpansDrain
<1>8. CASE sig = "traces"
  <2> DEFINE n == [w EXCEPT !.otlp = o]
  <2>1. b = [n EXCEPT !.otlp.carried = w.spans.count, !.spans = p]
    BY <1>5, <1>8 DEF OtlpBuildRequest
  <2>2. n.otlp = o /\ [n EXCEPT !.otlp = ot] = [w EXCEPT !.otlp = ot]
    BY <1>1 DEF World
  <2> HIDE DEF n
  <2>3. b = [w EXCEPT !.otlp = ot, !.spans = p]
    BY <2>1, <2>2
  <2> HIDE DEF b, ot, p
  <2>4. b \in World /\ b.loop = w.loop /\ b.conns = w.conns /\ b.otlp = ot /\ b.spans = p
    BY <1>1, <1>6, <1>7, <2>3 DEF World
  <2>5. Charged(ot, p)
    BY <1>2, <1>3, <1>6, <1>7 DEF Charged
  <2>6. Built(b)
    BY <1>6, <2>4, <2>5 DEF Built, Sound, Idle, Export
  <2> QED
    BY <2>6 DEF b
<1>9. CASE sig = "metrics"
  <2>1. b = [w EXCEPT !.otlp = o]
    BY <1>5, <1>9 DEF OtlpBuildRequest
  <2> HIDE DEF b, ot, p
  <2>2. b \in World /\ b.loop = w.loop /\ b.conns = w.conns /\ b.otlp = o /\ b.spans = w.spans
    BY <1>1, <1>4, <2>1 DEF World
  <2>3. Charged(o, w.spans)
    BY <1>2, <1>3, <1>4 DEF Charged
  <2>4. Built(b)
    BY <1>4, <2>2, <2>3 DEF Built, Sound, Idle, Export
  <2> QED
    BY <2>4 DEF b
<1> QED
  BY <1>8, <1>9 DEF Signal

(* A connection is begun: in flight, or refused, counted and torn down.     *)
LEMMA LaunchedSound ==
    ASSUME NEW w, Built(w), NEW st \in {"CONNECT", "WRITE"}, NEW ctl \in BOOLEAN,
           NEW r \in Launched(w, st, ctl)
    PROVE  Sound(r.world)
<1> DEFINE fd == NewFd(w.loop)
           o == [w.otlp EXCEPT !.state = st, !.fd = fd, !.ttl = OtlpTimeout]
           x == [w EXCEPT !.otlp.state = st, !.otlp.fd = fd, !.otlp.ttl = OtlpTimeout]
           a == LkLoopAddFd(w.loop, fd, <<"otlp">>, ctl)
           m == LkLoopModFd(a.loop, fd, "out", ctl)
           y == [x EXCEPT !.loop = m.loop]
           z == [x EXCEPT !.loop = a.loop]
           e == [fd |-> fd, owner |-> <<"otlp">>, wants |-> "in"]
<1>1. w \in World /\ w.otlp \in OtlpType /\ LoopOK(w.loop) /\ w.loop \in LoopType
  BY WorldFields DEF Built
<1>2. fd \in 1 .. NFds + 1 /\ fd \in Nat /\ \A q \in Regs(w.loop) : q.fd # fd
  BY <1>1, NewFdFresh, FdsAssumption
<1>3. IF ~a.ok \/ ~m.ok THEN r = Stays(OtlpFinish(Counted(z)))
      ELSE IF st = "WRITE" THEN r \in OtlpWrite(y) ELSE r = Stays(y)
  BY DEF Launched
<1>4. x = [w EXCEPT !.otlp = o]
  BY <1>1 DEF World
<1> HIDE DEF fd
<1>5. /\ o \in OtlpType /\ o.state = st /\ o.fd = fd /\ o.cur = w.otlp.cur
      /\ o.owed = w.otlp.owed /\ o.carried = w.otlp.carried
  BY <1>1, <1>2, OtlpAssumption DEF OtlpType
<1>6. /\ LoopOK(a.loop)
      /\ a.ok => Regs(a.loop) = Regs(w.loop) \union {e}
      /\ ~a.ok => a.loop = w.loop
  BY <1>1, <1>2, Owners, AddLemma
<1> HIDE DEF a, o, x
<1>7. /\ LoopOK(m.loop)
      /\ {q \in Regs(m.loop) : q.fd # fd} = {q \in Regs(a.loop) : q.fd # fd}
      /\ m.ok => \A q \in Regs(a.loop) : q.fd = fd =>
                    [fd |-> fd, owner |-> q.owner, wants |-> "out"] \in Regs(m.loop)
  BY <1>6, ModLemma
<1> HIDE DEF m
<1>8. {q \in Regs(a.loop) : q.fd # fd} = Standing \union Clients(w.conns)
  BY <1>2, <1>6 DEF Built
<1>9. ~Idle(o)
  BY <1>5 DEF Idle
<1>10. ASSUME NEW l, NEW v, v = [x EXCEPT !.loop = l], LoopOK(l),
              {q \in Regs(l) : q.fd # fd} = Standing \union Clients(w.conns)
       PROVE  Flying(v) /\ v.loop = l /\ v.otlp = o
  <2>1. v \in World /\ v.loop = l /\ v.conns = w.conns /\ v.otlp = o /\ v.spans = w.spans
    BY <1>1, <1>4, <1>5, <1>10 DEF World, LoopOK
  <2> QED
    BY <1>2, <1>5, <1>9, <1>10, <2>1 DEF Flying, Built, Charged
<1>11. Flying(z) /\ Flying(y) /\ y.loop = m.loop /\ y.otlp = o
  BY <1>6, <1>7, <1>8, <1>10
<1>12. CASE ~a.ok \/ ~m.ok
  BY <1>3, <1>11, <1>12, FlyingDone, FinishSound DEF Stays
<1>13. CASE a.ok /\ m.ok
  <2>1. e \in Regs(a.loop) /\ e.fd = fd /\ e.owner = <<"otlp">>
    BY <1>6, <1>13
  <2>2. Export(o) = {[fd |-> fd, owner |-> <<"otlp">>, wants |-> "out"]}
    BY <1>5, <1>9 DEF Export, Awaited
  <2>3. Export(y.otlp) \subseteq Regs(y.loop)
    BY <1>7, <1>11, <1>13, <2>1, <2>2
  <2>4. Sound(y) /\ ~Idle(y.otlp)
    BY <1>9, <1>11, <2>3, FlyingSound
  <2>5. r \in OtlpWrite(y) \/ r = Stays(y)
    BY <1>3, <1>13
  <2> HIDE DEF y
  <2> QED
    BY <2>4, <2>5, WriteSound DEF Stays
<1>14. a.ok \in BOOLEAN /\ m.ok \in BOOLEAN
  BY DEF a, m, LkLoopAddFd, LkLoopModFd
<1> QED
  BY <1>12, <1>13

(* otlp_send up to its return, whichever way it goes.                       *)
LEMMA BegunSound ==
    ASSUME NEW w, Sound(w), Idle(w.otlp), NEW sig \in Signal, NEW r \in Begun(w, sig)
    PROVE  Sound(r.world)
<1> DEFINE b == OtlpBuildRequest(w, sig)
<1>1. Built(b)
  BY BuildBuilt
<1>2. \/ r = Stays(Counted(b))
      \/ \E st \in {"CONNECT", "WRITE"}, ctl \in BOOLEAN : r \in Launched(b, st, ctl)
  BY DEF Begun
<1> HIDE DEF b
<1>3. CASE r = Stays(Counted(b))
  <2> DEFINE c == Counted(b)
  <2>1. b \in World /\ Charged(b.otlp, b.spans)
    BY <1>1 DEF Built
  <2>2. /\ c \in World /\ c.loop = b.loop /\ c.conns = b.conns /\ c.otlp.fd = b.otlp.fd
        /\ c.otlp.state = b.otlp.state /\ Clear(c.otlp, c.spans)
    BY <2>1, CountedFields
  <2>3. Sound(c)
    BY <1>1, <2>2 DEF Sound, Built, Idle, Export
  <2> QED
    BY <1>3, <2>3 DEF Stays
<1> QED
  BY <1>1, <1>2, <1>3, LaunchedSound

(* otlp_maybe_traces.                                                       *)
LEMMA MaybeTracesSound ==
    ASSUME NEW w, Sound(w), NEW v \in OtlpMaybeTraces(w)
    PROVE  Sound(v)
<1> DEFINE o == [w.otlp EXCEPT !.pending_traces = FALSE]
           x == [w EXCEPT !.otlp.pending_traces = FALSE]
<1>1. w.otlp \in OtlpType
  BY WorldFields DEF Sound
<1>2. /\ o \in OtlpType /\ o.state = w.otlp.state /\ o.fd = w.otlp.fd /\ o.cur = w.otlp.cur
      /\ o.owed = w.otlp.owed /\ o.carried = w.otlp.carried
  BY <1>1 DEF OtlpType
<1>3. x = [w EXCEPT !.otlp = o]
  OBVIOUS
<1>4. \/ v = w \/ v = x
      \/ Idle(w.otlp) /\ \E r \in Begun(x, "traces") : v = r.world
  BY DEF OtlpMaybeTraces
<1> HIDE DEF o, x
<1>5. Sound(x) /\ x.otlp = o
  BY <1>2, <1>3, SameFlight
<1>6. "traces" \in Signal /\ (Idle(w.otlp) => Idle(x.otlp))
  BY <1>2, <1>5 DEF Signal, Idle
<1> QED
  BY <1>4, <1>5, <1>6, BegunSound

(* otlp_after.                                                              *)
LEMMA AfterSound ==
    ASSUME NEW r, Sound(r.world), NEW v \in OtlpAfter(r)
    PROVE  Sound(v)
BY MaybeTracesSound DEF OtlpAfter

(* otlp_send.                                                               *)
LEMMA SendSound ==
    ASSUME NEW w, Sound(w), Idle(w.otlp), NEW sig \in Signal, NEW v \in OtlpSend(w, sig)
    PROVE  Sound(v)
BY BegunSound, AfterSound DEF OtlpSend

(* on_otlp_conn.                                                            *)
LEMMA OnOtlpConnSound ==
    ASSUME NEW w, Sound(w), ~Idle(w.otlp), NEW v \in OnOtlpConn(w)
    PROVE  Sound(v)
BY OnConnSound, AfterSound DEF OnOtlpConn

(* The spans that wait are noted.                                           *)
LEMMA PendingSound ==
    ASSUME NEW w, Sound(w), NEW b \in BOOLEAN, NEW x, x = [w EXCEPT !.otlp.pending_traces = b]
    PROVE  Sound(x) /\ (Idle(x.otlp) <=> Idle(w.otlp))
<1> DEFINE o == [w.otlp EXCEPT !.pending_traces = b]
<1>1. w.otlp \in OtlpType
  BY WorldFields DEF Sound
<1>2. /\ o \in OtlpType /\ o.state = w.otlp.state /\ o.fd = w.otlp.fd /\ o.cur = w.otlp.cur
      /\ o.owed = w.otlp.owed /\ o.carried = w.otlp.carried
  BY <1>1 DEF OtlpType
<1> DEFINE z == [w EXCEPT !.otlp = o]
<1>3. x = z
  OBVIOUS
<1> HIDE DEF o
<1>4. Sound(z) /\ z.otlp = o
  BY ONLY <1>2, Sound(w), SameFlight
<1> HIDE DEF z
<1> QED
  BY <1>2, <1>3, <1>4 DEF Idle

(* The exporter's tick.                                                     *)
LEMMA OnTickSound ==
    ASSUME NEW w, Sound(w), NEW v \in OnTick(w)
    PROVE  Sound(v)
<1> DEFINE b == w.otlp.pending_traces \/ w.spans.count > 0
           x == [w EXCEPT !.otlp.pending_traces = b]
<1>1. b \in BOOLEAN
  OBVIOUS
<1>2. v = w \/ v = x \/ (Idle(w.otlp) /\ v \in OtlpSend(x, "metrics"))
  BY DEF OnTick
<1> HIDE DEF b
<1>3. Sound(x) /\ (Idle(x.otlp) <=> Idle(w.otlp))
  BY <1>1, PendingSound
<1> HIDE DEF x
<1> QED
  BY <1>2, <1>3, SendSound DEF Signal

(* The exporter's sweep.                                                    *)
LEMMA OtlpSweepSound ==
    ASSUME NEW w, Sound(w), NEW v \in OnOtlpSweep(w)
    PROVE  Sound(v)
BY SoundFlying, EndsSound, AfterSound DEF OnOtlpSweep

(* The watermark's callback.                                                *)
LEMMA WatermarkSound ==
    ASSUME NEW w, Sound(w), NEW v \in OtlpOnWatermark(w)
    PROVE  Sound(v)
BY PendingSound, MaybeTracesSound DEF OtlpOnWatermark

-----------------------------------------------------------------------------
(* The endpoint.                                                            *)

Client(cs, i) == [fd |-> cs[i].fd, owner |-> ConnOwner(i), wants |-> Awaited(cs[i].state)]

(* Every open client has its registration, and its file is nobody else's.   *)
LEMMA ClientFacts ==
    ASSUME NEW w, Sound(w)
    PROVE  /\ \A i \in Open(w.conns) : Client(w.conns, i) \in Regs(w.loop)
           /\ \A i, j \in Open(w.conns) : w.conns[i].fd = w.conns[j].fd => i = j
           /\ \A i \in Open(w.conns) : \A r \in Standing \union Export(w.otlp) : r.fd # w.conns[i].fd
<1>1. LoopOK(w.loop)
  BY DEF Sound
<1>2. \A i : Client(w.conns, i).fd = w.conns[i].fd /\ Client(w.conns, i).owner = ConnOwner(i)
  BY DEF Client
<1>3. \A i \in Open(w.conns) : Client(w.conns, i) \in Regs(w.loop)
  BY DEF Client, Clients, Sound
<1>4. \A r \in Standing \union Export(w.otlp) : r \in Regs(w.loop)
  BY DEF Sound
<1>5. \A r \in Standing \union Export(w.otlp) : \A i : r.owner # ConnOwner(i)
  BY Owners
<1>6. \A i, j \in Open(w.conns) : w.conns[i].fd = w.conns[j].fd => i = j
  BY <1>1, <1>2, <1>3, OneFile, Owners
<1>7. \A i \in Open(w.conns) : \A r \in Standing \union Export(w.otlp) : r.fd # w.conns[i].fd
  BY <1>1, <1>2, <1>3, <1>4, <1>5, OneFile
<1> QED
  BY <1>3, <1>6, <1>7

(* The registrations of the clients, one by one.                            *)
LEMMA ClientsDef ==
    ASSUME NEW cs, NEW r
    PROVE  r \in Clients(cs) <=> \E i \in Open(cs) : r = Client(cs, i)
BY DEF Clients, Client

(* conn_close of any of the open clients.                                   *)
LEMMA CloseAllSound ==
    ASSUME NEW w, Sound(w), NEW late \in SUBSET Open(w.conns)
    PROVE  Sound(CloseAll(w, late))
<1> DEFINE F == {w.conns[i].fd : i \in late}
           d == LkLoopDelFds(w.loop, F)
           cs == [i \in Place |-> IF i \in late THEN Free ELSE w.conns[i]]
<1>1. w.conns \in [Place -> ConnType]
  BY WorldFields DEF Sound
<1>2. cs \in [Place -> ConnType]
  BY <1>1 DEF Free, ConnType
<1>3. LoopOK(d) /\ Regs(d) = {r \in Regs(w.loop) : r.fd \notin F}
  BY DelLemma DEF Sound
<1>4. CloseAll(w, late) = [w EXCEPT !.loop = d, !.conns = cs]
  BY DEF CloseAll
<1>5. \A i : i \in Open(cs) <=> i \in Open(w.conns) /\ i \notin late
  BY DEF Open, Free
<1>6. \A i \in Open(cs) : cs[i] = w.conns[i] /\ Client(cs, i) = Client(w.conns, i)
  BY <1>5 DEF Open, Client
<1>7. \A i \in Open(w.conns) : Client(w.conns, i).fd = w.conns[i].fd
  BY DEF Client
<1>8. \A i \in Open(w.conns) : w.conns[i].fd \in F <=> i \in late
  BY ClientFacts
<1>9. \A r \in Standing \union Export(w.otlp) : r.fd \notin F
  BY ClientFacts
<1> HIDE DEF d, cs, F
<1>10. \A r : r \in Regs(w.loop) /\ r.fd \notin F
               <=> r \in Standing \union Clients(cs) \union Export(w.otlp)
  <2>1. ASSUME NEW r PROVE r \in Clients(cs) <=> r \in Clients(w.conns) /\ r.fd \notin F
    BY <1>5, <1>6, <1>7, <1>8, ClientsDef
  <2> QED
    BY <1>9, <2>1 DEF Sound
<1>11. Regs(d) = Standing \union Clients(cs) \union Export(w.otlp)
  BY <1>3, <1>10
<1> DEFINE x == CloseAll(w, late)
<1>12. w \in World
  BY DEF Sound
<1>13. x \in World /\ x.loop = d /\ x.conns = cs /\ x.otlp = w.otlp /\ x.spans = w.spans
  BY <1>2, <1>3, <1>4, <1>12 DEF World, LoopOK
<1> HIDE DEF x
<1>14. Sound(x)
  BY <1>3, <1>11, <1>13 DEF Sound
<1> QED
  BY <1>14 DEF x

(* conn_write.                                                              *)
LEMMA ConnWriteSound ==
    ASSUME NEW w, Sound(w), NEW i \in Open(w.conns), NEW v \in ConnWrite(w, i)
    PROVE  Sound(v)
BY CloseAllSound DEF ConnWrite, ConnClose

(* The change from reading to writing.                                      *)
LEMMA AnsweringSound ==
    ASSUME NEW w, Sound(w), NEW i \in Open(w.conns), NEW ctl \in BOOLEAN, NEW v \in Answering(w, i, ctl)
    PROVE  Sound(v)
<1> DEFINE fd == w.conns[i].fd
           m == LkLoopModFd(w.loop, fd, "out", ctl)
           c == [w.conns[i] EXCEPT !.state = "WRITE"]
           cs == [w.conns EXCEPT ![i] = c]
           y == [w EXCEPT !.loop = m.loop, !.conns = cs]
           e == [fd |-> fd, owner |-> ConnOwner(i), wants |-> "out"]
<1>1. w \in World /\ w.conns \in [Place -> ConnType] /\ LoopOK(w.loop) /\ i \in Place
  BY WorldFields DEF Sound, Open
<1>2. IF m.ok THEN v \in ConnWrite(y, i) ELSE v = ConnClose(w, i)
  BY <1>1 DEF Answering, World
<1>3. CASE ~m.ok
  BY <1>2, <1>3, CloseAllSound DEF ConnClose
<1>4. CASE m.ok
  <2> HIDE DEF fd
  <2>1. /\ LoopOK(m.loop)
        /\ {r \in Regs(m.loop) : r.fd # fd} = {r \in Regs(w.loop) : r.fd # fd}
        /\ \A r \in Regs(w.loop) : r.fd = fd =>
              [fd |-> fd, owner |-> r.owner, wants |-> "out"] \in Regs(m.loop)
    <3>1. "out" \in {"in", "out"} /\ LoopOK(w.loop) /\ m.ok
      BY <1>1, <1>4
    <3>2. LoopOK(m.loop)
      BY ONLY <3>1, ctl \in BOOLEAN, ModLemma
    <3>3. {r \in Regs(m.loop) : r.fd # fd} = {r \in Regs(w.loop) : r.fd # fd}
      BY ONLY <3>1, ctl \in BOOLEAN, ModLemma
    <3>4. \A r \in Regs(w.loop) : r.fd = fd =>
             [fd |-> fd, owner |-> r.owner, wants |-> "out"] \in Regs(m.loop)
      BY ONLY <3>1, ctl \in BOOLEAN, ModLemma
    <3> QED
      BY <3>2, <3>3, <3>4
  <2>2. Client(w.conns, i) \in Regs(w.loop) /\ Client(w.conns, i).fd = fd
        /\ Client(w.conns, i).owner = ConnOwner(i)
    BY ClientFacts DEF Client, fd
  <2> HIDE DEF m
  <2>3. e \in Regs(m.loop) /\ e.fd = fd
    BY <2>1, <2>2
  <2>4. cs \in [Place -> ConnType] /\ c.state = "WRITE" /\ c.fd = fd
    BY <1>1 DEF ConnType, fd
  <2>5. cs[i] = c /\ \A j \in Place \ {i} : cs[j] = w.conns[j]
    BY <1>1
  <2>6. Open(cs) = Open(w.conns)
    <3> HIDE DEF c, cs
    <3> QED
      BY <2>4, <2>5 DEF Open
  <2>7. /\ Client(cs, i) = e
        /\ \A j \in Open(cs) \ {i} : Client(cs, j) = Client(w.conns, j) /\ Client(cs, j).fd # fd
    <3>1. \A j \in Open(cs) \ {i} : w.conns[j].fd # fd /\ j \in Place
      BY <2>6, ClientFacts DEF Open, fd
    <3> HIDE DEF c, cs
    <3> QED
      BY <2>4, <2>5, <3>1 DEF Client, Awaited
  <2>8. \A r \in Regs(m.loop) : r.fd = fd => r = e
    <3> HIDE DEF e
    <3> QED
      BY <2>1, <2>3, OneFile
  <2> HIDE DEF c, cs, e
  <2>9. \A r : r.fd # fd => (r \in Clients(cs) <=> r \in Clients(w.conns))
    BY <2>2, <2>3, <2>6, <2>7, ClientsDef
  <2>10. \A r \in Clients(cs) : r.fd = fd => r = e
    BY <2>7, ClientsDef
  <2>11. e \in Clients(cs)
    BY <2>6, <2>7, ClientsDef
  <2>12. \A r \in Standing \union Export(w.otlp) : r.fd # fd
    BY ClientFacts DEF fd
  <2>13. \A r \in Regs(m.loop) : r \in Standing \union Clients(cs) \union Export(w.otlp)
    BY <2>1, <2>8, <2>9, <2>11 DEF Sound
  <2>14. \A r \in Standing \union Clients(cs) \union Export(w.otlp) : r \in Regs(m.loop)
    BY <2>1, <2>3, <2>9, <2>10, <2>12 DEF Sound
  <2>15. Regs(m.loop) = Standing \union Clients(cs) \union Export(w.otlp)
    BY <2>13, <2>14
  <2>16. y \in World /\ y.loop = m.loop /\ y.conns = cs /\ y.otlp = w.otlp /\ y.spans = w.spans
    BY <1>1, <2>1, <2>4 DEF World, LoopOK
  <2>17. Sound(y) /\ y.conns = cs
    <3> HIDE DEF y
    <3> QED
      BY <2>1, <2>15, <2>16 DEF Sound
  <2>18. v \in ConnWrite(y, i) /\ i \in Open(y.conns)
    BY <1>2, <1>4, <2>6, <2>17
  <2> HIDE DEF y
  <2> QED
    BY <2>17, <2>18, ConnWriteSound
<1> QED
  BY <1>3, <1>4

(* on_conn.                                                                 *)
LEMMA HttpConnSound ==
    ASSUME NEW w, Sound(w), NEW i \in Open(w.conns), NEW v \in OnConn(w, i)
    PROVE  Sound(v)
<1>1. CASE v \in ConnWrite(w, i)
  BY <1>1, ConnWriteSound
<1>2. CASE v = w
  BY <1>2
<1>3. CASE v = ConnClose(w, i)
  BY <1>3, CloseAllSound DEF ConnClose
<1>4. CASE \E ctl \in BOOLEAN : v \in Answering(w, i, ctl)
  BY <1>4, AnsweringSound
<1>5. \A x \in UNION {Answering(w, i, ctl) : ctl \in BOOLEAN} : \E ctl \in BOOLEAN : x \in Answering(w, i, ctl)
  OBVIOUS
<1> QED
  BY <1>1, <1>2, <1>3, <1>4, <1>5 DEF OnConn, ConnRead

(* One client of on_accept.                                                 *)
LEMMA AcceptedSound ==
    ASSUME NEW w, Sound(w), NEW ctl \in BOOLEAN
    PROVE  Sound(Accepted(w, ctl))
<1> DEFINE free == {j \in Place : w.conns[j].state = "FREE"}
           i == Min(free)
           fd == NewFd(w.loop)
           a == LkLoopAddFd(w.loop, fd, ConnOwner(i), ctl)
           c == [state |-> "READ", fd |-> fd, ttl |-> HttpTimeout]
           cs == [w.conns EXCEPT ![i] = c]
           e == [fd |-> fd, owner |-> ConnOwner(i), wants |-> "in"]
           x == [w EXCEPT !.loop = a.loop, !.conns = cs]
<1>1. /\ w \in World /\ w.conns \in [Place -> ConnType]
      /\ LoopOK(w.loop) /\ w.loop \in LoopType
  BY WorldFields DEF Sound
<1>2. CASE free = {} \/ ~a.ok
  BY <1>2 DEF Accepted
<1>3. CASE free # {} /\ a.ok
  <2>1. Accepted(w, ctl) = x
    BY <1>1, <1>3 DEF Accepted, World
  <2>2. free \in SUBSET Nat
    BY HttpAssumption DEF Place
  <2>3. i \in free
    BY <1>3, <2>2, MinLemma
  <2>4. i \in Place /\ i \notin Open(w.conns)
    BY <2>3 DEF Open
  <2>5. fd \in 1 .. NFds + 1 /\ fd \in Nat /\ \A r \in Regs(w.loop) : r.fd # fd
    BY <1>1, NewFdFresh, FdsAssumption
  <2> HIDE DEF i, fd
  <2>6. ConnOwner(i) \in Owner
    BY <2>4, Owners
  <2>7. LoopOK(a.loop) /\ Regs(a.loop) = Regs(w.loop) \union {e}
    BY <1>1, <1>3, <2>5, <2>6, AddLemma
  <2> HIDE DEF a
  <2>8. c \in ConnType /\ c.state = "READ" /\ c.fd = fd
    BY <2>5, HttpAssumption DEF ConnType
  <2> HIDE DEF c
  <2>9. cs \in [Place -> ConnType] /\ cs[i] = c /\ \A j \in Place \ {i} : cs[j] = w.conns[j]
    BY <1>1, <2>4, <2>8
  <2> HIDE DEF cs
  <2>10. \A j : j \in Open(cs) <=> j \in Open(w.conns) \/ j = i
    BY <2>4, <2>8, <2>9 DEF Open
  <2>11. Client(cs, i) = e /\ \A j \in Open(w.conns) : Client(cs, j) = Client(w.conns, j)
    BY <2>4, <2>8, <2>9 DEF Client, Awaited, Open
  <2> HIDE DEF e
  <2>12. \A r : r \in Clients(cs) <=> r \in Clients(w.conns) \/ r = e
    BY <2>10, <2>11, ClientsDef
  <2>13. Regs(a.loop) = Standing \union Clients(cs) \union Export(w.otlp)
    BY <2>7, <2>12 DEF Sound
  <2>14. x \in World /\ x.loop = a.loop /\ x.conns = cs /\ x.otlp = w.otlp /\ x.spans = w.spans
    BY <1>1, <2>7, <2>9 DEF World, LoopOK
  <2> HIDE DEF x
  <2>15. Sound(x)
    BY <2>7, <2>13, <2>14 DEF Sound
  <2> QED
    BY <2>1, <2>15
<1> QED
  BY <1>2, <1>3

(* The endpoint's sweep.                                                    *)
LEMMA HttpSweepSound ==
    ASSUME NEW w, Sound(w)
    PROVE  Sound(OnHttpSweep(w))
<1> DEFINE late == {i \in Place : w.conns[i].state # "FREE" /\ w.conns[i].ttl = 0}
<1>1. late \in SUBSET Open(w.conns)
  BY DEF Open
<1> QED
  BY <1>1, CloseAllSound DEF OnHttpSweep

-----------------------------------------------------------------------------
(* The observations.                                                        *)

(* The collector counts what it keeps.                                      *)
LEMMA SpansSound ==
    ASSUME NEW s \in SpanType, NEW o, NEW memory, NEW q, q = SpansOnQuery(s, o, memory)
    PROVE  q.spans \in SpanType /\ q.spans.owed - q.spans.count = s.owed - s.count
<1> DEFINE fires == ~s.wm_fired /\ s.count + 1 >= Watermark
           b == s.wm_fired \/ fires
           c == s.count + 1
           d == s.owed + 1
           p == [s EXCEPT !.count = c, !.owed = d, !.wm_fired = b]
<1>1. q.spans = s \/ q.spans = p
  BY DEF SpansOnQuery
<1>2. s.count \in Nat /\ s.owed \in Int /\ b \in BOOLEAN
  BY DEF SpanType
<1>3. c \in Nat /\ d \in Int /\ d - c = s.owed - s.count
  BY <1>2
<1> HIDE DEF b, c, d
<1>4. p \in SpanType /\ p.count = c /\ p.owed = d
  BY <1>2, <1>3 DEF SpanType
<1> HIDE DEF p
<1> QED
  BY <1>1, <1>3, <1>4

(* An observation, with the export its span may set off.                    *)
LEMMA QuerySound ==
    ASSUME NEW w, Sound(w), NEW o, NEW memory, NEW v \in EvOnQuery(w, o, memory)
    PROVE  Sound(v)
<1> DEFINE q == SpansOnQuery(w.spans, o, memory)
           p == q.spans
           x == [w EXCEPT !.spans = p]
<1>1. w \in World /\ w.spans \in SpanType /\ w.otlp \in OtlpType
  BY WorldFields DEF Sound
<1>2. p \in SpanType /\ p.owed - p.count = w.spans.owed - w.spans.count
  BY <1>1, SpansSound
<1>3. v = x \/ v \in OtlpOnWatermark(x)
  BY DEF EvOnQuery
<1> HIDE DEF p
<1>4. x \in World /\ x.loop = w.loop /\ x.conns = w.conns /\ x.otlp = w.otlp /\ x.spans = p
  BY <1>1, <1>2 DEF World
<1>5. p.owed \in Int /\ p.count \in Nat /\ w.spans.owed \in Int /\ w.spans.count \in Nat /\ w.otlp.carried \in Nat
  BY <1>1, <1>2 DEF SpanType, OtlpType
<1>6. /\ Clear(w.otlp, w.spans) => Clear(w.otlp, p)
      /\ Charged(w.otlp, w.spans) => Charged(w.otlp, p)
  <2>1. /\ w.spans.owed = w.spans.count => p.owed = p.count
        /\ w.spans.owed = w.spans.count + w.otlp.carried => p.owed = p.count + w.otlp.carried
    BY <1>2, <1>5
  <2> QED
    BY <2>1 DEF Clear, Charged
<1> HIDE DEF x
<1>7. Sound(x)
  BY <1>4, <1>6 DEF Sound
<1> QED
  BY <1>3, <1>7, WatermarkSound

-----------------------------------------------------------------------------
(* The steps of the loop.                                                   *)

(* The loop moves within its batch, under the same registrations.           *)
LEMMA SameRegs ==
    ASSUME NEW w, Sound(w), NEW l, LoopOK(l), Regs(l) = Regs(w.loop), NEW x, x = [w EXCEPT !.loop = l]
    PROVE  Sound(x) /\ x.loop = l /\ x.conns = w.conns /\ x.otlp = w.otlp /\ x.spans = w.spans
<1>1. w \in World
  BY DEF Sound
<1>2. x \in World /\ x.loop = l /\ x.conns = w.conns /\ x.otlp = w.otlp /\ x.spans = w.spans
  BY <1>1 DEF World, LoopOK
<1> QED
  BY <1>2 DEF Sound

(* Into the next state, within a handler's loop,                            *)
LEMMA BecomeSound ==
    ASSUME NEW w, Sound(w), Become(w)
    PROVE  Sound(Now') /\ LoopOK(loop')
<1>1. w = [loop |-> w.loop, conns |-> w.conns, otlp |-> w.otlp, spans |-> w.spans]
  BY WorldFields DEF Sound
<1>2. Now' = w
  BY <1>1 DEF Become, Now
<1> QED
  BY <1>2 DEF Sound, Become

(* at the end of a handler,                                                 *)
LEMMA ReturnsSound ==
    ASSUME NEW w, Sound(w), Returns(w)
    PROVE  Sound(Now') /\ LoopOK(loop')
<1> DEFINE x == [w EXCEPT !.loop = Settled(w.loop)]
<1>1. LoopOK(w.loop)
  BY DEF Sound
<1>2. Sound(x)
  BY <1>1, BatchLemma, SameRegs
<1>3. Become(x)
  BY DEF Returns
<1> HIDE DEF x
<1> QED
  BY <1>2, <1>3, BecomeSound

(* and where a handler fails.                                               *)
LEMMA FailsSound ==
    ASSUME NEW w, Sound(w), HandlerFails(w)
    PROVE  Sound(Now') /\ LoopOK(loop')
<1> DEFINE l == [w.loop EXCEPT !.batch = {}, !.stale = {}]
           x == [w EXCEPT !.loop = l]
<1>1. LoopOK(w.loop) /\ w \in World
  BY DEF Sound
<1>2. LoopOK(l) /\ Regs(l) = Regs(w.loop)
  BY <1>1, BatchLemma
<1>3. Returns(x)
  BY <1>1 DEF HandlerFails, World
<1> HIDE DEF l
<1>4. Sound(x)
  BY <1>2, SameRegs
<1> HIDE DEF x
<1> QED
  BY <1>3, <1>4, ReturnsSound

(* Every event is some owner's, and the owner of it is there.                *)
LEMMA DispatchOwner ==
    ASSUME Sound(Now), NEW s \in loop.batch, loop.fds[s] # NULL,
           NEW w, w = [Now EXCEPT !.loop = Taken(loop, s)]
    PROVE  /\ Sound(w)
           /\ loop.fds[s].owner = <<"otlp">> => ~Idle(w.otlp)
           /\ loop.fds[s].owner[1] = "conn" => loop.fds[s].owner[2] \in Open(w.conns)
<1> DEFINE r == loop.fds[s]
<1>1. Now.loop = loop /\ Now.conns = conns /\ Now.otlp = otlp /\ Now.spans = spans
  BY DEF Now
<1>2. LoopOK(loop) /\ loop \in LoopType
  BY <1>1 DEF Sound, LoopOK
<1>3. s \in Slot
  BY <1>2 DEF LoopType
<1>4. r \in Regs(loop)
  BY <1>3 DEF Regs, Active
<1>5. LoopOK(Taken(loop, s)) /\ Regs(Taken(loop, s)) = Regs(loop)
  BY <1>2, BatchLemma
<1>6. Sound(w) /\ w.conns = conns /\ w.otlp = otlp
  <2> DEFINE l == Taken(loop, s)
             n == Now
             x == [n EXCEPT !.loop = l]
  <2>1. LoopOK(l) /\ Regs(l) = Regs(n.loop) /\ Sound(n) /\ w = x
    BY <1>1, <1>5
  <2>2. n.conns = conns /\ n.otlp = otlp
    BY <1>1
  <2> HIDE DEF l, n
  <2>3. Sound(x) /\ x.conns = n.conns /\ x.otlp = n.otlp
    BY ONLY <2>1, SameRegs
  <2> HIDE DEF x
  <2> QED
    BY <2>1, <2>2, <2>3
<1>7. r \in Standing \union Clients(conns) \union Export(otlp)
  BY <1>1, <1>4 DEF Sound
<1> HIDE DEF r
<1>8. r.owner = <<"otlp">> => ~Idle(otlp)
  BY <1>7, Owners
<1>9. r.owner[1] = "conn" => r.owner[2] \in Open(conns)
  <2>1. <<"timer">>[1] # "conn" /\ <<"ring">>[1] # "conn" /\ <<"listen">>[1] # "conn" /\ <<"otlp">>[1] # "conn"
    OBVIOUS
  <2>2. \A i : ConnOwner(i)[2] = i
    BY DEF ConnOwner
  <2> QED
    BY <1>7, <2>1, <2>2, Owners
<1> QED
  BY <1>6, <1>8, <1>9 DEF r

(* Closing files leaves the batch alone, and so does the end of a handler.   *)
LEMMA DelBatch ==
    ASSUME NEW l, LoopOK(l), NEW F
    PROVE  LoopOK(LkLoopDelFds(l, F)) /\ LkLoopDelFds(l, F).batch = l.batch
<1>1. LoopOK(LkLoopDelFds(l, F))
  BY DelLemma
<1>2. l \in LoopType
  BY DEF LoopOK
<1> QED
  BY <1>1, <1>2 DEF LkLoopDelFds, LoopType

(* The end of a handler too.                                                *)
LEMMA SettledBatch ==
    ASSUME NEW l, LoopOK(l)
    PROVE  LoopOK(Settled(l)) /\ Settled(l).batch = l.batch
<1>1. LoopOK(Settled(l)) /\ l \in LoopType
  BY BatchLemma DEF LoopOK
<1> QED
  BY <1>1 DEF Settled, LoopType

(* What the agent keeps, step by step.                                      *)
IInv ==
    /\ phase \in {"running", "stopping", "down"}
    /\ accepts \in 0 .. MaxConn + 1 /\ reports \in 0 .. Burst
    /\ lag \in Nat /\ elapsed \in Nat /\ strays \in BOOLEAN
    /\ LoopOK(loop)
    /\ phase # "down" => Sound(Now)
    /\ phase = "down" => Resting

(* The files registered before the loop runs.                               *)
LEMMA InitIInv == Init => IInv
<1> SUFFICES ASSUME Init PROVE IInv
  OBVIOUS
<1> DEFINE Fix(k) == [fd |-> k, owner |-> Fixed[k], wants |-> "in"]
<1>1. DOMAIN Fixed = 1 .. 3 /\ Len(Fixed) = 3 /\ \A k \in 1 .. 3 : Fixed[k] \in Owner
  BY DEF Fixed, Owner
<1>2. NFds \in Nat /\ NFds >= 3
  BY FdsAssumption, LoopAssumption
<1>3. \A k \in 1 .. 3 : Fix(k) \in Registration /\ Fix(k) # NULL /\ Fix(k).fd = k
  BY <1>1, <1>2, NullAssumption DEF Registration
<1>4. /\ loop.fds = [s \in Slot |-> IF s <= 3 THEN Fix(s) ELSE NULL]
      /\ loop.held = {} /\ loop.batch = {} /\ loop.stale = {}
      /\ loop = [fds |-> loop.fds, held |-> loop.held, batch |-> loop.batch, stale |-> loop.stale]
  BY <1>1 DEF Init, LkLoopNew
<1> HIDE DEF Fix
<1>5. loop.fds \in [Slot -> Registration \union {NULL}]
  BY <1>2, <1>3, <1>4 DEF Slot
<1>6. loop \in LoopType
  BY <1>4, <1>5 DEF LoopType
<1>7. Active(loop) = 1 .. 3 /\ \A s \in 1 .. 3 : loop.fds[s] = Fix(s)
  BY <1>2, <1>3, <1>4 DEF Active, Slot
<1>8. LoopOK(loop)
  BY <1>3, <1>4, <1>6, <1>7 DEF LoopOK
<1>9. Regs(loop) = {Fix(k) : k \in 1 .. 3}
  BY <1>7 DEF Regs
<1>10. Standing = {Fix(k) : k \in 1 .. 3}
  BY <1>1 DEF Standing, Fix
<1>11. conns \in [Place -> ConnType] /\ Clients(conns) = {}
  <2>1. conns = [i \in Place |-> Free] /\ Free \in ConnType /\ Free.state = "FREE"
    BY DEF Init, Free, ConnType
  <2>2. Open(conns) = {}
    BY <2>1 DEF Open
  <2> QED
    BY <2>1, <2>2 DEF Clients
<1>12. otlp \in OtlpType /\ Idle(otlp) /\ otlp.fd = NULL /\ Export(otlp) = {} /\ otlp.carried = 0
       /\ \A sig \in Signal : otlp.owed[sig] = 0
  BY DEF Init, LkOtlpNew, OtlpType, Idle, Export, Signal
<1>13. spans \in SpanType /\ spans.owed = spans.count
  BY DEF Init, LkSpansNew, SpanType
<1>14. /\ Now \in World /\ Now.loop = loop /\ Now.conns = conns /\ Now.otlp = otlp /\ Now.spans = spans
  BY <1>6, <1>11, <1>12, <1>13 DEF Now, World
<1>15. Sound(Now)
  BY <1>8, <1>9, <1>10, <1>11, <1>12, <1>13, <1>14 DEF Sound, Clear
<1>16. accepts \in 0 .. MaxConn + 1 /\ reports \in 0 .. Burst /\ lag \in Nat /\ elapsed \in Nat
  BY HttpAssumption, LoopAssumption DEF Init
<1>17. strays \in BOOLEAN /\ phase = "running"
  BY DEF Init
<1> QED
  BY <1>8, <1>15, <1>16, <1>17 DEF IInv

(* A deadline that has passed stays at zero.                                *)
LEMMA Countdown ==
    ASSUME NEW n \in Nat
    PROVE  Max({0, n - 1}) \in Nat
<1>1. CASE n = 0
  <2>1. 0 \in {0, n - 1} /\ \A y \in {0, n - 1} : 0 >= y
    BY <1>1
  <2>2. Max({0, n - 1}) \in {0, n - 1} /\ \A y \in {0, n - 1} : Max({0, n - 1}) >= y
    BY <2>1 DEF Max
  <2> QED
    BY <1>1, <2>2
<1>2. CASE n # 0
  <2>1. n - 1 \in {0, n - 1} /\ \A y \in {0, n - 1} : n - 1 >= y
    BY <1>2
  <2>2. Max({0, n - 1}) \in {0, n - 1}
    BY <2>1 DEF Max
  <2> QED
    BY <1>2, <2>2
<1> QED
  BY <1>1, <1>2

(* A second only moves the deadlines.                                       *)
LEMMA SecondStep ==
    ASSUME IInv, Second
    PROVE  IInv'
<1> DEFINE cs == [i \in Place |-> [conns[i] EXCEPT !.ttl = Max({0, conns[i].ttl - 1})]]
           o == [otlp EXCEPT !.ttl = Max({0, otlp.ttl - 1}), !.skip = Max({0, otlp.skip - 1})]
<1>1. Sound(Now) /\ Now.loop = loop /\ Now.conns = conns /\ Now.otlp = otlp /\ Now.spans = spans
  BY DEF IInv, Second, Now
<1>2. Now \in World /\ conns \in [Place -> ConnType] /\ otlp \in OtlpType /\ spans \in SpanType
      /\ LoopOK(loop) /\ loop \in LoopType
  BY <1>1, WorldFields DEF Sound
<1>3. conns' = cs /\ otlp' = o /\ loop' = loop /\ spans' = spans
  BY DEF Second
<1>4. /\ o \in OtlpType /\ o.state = otlp.state /\ o.fd = otlp.fd /\ o.cur = otlp.cur
      /\ o.owed = otlp.owed /\ o.carried = otlp.carried
  <2>1. Max({0, otlp.ttl - 1}) \in Nat /\ Max({0, otlp.skip - 1}) \in Nat
    BY <1>2, Countdown DEF OtlpType
  <2> QED
    BY <1>2, <2>1 DEF OtlpType
<1>5. \A i \in Place : cs[i] \in ConnType /\ cs[i].state = conns[i].state /\ cs[i].fd = conns[i].fd
  <2> SUFFICES ASSUME NEW i \in Place
               PROVE  cs[i] \in ConnType /\ cs[i].state = conns[i].state /\ cs[i].fd = conns[i].fd
    OBVIOUS
  <2>1. conns[i] \in ConnType /\ Max({0, conns[i].ttl - 1}) \in Nat
    BY <1>2, Countdown DEF ConnType
  <2> QED
    BY <2>1 DEF ConnType
<1>6. cs \in [Place -> ConnType]
  BY <1>5
<1> HIDE DEF cs, o
<1>7. Open(cs) = Open(conns) /\ \A i \in Open(cs) : Client(cs, i) = Client(conns, i)
  BY <1>5 DEF Open, Client
<1>8. Clients(cs) = Clients(conns)
  BY <1>7, ClientsDef
<1>9. Export(o) = Export(otlp) /\ (Idle(o) <=> Idle(otlp))
  BY <1>4 DEF Export, Idle
<1> DEFINE n == [loop |-> loop, conns |-> cs, otlp |-> o, spans |-> spans]
<1>10. n \in World /\ n.loop = loop /\ n.conns = cs /\ n.otlp = o /\ n.spans = spans
  BY <1>2, <1>4, <1>6 DEF World
<1>11. Now' = n
  BY <1>3 DEF Now
<1> HIDE DEF n
<1>12. Sound(n)
  BY <1>1, <1>4, <1>8, <1>9, <1>10 DEF Sound, Clear, Charged
<1> QED
  BY <1>3, <1>11, <1>12 DEF IInv, Second, Resting, Between

(* The counters of a step that does not end the agent.                      *)
Goes ==
    /\ phase' \in {"running", "stopping"}
    /\ accepts' \in 0 .. MaxConn + 1 /\ reports' \in 0 .. Burst
    /\ lag' \in Nat /\ elapsed' \in Nat /\ strays' \in BOOLEAN

(* A step that leaves a sound world keeps the invariant.                    *)
LEMMA Keeps ==
    ASSUME Sound(Now'), LoopOK(loop'), Goes
    PROVE  IInv'
BY DEF IInv, Goes

(* So do the counters that do not move.                                     *)
LEMMA GoesSame ==
    ASSUME IInv, phase # "down", UNCHANGED <<lag, elapsed, accepts, reports, phase, strays>>
    PROVE  Goes
BY DEF IInv, Goes

(* One lemma for each step of the loop.                                     *)
LEMMA FailsStep ==
    ASSUME IInv, NEW w, Sound(w), HandlerFails(w)
    PROVE  IInv'
<1>1. Sound(Now') /\ LoopOK(loop')
  BY FailsSound
<1>2. accepts' \in 0 .. MaxConn + 1 /\ reports' \in 0 .. Burst
  BY HttpAssumption, LoopAssumption DEF HandlerFails
<1>3. Goes
  BY <1>2 DEF HandlerFails, Goes, IInv
<1> QED
  BY <1>1, <1>3, Keeps

(* The clock: the sweep of the endpoint, the tick, the sweep of the exporter. *)
LEMMA TimerStep ==
    ASSUME IInv, phase # "down", NEW w, Sound(w), OnTimer(w)
    PROVE  IInv'
<1> DEFINE due == elapsed + lag >= Interval
           swept == OnHttpSweep(w)
           ticked == IF due THEN OnTick(swept) ELSE {swept}
<1>1. Sound(swept)
  BY HttpSweepSound
<1>2. \E t \in ticked : \E x \in OnOtlpSweep(t) : Returns(x)
  BY DEF OnTimer
<1>3. elapsed' = (IF due THEN 0 ELSE elapsed + lag) /\ lag' = 0
      /\ UNCHANGED <<accepts, reports, phase, strays>>
  BY DEF OnTimer
<1> HIDE DEF swept, due
<1>4. \A t \in ticked : Sound(t)
  BY <1>1, OnTickSound
<1> HIDE DEF ticked
<1>5. Sound(Now') /\ LoopOK(loop')
  BY <1>2, <1>4, OtlpSweepSound, ReturnsSound
<1>6. elapsed' \in Nat /\ lag' \in Nat
  BY <1>3 DEF IInv
<1>7. Goes
  BY <1>3, <1>6 DEF Goes, IInv
<1> QED
  BY <1>5, <1>7, Keeps

(* The ring buffer's handler begins.                                        *)
LEMMA RingStep ==
    ASSUME IInv, phase # "down", NEW w, Sound(w), OnRingbufReady(w)
    PROVE  IInv'
<1>1. Returns(w) \/ Become(w)
  BY DEF OnRingbufReady
<1>2. Sound(Now') /\ LoopOK(loop')
  BY <1>1, ReturnsSound, BecomeSound
<1>3. reports' \in 0 .. Burst /\ UNCHANGED <<lag, elapsed, accepts, phase, strays>>
  BY DEF OnRingbufReady
<1>4. Goes
  BY <1>3 DEF Goes, IInv
<1> QED
  BY <1>2, <1>4, Keeps

(* on_accept begins.                                                        *)
LEMMA ListenStep ==
    ASSUME IInv, phase # "down", NEW w, Sound(w), OnAccept(w)
    PROVE  IInv'
<1>1. Returns(w) \/ Become(w)
  BY DEF OnAccept
<1>2. Sound(Now') /\ LoopOK(loop')
  BY <1>1, ReturnsSound, BecomeSound
<1>3. accepts' \in 0 .. MaxConn + 1 /\ UNCHANGED <<lag, elapsed, reports, phase, strays>>
  BY DEF OnAccept
<1>4. Goes
  BY <1>3 DEF Goes, IInv
<1> QED
  BY <1>2, <1>4, Keeps

(* One observation of the burst.                                            *)
LEMMA ReportStep ==
    ASSUME IInv, Report
    PROVE  IInv'
<1>1. phase # "down" /\ Sound(Now)
  BY DEF IInv, Report, Resting, Between
<1>2. PICK o \in Obs, memory \in BOOLEAN : \E x \in EvOnQuery(Now, o, memory) : Returns(x) \/ Become(x)
  BY DEF Report
<1>3. \A x \in EvOnQuery(Now, o, memory) : Sound(x)
  BY <1>1, QuerySound
<1>4. Sound(Now') /\ LoopOK(loop')
  BY <1>2, <1>3, ReturnsSound, BecomeSound
<1>5. reports' \in 0 .. Burst /\ UNCHANGED <<lag, elapsed, accepts, phase, strays>>
  BY LoopAssumption DEF Report, IInv
<1>6. Goes
  BY <1>1, <1>5 DEF Goes, IInv
<1> QED
  BY <1>4, <1>6, Keeps

(* One client of the queue.                                                 *)
LEMMA AcceptStep ==
    ASSUME IInv, Accept
    PROVE  IInv'
<1>1. phase # "down" /\ Sound(Now)
  BY DEF IInv, Accept, Resting, Between
<1>2. PICK ctl \in BOOLEAN : Returns(Accepted(Now, ctl)) \/ Become(Accepted(Now, ctl))
  BY DEF Accept
<1>3. Sound(Accepted(Now, ctl))
  BY <1>1, AcceptedSound
<1>4. Sound(Now') /\ LoopOK(loop')
  BY <1>2, <1>3, ReturnsSound, BecomeSound
<1>5. accepts' \in 0 .. MaxConn + 1 /\ UNCHANGED <<lag, elapsed, reports, phase, strays>>
  BY HttpAssumption DEF Accept, IInv
<1>6. Goes
  BY <1>1, <1>5 DEF Goes, IInv
<1> QED
  BY <1>4, <1>6, Keeps

(* epoll_wait returns.                                                      *)
LEMMA PollStep ==
    ASSUME IInv, LkLoopPoll
    PROVE  IInv'
<1>1. phase # "down" /\ Sound(Now) /\ LoopOK(loop)
  BY DEF IInv, LkLoopPoll
<1>2. PICK ready \in SUBSET Active(loop) : loop' = NewBatch(loop, ready)
  BY DEF LkLoopPoll
<1>3. ready \in SUBSET Slot
  BY DEF Active
<1>4. LoopOK(NewBatch(loop, ready)) /\ Regs(NewBatch(loop, ready)) = Regs(loop)
  BY <1>1, <1>3, BatchLemma
<1> DEFINE l == NewBatch(loop, ready)
           x == [Now EXCEPT !.loop = l]
<1>5. Now.loop = loop /\ Now.conns = conns /\ Now.otlp = otlp /\ Now.spans = spans
  BY DEF Now
<1>6. loop' = l /\ LoopOK(l) /\ Regs(l) = Regs(Now.loop)
  BY <1>2, <1>4, <1>5
<1> HIDE DEF l
<1>7. Sound(x) /\ x.loop = l /\ x.conns = Now.conns /\ x.otlp = Now.otlp /\ x.spans = Now.spans
  BY ONLY <1>1, <1>6, SameRegs
<1> HIDE DEF x
<1>8. Become(x) /\ UNCHANGED <<lag, elapsed, accepts, reports, phase, strays>>
  BY <1>5, <1>6, <1>7 DEF Become, LkLoopPoll
<1>9. Goes
  BY <1>1, <1>8, GoesSame
<1> QED
  BY <1>7, <1>8, <1>9, BecomeSound, Keeps

(* An event whose file is gone.                                             *)
LEMMA SkipStep ==
    ASSUME IInv, phase # "down", NEW s \in loop.batch, Skip(s)
    PROVE  IInv'
<1> DEFINE l == Taken(loop, s)
           x == [Now EXCEPT !.loop = l]
<1>1. Sound(Now) /\ LoopOK(loop) /\ Now.loop = loop
  BY DEF IInv, Now
<1>2. LoopOK(l) /\ Regs(l) = Regs(Now.loop)
  BY <1>1, BatchLemma
<1>3. Returns(x) /\ UNCHANGED <<lag, elapsed, accepts, reports, phase, strays>>
  BY DEF Skip
<1> HIDE DEF l
<1>4. Sound(x)
  BY ONLY <1>1, <1>2, SameRegs
<1> HIDE DEF x
<1>5. Goes
  BY <1>3, GoesSame
<1> QED
  BY <1>3, <1>4, <1>5, ReturnsSound, Keeps

(* An event goes to its owner.                                              *)
LEMMA DispatchStep ==
    ASSUME IInv, phase # "down", NEW s \in loop.batch, Dispatch(s)
    PROVE  IInv'
<1> DEFINE r == loop.fds[s]
           w == [Now EXCEPT !.loop = Taken(loop, s)]
           Only(worlds) == /\ \E x \in worlds : Returns(x)
                           /\ UNCHANGED <<lag, elapsed, accepts, reports, phase, strays>>
<1>1. Sound(Now) /\ r # NULL
  BY DEF IInv, Dispatch
<1>2. /\ Sound(w)
      /\ r.owner = <<"otlp">> => ~Idle(w.otlp)
      /\ r.owner[1] = "conn" => r.owner[2] \in Open(w.conns)
  BY <1>1, DispatchOwner
<1>3. \/ OnTimer(w) \/ HandlerFails(w) \/ OnRingbufReady(w) \/ OnAccept(w)
      \/ r.owner = <<"otlp">> /\ Only(OnOtlpConn(w))
      \/ r.owner[1] = "conn" /\ Only(OnConn(w, r.owner[2]))
  BY DEF Dispatch
<1> HIDE DEF w, r
<1>4. ASSUME NEW worlds, Only(worlds), \A x \in worlds : Sound(x)
      PROVE  IInv'
  <2>1. Sound(Now') /\ LoopOK(loop')
    BY <1>4, ReturnsSound
  <2>2. Goes
    BY <1>4, GoesSame
  <2> QED
    BY <2>1, <2>2, Keeps
<1> HIDE DEF Only
<1>5. CASE r.owner = <<"otlp">> /\ Only(OnOtlpConn(w))
  BY <1>2, <1>4, <1>5, OnOtlpConnSound
<1>6. CASE r.owner[1] = "conn" /\ Only(OnConn(w, r.owner[2]))
  BY <1>2, <1>4, <1>6, HttpConnSound
<1> QED
  BY <1>2, <1>3, <1>5, <1>6, TimerStep, FailsStep, RingStep, ListenStep

(* The end needs the loop alone.                                            *)
LEMMA FreeStep ==
    ASSUME IInv, LkEventsFree
    PROVE  IInv'
<1> DEFINE f == LkOtlpFree(Now)
           F == {f.conns[i].fd : i \in {i \in Place : f.conns[i].state # "FREE"}}
           c == CloseAll(f, {i \in Place : f.conns[i].state # "FREE"})
           w == LkHttpFree(f)
<1>1. Sound(Now) /\ LoopOK(loop) /\ Now \in World /\ Now.loop = loop /\ loop.batch = {}
  BY DEF IInv, LkEventsFree, Sound, Now, Resting
<1>2. \E fds : f.loop = LkLoopDelFds(loop, fds) \/ f.loop = loop
  BY <1>1 DEF LkOtlpFree, OtlpFinish, LkLoopDelFd, World
<1>3. DOMAIN f = {"loop", "conns", "otlp", "spans"}
  BY <1>1 DEF LkOtlpFree, OtlpFinish, World
<1>4. LoopOK(f.loop) /\ f.loop.batch = {}
  BY <1>1, <1>2, DelBatch
<1> HIDE DEF f
<1>5. c.loop = LkLoopDelFds(f.loop, F) /\ DOMAIN c = DOMAIN f
  BY <1>3 DEF CloseAll
<1> HIDE DEF F
<1>6. LoopOK(c.loop) /\ c.loop.batch = {}
  BY <1>4, <1>5, DelBatch
<1>7. \E fd : w = [c EXCEPT !.loop = LkLoopDelFds(c.loop, {fd})]
  BY DEF LkHttpFree, LkLoopDelFd
<1> HIDE DEF c, w
<1>8. \E fd : w.loop = LkLoopDelFds(c.loop, {fd}) /\ DOMAIN w = DOMAIN f
  BY <1>3, <1>5, <1>7
<1>9. LoopOK(w.loop) /\ w.loop.batch = {}
  BY <1>6, <1>8, DelBatch
<1>10. Returns(w) /\ phase' = "down" /\ strays' \in BOOLEAN /\ UNCHANGED <<lag, elapsed, accepts, reports>>
  BY DEF LkEventsFree, w, f
<1>11. loop' = Settled(w.loop)
  BY <1>3, <1>8, <1>10 DEF Returns, Become
<1>12. LoopOK(loop') /\ loop'.batch = {}
  BY <1>9, <1>11, SettledBatch
<1>13. Resting'
  BY <1>10, <1>12 DEF LkEventsFree, Resting, Between
<1> QED
  BY <1>10, <1>12, <1>13 DEF IInv

(* Every step.                                                              *)
LEMMA NextStep == IInv /\ [Next]_vars => IInv'
<1> SUFFICES ASSUME IInv, [Next]_vars PROVE IInv'
  OBVIOUS
<1>1. CASE Second
  BY <1>1, SecondStep
<1>2. CASE LkLoopPoll
  BY <1>2, PollStep
<1>3. CASE \E s \in loop.batch : Skip(s) \/ Dispatch(s)
  <2>1. PICK s \in loop.batch : Skip(s) \/ Dispatch(s)
    BY <1>3
  <2>2. phase # "down"
    BY <2>1 DEF IInv, Resting
  <2> QED
    BY <2>1, <2>2, SkipStep, DispatchStep
<1>4. CASE Report
  BY <1>4, ReportStep
<1>5. CASE RingFails
  <2>1. Sound(Now) /\ HandlerFails(Now)
    BY <1>5 DEF RingFails, IInv, Resting, Between
  <2> QED
    BY <2>1, FailsStep
<1>6. CASE Accept
  BY <1>6, AcceptStep
<1>7. CASE OnSignal
  <2>1. Now' = Now /\ UNCHANGED <<loop, lag, elapsed, accepts, reports, strays>> /\ phase' = "stopping"
    BY <1>7 DEF OnSignal, Now
  <2>2. Sound(Now) /\ LoopOK(loop)
    BY <1>7 DEF OnSignal, IInv
  <2>3. Goes
    BY <2>1 DEF IInv, Goes
  <2> QED
    BY <2>1, <2>2, <2>3, Keeps
<1>8. CASE LkEventsFree
  BY <1>8, FreeStep
<1>9. CASE UNCHANGED vars
  BY <1>9 DEF IInv, vars, Now, Resting, Between
<1> QED
  BY <1>1, <1>2, <1>3, <1>4, <1>5, <1>6, <1>7, <1>8, <1>9 DEF Next, Pass

-----------------------------------------------------------------------------
(* Results.                                                                 *)

(* The invariant holds for every size of the slot table, the pool of clients *)
(* and the span buffer, and every burst of observations.                    *)
THEOREM ExportersInvariant == Spec => []IInv
BY InitIInv, NextStep, PTL DEF Spec

(* No event that waits in a batch reaches a registration made after it was  *)
(* raised (loop.c, alloc_slot): the slot of a file closed in the batch is   *)
(* held back until the batch is over.                                       *)
THEOREM NeverStaleDispatch == Spec => []NoStaleDispatch
<1>1. IInv => NoStaleDispatch
  BY DEF IInv, LoopOK, NoStaleDispatch
<1> QED
  BY <1>1, ExportersInvariant, PTL

(* The loop's table always holds the three files that stand, one file for   *)
(* each open client and one for the export in flight, each waiting for what *)
(* its owner's state waits for, and nothing else (http.c, otlp.c).          *)
THEOREM LoopAlwaysMatchesOwners == Spec => []LoopMatchesOwners
<1>1. IInv => LoopMatchesOwners
  <2> SUFFICES ASSUME IInv, phase # "down" PROVE
        /\ Regs(loop) = Standing \union Clients(conns) \union Export(otlp)
        /\ \A s, t \in Active(loop) : loop.fds[s].fd = loop.fds[t].fd => s = t
    BY DEF LoopMatchesOwners, Regs
  <2>1. Sound(Now) /\ Now.loop = loop /\ Now.conns = conns /\ Now.otlp = otlp
    BY DEF IInv, Now
  <2> QED
    BY <2>1 DEF Sound, LoopOK
<1> QED
  BY <1>1, ExportersInvariant, PTL

(* Every export is counted exactly once, on whichever of its paths it ends, *)
(* and no sampled span is lost from the books (otlp.c, spans.c).            *)
THEOREM ExportsAlwaysAccounted == Spec => []ExportsAccounted
<1>1. IInv => ExportsAccounted
  <2> SUFFICES ASSUME IInv, phase # "down" PROVE
        /\ \A sig \in Signal : otlp.owed[sig] = IF ~Idle(otlp) /\ otlp.cur = sig THEN 1 ELSE 0
        /\ spans.owed = spans.count + otlp.carried
    BY DEF ExportsAccounted
  <2>1. Sound(Now) /\ Now.otlp = otlp /\ Now.spans = spans
    BY DEF IInv, Now
  <2>2. spans.count \in Nat
    BY <2>1, WorldFields DEF Sound, SpanType
  <2>3. CASE Idle(otlp)
    BY <2>1, <2>2, <2>3 DEF Sound, Clear
  <2>4. CASE ~Idle(otlp)
    BY <2>1, <2>4 DEF Sound, Charged
  <2> QED
    BY <2>3, <2>4
<1> QED
  BY <1>1, ExportersInvariant, PTL

=============================================================================

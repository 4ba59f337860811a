----------------------- MODULE CaptureDeliverProofs -----------------------
(***************************************************************************)
(* A delivery in Capture: the history of the claims and the baselines that *)
(* the detectors compare with, given what the table's handlers do to them  *)
(* (Arrives).  CaptureLossProofs shows that the handlers do it.  The last  *)
(* part is about the fate of a claim: no record is both lost and shown.    *)
(***************************************************************************)
EXTENDS CaptureProofs

(* A leaf that names no prover is tried with Zenon, then with SMT.          *)
USE ZenonT(3), SMTT(30), ZenonT(30)

-----------------------------------------------------------------------------
(* What the handlers do to the baselines of an entry.                       *)
SameSeq(e, x) ==
    /\ x.last_seq = e.last_seq
    /\ x.tls_seq_seen = e.tls_seq_seen
    /\ x.tls_last_seq = e.tls_last_seq

RawTouched(e, x, seq) ==
    /\ x.last_seq = SeqAdvance(seq, e.last_seq)
    /\ x.tls_seq_seen = e.tls_seq_seen
    /\ x.tls_last_seq = e.tls_last_seq

TlsTouched(e, x, seq) ==
    /\ x.last_seq = e.last_seq
    /\ x.tls_seq_seen
    /\ x.tls_last_seq = IF e.tls_seq_seen THEN SeqAdvance(seq, e.tls_last_seq) ELSE seq

(* What a record does to the baselines of the table: those of the other     *)
(* entries stay, those of its own entry follow the record's channel.        *)
OthersKept(c) ==
    \A x \in Live(tab') \ {c} : x \in Live(tab) /\ tab'.conn[x] = tab.conn[x]

RawBaseline(t, c, e, seq) ==
    IF c \in Live(t) THEN RawTouched(t.conn[c], e, seq)
                     ELSE e.last_seq = seq /\ ~e.tls_seq_seen

TlsBaseline(t, c, e, seq) ==
    IF c \in Live(t) THEN TlsTouched(t.conn[c], e, seq)
                     ELSE e.tls_seq_seen /\ e.tls_last_seq = seq

RawEffect(c, seq) ==
    OthersKept(c) /\ (c \in Live(tab') => RawBaseline(tab, c, tab'.conn[c], seq))

TlsEffect(c, seq) ==
    OthersKept(c) /\ (c \in Live(tab') => TlsBaseline(tab, c, tab'.conn[c], seq))

(* What the handler of a record reports.                                    *)
LostOK(r) ==
    IF Seen(tab, r.chan, r.cookie)
    THEN \/ lost' = SeqLost(r.seq, Last(tab, r.chan, r.cookie))
         \/ Excused(r) /\ lost' = 0
    ELSE lost' = 0

(* What the table's own invariant says of the entries.                      *)
EntriesTyped == \A c \in Cookie : Lookup(tab, c) => tab.conn[c] \in Conn

-----------------------------------------------------------------------------
(* A record reaches the agent.  The history of its connection, pointwise.   *)
Kept(h, c) ==
    /\ base'[h][c] = base[h][c] /\ got'[h][c] = got[h][c]
    /\ told'[h][c] = told[h][c] /\ under'[h][c] = under[h][c]

Reports(r) == IF lost' > 0 \/ Excused(r) THEN Missing(r) ELSE {}

Extended(r) ==
    LET h == r.chan
        c == r.cookie
    IN  /\ base'[h][c] = IF base[h][c] = 0 THEN r.num ELSE base[h][c]
        /\ got'[h][c] = got[h][c] \cup {r.num}
        /\ told'[h][c] = told[h][c] \cup Reports(r)
        /\ under'[h][c] = under[h][c] \cup {r.epoch}

Restarted(r) ==
    LET h == r.chan
        c == r.cookie
    IN  base'[h][c] = r.num /\ got'[h][c] = {r.num} /\ told'[h][c] = {} /\ under'[h][c] = {r.epoch}

Blank(h, c) ==
    /\ base'[h][c] = 0 /\ got'[h][c] = {} /\ told'[h][c] = {}
    /\ under'[h][c] = IF h = "raw" THEN {0} ELSE {}

LEMMA AuditPoint ==
    ASSUME HistoryTypeOK, NEW r \in Record, Audit(r), NEW h \in Channel, NEW x \in Cookie
    PROVE  /\ x # r.cookie => Kept(h, x)
           /\ x = r.cookie /\ h # r.chan => IF Lookup(tab, x) THEN Kept(h, x) ELSE Blank(h, x)
           /\ x = r.cookie /\ h = r.chan => IF Lookup(tab, x) THEN Extended(r) ELSE Restarted(r)
<1> DEFINE c == r.cookie
           fresh == ~Lookup(tab, c)
<1>2. /\ base[h] \in [Cookie -> Nat] /\ got[h] \in [Cookie -> SUBSET Nat]
      /\ told[h] \in [Cookie -> SUBSET Nat] /\ under[h] \in [Cookie -> SUBSET (0 .. MaxEpoch)]
  BY DEF HistoryTypeOK
<1>3. base'[h] = [base[h] EXCEPT ![c] =
         IF h = r.chan /\ (IF fresh THEN 0 ELSE base[h][c]) = 0 THEN r.num
         ELSE IF fresh THEN 0 ELSE base[h][c]]
  BY DEF Audit
<1>4. got'[h] = [got[h] EXCEPT ![c] =
         (IF fresh THEN {} ELSE got[h][c]) \cup (IF h = r.chan THEN {r.num} ELSE {})]
  BY DEF Audit
<1>5. told'[h] = [told[h] EXCEPT ![c] =
         (IF fresh THEN {} ELSE told[h][c]) \cup
            (IF h = r.chan /\ ~fresh /\ (lost' > 0 \/ Excused(r)) THEN Missing(r) ELSE {})]
  BY DEF Audit
<1>6. under'[h] = [under[h] EXCEPT ![c] =
         (IF fresh THEN {} ELSE under[h][c]) \cup
            (IF h = r.chan THEN {r.epoch} ELSE IF fresh /\ h = "raw" THEN {0} ELSE {})]
  BY DEF Audit
<1> HIDE DEF fresh
<1>7. ASSUME x # c PROVE Kept(h, x)
  BY <1>2, <1>3, <1>4, <1>5, <1>6, <1>7 DEF Kept
<1>8. ASSUME x = c
      PROVE  /\ base'[h][x] = IF h = r.chan /\ (IF fresh THEN 0 ELSE base[h][x]) = 0 THEN r.num
                              ELSE IF fresh THEN 0 ELSE base[h][x]
             /\ got'[h][x] = (IF fresh THEN {} ELSE got[h][x])
                              \cup (IF h = r.chan THEN {r.num} ELSE {})
             /\ told'[h][x] = (IF fresh THEN {} ELSE told[h][x]) \cup
                    (IF h = r.chan /\ ~fresh /\ (lost' > 0 \/ Excused(r)) THEN Missing(r) ELSE {})
             /\ under'[h][x] = (IF fresh THEN {} ELSE under[h][x]) \cup
                    (IF h = r.chan THEN {r.epoch} ELSE IF fresh /\ h = "raw" THEN {0} ELSE {})
  BY <1>2, <1>3, <1>4, <1>5, <1>6, <1>8
<1>9. ASSUME x = c, h # r.chan, ~fresh PROVE Kept(h, x)
  BY <1>8, <1>9 DEF Kept
<1>10. ASSUME x = c, h # r.chan, fresh PROVE Blank(h, x)
  BY <1>8, <1>10 DEF Blank
<1>11. ASSUME x = c, h = r.chan, ~fresh PROVE Extended(r)
  BY <1>8, <1>11 DEF Extended, Reports
<1>12. ASSUME x = c, h = r.chan, fresh PROVE Restarted(r)
  BY <1>8, <1>12 DEF Restarted
<1> QED BY <1>7, <1>9, <1>10, <1>11, <1>12 DEF fresh

(* The baseline of the entry that was shown the m-th claim.                 *)
LEMMA BasedNext ==
    ASSUME NEW r \in Record, LostOK(r),
           r.chan = "raw" => RawEffect(r.cookie, r.seq),
           r.chan = "tls" => TlsEffect(r.cookie, r.seq),
           Lookup(tab', r.cookie)
    PROVE  /\ Seen(tab', r.chan, r.cookie)
           /\ Last(tab', r.chan, r.cookie) =
                 IF Seen(tab, r.chan, r.cookie)
                 THEN SeqAdvance(r.seq, Last(tab, r.chan, r.cookie)) ELSE r.seq
<1> DEFINE c == r.cookie
<1>1. r.chan \in {"raw", "tls"} /\ c \in Cookie /\ c \in Live(tab')
  BY DEF Record, Channel, Live
<1>2. CASE r.chan = "raw"
  BY <1>1, <1>2 DEF RawEffect, RawBaseline, RawTouched, Seen, Last, Live
<1>3. CASE r.chan = "tls"
  <2>1. TlsBaseline(tab, c, tab'.conn[c], r.seq)
    BY <1>1, <1>3 DEF TlsEffect
  <2>2. CASE Lookup(tab, c)
    BY <1>1, <1>3, <2>1, <2>2 DEF TlsBaseline, TlsTouched, Seen, Last, Live
  <2>3. CASE ~Lookup(tab, c)
    BY <1>1, <1>3, <2>1, <2>3 DEF TlsBaseline, Seen, Last, Live
  <2> QED BY <2>2, <2>3
<1> QED BY <1>1, <1>2, <1>3

(* The other channel's baseline, and the baselines of other connections.    *)
LEMMA BasedOther ==
    ASSUME NEW r \in Record,
           r.chan = "raw" => RawEffect(r.cookie, r.seq),
           r.chan = "tls" => TlsEffect(r.cookie, r.seq),
           NEW h \in Channel, NEW x \in Cookie, Lookup(tab', x), h # r.chan \/ x # r.cookie
    PROVE  /\ x # r.cookie => Lookup(tab, x)
           /\ Lookup(tab, x) => /\ Seen(tab', h, x) <=> Seen(tab, h, x)
                                /\ Seen(tab, h, x) => Last(tab', h, x) = Last(tab, h, x)
           /\ ~Lookup(tab, x) => (Seen(tab', h, x) <=> h = "raw")
<1> DEFINE c == r.cookie
<1>1. /\ r.chan \in {"raw", "tls"} /\ h \in {"raw", "tls"} /\ c \in Cookie
      /\ x \in Live(tab')
  BY DEF Record, Channel, Live
<1>2. CASE x # c
  <2>1. OthersKept(c)
    BY <1>1 DEF RawEffect, TlsEffect
  <2>2. Lookup(tab, x) /\ tab'.conn[x] = tab.conn[x]
    BY <1>1, <1>2, <2>1 DEF OthersKept, Live
  <2> QED BY <2>2 DEF Seen, Last
<1>3. CASE x = c /\ h = "raw"
  <2>1. r.chan = "tls" /\ TlsBaseline(tab, c, tab'.conn[c], r.seq)
    BY <1>1, <1>3 DEF TlsEffect
  <2> QED BY <1>3, <2>1 DEF TlsBaseline, TlsTouched, Seen, Last, Live
<1>4. CASE x = c /\ h = "tls"
  <2>1. r.chan = "raw" /\ RawBaseline(tab, c, tab'.conn[c], r.seq)
    BY <1>1, <1>4 DEF RawEffect
  <2> QED BY <1>4, <2>1 DEF RawBaseline, RawTouched, Seen, Last, Live
<1> QED BY <1>1, <1>2, <1>3, <1>4

LEMMA AuditTypes ==
    ASSUME HistoryTypeOK, NEW r \in Record, Audit(r)
    PROVE  dropped' = dropped => HistoryTypeOK'
<1> DEFINE c == r.cookie
           fresh == ~Lookup(tab, c)
<1>1. /\ r.num \in Nat /\ r.epoch \in 0 .. MaxEpoch /\ Missing(r) \subseteq Nat
      /\ c \in Cookie
  BY BoundAssumption DEF Record, Epoch, Missing, HistoryTypeOK
<1>2. base' \in [Channel -> [Cookie -> Nat]]
  BY <1>1 DEF Audit, HistoryTypeOK
<1>3. got' \in [Channel -> [Cookie -> SUBSET Nat]]
  <2> DEFINE V(h) == (IF fresh THEN {} ELSE got[h][c])
                     \cup (IF h = r.chan THEN {r.num} ELSE {})
  <2>1. got' = [h \in Channel |-> [got[h] EXCEPT ![c] = V(h)]]
    BY DEF Audit
  <2>2. got \in [Channel -> [Cookie -> SUBSET Nat]]
    BY DEF HistoryTypeOK
  <2>3. \A h \in Channel : V(h) \in SUBSET Nat
    BY <1>1, <2>2
  <2> HIDE DEF V
  <2> QED BY <2>1, <2>2, <2>3
<1>4. told' \in [Channel -> [Cookie -> SUBSET Nat]]
  <2> DEFINE V(h) == (IF fresh THEN {} ELSE told[h][c])
                     \cup (IF h = r.chan /\ ~fresh /\ (lost' > 0 \/ Excused(r))
                           THEN Missing(r) ELSE {})
  <2>1. told' = [h \in Channel |-> [told[h] EXCEPT ![c] = V(h)]]
    BY DEF Audit
  <2>2. told \in [Channel -> [Cookie -> SUBSET Nat]]
    BY DEF HistoryTypeOK
  <2>3. \A h \in Channel : V(h) \in SUBSET Nat
    BY <1>1, <2>2
  <2> HIDE DEF V
  <2> QED BY <2>1, <2>2, <2>3
<1>5. under' \in [Channel -> [Cookie -> SUBSET (0 .. MaxEpoch)]]
  <2> DEFINE V(h) == (IF fresh THEN {} ELSE under[h][c])
                     \cup (IF h = r.chan THEN {r.epoch}
                           ELSE IF fresh /\ h = "raw" THEN {0} ELSE {})
  <2>1. under' = [h \in Channel |-> [under[h] EXCEPT ![c] = V(h)]]
    BY DEF Audit
  <2>2. under \in [Channel -> [Cookie -> SUBSET (0 .. MaxEpoch)]]
    BY DEF HistoryTypeOK
  <2>3. \A h \in Channel : V(h) \in SUBSET (0 .. MaxEpoch)
    BY <1>1, <2>2, BoundAssumption
  <2> HIDE DEF V
  <2> QED BY <2>1, <2>2, <2>3
<1> QED BY <1>2, <1>3, <1>4, <1>5 DEF HistoryTypeOK

(* The facts a delivered record brings along.                               *)
Arrives(r) ==
    /\ r \in Record /\ ring # <<>> /\ r = ring[1] /\ r = Head(ring) /\ ring' = Tail(ring)
    /\ LostOK(r) /\ Audit(r)
    /\ r.chan = "raw" => RawEffect(r.cookie, r.seq)
    /\ r.chan = "tls" => TlsEffect(r.cookie, r.seq)
    /\ UNCHANGED <<seqno, task, made, dropped>>

(* What the detector makes of the number: without wrapping, it reports      *)
(* exactly when the number is above the next one.                           *)
LEMMA GapIsAbove ==
    ASSUME NEW seq \in Seqno, NEW last \in Nat, last + 1 < SeqMod
    PROVE  SeqLost(seq, last) > 0 <=> seq > last + 1
<1>1. (last + 1) % SeqMod = last + 1
  BY SeqAssumption
<1> QED BY <1>1 DEF SeqLost, SeqGap, Seqno

LEMMA CarriedOn ==
    ASSUME CaptureTypeOK, NEW r, Arrives(r), NEW h \in Channel, NEW x \in Cookie,
           NEW n, NEW ep, NEW sq, Carried(h, x, n, ep, sq)
    PROVE  Carried(h, x, n, ep, sq)' /\ Stamped(r, h, x, n, ep, sq)
<1>1. ring \in Seq(Record) /\ ring # <<>> /\ ring' = Tail(ring) /\ r = ring[1]
  BY DEF CaptureTypeOK, Arrives
<1>2. 1 \in 1 .. Len(ring)
  BY <1>1
<1>3. \A i \in 1 .. Len(ring') : i + 1 \in 1 .. Len(ring) /\ ring'[i] = ring[i + 1]
  BY <1>1
<1>4. \A i \in 1 .. Len(ring') : Stamped(ring'[i], h, x, n, ep, sq)
  BY <1>3 DEF Carried
<1>5. Carried(h, x, n, ep, sq)'
  BY <1>4 DEF Carried, Arrives
<1>6. Stamped(r, h, x, n, ep, sq)
  BY <1>1, <1>2 DEF Carried
<1> QED BY <1>5, <1>6

(* The record's own channel, on an entry the agent holds.                   *)
Known(r, n, sn, ep, sq) ==
    LET h == r.chan
        c == r.cookie
    IN  /\ n = made[h][c] /\ sn = seqno[h][c]
        /\ Counted(n, sn, ep, sq)
        /\ Shown(n, ep, base[h][c], got[h][c], told[h][c], under[h][c])
        /\ Based(tab, h, c, got[h][c], under[h][c], sq)
        /\ Stamped(r, h, c, n, ep, sq)

KnownNext(r, n, ep, sq) ==
    LET h == r.chan
        c == r.cookie
    IN  /\ Shown(n, ep, base'[h][c], got'[h][c], told'[h][c], under'[h][c])
        /\ Based(tab', h, c, got'[h][c], under'[h][c], sq)

LEMMA DeliverExtends ==
    ASSUME NoWrap, EntriesTyped, LossInv, NEW r, Arrives(r), Lookup(tab, r.cookie), Extended(r),
           NEW n \in Nat, NEW sn \in [Epoch -> Nat],
           NEW ep \in [1 .. n -> Epoch], NEW sq \in [1 .. n -> Nat],
           Known(r, n, sn, ep, sq)
    PROVE  KnownNext(r, n, ep, sq) /\ HoleIsLoss(r.chan)
<1>0. r \in Record /\ LostOK(r)
  BY DEF Arrives
<1>1. PICK h \in Channel, c \in Cookie : h = r.chan /\ c = r.cookie
  BY <1>0 DEF Record
<1>2. PICK m \in 1 .. n : m = r.num /\ ep[m] = r.epoch /\ sq[m] = r.seq
  BY DEF Known, Stamped
<1>3. PICK b \in Nat, g \in SUBSET Nat, t \in SUBSET Nat, u \in SUBSET (0 .. MaxEpoch) :
         b = base[h][c] /\ g = got[h][c] /\ t = told[h][c] /\ u = under[h][c]
  <2>1. /\ base[h] \in [Cookie -> Nat] /\ got[h] \in [Cookie -> SUBSET Nat]
        /\ told[h] \in [Cookie -> SUBSET Nat] /\ under[h] \in [Cookie -> SUBSET (0 .. MaxEpoch)]
    BY DEF LossInv, HistoryTypeOK
  <2>2. /\ base[h][c] \in Nat /\ got[h][c] \in SUBSET Nat
        /\ told[h][c] \in SUBSET Nat /\ under[h][c] \in SUBSET (0 .. MaxEpoch)
    BY <2>1
  <2> QED BY <2>2
<1>4. r.seq \in Seqno /\ Seqno \subseteq Nat /\ r.epoch \in Epoch
  BY <1>0, SeqAssumption DEF Record, Seqno
<1>5. PICK last \in Nat : Seen(tab, h, c) => last = Last(tab, h, c)
  <2>1. Lookup(tab, c) => tab.conn[c] \in Conn
    BY DEF EntriesTyped
  <2>2. Lookup(tab, c) => Last(tab, h, c) \in Nat
    BY <1>4, <2>1 DEF Last, Conn
  <2> QED BY <2>2 DEF Seen
<1>6. /\ Shown(n, ep, b, g, t, u)
      /\ Lookup(tab, c) => (Seen(tab, h, c) <=> u # {})
      /\ Seen(tab, h, c) /\ (\E e \in Epoch : u = {e}) =>
            (\E i \in g : sq[i] = last) /\ \A i \in g : sq[i] <= last
  BY <1>1, <1>3, <1>5 DEF Known, Based, Highest
<1>7. Lookup(tab, c) /\ (Seen(tab, h, c) <=> u # {})
  BY <1>1, <1>6
<1>8. u = {ep[m]} => /\ Seen(tab, h, c)
                     /\ \E i \in g : sq[i] = last
                     /\ \A i \in g : sq[i] <= last
  BY <1>2, <1>4, <1>6, <1>7
<1>9. PICK miss : miss = Reports(r)
  OBVIOUS
<1>10. Missing(r) = Between(b, g, m)
  BY <1>1, <1>2, <1>3 DEF Missing, Between
<1>11. miss \subseteq Between(b, g, m)
  BY <1>9, <1>10 DEF Reports
<1>12. ASSUME u = {ep[m]}, sq[m] > last + 1
       PROVE  miss = Between(b, g, m)
  <2>1. last + 1 < SeqMod
    BY <1>2, <1>4, <1>12, SeqAssumption DEF Seqno
  <2>2. SeqLost(r.seq, last) > 0
    BY <1>2, <1>4, <1>12, <2>1, GapIsAbove
  <2>3. lost' > 0 \/ Excused(r)
    BY <1>0, <1>1, <1>5, <1>8, <1>12, <2>2 DEF LostOK
  <2> QED BY <1>9, <1>10, <2>3 DEF Reports
<1>13. /\ base'[h][c] = IF b = 0 THEN m ELSE b
       /\ got'[h][c] = g \cup {m}
       /\ told'[h][c] = t \cup miss
       /\ under'[h][c] = u \cup {ep[m]}
  BY <1>1, <1>2, <1>3, <1>9 DEF Extended
<1>14. Shown(n, ep, IF b = 0 THEN m ELSE b, g \cup {m}, t \cup miss, u \cup {ep[m]})
  <2>1. Counted(n, sn, ep, sq)
    BY DEF Known
  <2> QED BY <1>6, <1>8, <1>11, <1>12, <2>1, ShownNext
<1>15. Shown(n, ep, base'[h][c], got'[h][c], told'[h][c], under'[h][c])
  BY <1>13, <1>14
<1>16. g \subseteq 1 .. n /\ \A i \in g : ep[i] \in u
  BY <1>6 DEF Shown
<1>17. Based(tab', h, c, g \cup {m}, u \cup {ep[m]}, sq)
  <2>1. ASSUME Lookup(tab', c)
        PROVE  /\ Seen(tab', h, c)
               /\ Last(tab', h, c) =
                     IF Seen(tab, h, c) THEN SeqAdvance(sq[m], last) ELSE sq[m]
    BY <1>0, <1>1, <1>2, <1>5, <2>1, BasedNext DEF Arrives
  <2>2. ASSUME Seen(tab', h, c), NEW e \in Epoch, u \cup {ep[m]} = {e}
        PROVE  Highest(sq, g \cup {m}, Last(tab', h, c))
    <3>1. Lookup(tab', c)
      BY <2>2 DEF Seen
    <3>2. CASE u = {}
      <4>1. Last(tab', h, c) = sq[m] /\ g = {}
        BY <1>7, <1>16, <2>1, <3>1, <3>2
      <4> QED BY <4>1, HighestFirst
    <3>3. CASE u # {}
      <4>1. u = {ep[m]}
        BY <2>2, <3>3
      <4>2. Last(tab', h, c) = SeqAdvance(sq[m], last)
        BY <1>7, <2>1, <3>1, <3>3
      <4>3. Highest(sq, g, last)
        BY <1>8, <4>1 DEF Highest
      <4> QED BY <1>16, <4>2, <4>3, HighestNext DEF SeqAdvance
    <3> QED BY <3>2, <3>3
  <2>3. u \cup {ep[m]} # {}
    OBVIOUS
  <2> QED BY <2>1, <2>2, <2>3 DEF Based
<1>18. Based(tab', h, c, got'[h][c], under'[h][c], sq)
  BY <1>13, <1>17
<1>19. HoleIsLoss(h)
  <2>1. SUFFICES ASSUME lost' > 0, under'[h][c] = {r.epoch}
                 PROVE  Missing(r) \ told[h][c] # {}
    BY <1>1 DEF HoleIsLoss, Arrives
  <2>2. Seen(tab, h, c) /\ lost' = SeqLost(r.seq, last)
    <3>1. IF Seen(tab, h, c) THEN lost' = SeqLost(r.seq, Last(tab, h, c)) \/ lost' = 0
                             ELSE lost' = 0
      BY <1>0, <1>1 DEF LostOK
    <3>2. lost' # 0
      BY <2>1
    <3> QED BY <1>5, <3>1, <3>2
  <2>3. u = {ep[m]}
    <3>1. u \cup {ep[m]} = {ep[m]}
      BY <1>2, <1>13, <2>1
    <3>2. u # {}
      BY <1>7, <2>2
    <3> QED BY <3>1, <3>2
  <2>4. PICK i \in g : sq[i] = last
    BY <1>8, <2>3
  <2>5. /\ i \in 1 .. n /\ sq[i] < sn[ep[i]] /\ ep[i] \in Epoch
        /\ sq[i] \in Nat /\ sn[ep[i]] \in Nat
    BY <1>16 DEF Known, Counted
  <2>6. sn[ep[i]] <= n /\ n <= Bound(h)
    BY <1>1, <2>5 DEF LossInv, CountersOK, Known
  <2>7. Bound(h) \in Nat /\ Bound(h) < SeqMod
    BY BoundAssumption DEF Bound, NoWrap
  <2>8. last + 1 < SeqMod
    BY <2>4, <2>5, <2>6, <2>7, SeqAssumption
  <2>9. sq[m] > last + 1
    BY <1>2, <1>4, <2>1, <2>2, <2>8, GapIsAbove
  <2>10. Between(b, g, m) \ t # {}
    <3>1. Counted(n, sn, ep, sq)
      BY DEF Known
    <3> QED BY <1>6, <1>8, <2>3, <2>9, <3>1, HoleBetween
  <2> QED BY <1>3, <1>10, <2>10
<1> QED BY <1>1, <1>15, <1>18, <1>19 DEF KnownNext

LEMMA DeliverClaims ==
    ASSUME NoWrap, EntriesTyped, CaptureTypeOK, LossInv, NEW r, Arrives(r),
           NEW h \in Channel, NEW x \in Cookie
    PROVE  ClaimsOK(h, x)' /\ (h = r.chan /\ x = r.cookie => HoleIsLoss(h))
<1>0. PICK n \in Nat, sn \in [Epoch -> Nat] : n = made[h][x] /\ sn = seqno[h][x]
  BY ClaimTypes
<1>1. PICK ep \in [1 .. n -> Epoch], sq \in [1 .. n -> Nat] : ClaimsAre(h, x, ep, sq)
  BY <1>0 DEF LossInv, ClaimsOK
<1>2. /\ Counted(n, sn, ep, sq)
      /\ Carried(h, x, n, ep, sq)
      /\ Shown(n, ep, base[h][x], got[h][x], told[h][x], under[h][x])
      /\ Based(tab, h, x, got[h][x], under[h][x], sq)
  BY <1>0, <1>1 DEF ClaimsAre
<1>3. Carried(h, x, n, ep, sq)' /\ Stamped(r, h, x, n, ep, sq)
  BY <1>2, CarriedOn
<1>4. made'[h][x] = n /\ seqno'[h][x] = sn
  BY <1>0 DEF Arrives
<1>5. r \in Record /\ Audit(r) /\ HistoryTypeOK
  BY DEF Arrives, LossInv
<1>6. r.chan \in Channel /\ r.cookie \in Cookie
  BY <1>5 DEF Record
<1>7. SUFFICES /\ Shown(n, ep, base'[h][x], got'[h][x], told'[h][x], under'[h][x])
               /\ Based(tab', h, x, got'[h][x], under'[h][x], sq)
               /\ h = r.chan /\ x = r.cookie => HoleIsLoss(h)
  <2>1. SUFFICES ASSUME Shown(n, ep, base'[h][x], got'[h][x], told'[h][x], under'[h][x]),
                        Based(tab', h, x, got'[h][x], under'[h][x], sq)
                 PROVE  ClaimsOK(h, x)'
    OBVIOUS
  <2>2. ClaimsAre(h, x, ep, sq)'
    BY <1>2, <1>3, <1>4, <2>1 DEF ClaimsAre
  <2> QED BY <1>4, <2>2 DEF ClaimsOK
<1>8. CASE h = r.chan /\ x = r.cookie
  <2>1. CASE Lookup(tab, x)
    <3>1. Extended(r)
      BY <1>5, <1>6, <1>8, <2>1, AuditPoint
    <3>2. Known(r, n, sn, ep, sq)
      BY <1>0, <1>2, <1>3, <1>8 DEF Known
    <3>3. KnownNext(r, n, ep, sq) /\ HoleIsLoss(r.chan)
      BY <1>8, <2>1, <3>1, <3>2, DeliverExtends
    <3> QED BY <1>8, <3>3 DEF KnownNext
  <2>2. CASE ~Lookup(tab, x)
    <3>1. Restarted(r)
      BY <1>5, <1>6, <1>8, <2>2, AuditPoint
    <3>2. PICK m \in 1 .. n : m = r.num /\ ep[m] = r.epoch /\ sq[m] = r.seq
      BY <1>3, <1>8 DEF Stamped
    <3>3. base'[h][x] = m /\ got'[h][x] = {m} /\ told'[h][x] = {} /\ under'[h][x] = {ep[m]}
      BY <1>8, <3>1, <3>2 DEF Restarted
    <3>4. Shown(n, ep, base'[h][x], got'[h][x], told'[h][x], under'[h][x])
      <4>1. Shown(n, ep, m, {m}, {}, {ep[m]})
        BY ShownFirst
      <4> QED BY <3>3, <4>1
    <3>5. ~Seen(tab, h, x)
      BY <2>2 DEF Seen
    <3>6. Lookup(tab', x) => Seen(tab', h, x) /\ Last(tab', h, x) = sq[m]
      BY <1>5, <1>8, <3>2, <3>5, BasedNext DEF Arrives
    <3>7. Highest(sq, {m}, sq[m])
      <4>1. sq[m] \in Nat
        OBVIOUS
      <4> QED BY <4>1 DEF Highest
    <3>8. Based(tab', h, x, got'[h][x], under'[h][x], sq)
      BY <3>3, <3>6, <3>7 DEF Based, Seen
    <3>9. HoleIsLoss(h)
      <4>1. lost' = 0
        BY <1>8, <3>5 DEF Arrives, LostOK
      <4> QED BY <1>8, <4>1 DEF HoleIsLoss, Arrives
    <3> QED BY <3>4, <3>8, <3>9
  <2> QED BY <2>1, <2>2
<1>9. CASE x # r.cookie \/ (h # r.chan /\ Lookup(tab, x))
  <2>1. Kept(h, x)
    BY <1>5, <1>6, <1>9, AuditPoint
  <2>2. Lookup(tab', x) =>
           /\ Lookup(tab, x)
           /\ Seen(tab', h, x) <=> Seen(tab, h, x)
           /\ Seen(tab, h, x) => Last(tab', h, x) = Last(tab, h, x)
    BY <1>5, <1>9, BasedOther DEF Arrives
  <2>3. Based(tab', h, x, got[h][x], under[h][x], sq)
    BY <1>2, <2>2 DEF Based, Seen
  <2> QED BY <1>2, <1>9, <2>1, <2>3 DEF Kept
<1>10. CASE x = r.cookie /\ h # r.chan /\ ~Lookup(tab, x)
  <2>1. Blank(h, x)
    BY <1>5, <1>6, <1>10, AuditPoint
  <2>2. Lookup(tab', x) => (Seen(tab', h, x) <=> h = "raw")
    BY <1>5, <1>10, BasedOther DEF Arrives
  <2>3. Shown(n, ep, base'[h][x], got'[h][x], told'[h][x], under'[h][x])
    BY <2>1, ShownNone DEF Blank
  <2>4. ASSUME NEW e \in Epoch
        PROVE  under'[h][x] # {e}
    <3>1. e # 0
      BY BoundAssumption DEF Epoch
    <3> QED BY <2>1, <3>1 DEF Blank
  <2>5. Based(tab', h, x, got'[h][x], under'[h][x], sq)
    BY <2>1, <2>2, <2>4 DEF Based, Seen, Blank
  <2> QED BY <1>10, <2>3, <2>5
<1> QED BY <1>8, <1>9, <1>10

LEMMA DeliverStep ==
    ASSUME NoWrap, EntriesTyped, CaptureTypeOK, LossInv, NEW r, Arrives(r)
    PROVE  LossInv' /\ \A h \in Channel : HoleIsLoss(h)
<1>2. HistoryTypeOK'
  BY AuditTypes DEF Arrives, LossInv
<1>3. CountersOK'
  <2>1. ring \in Seq(Record) /\ ring # <<>> /\ ring' = Tail(ring)
    BY DEF CaptureTypeOK, Arrives
  <2>2. \A i \in 1 .. Len(ring') : i + 1 \in 1 .. Len(ring) /\ ring'[i] = ring[i + 1]
    BY <2>1
  <2> QED BY <2>2 DEF LossInv, CountersOK, Arrives
<1>4. \A h \in Channel, c \in Cookie : ClaimsOK(h, c)'
  BY DeliverClaims
<1>5. ASSUME NEW h \in Channel
      PROVE  HoleIsLoss(h)
  <2>1. r \in Record /\ r = Head(ring)
    BY DEF Arrives
  <2>2. r.chan \in Channel /\ r.cookie \in Cookie
    BY <2>1 DEF Record
  <2>3. CASE h = r.chan
    BY <2>2, <2>3, DeliverClaims
  <2>4. CASE h # r.chan
    BY <2>1, <2>4 DEF HoleIsLoss
  <2> QED BY <2>3, <2>4
<1> QED BY <1>2, <1>3, <1>4, <1>5 DEF LossInv

-----------------------------------------------------------------------------
(* A claim has one fate: a context still holds it, or it is in the ring, or *)
(* it was lost, or it was shown.                                            *)
Holds(k, h, c, n) ==
    task[k].pc = "reserve" /\ task[k].rec.chan = h /\ task[k].rec.cookie = c /\ task[k].rec.num = n

Queued(h, c, n) ==
    \E i \in 1 .. Len(ring) : ring[i].chan = h /\ ring[i].cookie = c /\ ring[i].num = n

Lost(h, c, n) == \E d \in dropped[h][c] : d[2] = n

FateOK(h, c, n) ==
    /\ \A k \in Task : Holds(k, h, c, n) =>
          /\ ~Queued(h, c, n) /\ ~Lost(h, c, n) /\ n \notin got[h][c]
          /\ \A j \in Task \ {k} : ~Holds(j, h, c, n)
    /\ Lost(h, c, n) => ~Queued(h, c, n) /\ n \notin got[h][c]

FatesOK == \A h \in Channel, c \in Cookie, n \in Nat : FateOK(h, c, n)

LEMMA FateBounds ==
    ASSUME CaptureTypeOK, LossInv, NEW h \in Channel, NEW c \in Cookie, NEW n \in Nat,
           (\E k \in Task : Holds(k, h, c, n)) \/ Queued(h, c, n) \/ Lost(h, c, n) \/ n \in got[h][c]
    PROVE  n <= made[h][c]
<1>1. PICK m \in Nat : m = made[h][c]
  BY ClaimTypes
<1>2. PICK ep \in [1 .. m -> Epoch], sq \in [1 .. m -> Nat] : ClaimsAre(h, c, ep, sq)
  BY <1>1 DEF LossInv, ClaimsOK
<1>3. Carried(h, c, m, ep, sq) /\ got[h][c] \subseteq 1 .. m
  BY <1>1, <1>2 DEF ClaimsAre, Shown
<1>4. ASSUME NEW k \in Task, Holds(k, h, c, n) PROVE n \in 1 .. m
  BY <1>3, <1>4 DEF Carried, Stamped, Holds
<1>5. ASSUME Queued(h, c, n) PROVE n \in 1 .. m
  BY <1>3, <1>5 DEF Carried, Stamped, Queued
<1>6. ASSUME Lost(h, c, n) PROVE n \in 1 .. m
  BY <1>3, <1>6 DEF Carried, Lost
<1> QED BY <1>1, <1>3, <1>4, <1>5, <1>6

(* A step that makes no claim and loses none: what is newly shown was       *)
(* queued.                                                                  *)
LEMMA FateKept ==
    ASSUME NEW h \in Channel, NEW c \in Cookie, NEW n \in Nat, FateOK(h, c, n),
           \A k \in Task : Holds(k, h, c, n)' => Holds(k, h, c, n),
           Queued(h, c, n)' => Queued(h, c, n),
           Lost(h, c, n)' => Lost(h, c, n),
           n \in got'[h][c] => n \in got[h][c] \/ Queued(h, c, n)
    PROVE  FateOK(h, c, n)'
BY DEF FateOK

LEMMA QuietFates ==
    ASSUME FatesOK, UNCHANGED <<ring, dropped, got>>,
           \A k \in Task : task'[k].pc = "reserve" => task'[k] = task[k]
    PROVE  FatesOK'
<1> SUFFICES ASSUME NEW h \in Channel, NEW c \in Cookie, NEW n \in Nat
             PROVE  FateOK(h, c, n)'
  BY DEF FatesOK
<1>1. FateOK(h, c, n)
  BY DEF FatesOK
<1>2. \A k \in Task : Holds(k, h, c, n)' => Holds(k, h, c, n)
  BY DEF Holds
<1>3. (Queued(h, c, n)' => Queued(h, c, n)) /\ (Lost(h, c, n)' => Lost(h, c, n))
  BY DEF Queued, Lost
<1> QED BY <1>1, <1>2, <1>3, FateKept

LEMMA DeliverFates ==
    ASSUME CaptureTypeOK, LossInv, FatesOK, NEW r, Arrives(r)
    PROVE  FatesOK'
<1>2. r \in Record /\ Audit(r) /\ r = ring[1] /\ ring' = Tail(ring) /\ ring # <<>>
  BY DEF Arrives
<1>3. ring \in Seq(Record)
  BY DEF CaptureTypeOK
<1>4. UNCHANGED <<task, dropped>>
  BY DEF Arrives
<1>5. HistoryTypeOK
  BY DEF LossInv
<1> SUFFICES ASSUME NEW h \in Channel, NEW c \in Cookie, NEW n \in Nat
             PROVE  FateOK(h, c, n)'
  BY DEF FatesOK
<1>6. FateOK(h, c, n)
  BY DEF FatesOK
<1>7. \A k \in Task : Holds(k, h, c, n)' => Holds(k, h, c, n)
  BY <1>4 DEF Holds
<1>8. Lost(h, c, n)' => Lost(h, c, n)
  BY <1>4 DEF Lost
<1>9. Queued(h, c, n)' => Queued(h, c, n)
  <2>1. \A i \in 1 .. Len(ring') : i + 1 \in 1 .. Len(ring) /\ ring'[i] = ring[i + 1]
    BY <1>2, <1>3
  <2> QED BY <2>1 DEF Queued
<1>10. ASSUME n \in got'[h][c] PROVE n \in got[h][c] \/ Queued(h, c, n)
  <2>1. 1 \in 1 .. Len(ring)
    BY <1>2, <1>3
  <2>2. CASE c = r.cookie /\ h = r.chan
    <3>1. got'[h][c] \subseteq got[h][c] \cup {r.num}
      BY <1>2, <1>5, <2>2, AuditPoint DEF Extended, Restarted
    <3> QED BY <1>2, <1>10, <2>1, <2>2, <3>1 DEF Queued
  <2>3. CASE ~(c = r.cookie /\ h = r.chan)
    <3>1. Kept(h, c) \/ Blank(h, c)
      BY <1>2, <1>5, <2>3, AuditPoint
    <3> QED BY <1>10, <3>1 DEF Kept, Blank
  <2> QED BY <2>2, <2>3
<1> QED BY <1>6, <1>7, <1>8, <1>9, <1>10, FateKept

LEMMA ClaimFates ==
    ASSUME CaptureTypeOK, LossInv, FatesOK, NEW h0 \in Channel, NEW c0 \in Cookie,
           NEW e0 \in Epoch, NEW k0 \in Task, NEW r, Claimed(h0, c0, e0, k0, r)
    PROVE  FatesOK'
<1>1. UNCHANGED <<ring, dropped, got>>
  BY DEF Claimed
<1>2. \A k \in Task : IF k = k0 THEN task'[k].rec = r ELSE task'[k] = task[k]
  BY DEF Claimed
<1>3. r.chan = h0 /\ r.cookie = c0 /\ r.num = made[h0][c0] + 1
  BY DEF Claimed
<1>4. PICK m \in Nat : m = made[h0][c0]
  BY ClaimTypes
<1> SUFFICES ASSUME NEW h \in Channel, NEW c \in Cookie, NEW n \in Nat
             PROVE  FateOK(h, c, n)'
  BY DEF FatesOK
<1>5. FateOK(h, c, n)
  BY DEF FatesOK
<1>6. (Queued(h, c, n)' <=> Queued(h, c, n)) /\ (Lost(h, c, n)' <=> Lost(h, c, n))
  BY <1>1 DEF Queued, Lost
<1>7. \A k \in Task \ {k0} : Holds(k, h, c, n)' => Holds(k, h, c, n)
  BY <1>2 DEF Holds
<1>8. CASE ~Holds(k0, h, c, n)'
  BY <1>1, <1>5, <1>6, <1>7, <1>8, FateKept
<1>9. CASE Holds(k0, h, c, n)'
  <2>1. h = h0 /\ c = c0 /\ n = m + 1
    BY <1>2, <1>3, <1>4, <1>9 DEF Holds
  <2>2. ~(n <= m) /\ m = made[h][c]
    BY <1>4, <2>1
  <2>3. /\ \A k \in Task : ~Holds(k, h, c, n)
        /\ ~Queued(h, c, n) /\ ~Lost(h, c, n) /\ n \notin got[h][c]
    BY <2>2, FateBounds
  <2> QED BY <1>1, <1>6, <1>7, <2>3 DEF FateOK
<1> QED BY <1>8, <1>9

LEMMA ReserveFates ==
    ASSUME CaptureTypeOK, LossInv, FatesOK, NEW k0 \in Task, Reserve(k0)
    PROVE  FatesOK'
<1>1. PICK r \in Record : r = task[k0].rec /\ task[k0].pc = "reserve"
  BY TaskShapes DEF Reserve
<1>2. /\ task'[k0].pc # "reserve"
      /\ \A k \in Task : k # k0 => task'[k] = task[k]
  BY DEF Reserve, CaptureTypeOK, AfterRecord, Off
<1>3. got' = got
  BY DEF Reserve
<1>4. \/ ring' = Append(ring, r) /\ dropped' = dropped
      \/ /\ ring' = ring
         /\ dropped' = [dropped EXCEPT ![r.chan][r.cookie] = @ \cup {<<r.epoch, r.num>>}]
  BY <1>1 DEF Reserve
<1>5. ring \in Seq(Record)
  BY DEF CaptureTypeOK
<1>6. dropped \in [Channel -> [Cookie -> SUBSET (Epoch \X Nat)]]
  BY DEF LossInv, HistoryTypeOK
<1> SUFFICES ASSUME NEW h \in Channel, NEW c \in Cookie, NEW n \in Nat
             PROVE  FateOK(h, c, n)'
  BY DEF FatesOK
<1>7. FateOK(h, c, n)
  BY DEF FatesOK
<1>8. \A k \in Task : Holds(k, h, c, n)' => k # k0 /\ Holds(k, h, c, n)
  BY <1>2 DEF Holds
<1>9. CASE ~(r.chan = h /\ r.cookie = c /\ r.num = n)
  <2>1. Queued(h, c, n)' => Queued(h, c, n)
    <3>1. \A i \in 1 .. Len(ring') : ring'[i] = r \/ (i \in 1 .. Len(ring) /\ ring'[i] = ring[i])
      BY <1>4, <1>5
    <3> QED BY <1>9, <3>1 DEF Queued
  <2>2. Lost(h, c, n)' => Lost(h, c, n)
    <3>1. \A d \in dropped'[h][c] :
             d \in dropped[h][c] \/ (r.chan = h /\ r.cookie = c /\ d[2] = r.num)
      BY <1>4, <1>6 DEF Record
    <3> QED BY <1>9, <3>1 DEF Lost
  <2> QED BY <1>3, <1>7, <1>8, <2>1, <2>2, FateKept
<1>10. CASE r.chan = h /\ r.cookie = c /\ r.num = n
  <2>1. Holds(k0, h, c, n)
    BY <1>1, <1>10 DEF Holds
  <2>2. /\ ~Queued(h, c, n) /\ ~Lost(h, c, n) /\ n \notin got[h][c]
        /\ \A k \in Task : ~Holds(k, h, c, n)'
    BY <1>7, <1>8, <2>1 DEF FateOK
  <2>3. ~(Queued(h, c, n)' /\ Lost(h, c, n)')
    BY <1>4, <2>2 DEF Queued, Lost
  <2> QED BY <1>3, <2>2, <2>3 DEF FateOK
<1> QED BY <1>9, <1>10

LEMMA KernelFates ==
    ASSUME NoWrap, CaptureTypeOK, LossInv, FatesOK, KernelStep
    PROVE  FatesOK'
<1>0. task \in [Task -> TaskType]
  BY DEF CaptureTypeOK
<1>1. ASSUME NEW k \in Task, NEW c \in Cookie, Established(k, c) PROVE FatesOK'
  BY <1>0, <1>1, QuietFates DEF Established, hvars
<1>2. ASSUME NEW k \in Task, NEW c \in Cookie, Closed(k, c) PROVE FatesOK'
  BY <1>0, <1>2, QuietFates DEF Closed, hvars
<1>3. ASSUME NEW k \in Task, NEW c \in Cookie, SocketCall(k, c) PROVE FatesOK'
  BY <1>0, <1>3, QuietFates DEF SocketCall, hvars
<1>4. ASSUME NEW k \in Task, NEW c \in Cookie, SslRet(k, c) PROVE FatesOK'
  BY <1>4, SslRetClaims, ClaimFates
<1>5. ASSUME NEW k \in Task, ConnGetInsert(k) PROVE FatesOK'
  BY <1>0, <1>5, QuietFates DEF ConnGetInsert, hvars
<1>6. ASSUME NEW k \in Task, ConnGetLookup(k) PROVE FatesOK'
  BY <1>0, <1>6, QuietFates DEF ConnGetLookup, hvars, Off
<1>7. ASSUME NEW k \in Task, Claim(k) PROVE FatesOK'
  BY <1>7, ClaimClaims, ClaimFates
<1>8. ASSUME NEW k \in Task, Reserve(k) PROVE FatesOK'
  BY <1>8, ReserveFates
<1>9. ASSUME NEW k \in Task, Unregister(k) PROVE FatesOK'
  BY <1>0, <1>9, QuietFates DEF Unregister, hvars, Off
<1>10. ASSUME NEW h \in Channel, NEW c \in Cookie, Evict(h, c) PROVE FatesOK'
  BY <1>10, QuietFates DEF Evict, hvars
<1> QED BY <1>1, <1>2, <1>3, <1>4, <1>5, <1>6, <1>7, <1>8, <1>9, <1>10 DEF KernelStep

-----------------------------------------------------------------------------
LEMMA LossInit == CaptureInit => LossInv /\ FatesOK
<1> SUFFICES ASSUME CaptureInit PROVE LossInv /\ FatesOK
  OBVIOUS
<1>1. ring = <<>> /\ \A k \in Task : task[k].pc = "off"
  BY DEF CaptureInit, Off
<1>2. /\ made = [h \in Channel |-> [c \in Cookie |-> 0]]
      /\ dropped = [h \in Channel |-> [c \in Cookie |-> {}]]
      /\ base = [h \in Channel |-> [c \in Cookie |-> 0]]
      /\ got = [h \in Channel |-> [c \in Cookie |-> {}]]
      /\ told = [h \in Channel |-> [c \in Cookie |-> {}]]
      /\ under = [h \in Channel |-> [c \in Cookie |-> {}]]
      /\ seqno = [h \in Channel |-> [c \in Cookie |-> [e \in Epoch |-> 0]]]
  BY DEF CaptureInit
<1>3. HistoryTypeOK
  BY <1>2 DEF HistoryTypeOK
<1>4. CountersOK
  BY <1>1, <1>2, BoundAssumption DEF CountersOK, Bound
<1>5. ASSUME NEW c \in Cookie PROVE ~Lookup(tab, c)
  BY DEF CaptureInit, Init, Lookup, EmptyTable
<1>6. ASSUME NEW h \in Channel, NEW c \in Cookie PROVE ClaimsOK(h, c)
  <2>1. PICK ep \in [1 .. 0 -> Epoch], sq \in [1 .. 0 -> Nat] : TRUE
    <3>1. 1 .. 0 = {}
      OBVIOUS
    <3>2. [x \in {} |-> x] \in [{} -> Epoch] /\ [x \in {} |-> x] \in [{} -> Nat]
      OBVIOUS
    <3> QED BY <3>1, <3>2
  <2>2. /\ made[h][c] = 0 /\ seqno[h][c] = [e \in Epoch |-> 0] /\ dropped[h][c] = {}
        /\ base[h][c] = 0 /\ got[h][c] = {} /\ told[h][c] = {} /\ under[h][c] = {}
    BY <1>2
  <2>3. Counted(0, seqno[h][c], ep, sq)
    <3>1. \A e \in Epoch : seqno[h][c][e] = 0
      BY <2>2
    <3> QED BY <3>1 DEF Counted
  <2>4. Carried(h, c, 0, ep, sq)
    BY <1>1, <2>2 DEF Carried
  <2>5. Shown(0, ep, 0, {}, {}, {})
    BY DEF Shown
  <2>6. Based(tab, h, c, {}, {}, sq)
    BY <1>5 DEF Based, Seen
  <2> QED BY ZenonT(30), <2>2, <2>3, <2>4, <2>5, <2>6 DEF ClaimsOK, ClaimsAre
<1>7. FatesOK
  BY <1>1, <1>2 DEF FatesOK, FateOK, Holds, Lost
<1> QED BY <1>3, <1>4, <1>6, <1>7 DEF LossInv

LEMMA NoDelivery ==
    ASSUME CaptureTypeOK, NEW h \in Channel, ring' = ring \/ Len(ring') > Len(ring)
    PROVE  HoleIsLoss(h)
<1>1. ring \in Seq(Record)
  BY DEF CaptureTypeOK
<1>2. ring # <<>> => ring' # Tail(ring)
  BY <1>1
<1> QED BY <1>2 DEF HoleIsLoss

LEMMA LossIsReported ==
    ASSUME CaptureTypeOK, LossInv, FatesOK
    PROVE  LossReported
<1> SUFFICES ASSUME NEW h \in Channel, NEW c \in Cookie, NEW d \in dropped[h][c],
                    under[h][c] = {d[1]}, Passed(h, c, d)
             PROVE  d[2] \in told[h][c]
  BY DEF LossReported, Reported
<1>1. PICK n \in Nat : n = made[h][c]
  BY ClaimTypes
<1>2. PICK ep \in [1 .. n -> Epoch], sq \in [1 .. n -> Nat] : ClaimsAre(h, c, ep, sq)
  BY <1>1 DEF LossInv, ClaimsOK
<1>3. d[2] \in 1 .. n /\ ep[d[2]] = d[1]
  BY <1>1, <1>2 DEF ClaimsAre, Carried
<1>4. Lost(h, c, d[2])
  BY DEF Lost
<1>5. d[2] \notin got[h][c]
  BY <1>3, <1>4 DEF FatesOK, FateOK
<1>6. Shown(n, ep, base[h][c], got[h][c], told[h][c], under[h][c])
  BY <1>1, <1>2 DEF ClaimsAre
<1> QED BY <1>3, <1>5, <1>6 DEF Shown, Passed

=============================================================================

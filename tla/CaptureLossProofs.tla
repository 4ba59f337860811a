------------------------- MODULE CaptureLossProofs -------------------------
(***************************************************************************)
(* Proofs about the sequence detectors behind Capture: on either channel   *)
(* no loss goes unreported and no gap is reported without one, for any     *)
(* number of contexts, connections, records and registrations, as long as  *)
(* the 32-bit numbers do not wrap.                                         *)
(*                                                                         *)
(* Here the handlers of the table are followed into the entry, for what    *)
(* they do to its baselines; CaptureProofs and CaptureDeliverProofs have   *)
(* the rest.                                                               *)
(***************************************************************************)
EXTENDS ConnTableProofs, CaptureDeliverProofs

(* A leaf that names no prover is tried with Zenon, then with SMT.          *)
USE ZenonT(3), SMTT(30), ZenonT(30)

(* Hence the table behind the kernel programs never exceeds max_conns,      *)
(* keeps its list and its hash table equal, counts its TLS entries exactly  *)
(* and frees every parser state once (conn_table.c under handle_event).     *)
THEOREM CaptureKeepsTable ==
    CaptureSpec => [](LruMatchesHash /\ TableBounded /\ TlsGauge /\ ParserStateOwned)
BY CaptureImplementsTable, LruMatchesHashAlways, TableAlwaysBounded, TlsGaugeAlwaysExact,
   ParserStateAlwaysOwned, PTL

-----------------------------------------------------------------------------
LEMMA MarkDirtySeq ==
    ASSUME NEW e \in Conn
    PROVE  SameSeq(e, MarkDirty(e))
<1> DEFINE f == [d \in Dir |-> TRUE]
<1>1. MarkDirty(e) = [e EXCEPT !.dirty = f]
  BY DEF MarkDirty
<1> HIDE DEF f
<1> QED BY <1>1 DEF SameSeq, Conn

LEMMA TlsResetSeq ==
    ASSUME NEW e \in Conn, NEW b \in BOOLEAN
    PROVE  SameSeq(e, TlsResetFraming(e, b))
<1> DEFINE f == [d \in Dir |-> b]
<1>1. TlsResetFraming(e, b) = [e EXCEPT !.dirty = f]
  BY DEF TlsResetFraming
<1> HIDE DEF f
<1> QED BY <1>1 DEF SameSeq, Conn

LEMMA ApplyCapSeq ==
    ASSUME NEW e \in Conn
    PROVE  SameSeq(e, ApplyCapPolicy(e))
BY DEF ApplyCapPolicy, SameSeq, Conn

LEMMA CapOnOpenSeq ==
    ASSUME NEW e \in Conn
    PROVE  SameSeq(e, CapOnOpen(e))
BY DEF CapOnOpen, SameSeq, Conn

LEMMA ReasmDataSeq ==
    ASSUME NEW e \in Conn, NEW d \in Dir, NEW b \in BOOLEAN, NEW x \in ReasmData(e, d, b)
    PROVE  SameSeq(e, x)
<1>1. x = e \/ \E w \in FramerEffect : x = Framed(e, d, w)
  <2>1. CASE e.mode = "off" \/ (e.tls /\ ~b)
    BY <2>1 DEF ReasmData
  <2>2. CASE ~(e.mode = "off" \/ (e.tls /\ ~b))
    BY <2>2 DEF ReasmData
  <2> QED BY <2>1, <2>2
<1>2. CASE x = e
  BY <1>2 DEF SameSeq
<1>3. ASSUME NEW w \in FramerEffect, x = Framed(e, d, w)
      PROVE  SameSeq(e, x)
  BY <1>3 DEF Framed, SameSeq, Conn
<1> QED BY <1>1, <1>2, <1>3

LEMMA SettleSeq ==
    ASSUME NEW t, TableOK(t), NEW c \in Live(t), NEW e \in Conn
    PROVE  SameSeq(e, Settle(t, c, e).conn[c])
<1> DEFINE e1 == ApplyCapPolicy(e)
           g == t.tls_active + (IF e.tls /\ ~t.conn[c].tls THEN 1 ELSE 0)
           h == t.heap \cup (IF e.proto_state THEN {<<c, e.ops>>} ELSE {})
           f == [t.conn EXCEPT ![c] = e1]
           r == Settle(t, c, e)
<1>1. r = [t EXCEPT !.conn = f, !.tls_active = g, !.heap = h]
  BY DEF Settle, TableOK, TableType
<1>2. f[c] = e1
  BY DEF TableOK, TableType, Live
<1>3. SameSeq(e, e1)
  BY ApplyCapSeq
<1> HIDE DEF e1, r, g, h, f
<1>4. r.conn = f
  BY <1>1 DEF TableOK, TableType
<1> QED BY <1>2, <1>3, <1>4 DEF r

LEMMA LruTouchSeq ==
    ASSUME NEW t, TableOK(t), NEW c \in Live(t), NEW e
    PROVE  LruTouch(t, c, e).conn[c] = e
<1> DEFINE f == [t.conn EXCEPT ![c] = e]
           l == LruPushFront(LruUnlink(t.lru, c), c)
<1>1. LruTouch(t, c, e) = [t EXCEPT !.conn = f, !.lru = l]
  BY DEF LruTouch, TableOK, TableType
<1>2. f[c] = e
  BY DEF TableOK, TableType, Live
<1> HIDE DEF f, l
<1> QED BY <1>1, <1>2 DEF TableOK, TableType

LEMMA TouchSeq ==
    ASSUME NEW t, TableOK(t), NEW c \in Live(t), NEW seq, NEW age
    PROVE  RawTouched(t.conn[c], Touch(t, c, seq, age).conn[c], seq)
<1> DEFINE e == t.conn[c]
           e1 == IF SeqGap(seq, e.last_seq) THEN MarkDirty(e) ELSE e
           e2 == [e1 EXCEPT !.last_seq = SeqAdvance(seq, e.last_seq), !.age = age]
<1>1. e \in Conn
  BY LiveConnLemma
<1>2. e1 \in Conn /\ SameSeq(e, e1)
  BY <1>1, MarkDirtySeq, MarkDirtyLemma DEF SameSeq
<1>3. Touch(t, c, seq, age).conn[c] = e2
  BY LruTouchSeq DEF Touch
<1> HIDE DEF e1, e
<1>4. RawTouched(e, e2, seq)
  BY <1>2 DEF SameSeq, RawTouched, Conn
<1> QED BY <1>3, <1>4 DEF e

LEMMA NoteTlsDropSeq ==
    ASSUME NEW t, TableOK(t), NEW c \in Live(t), NEW seq, NEW age
    PROVE  RawTouched(t.conn[c], NoteTlsDrop(t, c, seq, age).conn[c], seq)
<1> DEFINE e == t.conn[c]
           e2 == [e EXCEPT !.last_seq = SeqAdvance(seq, e.last_seq), !.age = age]
<1>1. e \in Conn
  BY LiveConnLemma
<1>3. NoteTlsDrop(t, c, seq, age).conn[c] = e2
  BY LruTouchSeq DEF NoteTlsDrop
<1> HIDE DEF e
<1>4. RawTouched(e, e2, seq)
  BY <1>1 DEF RawTouched, Conn
<1> QED BY <1>3, <1>4 DEF e

LEMMA TouchTlsSeq ==
    ASSUME NEW t, TableOK(t), NEW c \in Live(t), NEW seq, NEW age
    PROVE  TlsTouched(t.conn[c], TouchTls(t, c, seq, age).conn[c], seq)
<1> DEFINE e == t.conn[c]
           e1 == IF TlsGap(e, seq) THEN MarkDirty(e) ELSE e
           last == IF e.tls_seq_seen THEN SeqAdvance(seq, e.tls_last_seq) ELSE seq
           e2 == [e1 EXCEPT !.tls_seq_seen = TRUE, !.tls_last_seq = last, !.age = age]
<1>1. e \in Conn
  BY LiveConnLemma
<1>2. e1 \in Conn /\ SameSeq(e, e1)
  BY <1>1, MarkDirtySeq, MarkDirtyLemma DEF SameSeq
<1>3. TouchTls(t, c, seq, age).conn[c] = e2
  BY LruTouchSeq DEF TouchTls
<1> HIDE DEF e1, e
<1>4. TlsTouched(e, e2, seq)
  BY <1>2 DEF SameSeq, TlsTouched, Conn
<1> QED BY <1>3, <1>4 DEF e

LEMMA AgeZero == 0 \in 0 .. Skew
BY TimeAssumption DEF Age

LEMMA SameRawBaseline ==
    ASSUME NEW t, NEW c, NEW seq, NEW e, NEW x, SameSeq(e, x),
           RawBaseline(t, c, e, seq)
    PROVE  RawBaseline(t, c, x, seq)
BY DEF SameSeq, RawBaseline, RawTouched

LEMMA SameTlsBaseline ==
    ASSUME NEW t, NEW c, NEW seq, NEW e, NEW x, SameSeq(e, x),
           TlsBaseline(t, c, e, seq)
    PROVE  TlsBaseline(t, c, x, seq)
BY DEF SameSeq, TlsBaseline, TlsTouched

(* lk_conn_table_data.                                                      *)
LEMMA DataEntrySeq ==
    ASSUME NEW t, TableOK(t), NEW c \in Cookie, NEW seq \in Seqno
    PROVE  RawBaseline(t, c, DataEntry(t, c, seq, 0).conn[c], seq)
<1> DEFINE r == DataEntry(t, c, seq, 0)
<1>1. CASE Lookup(t, c)
  <2>1. c \in Live(t) /\ r = Touch(t, c, seq, 0)
    BY <1>1 DEF Live, DataEntry
  <2> HIDE DEF r
  <2>2. RawTouched(t.conn[c], r.conn[c], seq)
    BY <2>1, TouchSeq
  <2> QED BY <2>1, <2>2 DEF RawBaseline, r
<1>2. CASE ~Lookup(t, c)
  <2> DEFINE e == MarkDirty(NewConn(seq, 0))
  <2>1. /\ e \in Conn /\ ~e.tls /\ ~e.proto_state /\ e.age = 0
        /\ NewConn(seq, 0) \in Conn
    BY NewConnLemma, MarkDirtyLemma, AgeZero
  <2>2. e.age <= Skew /\ c \notin Live(t)
    BY <2>1, <1>2, TimeAssumption DEF Age, Live
  <2>3. r = Create(MakeRoom(t), c, e)
    BY <1>2 DEF DataEntry
  <2>4. SameSeq(NewConn(seq, 0), e)
    BY <2>1, MarkDirtySeq
  <2>5. NewConn(seq, 0).last_seq = seq /\ ~NewConn(seq, 0).tls_seq_seen
    BY DEF NewConn
  <2> HIDE DEF e, r
  <2>6. r.conn[c] = e
    BY <2>1, <2>2, <2>3, MakeAndCreateLemma
  <2> QED BY <2>2, <2>4, <2>5, <2>6 DEF RawBaseline, SameSeq, r
<1> QED BY <1>1, <1>2

(* lk_conn_table_data_decrypted.                                            *)
LEMMA DecryptedEntrySeq ==
    ASSUME NEW t, TableOK(t), NEW c \in Cookie, NEW seq \in Seqno
    PROVE  TlsBaseline(t, c, DecryptedEntry(t, c, seq, 0).conn[c], seq)
<1> DEFINE r == DecryptedEntry(t, c, seq, 0)
<1>1. CASE Lookup(t, c)
  <2>1. c \in Live(t) /\ r = TouchTls(t, c, seq, 0)
    BY <1>1 DEF Live, DecryptedEntry
  <2> HIDE DEF r
  <2>2. TlsTouched(t.conn[c], r.conn[c], seq)
    BY <2>1, TouchTlsSeq
  <2> QED BY <2>1, <2>2 DEF TlsBaseline, r
<1>2. CASE ~Lookup(t, c)
  <2> DEFINE e0 == MarkDirty(NewConn(seq, 0))
             e == [e0 EXCEPT !.tls_seq_seen = TRUE, !.tls_last_seq = seq]
  <2>1. e0 \in Conn /\ ~e0.tls /\ ~e0.proto_state /\ e0.age = 0
    BY NewConnLemma, MarkDirtyLemma, AgeZero
  <2>2. r = Create(MakeRoom(t), c, e)
    BY <1>2 DEF DecryptedEntry
  <2> HIDE DEF e0
  <2>3. /\ e \in Conn /\ ~e.tls /\ ~e.proto_state /\ e.age = 0
        /\ e.tls_seq_seen /\ e.tls_last_seq = seq
    BY <2>1 DEF Conn
  <2>4. e.age <= Skew /\ c \notin Live(t)
    BY <2>3, <1>2, TimeAssumption DEF Age, Live
  <2> HIDE DEF e, r
  <2>5. r.conn[c] = e
    BY <2>2, <2>3, <2>4, MakeAndCreateLemma
  <2> QED BY <2>3, <2>4, <2>5 DEF TlsBaseline, r
<1> QED BY <1>1, <1>2

LEMMA SettledSeq ==
    ASSUME IInv, NEW c \in Cookie, NEW t, Entered(tab, t, c), NEW e \in Conn,
           SameSeq(t.conn[c], e), tab' = Settle(t, c, e)
    PROVE  OthersKept(c) /\ SameSeq(t.conn[c], tab'.conn[c])
<1>1. TableOK(t) /\ c \in Live(t)
  BY DEF Entered
<1>2. SameSeq(e, tab'.conn[c])
  BY <1>1, SettleSeq
<1>3. /\ Live(tab') = Live(t)
      /\ \A x \in Live(t) \ {c} : tab'.conn[x] = t.conn[x]
  BY <1>1, SettleFrameLemma
<1>4. OthersKept(c)
  BY <1>3 DEF OthersKept, Entered
<1> QED BY <1>2, <1>4 DEF SameSeq

LEMMA OpenKnownSeq ==
    ASSUME IInv, NEW c \in Cookie, NEW seq \in Seqno, OpenKnown(c, seq, 0)
    PROVE  RawEffect(c, seq)
<1> DEFINE t == Touch(tab, c, seq, 0)
           f == [t.conn EXCEPT ![c] = CapOnOpen(t.conn[c])]
<1>1. TableOK(tab) /\ c \in Live(tab)
  BY DEF IInv, OpenKnown, Live
<1>2. tab' = FlagOnOpen(t, c)
  BY DEF OpenKnown
<1>3. /\ TableOK(t) /\ Live(t) = Live(tab) /\ t.conn[c] \in Conn
      /\ \A x \in Live(tab) \ {c} : t.conn[x] = tab.conn[x]
  BY <1>1, TouchLemma, AgeZero
<1>4. RawTouched(tab.conn[c], t.conn[c], seq)
  BY <1>1, TouchSeq
<1> HIDE DEF t
<1>5. /\ Live(tab') = Live(t)
      /\ \A x \in Live(t) \ {c} : tab'.conn[x] = t.conn[x]
  BY <1>1, <1>2, <1>3, CapOnOpenLemma
<1>6. tab' = [t EXCEPT !.conn = f]
  BY <1>2, <1>3 DEF FlagOnOpen, TableOK, TableType
<1>7. f[c] = CapOnOpen(t.conn[c])
  BY <1>3 DEF TableOK, TableType
<1> HIDE DEF f
<1>8. tab'.conn[c] = CapOnOpen(t.conn[c])
  BY <1>3, <1>6, <1>7 DEF TableOK, TableType
<1>9. SameSeq(t.conn[c], tab'.conn[c])
  BY <1>3, <1>8, CapOnOpenSeq
<1> QED BY <1>1, <1>3, <1>4, <1>5, <1>9
        DEF RawEffect, OthersKept, RawBaseline, RawTouched, SameSeq

LEMMA OpenNewSeq ==
    ASSUME IInv, NEW c \in Cookie, NEW seq \in Seqno, NEW port \in Port,
           NEW synthetic \in BOOLEAN, OpenNew(c, seq, 0, port, synthetic)
    PROVE  RawEffect(c, seq)
<1> DEFINE e0 == [NewConn(seq, 0) EXCEPT !.ops = PortProto[port]]
           e1 == OpenedConn(seq, 0, port, synthetic)
           e == CapOnOpen(e1)
<1>1. TableOK(tab) /\ c \notin Live(tab)
  BY DEF IInv, OpenNew, Live
<1>2. NewConn(seq, 0) \in Conn /\ ~NewConn(seq, 0).tls /\ ~NewConn(seq, 0).proto_state
      /\ NewConn(seq, 0).age = 0
  BY NewConnLemma, AgeZero
<1>3. NewConn(seq, 0).last_seq = seq /\ ~NewConn(seq, 0).tls_seq_seen
  BY DEF NewConn
<1>4. PortProto[port] \in Proto
  BY ProtoAssumption DEF Port
<1>5. /\ e0 \in Conn /\ ~e0.tls /\ ~e0.proto_state /\ e0.age = 0
      /\ e0.last_seq = seq /\ ~e0.tls_seq_seen
  BY <1>2, <1>3, <1>4 DEF Conn
<1>6. e1 = MarkDirty(e0) \/ e1 = e0
  BY DEF OpenedConn
<1> HIDE DEF e0
<1>7. /\ e1 \in Conn /\ ~e1.tls /\ ~e1.proto_state /\ e1.age = 0
      /\ e1.last_seq = seq /\ ~e1.tls_seq_seen
  BY <1>5, <1>6, MarkDirtyLemma, MarkDirtySeq DEF SameSeq
<1>8. tab' = Create(MakeRoom(tab), c, e)
  BY DEF OpenNew
<1> HIDE DEF e1
<1>9. /\ e \in Conn /\ ~e.tls /\ ~e.proto_state /\ e.age <= Skew
      /\ e.last_seq = seq /\ ~e.tls_seq_seen
  <2>1. e = [e1 EXCEPT !.cap_headers = @ \/ CapHeaders]
    BY DEF CapOnOpen
  <2>2. e \in Conn /\ ~e.tls /\ ~e.proto_state /\ e.age = 0
    BY <1>7, <2>1, CapHeadersAssumption DEF Conn
  <2>3. SameSeq(e1, e)
    BY <1>7, CapOnOpenSeq
  <2> QED BY <1>7, <2>2, <2>3, AgeZero, TimeAssumption DEF SameSeq
<1> HIDE DEF e
<1>10. /\ tab'.conn[c] = e
       /\ Live(tab') = Live(MakeRoom(tab)) \cup {c}
       /\ Live(MakeRoom(tab)) \subseteq Live(tab)
       /\ \A x \in Live(tab') \ {c} : tab'.conn[x] = tab.conn[x]
  BY <1>1, <1>8, <1>9, MakeAndCreateLemma
<1> QED BY <1>1, <1>9, <1>10 DEF RawEffect, OthersKept, RawBaseline

LEMMA CloseSeq ==
    ASSUME IInv, NEW c \in Cookie, NEW seq \in Seqno, Close(c, seq, 0)
    PROVE  RawEffect(c, seq)
<1>1. CASE Lookup(tab, c)
  <2> DEFINE t == Touch(tab, c, seq, 0)
  <2>1. TableOK(tab) /\ c \in Live(tab)
    BY <1>1 DEF IInv, Live
  <2>2. tab' = Destroy(t, c)
    BY <1>1 DEF Close
  <2>3. /\ TableOK(t) /\ Live(t) = Live(tab)
        /\ \A x \in Live(tab) \ {c} : t.conn[x] = tab.conn[x]
    BY <2>1, TouchLemma, AgeZero
  <2> HIDE DEF t
  <2>4. /\ Live(tab') = Live(t) \ {c}
        /\ \A x \in Live(t) \ {c} : tab'.conn[x] = t.conn[x]
    BY <2>1, <2>2, <2>3, DestroyLemma
  <2> QED BY <2>1, <2>3, <2>4 DEF RawEffect, OthersKept
<1>2. CASE ~Lookup(tab, c)
  <2>1. tab' = tab /\ c \notin Live(tab)
    BY <1>2 DEF Close, Live
  <2> QED BY <2>1 DEF RawEffect, OthersKept
<1> QED BY <1>1, <1>2

LEMMA CiphertextSeq ==
    ASSUME IInv, NEW c \in Cookie, NEW seq \in Seqno, DataCiphertext(c, seq, 0)
    PROVE  RawEffect(c, seq)
<1> DEFINE t == NoteTlsDrop(tab, c, seq, 0)
<1>1. TableOK(tab) /\ c \in Live(tab)
  BY DEF IInv, DataCiphertext, Live
<1>2. tab' = Settle(t, c, t.conn[c])
  BY DEF DataCiphertext
<1>3. /\ TableOK(t) /\ Live(t) = Live(tab) /\ t.conn[c] \in Conn
      /\ \A x \in Live(tab) \ {c} : t.conn[x] = tab.conn[x]
  BY <1>1, NoteTlsDropLemma, AgeZero
<1>4. RawTouched(tab.conn[c], t.conn[c], seq)
  BY <1>1, NoteTlsDropSeq
<1> HIDE DEF t
<1>5. SameSeq(t.conn[c], tab'.conn[c])
  BY <1>1, <1>2, <1>3, SettleSeq
<1>6. /\ Live(tab') = Live(t)
      /\ \A x \in Live(t) \ {c} : tab'.conn[x] = t.conn[x]
  BY <1>1, <1>2, <1>3, SettleFrameLemma
<1> QED BY <1>1, <1>3, <1>4, <1>5, <1>6
        DEF RawEffect, OthersKept, RawBaseline, RawTouched, SameSeq

LEMMA DataSeq ==
    ASSUME IInv, NEW c \in Cookie, NEW seq \in Seqno, NEW d \in Dir, Data(c, seq, 0, d)
    PROVE  RawEffect(c, seq)
<1> DEFINE t == DataEntry(tab, c, seq, 0)
<1>1. TableOK(tab)
  BY DEF IInv
<1>2. Entered(tab, t, c) /\ RawBaseline(tab, c, t.conn[c], seq)
  BY <1>1, DataEntryLemma, DataEntrySeq, AgeZero
<1>3. PICK e \in ReasmData(t.conn[c], d, FALSE) :
         tab' = Settle(t, c, IF e.tls THEN TlsResetFraming(e, FALSE) ELSE e)
  BY DEF Data
<1> DEFINE e1 == IF e.tls THEN TlsResetFraming(e, FALSE) ELSE e
<1> HIDE DEF t
<1>4. e \in Conn /\ SameSeq(t.conn[c], e)
  BY <1>2, ReasmDataLemma, ReasmDataSeq DEF Entered
<1>5. e1 \in Conn /\ SameSeq(e, e1)
  BY <1>4, TlsResetFramingLemma, TlsResetSeq DEF SameSeq
<1>6. tab' = Settle(t, c, e1)
  BY <1>3
<1> HIDE DEF e1
<1>7. SameSeq(t.conn[c], e1)
  BY <1>4, <1>5 DEF SameSeq
<1>8. OthersKept(c) /\ SameSeq(t.conn[c], tab'.conn[c])
  BY <1>2, <1>5, <1>6, <1>7, SettledSeq
<1> QED BY <1>2, <1>8, SameRawBaseline DEF RawEffect

LEMMA DecryptedSeq ==
    ASSUME IInv, NEW c \in Cookie, NEW seq \in Seqno, NEW d \in Dir,
           DataDecrypted(c, seq, 0, d)
    PROVE  TlsEffect(c, seq)
<1> DEFINE t == DecryptedEntry(tab, c, seq, 0)
           e0 == t.conn[c]
           x0 == TlsResetFraming(e0, TRUE)
           e1 == IF e0.tls THEN e0 ELSE [x0 EXCEPT !.tls = TRUE]
<1>1. TableOK(tab)
  BY DEF IInv
<1>2. Entered(tab, t, c) /\ TlsBaseline(tab, c, e0, seq)
  BY <1>1, DecryptedEntryLemma, DecryptedEntrySeq, AgeZero
<1>3. PICK e \in ReasmData(e1, d, TRUE) : tab' = Settle(t, c, e)
  BY DEF DataDecrypted
<1> HIDE DEF t
<1>4. e0 \in Conn
  BY <1>2 DEF Entered
<1> HIDE DEF e0
<1>5. x0 \in Conn /\ SameSeq(e0, x0)
  BY <1>4, TlsResetFramingLemma, TlsResetSeq
<1> HIDE DEF x0
<1>6. [x0 EXCEPT !.tls = TRUE] \in Conn /\ SameSeq(x0, [x0 EXCEPT !.tls = TRUE])
  BY <1>5 DEF Conn, SameSeq
<1>7. e1 \in Conn /\ SameSeq(e0, e1)
  BY <1>4, <1>5, <1>6 DEF SameSeq
<1> HIDE DEF e1
<1>8. e \in Conn /\ SameSeq(e1, e)
  BY <1>3, <1>7, ReasmDataLemma, ReasmDataSeq
<1>9. SameSeq(e0, e)
  BY <1>7, <1>8 DEF SameSeq
<1>10. OthersKept(c) /\ SameSeq(e0, tab'.conn[c])
  BY <1>2, <1>3, <1>8, <1>9, SettledSeq DEF e0
<1> QED BY <1>2, <1>10, SameTlsBaseline DEF TlsEffect

LEMMA CreateFailsSeq ==
    ASSUME IInv, NEW c \in Cookie, CreateFails(c), NEW seq
    PROVE  RawEffect(c, seq) /\ TlsEffect(c, seq)
<1>1. TableOK(tab) /\ tab' = MakeRoom(tab) /\ c \notin Live(tab)
  BY DEF IInv, CreateFails, Live
<1>2. /\ Live(tab') \subseteq Live(tab)
      /\ \A x \in Live(tab') : tab'.conn[x] = tab.conn[x]
  BY <1>1, MakeRoomLemma
<1> QED BY <1>1, <1>2 DEF RawEffect, TlsEffect, OthersKept

LEMMA HandleEffect ==
    ASSUME IInv, NEW r \in Record, r.chan = "tls" => r.type = "DATA", Handle(r)
    PROVE  /\ r.chan = "raw" => RawEffect(r.cookie, r.seq)
           /\ r.chan = "tls" => TlsEffect(r.cookie, r.seq)
           /\ LostOK(r)
<1> DEFINE c == r.cookie
           s == r.seq
<1>1. c \in Cookie /\ s \in Seqno /\ r.chan \in {"raw", "tls"}
  BY DEF Record, Channel
<1>2. CASE r.type \in {"OPEN", "SYNTHETIC"} /\ OpenKnown(c, s, 0)
  <2>1. r.chan = "raw" /\ RawEffect(c, s)
    BY <1>1, <1>2, OpenKnownSeq
  <2>2. LostOK(r)
    BY <1>2, <2>1 DEF LostOK, Seen, Last, OpenKnown
  <2> QED BY <2>1, <2>2
<1>3. CASE /\ r.type \in {"OPEN", "SYNTHETIC"}
           /\ \E port \in Port : OpenNew(c, s, 0, port, r.type = "SYNTHETIC")
  <2>1. r.chan = "raw" /\ RawEffect(c, s)
    BY <1>1, <1>3, OpenNewSeq
  <2>2. LostOK(r)
    BY <1>3, <2>1 DEF LostOK, Seen, Last, OpenNew
  <2> QED BY <2>1, <2>2
<1>4. CASE r.type = "CLOSE" /\ Close(c, s, 0)
  <2>1. r.chan = "raw" /\ RawEffect(c, s)
    BY <1>1, <1>4, CloseSeq
  <2>2. LostOK(r)
    BY <1>4, <2>1 DEF LostOK, Seen, Last, Close
  <2> QED BY <2>1, <2>2
<1>5. CASE r.type = "DATA" /\ r.chan = "raw" /\ DataCiphertext(c, s, 0)
  <2>1. RawEffect(c, s)
    BY <1>1, <1>5, CiphertextSeq
  <2>2. LostOK(r)
    BY <1>5 DEF LostOK, Seen, Last, DataCiphertext, Excused
  <2> QED BY <1>5, <2>1, <2>2
<1>6. CASE r.type = "DATA" /\ r.chan = "raw" /\ \E d \in Dir : Data(c, s, 0, d)
  <2>1. RawEffect(c, s)
    BY <1>1, <1>6, DataSeq
  <2>2. lost' = IF Lookup(tab, c) THEN SeqLost(s, tab.conn[c].last_seq) ELSE 0
    BY <1>6 DEF Data
  <2>3. LostOK(r)
    BY <1>6, <2>2 DEF LostOK, Seen, Last
  <2> QED BY <1>6, <2>1, <2>3
<1>7. CASE r.type = "DATA" /\ r.chan = "tls" /\ \E d \in Dir : DataDecrypted(c, s, 0, d)
  <2>1. TlsEffect(c, s)
    BY <1>1, <1>7, DecryptedSeq
  <2>2. lost' = IF Lookup(tab, c) /\ TlsGap(tab.conn[c], s)
                THEN SeqLost(s, tab.conn[c].tls_last_seq) ELSE 0
    BY <1>7 DEF DataDecrypted
  <2>3. LostOK(r)
    BY <1>7, <2>2 DEF LostOK, Seen, Last, TlsGap, SeqLost
  <2> QED BY <1>7, <2>1, <2>3
<1>8. CASE r.type # "CLOSE" /\ CreateFails(c)
  <2>1. RawEffect(c, s) /\ TlsEffect(c, s)
    BY <1>1, <1>8, CreateFailsSeq
  <2>2. LostOK(r)
    BY <1>8 DEF LostOK, Seen, CreateFails
  <2> QED BY <2>1, <2>2
<1> QED BY <1>2, <1>3, <1>4, <1>5, <1>6, <1>7, <1>8 DEF Handle

LEMMA DeliverArrives ==
    ASSUME IInv, CaptureTypeOK, CountersOK, Deliver
    PROVE  \E r : Arrives(r)
<1> DEFINE r == Head(ring)
<1>1. ring # <<>> /\ ring \in Seq(Record)
  BY DEF Deliver, CaptureTypeOK
<1>2. r \in Record /\ r = ring[1] /\ 1 \in 1 .. Len(ring)
  BY <1>1
<1>3. r.chan = "tls" => r.type = "DATA"
  BY <1>2 DEF CountersOK
<1>4. Handle(r) /\ Audit(r) /\ ring' = Tail(ring) /\ UNCHANGED <<seqno, task, made, dropped>>
  BY DEF Deliver
<1>5. LostOK(r) /\ (r.chan = "raw" => RawEffect(r.cookie, r.seq))
      /\ (r.chan = "tls" => TlsEffect(r.cookie, r.seq))
  BY <1>2, <1>3, <1>4, HandleEffect
<1>6. Arrives(r)
  BY <1>1, <1>2, <1>4, <1>5 DEF Arrives
<1> QED BY <1>6

-----------------------------------------------------------------------------
LEMMA LossNext ==
    ASSUME NoWrap, IInv, CaptureTypeOK, LossInv, FatesOK, [CaptureNext]_cvars
    PROVE  LossInv' /\ FatesOK' /\ \A h \in Channel : HoleIsLoss(h)
<1>1. CASE KernelStep
  <2>1. ring \in Seq(Record)
    BY DEF CaptureTypeOK
  <2>2. ring' = ring \/ \E r : ring' = Append(ring, r)
    <3>1. ASSUME NEW k \in Task, NEW c \in Cookie,
                 Established(k, c) \/ Closed(k, c) \/ SocketCall(k, c) \/ SslRet(k, c)
          PROVE  ring' = ring
      <4>1. CASE Established(k, c)
        BY <4>1 DEF Established
      <4>2. CASE Closed(k, c)
        BY <4>2 DEF Closed
      <4>3. CASE SocketCall(k, c)
        BY <4>3 DEF SocketCall
      <4>4. CASE SslRet(k, c)
        BY <4>4 DEF SslRet
      <4> QED BY <3>1, <4>1, <4>2, <4>3, <4>4
    <3>2. ASSUME NEW k \in Task, ConnGetInsert(k) \/ ConnGetLookup(k) \/ Claim(k) \/ Unregister(k)
          PROVE  ring' = ring
      <4>1. CASE ConnGetInsert(k)
        BY <4>1 DEF ConnGetInsert
      <4>2. CASE ConnGetLookup(k)
        BY <4>2 DEF ConnGetLookup
      <4>3. CASE Claim(k)
        BY <4>3 DEF Claim
      <4>4. CASE Unregister(k)
        BY <4>4 DEF Unregister
      <4> QED BY <3>2, <4>1, <4>2, <4>3, <4>4
    <3>3. ASSUME NEW k \in Task, Reserve(k) PROVE ring' = ring \/ \E r : ring' = Append(ring, r)
      BY <3>3 DEF Reserve
    <3>4. ASSUME NEW h \in Channel, NEW c \in Cookie, Evict(h, c) PROVE ring' = ring
      BY <3>4 DEF Evict
    <3> QED BY <1>1, <3>1, <3>2, <3>3, <3>4 DEF KernelStep
  <2>3. ring' = ring \/ Len(ring') > Len(ring)
    BY <2>1, <2>2
  <2> QED BY <1>1, <2>3, KernelLoss, KernelFates, NoDelivery
<1>2. CASE Deliver
  <2>1. PICK r : Arrives(r)
    BY <1>2, DeliverArrives DEF LossInv
  <2>2. EntriesTyped
    BY LiveConnLemma DEF IInv, Live, EntriesTyped
  <2> QED BY <2>1, <2>2, DeliverStep, DeliverFates
<1>3. CASE AgentSweep
  <2>1. Sweep /\ UNCHANGED <<kvars, hvars>>
    BY <1>3 DEF AgentSweep
  <2>2. UNCHANGED <<ring, dropped, got, task>>
    BY <2>1 DEF kvars, hvars
  <2>3. \A x \in Live(tab') : x \in Live(tab) /\ tab'.conn[x] = tab.conn[x]
    BY <2>1, SweepLemma DEF Sweep, IInv
  <2> QED BY <2>1, <2>2, <2>3, ForgetStep, QuietFates, NoDelivery
<1>4. CASE UNCHANGED cvars
  <2>1. UNCHANGED <<tab, seqno, ring, task, hvars>> /\ UNCHANGED <<ring, dropped, got, task>>
    BY <1>4 DEF cvars, vars, kvars, hvars
  <2> QED BY <2>1, QuietStep, QuietFates, NoDelivery
<1>5. CASE OverrideAges
  <2>1. UNCHANGED <<tab, seqno, ring, task, hvars>> /\ UNCHANGED <<ring, dropped, got, task>>
    BY <1>5 DEF OverrideAges, CapAges, kvars, hvars
  <2> QED BY <2>1, QuietStep, QuietFates, NoDelivery
<1> QED BY <1>1, <1>2, <1>3, <1>4, <1>5 DEF CaptureNext

(* As long as the numbers do not wrap, no record of a connection is lost    *)
(* silently while it stays registered: every gap that the detectors of      *)
(* touch and touch_tls pass over is reported, whatever the contexts of      *)
(* emit_chunk, emit_conn_event and emit_ssl_chunk do, however full the ring *)
(* and whatever the maps evict.                                             *)
THEOREM LossAlwaysReported == NoWrap => (CaptureSpec => []LossReported)
<1> SUFFICES ASSUME NoWrap PROVE CaptureSpec => []LossReported
  OBVIOUS
<1>1. CaptureSpec => []IInv
  BY CaptureImplementsTable, Invariance, PTL
<1>2. IInv /\ CaptureTypeOK /\ LossInv /\ FatesOK /\ [CaptureNext]_cvars => LossInv' /\ FatesOK'
  BY LossNext
<1>3. CaptureTypeOK /\ LossInv /\ FatesOK => LossReported
  BY LossIsReported
<1> QED BY <1>1, <1>2, <1>3, LossInit, CaptureTypeCorrect, PTL DEF CaptureSpec

(* And the detectors never report one that did not happen: a gap is over a  *)
(* record that the entry was not shown (seq_lost as touch and touch_tls use *)
(* it, "a hole means loss").                                                *)
THEOREM HoleAlwaysMeansLoss == NoWrap => (CaptureSpec => HoleMeansLoss)
<1> SUFFICES ASSUME NoWrap PROVE CaptureSpec => HoleMeansLoss
  OBVIOUS
<1>1. CaptureSpec => []IInv
  BY CaptureImplementsTable, Invariance, PTL
<1>2. IInv /\ CaptureTypeOK /\ LossInv /\ FatesOK /\ [CaptureNext]_cvars => LossInv' /\ FatesOK'
  BY LossNext
<1>3. IInv /\ CaptureTypeOK /\ LossInv /\ FatesOK /\ [CaptureNext]_cvars =>
        [\A h \in Channel : HoleIsLoss(h)]_cvars
  BY LossNext
<1> QED BY <1>1, <1>2, <1>3, LossInit, CaptureTypeCorrect, PTL DEF CaptureSpec, HoleMeansLoss

=============================================================================

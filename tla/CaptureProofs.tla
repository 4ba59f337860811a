--------------------------- MODULE CaptureProofs ---------------------------
(***************************************************************************)
(* Proofs about Capture.  The composed system keeps its types, and every   *)
(* step of it is a step of ConnTable or leaves the table alone: whatever   *)
(* ConnTableProofs shows of the table driven by arbitrary records holds of *)
(* the table driven by the kernel programs, for any number of contexts and *)
(* any sizes.                                                              *)
(*                                                                         *)
(* The second half is about what a claim of a sequence number becomes: the *)
(* invariant behind the loss detectors and its preservation by the kernel  *)
(* programs.  It speaks of the claims of a connection on a channel, in the *)
(* order they were made: ep[n] is the registration the n-th was made under *)
(* and sq[n] the number it took.  Under one registration numbers are dense *)
(* and grow with n, so what the detector sees in the numbers is what       *)
(* happened to the records.  CaptureDeliverProofs has the deliveries,      *)
(* CaptureLossProofs the theorems.                                         *)
(***************************************************************************)
EXTENDS Capture, TLAPS

INSTANCE ClaimOrder

(* A leaf that names no prover is tried with Zenon, then with SMT.          *)
USE ZenonT(3), SMTT(30), ZenonT(30)

-----------------------------------------------------------------------------
LEMMA CaptureInitType == CaptureInit => CaptureTypeOK
BY SeqAssumption, RingAssumption, BoundAssumption
   DEF CaptureInit, CaptureTypeOK, TaskType, Channel, Epoch, Seqno, Off

(* A context that is at a program point has the record of that point.       *)
LEMMA TaskShapes ==
    ASSUME CaptureTypeOK, NEW k \in Task
    PROVE  /\ task[k].pc = "insert" =>
                task[k] \in [pc: {"insert"}, cookie: Cookie, todo: {<<"DATA">>}]
           /\ task[k].pc = "lookup" =>
                task[k] \in [pc: {"lookup"}, cookie: Cookie,
                             todo: {<<"OPEN">>, <<"DATA">>, <<"SYNTHETIC", "DATA">>}]
           /\ task[k].pc = "claim" =>
                task[k] \in [pc: {"claim"}, cookie: Cookie, epoch: Epoch,
                             todo: {<<"OPEN">>, <<"DATA">>, <<"CLOSE">>,
                                    <<"SYNTHETIC", "DATA">>}]
           /\ task[k].pc = "reserve" =>
                task[k] \in [pc: {"reserve"}, todo: {<<>>, <<"DATA">>}, rec: Record]
           /\ task[k].pc = "delete" => task[k] \in [pc: {"delete"}, cookie: Cookie]
<1>1. task[k] \in TaskType
  BY DEF CaptureTypeOK
<1> QED
  BY <1>1 DEF TaskType, Off

(* The task a step leaves behind is what it says and nothing else changes.  *)
LEMMA TaskUpdate ==
    ASSUME CaptureTypeOK, NEW k \in Task, NEW v \in TaskType,
           task' = [task EXCEPT ![k] = v]
    PROVE  task' \in [Task -> TaskType]
BY DEF CaptureTypeOK

LEMMA RegisterType ==
    ASSUME CaptureTypeOK, NEW c \in Cookie, Register(c)
    PROVE  /\ reg' \in [Channel -> [Cookie -> 0 .. MaxEpoch]]
           /\ epochs' \in [Channel -> [Cookie -> 0 .. MaxEpoch]]
<1>1. CASE reg["raw"][c] = 0
  <2> DEFINE e == FreshEpoch("raw", c)
  <2>1. /\ e \in Epoch
        /\ reg' = [reg EXCEPT !["raw"][c] = e]
        /\ epochs' = [epochs EXCEPT !["raw"][c] = e]
    BY <1>1 DEF Register
  <2> HIDE DEF e
  <2>2. e \in 0 .. MaxEpoch
    BY <2>1, BoundAssumption DEF Epoch
  <2> QED
    BY <2>1, <2>2 DEF CaptureTypeOK, Channel
<1>2. CASE reg["raw"][c] # 0
  BY <1>2 DEF Register, CaptureTypeOK
<1> QED
  BY <1>1, <1>2

LEMMA EstablishedType ==
    ASSUME CaptureTypeOK, NEW k \in Task, NEW c \in Cookie, Established(k, c)
    PROVE  CaptureTypeOK'
<1>1. /\ reg' \in [Channel -> [Cookie -> 0 .. MaxEpoch]]
      /\ epochs' \in [Channel -> [Cookie -> 0 .. MaxEpoch]]
  BY RegisterType DEF Established
<1>2. task' \in [Task -> TaskType]
  <2>1. [pc |-> "lookup", cookie |-> c, todo |-> <<"OPEN">>] \in TaskType
    BY DEF TaskType
  <2> QED
    BY <2>1, TaskUpdate DEF Established, CaptureTypeOK
<1> QED
  BY <1>1, <1>2 DEF Established, CaptureTypeOK, hvars

LEMMA ClosedType ==
    ASSUME CaptureTypeOK, NEW k \in Task, NEW c \in Cookie, Closed(k, c)
    PROVE  CaptureTypeOK'
<1>1. task' \in [Task -> TaskType]
  <2>1. reg["raw"][c] # 0 => reg["raw"][c] \in Epoch
    BY BoundAssumption DEF CaptureTypeOK, Channel, Epoch
  <2>2. reg["raw"][c] # 0 =>
          [pc |-> "claim", cookie |-> c, epoch |-> reg["raw"][c], todo |-> <<"CLOSE">>]
             \in TaskType
    BY <2>1 DEF TaskType
  <2> QED
    BY <2>2, TaskUpdate DEF Closed, CaptureTypeOK
<1> QED
  BY <1>1 DEF Closed, CaptureTypeOK, hvars

LEMMA SocketCallType ==
    ASSUME CaptureTypeOK, NEW k \in Task, NEW c \in Cookie, SocketCall(k, c)
    PROVE  CaptureTypeOK'
<1> DEFINE v == IF reg["raw"][c] # 0
                THEN [pc |-> "claim", cookie |-> c, epoch |-> reg["raw"][c], todo |-> <<"DATA">>]
                ELSE [pc |-> "insert", cookie |-> c, todo |-> <<"DATA">>]
<1>1. task' \in [Task -> TaskType]
  <2>1. reg["raw"][c] # 0 => reg["raw"][c] \in Epoch
    BY BoundAssumption DEF CaptureTypeOK, Channel, Epoch
  <2>2. v \in TaskType
    BY <2>1 DEF TaskType
  <2>3. task' = [task EXCEPT ![k] = v]
    BY DEF SocketCall
  <2> HIDE DEF v
  <2> QED
    BY ZenonT(30), <2>2, <2>3, TaskUpdate
<1> QED
  BY <1>1 DEF SocketCall, CaptureTypeOK, hvars

LEMMA ConnGetInsertType ==
    ASSUME CaptureTypeOK, NEW k \in Task, ConnGetInsert(k)
    PROVE  CaptureTypeOK'
<1> DEFINE c == task[k].cookie
           todo == IF reg["raw"][c] = 0 THEN <<"SYNTHETIC", "DATA">> ELSE <<"DATA">>
           v == [pc |-> "lookup", cookie |-> c, todo |-> todo]
<1>1. task[k].pc = "insert" /\ Register(c) /\ task' = [task EXCEPT ![k] = v]
  BY DEF ConnGetInsert
<1>2. c \in Cookie /\ task[k].todo = <<"DATA">>
  BY <1>1, TaskShapes
<1>4. todo \in {<<"DATA">>, <<"SYNTHETIC", "DATA">>}
  OBVIOUS
<1>5. v \in TaskType
  BY <1>2, <1>4 DEF TaskType
<1> HIDE DEF v, todo, c
<1>6. task' \in [Task -> TaskType]
  BY ZenonT(30), <1>1, <1>5, TaskUpdate
<1>7. /\ reg' \in [Channel -> [Cookie -> 0 .. MaxEpoch]]
      /\ epochs' \in [Channel -> [Cookie -> 0 .. MaxEpoch]]
  BY <1>1, <1>2, RegisterType DEF c
<1> QED
  BY <1>6, <1>7 DEF ConnGetInsert, CaptureTypeOK, hvars

LEMMA ConnGetLookupType ==
    ASSUME CaptureTypeOK, NEW k \in Task, ConnGetLookup(k)
    PROVE  CaptureTypeOK'
<1> DEFINE c == task[k].cookie
           v == IF reg["raw"][c] = 0 THEN Off
                ELSE [pc |-> "claim", cookie |-> c, epoch |-> reg["raw"][c],
                      todo |-> task[k].todo]
<1>1. task[k].pc = "lookup" /\ task' = [task EXCEPT ![k] = v]
  BY DEF ConnGetLookup
<1>2. c \in Cookie /\ task[k].todo \in {<<"OPEN">>, <<"DATA">>, <<"SYNTHETIC", "DATA">>}
  BY <1>1, TaskShapes
<1>3. reg["raw"][c] # 0 => reg["raw"][c] \in Epoch
  BY <1>2, BoundAssumption DEF CaptureTypeOK, Channel, Epoch
<1>4. v \in TaskType
  BY <1>2, <1>3 DEF TaskType
<1> HIDE DEF v, c
<1>5. task' \in [Task -> TaskType]
  BY ZenonT(30), <1>1, <1>4, TaskUpdate
<1> QED
  BY <1>5 DEF ConnGetLookup, CaptureTypeOK, hvars

LEMMA TodoSteps ==
    /\ \A x \in STRING : Head(<<x>>) = x /\ Tail(<<x>>) = <<>>
    /\ Head(<<"SYNTHETIC", "DATA">>) = "SYNTHETIC"
    /\ Tail(<<"SYNTHETIC", "DATA">>) = <<"DATA">>
<1>1. \A x \in STRING : Head(<<x>>) = x
  OBVIOUS
<1>2. \A x \in STRING : Tail(<<x>>) = <<>>
  OBVIOUS
<1>3. Head(<<"SYNTHETIC", "DATA">>) = "SYNTHETIC"
  OBVIOUS
<1>4. Tail(<<"SYNTHETIC", "DATA">>) = <<"DATA">>
  OBVIOUS
<1> QED
  BY <1>1, <1>2, <1>3, <1>4

LEMMA ModRange == \A n \in Nat : n % SeqMod \in Seqno
BY SeqAssumption DEF Seqno

LEMMA ClaimType ==
    ASSUME CaptureTypeOK, NEW k \in Task, Claim(k)
    PROVE  CaptureTypeOK'
<1> DEFINE c == task[k].cookie
           e == task[k].epoch
           r == [cookie |-> c, chan |-> "raw", type |-> Head(task[k].todo),
                 seq |-> seqno["raw"][c][e], epoch |-> e, num |-> made["raw"][c] + 1]
           v == [pc |-> "reserve", todo |-> Tail(task[k].todo), rec |-> r]
<1>1. /\ task[k].pc = "claim" /\ task' = [task EXCEPT ![k] = v]
      /\ seqno' = [seqno EXCEPT !["raw"][c][e] = (@ + 1) % SeqMod]
      /\ made' = [made EXCEPT !["raw"][c] = @ + 1]
  BY DEF Claim
<1>2. /\ c \in Cookie /\ e \in Epoch
      /\ task[k].todo \in {<<"OPEN">>, <<"DATA">>, <<"CLOSE">>, <<"SYNTHETIC", "DATA">>}
  BY <1>1, TaskShapes
<1>3. seqno["raw"][c][e] \in Seqno /\ made["raw"][c] \in Nat
  BY <1>2 DEF CaptureTypeOK, Channel
<1>4. Head(task[k].todo) \in {"OPEN", "SYNTHETIC", "DATA", "CLOSE"} /\ Tail(task[k].todo) \in {<<>>, <<"DATA">>}
  <2>1. \A x \in {"OPEN", "DATA", "CLOSE"} : Head(<<x>>) = x /\ Tail(<<x>>) = <<>>
    BY TodoSteps
  <2> DEFINE todo == task[k].todo
  <2> HIDE DEF todo
  <2>2. todo \in {<<"OPEN">>, <<"DATA">>, <<"CLOSE">>, <<"SYNTHETIC", "DATA">>}
    BY <1>2 DEF todo
  <2>3. Head(todo) \in {"OPEN", "SYNTHETIC", "DATA", "CLOSE"} /\ Tail(todo) \in {<<>>, <<"DATA">>}
    BY <2>1, <2>2, TodoSteps, Zenon
  <2> QED
    BY <2>3 DEF todo
<1>5. r \in Record
  BY <1>2, <1>3, <1>4 DEF Record, Channel
<1> HIDE DEF r
<1>6. v \in TaskType
  BY <1>4, <1>5 DEF TaskType
<1> HIDE DEF v
<1>7. task' \in [Task -> TaskType]
  BY ZenonT(30), <1>1, <1>6, TaskUpdate
<1>8. (seqno["raw"][c][e] + 1) % SeqMod \in Seqno /\ made["raw"][c] + 1 \in Nat
  <2> DEFINE s == seqno["raw"][c][e]
  <2>1. s + 1 \in Nat
    <3>1. s \in Seqno
      BY <1>3
    <3> HIDE DEF s
    <3> QED BY <3>1, SeqAssumption DEF Seqno
  <2>2. (s + 1) % SeqMod \in Seqno
    BY <2>1, ModRange
  <2> DEFINE m == made["raw"][c]
  <2>3. m + 1 \in Nat
    <3>1. m \in Nat
      BY <1>3
    <3> HIDE DEF m
    <3> QED BY <3>1
  <2> QED
    BY <2>2, <2>3
<1> HIDE DEF c, e
<1>9. /\ seqno' \in [Channel -> [Cookie -> [Epoch -> Seqno]]]
      /\ made' \in [Channel -> [Cookie -> Nat]]
  BY <1>1, <1>2, <1>8 DEF CaptureTypeOK, Channel, c, e
<1> QED
  BY ZenonT(30), <1>7, <1>9 DEF Claim, CaptureTypeOK

LEMMA SslRetType ==
    ASSUME CaptureTypeOK, NEW k \in Task, NEW c \in Cookie, SslRet(k, c)
    PROVE  CaptureTypeOK'
<1> DEFINE e == IF reg["tls"][c] = 0 THEN FreshEpoch("tls", c) ELSE reg["tls"][c]
           s == seqno["tls"][c][e]
           r == [cookie |-> c, chan |-> "tls", type |-> "DATA", seq |-> s,
                 epoch |-> e, num |-> made["tls"][c] + 1]
           v == [pc |-> "reserve", todo |-> <<>>, rec |-> r]
<1>1. /\ e \in Epoch
      /\ reg' = [reg EXCEPT !["tls"][c] = e]
      /\ epochs' = [epochs EXCEPT !["tls"][c] = e]
      /\ seqno' = [seqno EXCEPT !["tls"][c][e] = (s + 1) % SeqMod]
      /\ made' = [made EXCEPT !["tls"][c] = @ + 1]
      /\ task' = [task EXCEPT ![k] = v]
  BY DEF SslRet
<1> HIDE DEF e
<1>2. s \in Seqno /\ made["tls"][c] \in Nat
  BY <1>1 DEF CaptureTypeOK, Channel
<1>3. r \in Record
  BY <1>1, <1>2 DEF Record, Channel
<1> HIDE DEF r
<1>4. v \in TaskType
  BY <1>3 DEF TaskType
<1> HIDE DEF v
<1>5. task' \in [Task -> TaskType]
  BY ZenonT(30), <1>1, <1>4, TaskUpdate
<1>6. e \in 0 .. MaxEpoch
  BY <1>1, BoundAssumption DEF Epoch
<1>7. (s + 1) % SeqMod \in Seqno
  <2>1. s + 1 \in Nat
    BY <1>2, SeqAssumption DEF Seqno
  <2> QED
    BY <2>1, ModRange
<1> HIDE DEF s
<1>8. /\ reg' \in [Channel -> [Cookie -> 0 .. MaxEpoch]]
      /\ epochs' \in [Channel -> [Cookie -> 0 .. MaxEpoch]]
      /\ seqno' \in [Channel -> [Cookie -> [Epoch -> Seqno]]]
      /\ made' \in [Channel -> [Cookie -> Nat]]
  BY <1>1, <1>2, <1>6, <1>7 DEF CaptureTypeOK, Channel
<1> QED
  BY <1>5, <1>8 DEF SslRet, CaptureTypeOK

LEMMA ReserveType ==
    ASSUME CaptureTypeOK, NEW k \in Task, Reserve(k)
    PROVE  CaptureTypeOK'
<1> DEFINE r == task[k].rec
<1>1. /\ task[k].pc = "reserve"
      /\ task' = [task EXCEPT ![k] = AfterRecord(k)]
      /\ IF Len(ring) < RingCap THEN ring' = Append(ring, r) ELSE ring' = ring
  BY DEF Reserve
<1>2. r \in Record /\ task[k].todo \in {<<>>, <<"DATA">>}
  BY <1>1, TaskShapes
<1>3. r.cookie \in Cookie /\ r.epoch \in Epoch
  BY <1>2 DEF Record
<1>4. AfterRecord(k) \in TaskType
  <2>1. task[k].todo = <<"DATA">> =>
          [pc |-> "claim", cookie |-> r.cookie, epoch |-> r.epoch, todo |-> task[k].todo]
             \in TaskType
    BY <1>3 DEF TaskType
  <2>2. [pc |-> "delete", cookie |-> r.cookie] \in TaskType /\ Off \in TaskType
    BY <1>3 DEF TaskType
  <2> QED
    BY <1>2, <2>1, <2>2 DEF AfterRecord
<1>5. task' \in [Task -> TaskType]
  BY ZenonT(30), <1>1, <1>4, TaskUpdate
<1> HIDE DEF r
<1>6. ring' \in Seq(Record) /\ Len(ring') <= RingCap
  <2>1. ring \in Seq(Record) /\ Len(ring) \in Nat /\ Len(ring) <= RingCap
    BY DEF CaptureTypeOK
  <2>2. CASE Len(ring) < RingCap
    <3>1. Append(ring, r) \in Seq(Record) /\ Len(Append(ring, r)) = Len(ring) + 1
      BY <1>2, <2>1
    <3> QED
      BY <1>1, <2>1, <2>2, <3>1, RingAssumption
  <2> QED
    BY <1>1, <2>1, <2>2
<1> QED
  BY <1>5, <1>6 DEF Reserve, CaptureTypeOK

LEMMA UnregisterType ==
    ASSUME CaptureTypeOK, NEW k \in Task, Unregister(k)
    PROVE  CaptureTypeOK'
<1>1. task[k].cookie \in Cookie
  BY TaskShapes DEF Unregister
<1>2. task' \in [Task -> TaskType]
  <2>1. Off \in TaskType
    BY DEF TaskType
  <2> QED
    BY ZenonT(30), <2>1, TaskUpdate DEF Unregister
<1>3. reg' \in [Channel -> [Cookie -> 0 .. MaxEpoch]]
  BY <1>1, BoundAssumption DEF Unregister, CaptureTypeOK, Channel
<1> QED
  BY <1>2, <1>3 DEF Unregister, CaptureTypeOK, hvars

LEMMA EvictType ==
    ASSUME CaptureTypeOK, NEW h \in Channel, NEW c \in Cookie, Evict(h, c)
    PROVE  CaptureTypeOK'
<1>1. reg' \in [Channel -> [Cookie -> 0 .. MaxEpoch]]
  BY BoundAssumption DEF Evict, CaptureTypeOK
<1> QED
  BY <1>1 DEF Evict, CaptureTypeOK, hvars

LEMMA DeliverType ==
    ASSUME CaptureTypeOK, Deliver
    PROVE  CaptureTypeOK'
<1>1. ring \in Seq(Record) /\ ring # <<>> /\ ring' = Tail(ring) /\ Len(ring) <= RingCap
  BY DEF Deliver, CaptureTypeOK
<1>2. ring' \in Seq(Record) /\ Len(ring') <= RingCap
  BY <1>1, RingAssumption
<1> QED
  BY <1>2 DEF Deliver, CaptureTypeOK

(* Every step of the composed system keeps the types of the kernel's state. *)
LEMMA CaptureNextType == CaptureTypeOK /\ [CaptureNext]_cvars => CaptureTypeOK'
<1> SUFFICES ASSUME CaptureTypeOK, [CaptureNext]_cvars
             PROVE  CaptureTypeOK'
  OBVIOUS
<1>1. CASE KernelStep
  BY <1>1, EstablishedType, ClosedType, SocketCallType, SslRetType, ConnGetInsertType,
     ConnGetLookupType, ClaimType, ReserveType, UnregisterType, EvictType DEF KernelStep
<1>2. CASE Deliver
  BY <1>2, DeliverType
<1>3. CASE AgentSweep \/ OverrideAges \/ UNCHANGED cvars
  BY <1>3 DEF AgentSweep, OverrideAges, CaptureTypeOK, cvars, kvars, hvars
<1> QED
  BY <1>1, <1>2, <1>3 DEF CaptureNext

-----------------------------------------------------------------------------
(* A record's handler is one of the table's handlers.                       *)
LEMMA HandleIsEvent ==
    ASSUME NEW r \in Record, Handle(r)
    PROVE  Next
<1>1. r.cookie \in Cookie /\ r.seq \in Seqno
  BY DEF Record
<1>2. 0 \in 0 .. Skew
  BY TimeAssumption DEF Age
<1> DEFINE c == r.cookie
<1>3. CASE OpenKnown(c, r.seq, 0)
  BY <1>1, <1>2, <1>3 DEF Next, HandleEvent
<1>4. CASE \E port \in Port : OpenNew(c, r.seq, 0, port, r.type = "SYNTHETIC")
  <2>1. (r.type = "SYNTHETIC") \in BOOLEAN
    OBVIOUS
  <2> QED
    BY ZenonT(30), <1>1, <1>2, <1>4, <2>1 DEF Next, HandleEvent
<1>5. CASE Close(c, r.seq, 0)
  BY <1>1, <1>2, <1>5 DEF Next, HandleEvent
<1>6. CASE DataCiphertext(c, r.seq, 0)
  BY <1>1, <1>2, <1>6 DEF Next, HandleEvent
<1>7. CASE \E d \in Dir : Data(c, r.seq, 0, d)
  BY <1>1, <1>2, <1>7 DEF Next, HandleEvent
<1>8. CASE \E d \in Dir : DataDecrypted(c, r.seq, 0, d)
  BY <1>1, <1>2, <1>8 DEF Next, HandleEvent
<1>9. CASE CreateFails(c)
  BY <1>1, <1>9 DEF Next
<1> QED
  BY <1>3, <1>4, <1>5, <1>6, <1>7, <1>8, <1>9 DEF Handle

(* A step of the composed system is a step of the table or leaves it alone. *)
LEMMA StepRefines == CaptureTypeOK /\ [CaptureNext]_cvars => [Next]_vars
<1> SUFFICES ASSUME CaptureTypeOK, [CaptureNext]_cvars
             PROVE  [Next]_vars
  OBVIOUS
<1>1. CASE KernelStep
  <2>1. UNCHANGED vars
    BY ZenonT(30), <1>1 DEF KernelStep, Established, Closed, SocketCall, SslRet, ConnGetInsert,
       ConnGetLookup, Claim, Reserve, Unregister, Evict
  <2> QED
    BY <2>1
<1>2. CASE Deliver
  <2>1. Head(ring) \in Record
    BY <1>2 DEF Deliver, CaptureTypeOK
  <2> QED
    BY <1>2, <2>1, HandleIsEvent DEF Deliver
<1>3. CASE AgentSweep \/ OverrideAges
  BY <1>3 DEF AgentSweep, OverrideAges, Next
<1>4. CASE UNCHANGED cvars
  BY <1>4 DEF cvars
<1> QED
  BY <1>1, <1>2, <1>3, <1>4 DEF CaptureNext

(* The kernel programs and the ring keep their types, and the ring never    *)
(* holds more than its size, for any number of contexts and connections     *)
(* (emit_chunk, emit_conn_event, conn_get, tls_next_seq).                   *)
THEOREM CaptureTypeCorrect == CaptureSpec => []CaptureTypeOK
BY CaptureInitType, CaptureNextType, PTL DEF CaptureSpec

(* The table driven by the kernel programs is the table of ConnTable: what  *)
(* handle_event does with the records of the ring is what ConnTable allows  *)
(* with arbitrary records.                                                  *)
THEOREM CaptureImplementsTable == CaptureSpec => Spec
<1>1. CaptureInit => Init
  BY DEF CaptureInit
<1> QED
  BY <1>1, CaptureTypeCorrect, StepRefines, PTL DEF CaptureSpec, Spec

-----------------------------------------------------------------------------
(* The claims.  Fewer records of a channel are numbered than a number can   *)
(* tell apart: 2^32 in the code.                                            *)
NoWrap == MaxRaw < SeqMod /\ MaxTls < SeqMod

Bound(h) == IF h = "raw" THEN MaxRaw ELSE MaxTls

-----------------------------------------------------------------------------
(* The baseline of channel h in entry c, and whether there is one.          *)
Last(t, h, c) == IF h = "raw" THEN t.conn[c].last_seq ELSE t.conn[c].tls_last_seq

Seen(t, h, c) == Lookup(t, c) /\ (h = "tls" => t.conn[c].tls_seq_seen)

Carried(h, c, n, ep, sq) ==
    /\ \A i \in 1 .. Len(ring) : Stamped(ring[i], h, c, n, ep, sq)
    /\ \A k \in Task : task[k].pc = "reserve" => Stamped(task[k].rec, h, c, n, ep, sq)
    /\ \A d \in dropped[h][c] : d[2] \in 1 .. n /\ ep[d[2]] = d[1]

(* The baseline is the highest number shown, while only one registration    *)
(* has been seen.                                                           *)
Based(t, h, c, g, u, sq) ==
    /\ Lookup(t, c) => (Seen(t, h, c) <=> u # {})
    /\ Seen(t, h, c) /\ (\E e \in Epoch : u = {e}) => Highest(sq, g, Last(t, h, c))

ClaimsAre(h, c, ep, sq) ==
    /\ Counted(made[h][c], seqno[h][c], ep, sq)
    /\ Carried(h, c, made[h][c], ep, sq)
    /\ Shown(made[h][c], ep, base[h][c], got[h][c], told[h][c], under[h][c])
    /\ Based(tab, h, c, got[h][c], under[h][c], sq)

ClaimsOK(h, c) ==
    \E ep \in [1 .. made[h][c] -> Epoch], sq \in [1 .. made[h][c] -> Nat] :
        ClaimsAre(h, c, ep, sq)

HistoryTypeOK ==
    /\ dropped \in [Channel -> [Cookie -> SUBSET (Epoch \X Nat)]]
    /\ base \in [Channel -> [Cookie -> Nat]]
    /\ got \in [Channel -> [Cookie -> SUBSET Nat]]
    /\ told \in [Channel -> [Cookie -> SUBSET Nat]]
    /\ under \in [Channel -> [Cookie -> SUBSET (0 .. MaxEpoch)]]

(* Counters stay within the bounds; decrypted records are data.             *)
CountersOK ==
    /\ \A h \in Channel, c \in Cookie :
          /\ made[h][c] <= Bound(h)
          /\ \A e \in Epoch : seqno[h][c][e] <= made[h][c]
    /\ \A n \in 1 .. Len(ring) : ring[n].chan = "tls" => ring[n].type = "DATA"
    /\ \A k \in Task :
          task[k].pc = "reserve" /\ task[k].rec.chan = "tls" => task[k].rec.type = "DATA"

LossInv ==
    /\ HistoryTypeOK
    /\ CountersOK
    /\ \A h \in Channel, c \in Cookie : ClaimsOK(h, c)

-----------------------------------------------------------------------------
(* The steps that claim no number, move no record and show the agent        *)
(* nothing.                                                                 *)
LEMMA QuietStep ==
    ASSUME LossInv, UNCHANGED <<tab, seqno, ring, hvars>>,
           \A k \in Task : task'[k].pc = "reserve" => task'[k] = task[k]
    PROVE  LossInv'
<1>1. HistoryTypeOK' /\ CountersOK'
  BY DEF LossInv, HistoryTypeOK, CountersOK, hvars
<1>2. ASSUME NEW h \in Channel, NEW c \in Cookie
      PROVE  ClaimsOK(h, c)'
  <2>1. PICK ep \in [1 .. made[h][c] -> Epoch], sq \in [1 .. made[h][c] -> Nat] :
           ClaimsAre(h, c, ep, sq)
    BY <1>2 DEF LossInv, ClaimsOK
  <2>2. ClaimsAre(h, c, ep, sq)'
    BY <2>1 DEF ClaimsAre, Carried, hvars
  <2>3. made' = made
    BY DEF hvars
  <2> QED BY <2>2, <2>3 DEF ClaimsOK
<1> QED BY <1>1, <1>2 DEF LossInv

(* The sweep only takes entries away.                                       *)
LEMMA ForgetStep ==
    ASSUME LossInv, UNCHANGED <<kvars, hvars>>,
           \A x \in Live(tab') : x \in Live(tab) /\ tab'.conn[x] = tab.conn[x]
    PROVE  LossInv'
<1>1. HistoryTypeOK' /\ CountersOK'
  BY DEF LossInv, HistoryTypeOK, CountersOK, hvars, kvars
<1>3. ASSUME NEW h \in Channel, NEW c \in Cookie
      PROVE  ClaimsOK(h, c)'
  <2>1. PICK ep \in [1 .. made[h][c] -> Epoch], sq \in [1 .. made[h][c] -> Nat] :
           ClaimsAre(h, c, ep, sq)
    BY <1>3 DEF LossInv, ClaimsOK
  <2>2. Lookup(tab', c) => Lookup(tab, c) /\ tab'.conn[c] = tab.conn[c]
    BY DEF Live
  <2>3. Based(tab, h, c, got[h][c], under[h][c], sq)'
    BY <2>1, <2>2 DEF ClaimsAre, Based, Seen, Last, hvars
  <2>4. ClaimsAre(h, c, ep, sq)'
    BY <2>1, <2>3 DEF ClaimsAre, Carried, hvars, kvars
  <2>5. made' = made
    BY DEF hvars
  <2> QED BY <2>4, <2>5 DEF ClaimsOK
<1> QED BY <1>1, <1>3 DEF LossInv

-----------------------------------------------------------------------------
(* Claim and SslRet, pointwise: context k0 takes the next number of c0 on   *)
(* channel h0 under e0 for its record r.                                    *)
Claimed(h0, c0, e0, k0, r) ==
    /\ r.chan = h0 /\ r.cookie = c0 /\ r.epoch = e0 /\ r.seq = seqno[h0][c0][e0]
    /\ r.num = made[h0][c0] + 1 /\ (h0 = "tls" => r.type = "DATA")
    /\ made[h0][c0] < Bound(h0)
    /\ \A h \in Channel, c \in Cookie :
          IF h = h0 /\ c = c0
          THEN /\ made'[h][c] = made[h][c] + 1
               /\ \A e \in Epoch :
                     seqno'[h][c][e] = seqno[h][c][e] + (IF e = e0 THEN 1 ELSE 0)
          ELSE made'[h][c] = made[h][c] /\ seqno'[h][c] = seqno[h][c]
    /\ \A k \in Task : IF k = k0 THEN task'[k].rec = r ELSE task'[k] = task[k]
    /\ UNCHANGED <<tab, ring, dropped, base, got, told, under>>

LEMMA ClaimTypes ==
    ASSUME CaptureTypeOK, NEW h \in Channel, NEW c \in Cookie
    PROVE  made[h][c] \in Nat /\ seqno[h][c] \in [Epoch -> Nat]
<1>1. /\ made \in [Channel -> [Cookie -> Nat]]
      /\ seqno \in [Channel -> [Cookie -> [Epoch -> Seqno]]]
  BY DEF CaptureTypeOK
<1>2. Seqno \subseteq Nat
  BY SeqAssumption DEF Seqno
<1>3. made[h][c] \in Nat /\ seqno[h][c] \in [Epoch -> Seqno]
  BY <1>1
<1> QED BY <1>2, <1>3

LEMMA ClaimedCounters ==
    ASSUME NoWrap, CaptureTypeOK, CountersOK,
           NEW h0 \in Channel, NEW c0 \in Cookie, NEW e0 \in Epoch, NEW k0 \in Task,
           NEW r, Claimed(h0, c0, e0, k0, r)
    PROVE  CountersOK'
<1>1. ASSUME NEW h \in Channel, NEW c \in Cookie
      PROVE  made'[h][c] <= Bound(h) /\ \A e \in Epoch : seqno'[h][c][e] <= made'[h][c]
  <2>0. made[h][c] \in Nat /\ seqno[h][c] \in [Epoch -> Nat]
    BY ClaimTypes
  <2>1. /\ made[h][c] \in Nat /\ made[h][c] <= Bound(h) /\ Bound(h) \in Nat
        /\ seqno[h][c] \in [Epoch -> Nat]
        /\ \A e \in Epoch : seqno[h][c][e] <= made[h][c]
    BY <2>0, BoundAssumption DEF CountersOK, Bound
  <2>2. CASE h = h0 /\ c = c0
    <3>1. /\ made'[h][c] = made[h][c] + 1 /\ made[h][c] < Bound(h)
          /\ \A e \in Epoch : seqno'[h][c][e] = seqno[h][c][e] + (IF e = e0 THEN 1 ELSE 0)
      BY <2>2 DEF Claimed
    <3> QED BY <2>1, <3>1
  <2>3. CASE ~(h = h0 /\ c = c0)
    <3>1. made'[h][c] = made[h][c] /\ seqno'[h][c] = seqno[h][c]
      BY <2>3 DEF Claimed
    <3> QED BY <2>1, <3>1
  <2> QED BY <2>2, <2>3
<1>2. \A n \in 1 .. Len(ring') : ring'[n].chan = "tls" => ring'[n].type = "DATA"
  BY DEF CountersOK, Claimed
<1>3. \A k \in Task :
         task'[k].pc = "reserve" /\ task'[k].rec.chan = "tls" => task'[k].rec.type = "DATA"
  BY DEF CountersOK, Claimed
<1> QED BY <1>1, <1>2, <1>3 DEF CountersOK, Bound

LEMMA ClaimStep ==
    ASSUME NoWrap, CaptureTypeOK, LossInv,
           NEW h0 \in Channel, NEW c0 \in Cookie, NEW e0 \in Epoch, NEW k0 \in Task,
           NEW r, Claimed(h0, c0, e0, k0, r)
    PROVE  LossInv'
<1>1. HistoryTypeOK'
  BY DEF LossInv, HistoryTypeOK, Claimed
<1>2. CountersOK'
  BY ClaimedCounters DEF LossInv
<1>3. ASSUME NEW h \in Channel, NEW c \in Cookie
      PROVE  ClaimsOK(h, c)'
  <2>0. PICK n \in Nat, sn \in [Epoch -> Nat] : n = made[h][c] /\ sn = seqno[h][c]
    BY ClaimTypes
  <2>1. PICK ep \in [1 .. n -> Epoch], sq \in [1 .. n -> Nat] : ClaimsAre(h, c, ep, sq)
    BY <1>3, <2>0 DEF LossInv, ClaimsOK
  <2>2. /\ Counted(n, sn, ep, sq)
        /\ Carried(h, c, n, ep, sq)
        /\ Shown(n, ep, base[h][c], got[h][c], told[h][c], under[h][c])
        /\ Based(tab, h, c, got[h][c], under[h][c], sq)
    BY <2>0, <2>1 DEF ClaimsAre
  <2>3. PICK s0 \in Nat : s0 = sn[e0]
    OBVIOUS
  <2>4. CASE ~(h = h0 /\ c = c0)
    <3>1. made'[h][c] = n /\ seqno'[h][c] = sn /\ ~(r.chan = h /\ r.cookie = c)
      BY <2>0, <2>4 DEF Claimed
    <3>2. Stamped(r, h, c, n, ep, sq)
      BY <3>1 DEF Stamped
    <3>3. Carried(h, c, n, ep, sq)'
      BY <2>2, <3>2 DEF Carried, Claimed
    <3>4. ClaimsAre(h, c, ep, sq)'
      BY <2>2, <3>1, <3>3 DEF ClaimsAre, Claimed
    <3> QED BY <3>1, <3>4 DEF ClaimsOK
  <2>5. CASE h = h0 /\ c = c0
    <3> DEFINE ep1 == More(ep, n, e0)
               sq1 == More(sq, n, s0)
    <3>1. /\ made'[h][c] = n + 1
          /\ \A e \in Epoch : seqno'[h][c][e] = sn[e] + (IF e = e0 THEN 1 ELSE 0)
          /\ r.epoch = e0 /\ r.seq = s0 /\ r.num = n + 1
      BY <2>0, <2>3, <2>5 DEF Claimed
    <3>2. Counted(n + 1, seqno'[h][c], ep1, sq1)
      <4>1. \A e \in Epoch : seqno'[h][c][e] = IF e = e0 THEN s0 + 1 ELSE sn[e]
        BY <2>3, <3>1
      <4> QED BY <2>2, <2>3, <4>1, CountedMore
    <3>3. \A x : Stamped(x, h, c, n, ep, sq) => Stamped(x, h, c, n + 1, ep1, sq1)
      BY StampedMore
    <3>4. Shown(n + 1, ep1, base[h][c], got[h][c], told[h][c], under[h][c])
      BY <2>2, ShownMore
    <3>5. /\ ep1[n + 1] = e0 /\ sq1[n + 1] = s0
          /\ \A i \in 1 .. n : i \in 1 .. n + 1 /\ ep1[i] = ep[i] /\ sq1[i] = sq[i]
      BY MoreLemma
    <3>6. ep1 \in [1 .. n + 1 -> Epoch] /\ sq1 \in [1 .. n + 1 -> Nat]
      BY DEF More
    <3> HIDE DEF ep1, sq1
    <3>7. Based(tab, h, c, got[h][c], under[h][c], sq1)
      <4>1. \A i \in got[h][c] : sq1[i] = sq[i]
        BY <2>2, <3>5 DEF Shown
      <4> QED BY <2>2, <4>1 DEF Based, Highest
    <3>8. Stamped(r, h, c, n + 1, ep1, sq1)
      BY <3>1, <3>5 DEF Stamped
    <3>9. \A i \in 1 .. Len(ring') : Stamped(ring'[i], h, c, n + 1, ep1, sq1)
      BY <2>2, <3>3 DEF Carried, Claimed
    <3>10. \A k \in Task : task'[k].pc = "reserve" => Stamped(task'[k].rec, h, c, n + 1, ep1, sq1)
      BY <2>2, <3>3, <3>8 DEF Carried, Claimed
    <3>11. \A d \in dropped'[h][c] : d[2] \in 1 .. n + 1 /\ ep1[d[2]] = d[1]
      BY <2>2, <3>5 DEF Carried, Claimed
    <3>12. Carried(h, c, n + 1, ep1, sq1)'
      BY <3>9, <3>10, <3>11 DEF Carried
    <3>13. ClaimsAre(h, c, ep1, sq1)'
      BY <3>1, <3>2, <3>4, <3>7, <3>12 DEF ClaimsAre, Claimed
    <3> QED BY <3>1, <3>6, <3>13 DEF ClaimsOK
  <2> QED BY <2>4, <2>5
<1> QED BY <1>1, <1>2, <1>3 DEF LossInv

-----------------------------------------------------------------------------
(* The reservation: the record goes into the ring, or is lost.              *)
LEMMA ReserveStep ==
    ASSUME CaptureTypeOK, LossInv, NEW k0 \in Task, Reserve(k0)
    PROVE  LossInv'
<1> DEFINE r == task[k0].rec
<1>1. task[k0].pc = "reserve" /\ r \in Record
  BY TaskShapes DEF Reserve
<1>2. /\ task'[k0].pc # "reserve"
      /\ \A k \in Task : k # k0 => task'[k] = task[k]
  BY DEF Reserve, CaptureTypeOK, AfterRecord, Off
<1>3. UNCHANGED <<tab, seqno, made, base, got, told, under>>
  BY DEF Reserve, vars
<1>4. \/ ring' = Append(ring, r) /\ dropped' = dropped
      \/ /\ ring' = ring
         /\ dropped' = [dropped EXCEPT ![r.chan][r.cookie] = @ \cup {<<r.epoch, r.num>>}]
  BY DEF Reserve
<1>5. ring \in Seq(Record)
  BY DEF CaptureTypeOK
<1>6. r.chan \in Channel /\ r.cookie \in Cookie /\ r.epoch \in Epoch /\ r.num \in Nat
  BY <1>1 DEF Record
<1> HIDE DEF r
<1>7. \A i \in 1 .. Len(ring') : ring'[i] = r \/ (i \in 1 .. Len(ring) /\ ring'[i] = ring[i])
  BY <1>1, <1>4, <1>5
<1>8. HistoryTypeOK'
  <2>1. dropped \in [Channel -> [Cookie -> SUBSET (Epoch \X Nat)]]
    BY DEF LossInv, HistoryTypeOK
  <2>2. dropped' \in [Channel -> [Cookie -> SUBSET (Epoch \X Nat)]]
    BY <1>4, <1>6, <2>1
  <2> QED BY <1>3, <2>2 DEF LossInv, HistoryTypeOK
<1>9. CountersOK'
  BY <1>1, <1>2, <1>3, <1>7 DEF LossInv, CountersOK, r
<1>10. ASSUME NEW h \in Channel, NEW c \in Cookie
       PROVE  ClaimsOK(h, c)'
  <2>1. PICK n \in Nat : n = made[h][c]
    BY ClaimTypes
  <2>2. PICK ep \in [1 .. n -> Epoch], sq \in [1 .. n -> Nat] : ClaimsAre(h, c, ep, sq)
    BY <1>10, <2>1 DEF LossInv, ClaimsOK
  <2>3. Carried(h, c, n, ep, sq)
    BY <2>1, <2>2 DEF ClaimsAre
  <2>4. Stamped(r, h, c, n, ep, sq)
    BY <1>1, <2>3 DEF Carried, r
  <2>5. \A i \in 1 .. Len(ring') : Stamped(ring'[i], h, c, n, ep, sq)
    BY <1>7, <2>3, <2>4 DEF Carried
  <2>6. \A k \in Task : task'[k].pc = "reserve" => Stamped(task'[k].rec, h, c, n, ep, sq)
    BY <1>2, <2>3 DEF Carried
  <2>7. \A d \in dropped'[h][c] :
           d \in dropped[h][c] \/ (h = r.chan /\ c = r.cookie /\ d = <<r.epoch, r.num>>)
    BY <1>4, <1>6 DEF LossInv, HistoryTypeOK
  <2>8. \A d \in dropped'[h][c] : d[2] \in 1 .. n /\ ep[d[2]] = d[1]
    BY <2>3, <2>4, <2>7 DEF Carried, Stamped
  <2>9. Carried(h, c, n, ep, sq)'
    BY <2>5, <2>6, <2>8 DEF Carried
  <2>10. ClaimsAre(h, c, ep, sq)' /\ made'[h][c] = n
    BY <1>3, <2>1, <2>2, <2>9 DEF ClaimsAre
  <2> QED BY <2>10 DEF ClaimsOK
<1> QED BY <1>8, <1>9, <1>10 DEF LossInv

-----------------------------------------------------------------------------
(* The steps of the kernel programs.                                        *)
LEMMA NoWrapClaim ==
    ASSUME NoWrap, CaptureTypeOK, CountersOK, NEW h \in Channel, NEW c \in Cookie,
           NEW e \in Epoch, made[h][c] < Bound(h)
    PROVE  (seqno[h][c][e] + 1) % SeqMod = seqno[h][c][e] + 1
<1>1. made[h][c] \in Nat /\ seqno[h][c][e] \in Nat
  BY ClaimTypes
<1>2. seqno[h][c][e] <= made[h][c]
  BY DEF CountersOK
<1>3. Bound(h) \in Nat /\ Bound(h) < SeqMod
  BY BoundAssumption DEF Bound, NoWrap
<1> QED BY <1>1, <1>2, <1>3, SeqAssumption

LEMMA ClaimClaims ==
    ASSUME NoWrap, CaptureTypeOK, LossInv, NEW k \in Task, Claim(k)
    PROVE  \E h \in Channel, c \in Cookie, e \in Epoch : \E r : Claimed(h, c, e, k, r)
<1>1. PICK c \in Cookie, e \in Epoch : c = task[k].cookie /\ e = task[k].epoch
  BY TaskShapes DEF Claim
<1>2. made["raw"][c] < Bound("raw")
  BY <1>1 DEF Claim, Bound
<1>3. PICK r : r = [cookie |-> c, chan |-> "raw", type |-> Head(task[k].todo),
                    seq |-> seqno["raw"][c][e], epoch |-> e, num |-> made["raw"][c] + 1]
  OBVIOUS
<1>4. "raw" \in Channel
  BY DEF Channel
<1>5. (seqno["raw"][c][e] + 1) % SeqMod = seqno["raw"][c][e] + 1
  BY <1>2, <1>4, NoWrapClaim DEF LossInv
<1>6. /\ seqno \in [Channel -> [Cookie -> [Epoch -> Seqno]]]
      /\ made \in [Channel -> [Cookie -> Nat]] /\ task \in [Task -> TaskType]
  BY DEF CaptureTypeOK
<1>7. seqno' = [seqno EXCEPT !["raw"][c][e] = seqno["raw"][c][e] + 1]
  BY <1>1, <1>5 DEF Claim
<1>8. made' = [made EXCEPT !["raw"][c] = @ + 1]
  BY <1>1 DEF Claim
<1>9. task' = [task EXCEPT ![k] = [pc |-> "reserve", todo |-> Tail(task[k].todo), rec |-> r]]
  BY <1>1, <1>3 DEF Claim
<1>10. \A h \in Channel, x \in Cookie :
          IF h = "raw" /\ x = c
          THEN /\ made'[h][x] = made[h][x] + 1
               /\ \A y \in Epoch :
                     seqno'[h][x][y] = seqno[h][x][y] + (IF y = e THEN 1 ELSE 0)
          ELSE made'[h][x] = made[h][x] /\ seqno'[h][x] = seqno[h][x]
  <2>1. ASSUME NEW h \in Channel, NEW x \in Cookie, h = "raw" /\ x = c
        PROVE  /\ made'[h][x] = made[h][x] + 1
               /\ \A y \in Epoch :
                     seqno'[h][x][y] = seqno[h][x][y] + (IF y = e THEN 1 ELSE 0)
    <3>1. \A y \in Epoch : seqno[h][x][y] \in Int
      BY ClaimTypes
    <3> QED BY <1>6, <1>7, <1>8, <2>1, <3>1
  <2>2. ASSUME NEW h \in Channel, NEW x \in Cookie, ~(h = "raw" /\ x = c)
        PROVE  made'[h][x] = made[h][x] /\ seqno'[h][x] = seqno[h][x]
    BY <1>6, <1>7, <1>8, <2>2
  <2> QED BY <2>1, <2>2
<1>11. \A x \in Task : IF x = k THEN task'[x].rec = r ELSE task'[x] = task[x]
  BY <1>6, <1>9
<1>12. UNCHANGED <<tab, ring, dropped, base, got, told, under>>
  BY DEF Claim, vars
<1>13. Claimed("raw", c, e, k, r)
  BY <1>2, <1>3, <1>10, <1>11, <1>12 DEF Claimed
<1> QED BY <1>4, <1>13

LEMMA SslRetClaims ==
    ASSUME NoWrap, CaptureTypeOK, LossInv, NEW k \in Task, NEW x0 \in Cookie, SslRet(k, x0)
    PROVE  \E h \in Channel, c \in Cookie, e \in Epoch : \E r : Claimed(h, c, e, k, r)
<1>0. PICK c \in Cookie : c = x0
  OBVIOUS
<1>1. PICK e \in Epoch : e = IF reg["tls"][c] = 0 THEN FreshEpoch("tls", c) ELSE reg["tls"][c]
  BY <1>0 DEF SslRet
<1>2. made["tls"][c] < Bound("tls")
  BY <1>0 DEF SslRet, Bound
<1>3. PICK r : r = [cookie |-> c, chan |-> "tls", type |-> "DATA",
                    seq |-> seqno["tls"][c][e], epoch |-> e, num |-> made["tls"][c] + 1]
  OBVIOUS
<1>4. "tls" \in Channel
  BY DEF Channel
<1>5. (seqno["tls"][c][e] + 1) % SeqMod = seqno["tls"][c][e] + 1
  BY <1>2, <1>4, NoWrapClaim DEF LossInv
<1>6. /\ seqno \in [Channel -> [Cookie -> [Epoch -> Seqno]]]
      /\ made \in [Channel -> [Cookie -> Nat]] /\ task \in [Task -> TaskType]
  BY DEF CaptureTypeOK
<1>7. seqno' = [seqno EXCEPT !["tls"][c][e] = seqno["tls"][c][e] + 1]
  BY <1>0, <1>1, <1>5 DEF SslRet
<1>8. made' = [made EXCEPT !["tls"][c] = @ + 1]
  BY <1>0 DEF SslRet
<1>9. task' = [task EXCEPT ![k] = [pc |-> "reserve", todo |-> <<>>, rec |-> r]]
  BY <1>0, <1>1, <1>3 DEF SslRet
<1>10. \A h \in Channel, x \in Cookie :
          IF h = "tls" /\ x = c
          THEN /\ made'[h][x] = made[h][x] + 1
               /\ \A y \in Epoch :
                     seqno'[h][x][y] = seqno[h][x][y] + (IF y = e THEN 1 ELSE 0)
          ELSE made'[h][x] = made[h][x] /\ seqno'[h][x] = seqno[h][x]
  <2>1. ASSUME NEW h \in Channel, NEW x \in Cookie, h = "tls" /\ x = c
        PROVE  /\ made'[h][x] = made[h][x] + 1
               /\ \A y \in Epoch :
                     seqno'[h][x][y] = seqno[h][x][y] + (IF y = e THEN 1 ELSE 0)
    <3>1. \A y \in Epoch : seqno[h][x][y] \in Int
      BY ClaimTypes
    <3> QED BY <1>6, <1>7, <1>8, <2>1, <3>1
  <2>2. ASSUME NEW h \in Channel, NEW x \in Cookie, ~(h = "tls" /\ x = c)
        PROVE  made'[h][x] = made[h][x] /\ seqno'[h][x] = seqno[h][x]
    BY <1>6, <1>7, <1>8, <2>2
  <2> QED BY <2>1, <2>2
<1>11. \A x \in Task : IF x = k THEN task'[x].rec = r ELSE task'[x] = task[x]
  BY <1>6, <1>9
<1>12. UNCHANGED <<tab, ring, dropped, base, got, told, under>>
  BY DEF SslRet, vars
<1>13. Claimed("tls", c, e, k, r)
  BY <1>2, <1>3, <1>10, <1>11, <1>12 DEF Claimed
<1> QED BY <1>4, <1>13

LEMMA KernelLoss ==
    ASSUME NoWrap, CaptureTypeOK, LossInv, KernelStep
    PROVE  LossInv'
<1>0. task \in [Task -> TaskType]
  BY DEF CaptureTypeOK
<1>1. ASSUME NEW k \in Task, NEW c \in Cookie, Established(k, c) PROVE LossInv'
  BY <1>0, <1>1, QuietStep DEF Established, vars
<1>2. ASSUME NEW k \in Task, NEW c \in Cookie, Closed(k, c) PROVE LossInv'
  BY <1>0, <1>2, QuietStep DEF Closed, vars
<1>3. ASSUME NEW k \in Task, NEW c \in Cookie, SocketCall(k, c) PROVE LossInv'
  BY <1>0, <1>3, QuietStep DEF SocketCall, vars
<1>4. ASSUME NEW k \in Task, NEW c \in Cookie, SslRet(k, c) PROVE LossInv'
  BY <1>4, SslRetClaims, ClaimStep
<1>5. ASSUME NEW k \in Task, ConnGetInsert(k) PROVE LossInv'
  BY <1>0, <1>5, QuietStep DEF ConnGetInsert, vars
<1>6. ASSUME NEW k \in Task, ConnGetLookup(k) PROVE LossInv'
  BY <1>0, <1>6, QuietStep DEF ConnGetLookup, vars, Off
<1>7. ASSUME NEW k \in Task, Claim(k) PROVE LossInv'
  BY <1>7, ClaimClaims, ClaimStep
<1>8. ASSUME NEW k \in Task, Reserve(k) PROVE LossInv'
  BY <1>8, ReserveStep
<1>9. ASSUME NEW k \in Task, Unregister(k) PROVE LossInv'
  BY <1>0, <1>9, QuietStep DEF Unregister, vars, Off
<1>10. ASSUME NEW h \in Channel, NEW c \in Cookie, Evict(h, c) PROVE LossInv'
  BY <1>10, QuietStep DEF Evict, vars
<1> QED BY <1>1, <1>2, <1>3, <1>4, <1>5, <1>6, <1>7, <1>8, <1>9, <1>10 DEF KernelStep

=============================================================================

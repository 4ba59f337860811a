------------------------------ MODULE Capture ------------------------------
(***************************************************************************)
(* The kernel side of the agent (src/bpf/latkit.bpf.c), closed with the    *)
(* connection table: socket tracepoints and TLS uprobes run in several     *)
(* contexts at once, claim a per-connection sequence number, reserve a     *)
(* ring buffer record and submit it; the agent takes records off the ring  *)
(* and hands them to ConnTable's handlers.                                 *)
(*                                                                         *)
(* Two steps that the code keeps apart are apart here: the sequence number *)
(* is claimed (an atomic add) before the record is reserved, and the       *)
(* reservation may fail, so records of a connection can be lost and can    *)
(* enter the ring out of order.  The ring keeps reservation order; a       *)
(* record that is reserved and not yet submitted holds the reader up,      *)
(* which is the reader not moving.                                         *)
(*                                                                         *)
(* A call that captures several chunks is a series of one-chunk calls: the *)
(* code claims a number per chunk.  What the payload holds is Framer's     *)
(* business.  An element of the conns map that is deleted or evicted under *)
(* a context that still holds its pointer keeps its own counter (epoch);   *)
(* reuse of its memory for another cookie is not modelled.                 *)
(***************************************************************************)
EXTENDS ConnTable

CONSTANTS
    Task,          \* contexts that run the programs: threads, softirqs
    TlsConn,       \* connections that turn to TLS
    RingCap,       \* records the ring buffer holds
    KernelEvicts,  \* may the LRU maps conns and tls_seq evict an entry?
    MaxRaw,        \* bound: socket records claimed per connection
    MaxTls,        \* bound: decrypted records claimed per connection
    MaxEpoch       \* bound: registrations of one cookie in a map

ASSUME RingAssumption == RingCap \in Nat \ {0}
ASSUME KernelAssumption == TlsConn \subseteq Cookie /\ KernelEvicts \in BOOLEAN
ASSUME BoundAssumption == MaxRaw \in Nat /\ MaxTls \in Nat /\ MaxEpoch \in Nat

(* raw: the socket path, numbered by lk_conn_state.seq in the map conns.    *)
(* tls: the decrypted channel, numbered by the map tls_seq.                 *)
Channel == {"raw", "tls"}
Epoch == 1 .. MaxEpoch

(* A ring record.  epoch and num are not in it: the registration it was     *)
(* claimed under, and the count of the connection's records on the channel  *)
(* in the order they were claimed, which never restarts.                    *)
Record == [cookie: Cookie, chan: Channel, type: {"OPEN", "SYNTHETIC", "DATA", "CLOSE"},
           seq: Seqno, epoch: Epoch, num: Nat]

VARIABLES
    reg,      \* the maps: registration (epoch) of each cookie, 0 when absent
    epochs,   \* registrations so far, per map and cookie
    seqno,    \* their counters, per cookie and registration
    sock,     \* the socket: not yet established, established, closed
    task,     \* what each context is doing
    ring,     \* the ring buffer
    made,     \* history: records claimed so far, per channel and cookie
    dropped,  \* history: <<epoch, num>> of records whose reservation failed
    base,     \* history: first record the current table entry was shown
    got,      \* history: records it has been shown
    told,     \* history: records the detector has reported missing to it
    under     \* history: registrations its baseline and those records come from

kvars == <<reg, epochs, seqno, sock, task, ring>>
hvars == <<made, dropped, base, got, told, under>>
cvars == <<vars, kvars, hvars>>

Off == [pc |-> "off"]

-----------------------------------------------------------------------------
(* reg[h][c] = 0 is a miss.                                                 *)
FreshEpoch(h, c) == epochs[h][c] + 1

(* bpf_map_update_elem(..., BPF_NOEXIST): the first to insert wins, and its *)
(* counter starts at 0.                                                     *)
Register(c) ==
    IF reg["raw"][c] = 0
    THEN LET e == FreshEpoch("raw", c)
         IN  /\ e \in Epoch
             /\ reg' = [reg EXCEPT !["raw"][c] = e]
             /\ epochs' = [epochs EXCEPT !["raw"][c] = e]
    ELSE UNCHANGED <<reg, epochs>>

(* inet_sock_set_state, new state ESTABLISHED: register, and emit an OPEN   *)
(* unless somebody else registered the socket first.                        *)
Established(k, c) ==
    /\ task[k] = Off
    /\ sock[c] = "new"
    /\ Register(c)
    /\ sock' = [sock EXCEPT ![c] = "established"]
    /\ task' = IF reg["raw"][c] # 0 THEN task
               ELSE [task EXCEPT ![k] = [pc |-> "lookup", cookie |-> c, todo |-> <<"OPEN">>]]
    /\ UNCHANGED <<vars, seqno, ring, hvars>>

(* New state CLOSE: presence in conns is the filter.                        *)
Closed(k, c) ==
    /\ task[k] = Off
    /\ sock[c] = "established"
    /\ sock' = [sock EXCEPT ![c] = "closed"]
    /\ task' = IF reg["raw"][c] = 0 THEN task
               ELSE [task EXCEPT ![k] = [pc |-> "claim", cookie |-> c,
                                         epoch |-> reg["raw"][c], todo |-> <<"CLOSE">>]]
    /\ UNCHANGED <<vars, reg, epochs, seqno, ring, hvars>>

(* tcp_sendmsg, or the exit of tcp_recvmsg: conn_get finds the connection,  *)
(* or misses it.  A socket call can come before the tracepoint and after    *)
(* the close.                                                               *)
SocketCall(k, c) ==
    /\ task[k] = Off
    /\ made["raw"][c] < MaxRaw
    /\ task' = [task EXCEPT ![k] =
                  IF reg["raw"][c] # 0
                  THEN [pc |-> "claim", cookie |-> c, epoch |-> reg["raw"][c], todo |-> <<"DATA">>]
                  ELSE [pc |-> "insert", cookie |-> c, todo |-> <<"DATA">>]]
    /\ UNCHANGED <<vars, reg, epochs, seqno, sock, ring, hvars>>

(* conn_get after a miss: insert, and whoever inserted emits the synthetic  *)
(* OPEN.                                                                    *)
ConnGetInsert(k) ==
    /\ task[k].pc = "insert"
    /\ LET c == task[k].cookie
           todo == IF reg["raw"][c] = 0 THEN <<"SYNTHETIC", "DATA">> ELSE <<"DATA">>
       IN  /\ Register(c)
           /\ task' = [task EXCEPT ![k] = [pc |-> "lookup", cookie |-> c, todo |-> todo]]
    /\ UNCHANGED <<vars, seqno, sock, ring, hvars>>

(* The second lookup: the registration may be gone again, and with it the   *)
(* whole capture of this call; or it may be somebody else's.                *)
ConnGetLookup(k) ==
    /\ task[k].pc = "lookup"
    /\ LET c == task[k].cookie
       IN  task' = [task EXCEPT ![k] =
                      IF reg["raw"][c] = 0 THEN Off
                      ELSE [pc |-> "claim", cookie |-> c, epoch |-> reg["raw"][c],
                            todo |-> task[k].todo]]
    /\ UNCHANGED <<vars, reg, epochs, seqno, sock, ring, hvars>>

(* seq = __sync_fetch_and_add(&st->seq, 1), before the reservation.         *)
Claim(k) ==
    /\ task[k].pc = "claim"
    /\ LET c == task[k].cookie
           e == task[k].epoch
       IN  /\ made["raw"][c] < MaxRaw
           /\ seqno' = [seqno EXCEPT !["raw"][c][e] = (@ + 1) % SeqMod]
           /\ made' = [made EXCEPT !["raw"][c] = @ + 1]
           /\ task' = [task EXCEPT ![k] =
                         [pc |-> "reserve", todo |-> Tail(task[k].todo),
                          rec |-> [cookie |-> c, chan |-> "raw", type |-> Head(task[k].todo),
                                   seq |-> seqno["raw"][c][e], epoch |-> e,
                                   num |-> made["raw"][c] + 1]]]
    /\ UNCHANGED <<vars, reg, epochs, sock, ring, dropped, base, got, told, under>>

(* The return probe of SSL_read or SSL_write: tls_next_seq takes a number   *)
(* from the decrypted channel's own counter, created on first use.  Its     *)
(* lookup, insertion, second lookup and atomic add are one step, since      *)
(* nothing but the add can be seen from outside: of two insertions one wins *)
(* and both contexts add to it; an add to a counter that was evicted since  *)
(* the lookup leaves what one just before the eviction would have left; and *)
(* a context whose own insertion is gone at the second lookup stamps 0, as  *)
(* this step followed by Evict does.                                        *)
SslRet(k, c) ==
    /\ task[k] = Off
    /\ c \in TlsConn
    /\ made["tls"][c] < MaxTls
    /\ LET e == IF reg["tls"][c] = 0 THEN FreshEpoch("tls", c) ELSE reg["tls"][c]
           s == seqno["tls"][c][e]
       IN  /\ e \in Epoch
           /\ reg' = [reg EXCEPT !["tls"][c] = e]
           /\ epochs' = [epochs EXCEPT !["tls"][c] = e]
           /\ seqno' = [seqno EXCEPT !["tls"][c][e] = (s + 1) % SeqMod]
           /\ made' = [made EXCEPT !["tls"][c] = @ + 1]
           /\ task' = [task EXCEPT ![k] =
                         [pc |-> "reserve", todo |-> <<>>,
                          rec |-> [cookie |-> c, chan |-> "tls", type |-> "DATA", seq |-> s,
                                   epoch |-> e, num |-> made["tls"][c] + 1]]]
    /\ UNCHANGED <<vars, sock, ring, dropped, base, got, told, under>>

(* What a context does once its record is submitted, or lost.  A failed     *)
(* chunk ends its call as well.                                             *)
AfterRecord(k) ==
    LET c == task[k].rec.cookie
    IN  IF task[k].todo # <<>>
        THEN [pc |-> "claim", cookie |-> c, epoch |-> task[k].rec.epoch, todo |-> task[k].todo]
        ELSE IF task[k].rec.type = "CLOSE" THEN [pc |-> "delete", cookie |-> c]
        ELSE Off

(* Mutated forms of Reserve: a lost record gives its number back; the ring  *)
(* takes one record too many.                                               *)
ReserveGivesBack(k) ==
    /\ task[k].pc = "reserve"
    /\ LET r == task[k].rec
       IN  IF Len(ring) < RingCap
           THEN ring' = Append(ring, r) /\ UNCHANGED <<dropped, seqno>>
           ELSE /\ dropped' = [dropped EXCEPT ![r.chan][r.cookie] = @ \cup {<<r.epoch, r.num>>}]
                /\ seqno' = [seqno EXCEPT ![r.chan][r.cookie][r.epoch] = r.seq]
                /\ UNCHANGED ring
    /\ task' = [task EXCEPT ![k] = AfterRecord(k)]
    /\ UNCHANGED <<vars, reg, epochs, sock, made, base, got, told, under>>

ReserveOverfull(k) ==
    /\ task[k].pc = "reserve"
    /\ ring' = Append(ring, task[k].rec)
    /\ task' = [task EXCEPT ![k] = AfterRecord(k)]
    /\ UNCHANGED <<vars, reg, epochs, seqno, sock, made, dropped, base, got, told, under>>

(* bpf_ringbuf_reserve and submit; a full ring loses the record.            *)
Reserve(k) ==
    /\ task[k].pc = "reserve"
    /\ LET r == task[k].rec
       IN  IF Len(ring) < RingCap
           THEN ring' = Append(ring, r) /\ UNCHANGED dropped
           ELSE /\ dropped' = [dropped EXCEPT ![r.chan][r.cookie] = @ \cup {<<r.epoch, r.num>>}]
                /\ UNCHANGED ring
    /\ task' = [task EXCEPT ![k] = AfterRecord(k)]
    /\ UNCHANGED <<vars, reg, epochs, seqno, sock, made, base, got, told, under>>

(* The CLOSE handler ends by deleting the registration.                     *)
Unregister(k) ==
    /\ task[k].pc = "delete"
    /\ reg' = [reg EXCEPT !["raw"][task[k].cookie] = 0]
    /\ task' = [task EXCEPT ![k] = Off]
    /\ UNCHANGED <<vars, epochs, seqno, sock, ring, hvars>>

(* The LRU maps make room for other connections at this one's expense.      *)
Evict(h, c) ==
    /\ KernelEvicts
    /\ reg[h][c] # 0
    /\ reg' = [reg EXCEPT ![h][c] = 0]
    /\ UNCHANGED <<vars, epochs, seqno, sock, task, ring, hvars>>

-----------------------------------------------------------------------------
(* The handler of a record: ConnTable's actions.  A connection turns to TLS *)
(* only if it is a TLS connection.                                          *)
Handle(r) ==
    LET c == r.cookie
    IN  \/ r.type \in {"OPEN", "SYNTHETIC"} /\ OpenKnown(c, r.seq, 0)
        \/ /\ r.type \in {"OPEN", "SYNTHETIC"}
           /\ \E port \in Port : OpenNew(c, r.seq, 0, port, r.type = "SYNTHETIC")
        \/ r.type = "CLOSE" /\ Close(c, r.seq, 0)
        \/ r.type = "DATA" /\ r.chan = "raw" /\ DataCiphertext(c, r.seq, 0)
        \/ /\ r.type = "DATA" /\ r.chan = "raw"
           /\ \E d \in Dir : Data(c, r.seq, 0, d)
           /\ tab'.conn[c].tls => c \in TlsConn
        \/ /\ r.type = "DATA" /\ r.chan = "tls"
           /\ \E d \in Dir : DataDecrypted(c, r.seq, 0, d)
        \/ r.type # "CLOSE" /\ CreateFails(c)

(* The records of r's channel between the first one the entry was shown and *)
(* r that it has not been shown.                                            *)
Missing(r) ==
    IF base[r.chan][r.cookie] = 0 THEN {}
    ELSE (base[r.chan][r.cookie] + 1 .. r.num - 1) \ got[r.chan][r.cookie]

(* A dropped ciphertext record excuses what was lost before it: the         *)
(* detector is bypassed on purpose.                                         *)
Excused(r) == r.chan = "raw" /\ r.type = "DATA" /\ tab.conn[r.cookie].tls

(* The history of the entry: it starts over with a new entry.  One that a   *)
(* decrypted record makes takes that record's number for its raw baseline:  *)
(* a number of no registration of the socket channel (0).                   *)
Audit(r) ==
    LET c == r.cookie
        fresh == ~Lookup(tab, c)
        here(h) == h = r.chan
        old(h, none, v) == IF fresh THEN none ELSE v
    IN  /\ base' = [h \in Channel |-> [base[h] EXCEPT ![c] =
                      IF here(h) /\ old(h, 0, @) = 0 THEN r.num ELSE old(h, 0, @)]]
        /\ got' = [h \in Channel |-> [got[h] EXCEPT ![c] =
                     old(h, {}, @) \cup (IF here(h) THEN {r.num} ELSE {})]]
        /\ told' = [h \in Channel |-> [told[h] EXCEPT ![c] =
                      old(h, {}, @) \cup
                        (IF here(h) /\ ~fresh /\ (lost' > 0 \/ Excused(r))
                         THEN Missing(r) ELSE {})]]
        /\ under' = [h \in Channel |-> [under[h] EXCEPT ![c] =
                       old(h, {}, @) \cup (IF here(h) THEN {r.epoch}
                                        ELSE IF fresh /\ h = "raw" THEN {0} ELSE {})]]

(* on_ringbuf_ready: the next record, from the ring to the last flag.       *)
Deliver ==
    /\ ring # <<>>
    /\ Handle(Head(ring))
    /\ Audit(Head(ring))
    /\ ring' = Tail(ring)
    /\ UNCHANGED <<reg, epochs, seqno, sock, task, made, dropped>>

AgentSweep == Sweep /\ UNCHANGED <<kvars, hvars>>

(* The map of overrides drops an entry.                                     *)
OverrideAges == \E c \in Cookie : CapAges(c) /\ UNCHANGED <<kvars, hvars>>

-----------------------------------------------------------------------------
CaptureInit ==
    /\ Init
    /\ reg = [h \in Channel |-> [c \in Cookie |-> 0]]
    /\ epochs = [h \in Channel |-> [c \in Cookie |-> 0]]
    /\ seqno = [h \in Channel |-> [c \in Cookie |-> [e \in Epoch |-> 0]]]
    /\ sock \in [Cookie -> {"new", "established"}]
    /\ task = [k \in Task |-> Off]
    /\ ring = <<>>
    /\ made = [h \in Channel |-> [c \in Cookie |-> 0]]
    /\ dropped = [h \in Channel |-> [c \in Cookie |-> {}]]
    /\ base = [h \in Channel |-> [c \in Cookie |-> 0]]
    /\ got = [h \in Channel |-> [c \in Cookie |-> {}]]
    /\ told = [h \in Channel |-> [c \in Cookie |-> {}]]
    /\ under = [h \in Channel |-> [c \in Cookie |-> {}]]

KernelStep ==
    \/ \E k \in Task, c \in Cookie :
          Established(k, c) \/ Closed(k, c) \/ SocketCall(k, c) \/ SslRet(k, c)
    \/ \E k \in Task :
          \/ ConnGetInsert(k) \/ ConnGetLookup(k) \/ Claim(k) \/ Reserve(k)
          \/ Unregister(k)
    \/ \E h \in Channel, c \in Cookie : Evict(h, c)

CaptureNext == KernelStep \/ Deliver \/ AgentSweep \/ OverrideAges

CaptureSpec == CaptureInit /\ [][CaptureNext]_cvars

-----------------------------------------------------------------------------
TaskType ==
    {Off} \cup
    [pc: {"insert"}, cookie: Cookie, todo: {<<"DATA">>}] \cup
    [pc: {"lookup"}, cookie: Cookie,
     todo: {<<"OPEN">>, <<"DATA">>, <<"SYNTHETIC", "DATA">>}] \cup
    [pc: {"claim"}, cookie: Cookie, epoch: Epoch,
     todo: {<<"OPEN">>, <<"DATA">>, <<"CLOSE">>, <<"SYNTHETIC", "DATA">>}] \cup
    [pc: {"reserve"}, todo: {<<>>, <<"DATA">>}, rec: Record] \cup
    [pc: {"delete"}, cookie: Cookie]

(* The types of the kernel's state and of the ring.                         *)
CaptureTypeOK ==
    /\ reg \in [Channel -> [Cookie -> 0 .. MaxEpoch]]
    /\ epochs \in [Channel -> [Cookie -> 0 .. MaxEpoch]]
    /\ seqno \in [Channel -> [Cookie -> [Epoch -> Seqno]]]
    /\ sock \in [Cookie -> {"new", "established", "closed"}]
    /\ task \in [Task -> TaskType]
    /\ ring \in Seq(Record) /\ Len(ring) <= RingCap
    /\ made \in [Channel -> [Cookie -> Nat]]

(* A lost record d between the first one an entry was shown and a later     *)
(* one.                                                                     *)
Passed(h, c, d) == base[h][c] < d[2] /\ \E b \in got[h][c] : d[2] < b

Reported(h, c) ==
    \A d \in dropped[h][c] :
        under[h][c] = {d[1]} /\ Passed(h, c, d) => d[2] \in told[h][c]

(* While a connection stays registered, none of its records is lost         *)
(* silently, on the socket channel or on the decrypted one: once an entry   *)
(* has been shown a record from after a lost one, the sequence detector of  *)
(* that channel has reported the gap, and so dirtied the framing, on every  *)
(* interleaving of the contexts (touch, touch_tls; the claim-before-reserve *)
(* order of emit_chunk, emit_conn_event and emit_ssl_chunk).                *)
LossReported == \A h \in Channel, c \in Cookie : Reported(h, c)

(* The number is "per-conn, monotonic; a hole means loss" (lk_ev_hdr.seq):  *)
(* losses are reported for as long as the agent holds the entry, whatever   *)
(* happens to the registration.                                             *)
ConnLossReported ==
    \A c \in Cookie : \A d \in dropped["raw"][c] :
        Passed("raw", c, d) => d[2] \in told["raw"][c]

HoleIsLoss(h) ==
    ring # <<>> /\ ring' = Tail(ring) =>
        LET r == Head(ring)
        IN  r.chan = h /\ lost' > 0 /\ under'[h][r.cookie] = {r.epoch} =>
               Missing(r) \ told[h][r.cookie] # {}

(* "A hole means loss" (lk_ev_hdr.seq): while a connection stays registered *)
(* and its baseline is one of its own, the detectors report a gap only over *)
(* a record the entry was never shown, lost or overtaken (touch, touch_tls).*)
HoleMeansLoss == [][\A h \in Channel : HoleIsLoss(h)]_cvars

=============================================================================

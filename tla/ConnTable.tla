----------------------------- MODULE ConnTable -----------------------------
(***************************************************************************)
(* The agent's connection table (src/agent/conn_table.c) as it is driven   *)
(* by the event pipeline (src/agent/pipeline.c) and the ringbuf callback   *)
(* (handle_event in src/agent/events.c).                                   *)
(*                                                                         *)
(* The operators follow the functions of conn_table.c: each takes a table  *)
(* t and returns the table the function leaves behind.  The actions are    *)
(* the handlers: one ringbuf record from the record to the last flag it    *)
(* sets, the sweep timer, and teardown.                                    *)
(*                                                                         *)
(* The records themselves are arbitrary here: any cookie, any sequence     *)
(* number, any order (a trace file replays through the same path).  The    *)
(* module Capture closes the system with the kernel side.  What the framer *)
(* does to an entry (lk_reasm_data) is reduced to what the table can see   *)
(* of it: see ReasmData.                                                   *)
(***************************************************************************)
EXTENDS Integers, Sequences, FiniteSets

CONSTANTS
    Cookie,       \* socket cookies
    Dir,          \* stream directions of a connection (SEND, RECV)
    Proto,        \* wire protocols that have a handler
    ProtoDflt,    \* the protocol of an entry without a tuple
    PortProto,    \* Port -> Proto, the --port map resolved over local ports
    MaxConns,     \* --max-conns
    IdleTimeout,  \* idle timeout, in sweep-clock units
    Skew,         \* how far an event's timestamp may lag behind delivery
    SeqMod,       \* 2^32 in the code: sequence numbers are unsigned and wrap
    CapHeaders,   \* --cap-headers
    CapLossy,     \* may the map of overrides refuse a write, or drop an entry?
    NULL          \* absent entry

Port == DOMAIN PortProto
Seqno == 0 .. SeqMod - 1
Age == 0 .. IdleTimeout

(* One table entry.  age is (now - last_activity_ns), saturated at the idle *)
(* timeout: the code only ever compares last_activity_ns with now.  mode    *)
(* stands for the flags LK_CONN_CANCEL and LK_CONN_IGNORE, which turn       *)
(* framing off for good ("off"), and LK_CONN_REPLICATION, which does not    *)
(* but needs no payload either.                                             *)
Mode == {"framed", "replication", "off"}

Conn == [last_seq: Seqno, tls_seq_seen: BOOLEAN, tls_last_seq: Seqno,
         age: Age, dirty: [Dir -> BOOLEAN], tls: BOOLEAN, mode: Mode,
         cap_headers: BOOLEAN, ops: Proto, proto_state: BOOLEAN]

(* full: no override was asked for since the last CLOSE.  headers: it is in *)
(* the map.  forgot: it was asked for, but the kernel refused the write or  *)
(* has dropped the entry since; to the capture that is full again.          *)
CapMode == {"full", "headers", "forgot"}

ASSUME CookieAssumption == IsFiniteSet(Cookie)
ASSUME ProtoAssumption == ProtoDflt \in Proto /\ PortProto \in [Port -> Proto]
ASSUME MaxConnsAssumption == MaxConns \in Nat \ {0}
ASSUME TimeAssumption == IdleTimeout \in Nat /\ Skew \in Age
ASSUME SeqAssumption == SeqMod \in Nat \ {0}
ASSUME CapHeadersAssumption == CapHeaders \in BOOLEAN
ASSUME CapLossyAssumption == CapLossy \in BOOLEAN
ASSUME NullAssumption == NULL \notin Conn

VARIABLES
    tab,      \* the table: entries, LRU list, gauges, live parser states
    capmode,  \* what became of the override of each cookie in the kernel's map
    lost,     \* *lost of the last record: events reported missing before it
    running   \* FALSE once the table is torn down

vars == <<tab, capmode, lost, running>>

-----------------------------------------------------------------------------
(* The table.  conn is the hash table, lru the list from lru_head to        *)
(* lru_tail, active and tls_active the two gauges of the statistics.  heap  *)
(* holds the parser states allocated and not freed, each with the protocol  *)
(* that allocated it: it exists to tell a freed state from a leaked one.    *)
EmptyTable ==
    [conn |-> [c \in Cookie |-> NULL], lru |-> <<>>, active |-> 0,
     tls_active |-> 0, heap |-> {}]

Lookup(t, c) == t.conn[c] # NULL

Live(t) == {c \in Cookie : Lookup(t, c)}

TlsLive(t) == {c \in Live(t) : t.conn[c].tls}

LruIndex(l, c) == CHOOSE i \in 1 .. Len(l) : l[i] = c

LruUnlink(l, c) ==
    LET k == LruIndex(l, c)
    IN  [i \in 1 .. Len(l) - 1 |-> IF i < k THEN l[i] ELSE l[i + 1]]

LruPushFront(l, c) ==
    [i \in 1 .. Len(l) + 1 |-> IF i = 1 THEN c ELSE l[i - 1]]

(* Mutated forms of Destroy: the entry stays in the LRU list; the close     *)
(* hook is not called.                                                      *)
DestroyNoUnlink(t, c) ==
    [t EXCEPT !.conn[c] = NULL, !.active = @ - 1,
              !.tls_active = @ - (IF t.conn[c].tls THEN 1 ELSE 0),
              !.heap = @ \ {<<c, t.conn[c].ops>>}]

DestroyNoHook(t, c) ==
    [t EXCEPT !.conn[c] = NULL, !.lru = LruUnlink(t.lru, c), !.active = @ - 1,
              !.tls_active = @ - (IF t.conn[c].tls THEN 1 ELSE 0)]

(* Removal of one entry: the protocol's close hook frees the parser state   *)
(* while the entry is whole, then the entry leaves both lists and the       *)
(* gauges.                                                                  *)
Destroy(t, c) ==
    [conn       |-> [t.conn EXCEPT ![c] = NULL],
     lru        |-> LruUnlink(t.lru, c),
     active     |-> t.active - 1,
     tls_active |-> t.tls_active - (IF t.conn[c].tls THEN 1 ELSE 0),
     heap       |-> t.heap \ {<<c, t.conn[c].ops>>}]

MarkDirty(e) == [e EXCEPT !.dirty = [d \in Dir |-> TRUE]]

(* seq > last + 1 in unsigned arithmetic: last + 1 wraps to 0.              *)
SeqGap(seq, last) == seq > (last + 1) % SeqMod

SeqLost(seq, last) ==
    IF SeqGap(seq, last) THEN seq - ((last + 1) % SeqMod) ELSE 0

(* Mutated form of SeqAdvance: a straggler moves the baseline back.         *)
SeqFollow(seq, last) == seq

SeqAdvance(seq, last) == IF seq > last THEN seq ELSE last

(* Mutated form of LruTouch: the entry keeps its place.                     *)
LruTouchInPlace(t, c, e) == [t EXCEPT !.conn[c] = e]

LruTouch(t, c, e) ==
    [t EXCEPT !.conn[c] = e, !.lru = LruPushFront(LruUnlink(t.lru, c), c)]

(* The gap detector and the activity bookkeeping of every raw record.       *)
Touch(t, c, seq, age) ==
    LET e == t.conn[c]
        e1 == IF SeqGap(seq, e.last_seq) THEN MarkDirty(e) ELSE e
    IN  LruTouch(t, c, [e1 EXCEPT !.last_seq = SeqAdvance(seq, e.last_seq),
                                  !.age = age])

(* Mutated forms of TlsGap: no baseline is needed; the raw one is used.     *)
TlsGapUnseeded(e, seq) == SeqGap(seq, e.tls_last_seq)

TlsGapRaw(e, seq) == e.tls_seq_seen /\ SeqGap(seq, e.last_seq)

(* Its twin on the decrypted channel's own sequence space; the first event  *)
(* seeds the baseline.                                                      *)
TlsGap(e, seq) == e.tls_seq_seen /\ SeqGap(seq, e.tls_last_seq)

TouchTls(t, c, seq, age) ==
    LET e == t.conn[c]
        e1 == IF TlsGap(e, seq) THEN MarkDirty(e) ELSE e
        last == IF e.tls_seq_seen THEN SeqAdvance(seq, e.tls_last_seq)
                                  ELSE seq
    IN  LruTouch(t, c, [e1 EXCEPT !.tls_seq_seen = TRUE,
                                  !.tls_last_seq = last, !.age = age])

(* A ciphertext record dropped on a TLS connection: the raw baseline moves  *)
(* along without a gap being counted.                                       *)
NoteTlsDrop(t, c, seq, age) ==
    LET e == t.conn[c]
    IN  LruTouch(t, c, [e EXCEPT !.last_seq = SeqAdvance(seq, e.last_seq),
                                 !.age = age])

(* Mutated forms of MakeRoom: past the ceiling; at the wrong end.           *)
MakeRoomLate(t) ==
    IF t.active > MaxConns /\ t.lru # <<>>
    THEN Destroy(t, t.lru[Len(t.lru)])
    ELSE t

MakeRoomHot(t) ==
    IF t.active >= MaxConns /\ t.lru # <<>> THEN Destroy(t, t.lru[1]) ELSE t

(* At the ceiling the coldest entry is recycled, before the allocation of   *)
(* the new one is tried.                                                    *)
MakeRoom(t) ==
    IF t.active >= MaxConns /\ t.lru # <<>>
    THEN Destroy(t, t.lru[Len(t.lru)])
    ELSE t

NewConn(seq, age) ==
    [last_seq |-> seq, tls_seq_seen |-> FALSE, tls_last_seq |-> 0,
     age |-> age, dirty |-> [d \in Dir |-> FALSE], tls |-> FALSE,
     mode |-> "framed", cap_headers |-> FALSE, ops |-> ProtoDflt,
     proto_state |-> FALSE]

(* Link a fresh entry e in at the front.                                    *)
Create(t, c, e) ==
    [t EXCEPT !.conn[c] = e, !.lru = LruPushFront(t.lru, c), !.active = @ + 1]

-----------------------------------------------------------------------------
(* The framer and the parser, as far as the table sees them.  One data      *)
(* event can leave its own direction clean or dirty, can turn framing off,  *)
(* can turn the connection to TLS, and can make the protocol handler        *)
(* allocate its per-connection state.  It is dropped at the door when       *)
(* framing is off, and on a TLS connection unless it is decrypted.          *)
FramerEffect == [dirty: BOOLEAN, mode: Mode, tls: BOOLEAN, state: BOOLEAN]

Framed(e, d, w) ==
    [e EXCEPT !.dirty[d] = w.dirty,
              !.mode = IF w.mode = "framed" THEN e.mode ELSE w.mode,
              !.tls = @ \/ w.tls, !.proto_state = @ \/ w.state]

ReasmData(e, d, decrypted) ==
    IF e.mode = "off" \/ (e.tls /\ ~decrypted)
    THEN {e}
    ELSE {Framed(e, d, w) : w \in FramerEffect}

(* The entry's framing restarts on the decrypted stream: at its first byte, *)
(* or dirty when the connection was adopted in mid-session.                 *)
TlsResetFraming(e, midstream) ==
    [e EXCEPT !.dirty = [d \in Dir |-> midstream]]

(* A connection whose payload is not needed any more is flipped to HEADERS  *)
(* capture once; the flag on the entry is the guard.                        *)
NeedsCapHeaders(e) == ~e.cap_headers /\ (e.tls \/ e.mode # "framed")

ApplyCapPolicy(e) == IF NeedsCapHeaders(e) THEN [e EXCEPT !.cap_headers = TRUE]
                                           ELSE e

(* Mutated form of Settle: every TLS record counts.                         *)
SettleEvery(t, c, e) ==
    [t EXCEPT !.conn[c] = ApplyCapPolicy(e),
              !.tls_active = @ + (IF e.tls THEN 1 ELSE 0),
              !.heap = @ \cup (IF e.proto_state THEN {<<c, e.ops>>} ELSE {})]

(* Store what the framer and the policies made of entry c: a connection     *)
(* that went TLS in this record enters the gauge.                           *)
Settle(t, c, e) ==
    [t EXCEPT !.conn[c] = ApplyCapPolicy(e),
              !.tls_active = @ + (IF e.tls /\ ~t.conn[c].tls THEN 1 ELSE 0),
              !.heap = @ \cup (IF e.proto_state THEN {<<c, e.ops>>} ELSE {})]

(* set_cap_headers: a write that fails leaves a warning and the map as it   *)
(* was; the caller sets its flag all the same.                              *)
SetCapHeaders(c) ==
    {[capmode EXCEPT ![c] = "headers"]} \cup
    (IF CapLossy THEN {[capmode EXCEPT ![c] = IF @ = "headers" THEN @ ELSE "forgot"]} ELSE {})

(* Mutated form of CapmodeAfter: only TLS connections are written.          *)
CapmodeTlsOnly(c, e) ==
    IF NeedsCapHeaders(e) /\ e.mode = "framed" THEN SetCapHeaders(c) ELSE {capmode}

(* The map after the policy was applied to entry e.                         *)
CapmodeAfter(c, e) == IF NeedsCapHeaders(e) THEN SetCapHeaders(c) ELSE {capmode}

-----------------------------------------------------------------------------
(* The entry an OPEN makes: protocol by local port; a synthetic OPEN (the   *)
(* kernel met the socket in mid-session) starts dirty.                      *)
OpenedConn(seq, age, port, synthetic) ==
    LET e == [NewConn(seq, age) EXCEPT !.ops = PortProto[port]]
    IN  IF synthetic THEN MarkDirty(e) ELSE e

(* --cap-headers caps every connection from its OPEN.                       *)
CapOnOpen(e) == [e EXCEPT !.cap_headers = @ \/ CapHeaders]

FlagOnOpen(t, c) == [t EXCEPT !.conn[c] = CapOnOpen(@)]

OpenCapmode(c) == IF CapHeaders THEN SetCapHeaders(c) ELSE {capmode}

(* CONN_OPEN of a cookie the table already has: an activity, nothing more.  *)
OpenKnown(c, seq, age) ==
    /\ running
    /\ Lookup(tab, c)
    /\ tab' = FlagOnOpen(Touch(tab, c, seq, age), c)
    /\ capmode' \in OpenCapmode(c)
    /\ lost' = SeqLost(seq, tab.conn[c].last_seq)
    /\ UNCHANGED running

OpenNew(c, seq, age, port, synthetic) ==
    /\ running
    /\ ~Lookup(tab, c)
    /\ tab' = Create(MakeRoom(tab), c,
                     CapOnOpen(OpenedConn(seq, age, port, synthetic)))
    /\ capmode' \in OpenCapmode(c)
    /\ lost' = 0
    /\ UNCHANGED running

(* Any record that has to create an entry and gets no memory for it: the    *)
(* victim of the ceiling is gone all the same, the record is not tracked.   *)
CreateFails(c) ==
    /\ running
    /\ ~Lookup(tab, c)
    /\ tab' = MakeRoom(tab)
    /\ lost' = 0
    /\ UNCHANGED <<capmode, running>>

(* CONN_CLOSE: the gap check runs on the CLOSE itself, then the entry goes. *)
Close(c, seq, age) ==
    /\ running
    /\ IF Lookup(tab, c)
       THEN /\ tab' = Destroy(Touch(tab, c, seq, age), c)
            /\ lost' = SeqLost(seq, tab.conn[c].last_seq)
       ELSE /\ lost' = 0
            /\ UNCHANGED tab
    /\ capmode' = [capmode EXCEPT ![c] = "full"]
    /\ UNCHANGED running

(* A ciphertext record of a TLS connection is dropped before the gap        *)
(* detector.                                                                *)
DataCiphertext(c, seq, age) ==
    /\ running
    /\ Lookup(tab, c)
    /\ tab.conn[c].tls
    /\ LET t == NoteTlsDrop(tab, c, seq, age)
       IN  /\ tab' = Settle(t, c, t.conn[c])
           /\ capmode' \in CapmodeAfter(c, t.conn[c])
    /\ lost' = 0
    /\ UNCHANGED running

(* The table after the lookup half of a plaintext socket record: touched,   *)
(* or re-created dirty and without a tuple.                                 *)
DataEntry(t, c, seq, age) ==
    IF Lookup(t, c) THEN Touch(t, c, seq, age)
    ELSE Create(MakeRoom(t), c, MarkDirty(NewConn(seq, age)))

(* A socket record of a connection that is not TLS: framed; when this very  *)
(* record turns the connection, framing restarts for the decrypted stream.  *)
Data(c, seq, age, d) ==
    /\ running
    /\ Lookup(tab, c) => ~tab.conn[c].tls
    /\ LET t == DataEntry(tab, c, seq, age)
       IN  \E e \in ReasmData(t.conn[c], d, FALSE) :
              LET e1 == IF e.tls THEN TlsResetFraming(e, FALSE) ELSE e
              IN  /\ tab' = Settle(t, c, e1)
                  /\ capmode' \in CapmodeAfter(c, e1)
    /\ lost' = IF Lookup(tab, c) THEN SeqLost(seq, tab.conn[c].last_seq) ELSE 0
    /\ UNCHANGED running

(* The lookup half of a decrypted record.  A re-created entry takes the     *)
(* decrypted sequence number as its raw baseline too (create(..., seq)).    *)
DecryptedEntry(t, c, seq, age) ==
    IF Lookup(t, c) THEN TouchTls(t, c, seq, age)
    ELSE Create(MakeRoom(t), c,
                [MarkDirty(NewConn(seq, age)) EXCEPT !.tls_seq_seen = TRUE,
                                                     !.tls_last_seq = seq])

(* A decrypted record: the connection is TLS, whatever its flag said, so it *)
(* is adopted before its plaintext is framed.                               *)
DataDecrypted(c, seq, age, d) ==
    /\ running
    /\ LET t == DecryptedEntry(tab, c, seq, age)
           e0 == t.conn[c]
           e1 == IF e0.tls THEN e0
                 ELSE [TlsResetFraming(e0, TRUE) EXCEPT !.tls = TRUE]
       IN  \E e \in ReasmData(e1, d, TRUE) :
              /\ tab' = Settle(t, c, e)
              /\ capmode' \in CapmodeAfter(c, e)
    /\ lost' = IF Lookup(tab, c) /\ TlsGap(tab.conn[c], seq)
               THEN SeqLost(seq, tab.conn[c].tls_last_seq) ELSE 0
    /\ UNCHANGED running

(* Mutated form of Idle.                                                    *)
IdleLate(t, c) == t.conn[c].age > IdleTimeout

Idle(t, c) == t.conn[c].age >= IdleTimeout

(* The idle sweep destroys from the tail while the tail is idle: what stays *)
(* is the list up to the last entry that is not.                            *)
SweepKeep(t) ==
    CHOOSE k \in 0 .. Len(t.lru) :
        /\ \A i \in k + 1 .. Len(t.lru) : Idle(t, t.lru[i])
        /\ k > 0 => ~Idle(t, t.lru[k])

SweepTable(t) ==
    LET k == SweepKeep(t)
        gone == {t.lru[i] : i \in k + 1 .. Len(t.lru)}
    IN  [conn       |-> [c \in Cookie |-> IF c \in gone THEN NULL ELSE t.conn[c]],
         lru        |-> SubSeq(t.lru, 1, k),
         active     |-> t.active - (Len(t.lru) - k),
         tls_active |-> t.tls_active - Cardinality(gone \cap TlsLive(t)),
         heap       |-> t.heap \ {<<c, t.conn[c].ops>> : c \in gone}]

Sweep ==
    /\ running
    /\ tab' = SweepTable(tab)
    /\ UNCHANGED <<capmode, lost, running>>

(* Teardown destroys every entry through the same path.                     *)
FreeTable(t) ==
    [EmptyTable EXCEPT
        !.active = t.active - Len(t.lru),
        !.tls_active = t.tls_active - Cardinality(TlsLive(t)),
        !.heap = t.heap \ {<<c, t.conn[c].ops>> : c \in Live(t)}]

Free ==
    /\ running
    /\ tab' = FreeTable(tab)
    /\ running' = FALSE
    /\ UNCHANGED <<capmode, lost>>

(* The map is an LRU hash: the kernel makes room in it for other cookies.   *)
CapAges(c) ==
    /\ CapLossy
    /\ capmode[c] = "headers"
    /\ capmode' = [capmode EXCEPT ![c] = "forgot"]
    /\ UNCHANGED <<tab, lost, running>>

(* The sweep clock advances by one unit.                                    *)
Tick ==
    /\ running
    /\ \E c \in Live(tab) : ~Idle(tab, c)
    /\ tab' = [tab EXCEPT !.conn =
                 [c \in Cookie |->
                    IF tab.conn[c] = NULL \/ Idle(tab, c) THEN tab.conn[c]
                    ELSE [tab.conn[c] EXCEPT !.age = @ + 1]]]
    /\ UNCHANGED <<capmode, lost, running>>

-----------------------------------------------------------------------------
Init ==
    /\ tab = EmptyTable
    /\ capmode = [c \in Cookie |-> "full"]
    /\ lost = 0
    /\ running = TRUE

HandleEvent(c) ==
    \E seq \in Seqno, age \in 0 .. Skew :
        \/ OpenKnown(c, seq, age)
        \/ \E port \in Port, synthetic \in BOOLEAN :
              OpenNew(c, seq, age, port, synthetic)
        \/ Close(c, seq, age)
        \/ DataCiphertext(c, seq, age)
        \/ \E d \in Dir : Data(c, seq, age, d)
        \/ \E d \in Dir : DataDecrypted(c, seq, age, d)

Next ==
    \/ \E c \in Cookie : HandleEvent(c) \/ CreateFails(c) \/ CapAges(c)
    \/ Sweep
    \/ Free
    \/ Tick

Spec == Init /\ [][Next]_vars

(* The sweep timer is armed for the life of the event loop and the clock    *)
(* runs: both happen again and again however much traffic there is.         *)
Fairness == WF_vars(Tick) /\ WF_vars(Sweep)

LiveSpec == Spec /\ Fairness

-----------------------------------------------------------------------------
TableType ==
    [conn: [Cookie -> Conn \cup {NULL}], lru: Seq(Cookie), active: Int,
     tls_active: Int, heap: SUBSET (Cookie \X Proto)]

(* The state of the table and of the variables around it.                   *)
TypeOK ==
    /\ tab \in TableType
    /\ capmode \in [Cookie -> CapMode]
    /\ lost \in Nat
    /\ running \in BOOLEAN

LruExact(t) ==
    /\ \A i, j \in 1 .. Len(t.lru) : t.lru[i] = t.lru[j] => i = j
    /\ Live(t) = {t.lru[i] : i \in 1 .. Len(t.lru)}

Bounded(t) == t.active = Len(t.lru) /\ t.active <= MaxConns

TlsGaugeExact(t) == t.tls_active = Cardinality(TlsLive(t))

StateOwned(t) ==
    t.heap = {<<c, t.conn[c].ops>> : c \in {x \in Live(t) : t.conn[x].proto_state}}

LruOrdered(t) ==
    \A i, j \in 1 .. Len(t.lru) :
        i < j => t.conn[t.lru[i]].age <= t.conn[t.lru[j]].age + Skew

(* The hash table and the LRU list hold the same entries, each once, over   *)
(* every mix of OPEN, data, CLOSE, eviction at the ceiling, sweep, failed   *)
(* allocation and teardown (lookup, create, destroy, lru_unlink).           *)
LruMatchesHash == LruExact(tab)

(* st.active counts the entries exactly and never exceeds max_conns: the    *)
(* table's memory is bounded whatever the kernel sends (create, destroy).   *)
TableBounded == Bounded(tab)

(* st.tls_active, the gauge latkit_tls_connections, counts the live TLS     *)
(* entries exactly: each of the two ways a connection turns TLS adds one,   *)
(* every removal path takes it back once (note_tls_open, destroy).          *)
TlsGauge == TlsGaugeExact(tab)

(* The parser states in memory are those of live entries, held for the      *)
(* protocol that allocated them: no removal path leaks one, none is freed   *)
(* under a live entry (on_destroy in destroy, on_conn_close in events.c).   *)
ParserStateOwned == StateOwned(tab)

(* The one-shot guard never stands for an override that the agent itself    *)
(* has not asked for, or has taken back: an entry flagged                   *)
(* LK_CONN_CAP_HEADERS, which will never be written again, has had its      *)
(* write tried since the last CLOSE of its cookie, also when data re-creates *)
(* the entry behind that CLOSE (apply_cap_policy and the delete on          *)
(* CONN_CLOSE in handle_event).  What the kernel made of the write is       *)
(* another matter: CapInForce.                                              *)
CapGuardBacked == \A c \in Live(tab) : tab.conn[c].cap_headers => capmode[c] # "full"

(* A connection whose payload is not needed "is flipped to HEADERS so its   *)
(* bytes stop travelling the ringbuf" (apply_cap_policy): a flagged entry   *)
(* has its override in force.                                               *)
CapInForce == \A c \in Live(tab) : tab.conn[c].cap_headers => capmode[c] = "headers"

(* The LRU list is in order of activity, up to the skew of the event        *)
(* timestamps: what the sweep relies on when it stops at the first entry    *)
(* that is not idle (touch, lk_conn_table_sweep).                           *)
LruByActivity == LruOrdered(tab)

(* An entry leaves the table only with a CLOSE of its cookie, as the        *)
(* coldest entry at a full table, as idle, or at teardown.                  *)
RemovalJustified ==
    [][\A c \in Live(tab) :
          c \notin Live(tab') =>
             \/ \E seq \in Seqno, age \in 0 .. Skew : Close(c, seq, age)
             \/ tab.active = MaxConns /\ tab.lru[Len(tab.lru)] = c
             \/ Idle(tab, c)
             \/ ~running']_vars

(* The leak insurance: a connection whose records stop coming (its CLOSE    *)
(* was lost) turns idle, and an idle entry is either heard of again or      *)
(* collected, wherever in the LRU list it stands (on_sweep_tick).           *)
SilentConnsCollected ==
    \A c \in Cookie :
        Lookup(tab, c) /\ Idle(tab, c) ~> (Lookup(tab, c) => ~Idle(tab, c))

=============================================================================

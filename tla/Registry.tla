------------------------------ MODULE Registry ------------------------------
(***************************************************************************)
(* The series registry (metrics/registry.c) and the histograms its series  *)
(* hold (metrics/hist.c).                                                  *)
(*                                                                         *)
(* A query has a row of its own while its fingerprint is in the dictionary *)
(* of K slots: an open-addressed hash, a doubly linked LRU list, a stack   *)
(* of free slots, and a doorkeeper that remembers newcomers.  The series   *)
(* of a slot that is evicted are folded into those of the slot "other".    *)
(***************************************************************************)
EXTENDS Integers, Sequences, Bags, BagsExt, FiniteSets, FiniteSetsExt, TLC

CONSTANTS
    K,            \* cfg.top_queries
    Fp,           \* fingerprints, natural numbers
    Home,         \* where the search for a fingerprint starts: mix64(fp) & (fp_hcap - 1)
    DoorSlots,    \* LK_DOORKEEPER_SLOTS
    LabelLen,     \* cfg.query_label_len
    MaxDims,      \* cfg.max_session_dims
    MaxProtos,    \* LK_MAX_PROTOS
    MaxErrCodes,  \* LK_MAX_ERR_CODES
    FirstRow,     \* cfg.first_row_hist
    TimeUnit,     \* a duration v is v * 2^-TimeUnit seconds
    HistMin, HistMax,  \* LK_HIST_MIN_INDEX, LK_HIST_MAX_INDEX
    NULL

NextPow2(x) == 2 ^ Min({n \in 0 .. x : 2 ^ n >= x})

HCap == NextPow2((K + 1) * 2)

Slot == 0 .. K - 1

OtherDim == MaxDims + 1

OtherProto == MaxProtos + 1

OtherErr == MaxErrCodes + 1

ASSUME RegistryAssumption ==
    /\ K \in Nat \ {0} /\ Fp \subseteq Nat
    /\ Home \in [Fp -> 0 .. HCap - 1]
    /\ DoorSlots \in Nat \ {0} /\ LabelLen \in Nat \ {0} /\ MaxDims \in Nat \ {0}

VARIABLES
    dict,       \* the dictionary: slots, hash, LRU list, free slots, doorkeeper
    series,     \* the series, by slot, dimension, protocol and code
    dims,       \* the interned pairs of database and user
    protos,     \* the interned protocols, each with the profile it prints under
    err_codes,  \* the interned error codes of each profile
    used,       \* the profiles that have seen an observation
    flat,       \* the counters that hang on no slot, as a bag of their keys
    lost,       \* durations that a fold without memory dropped
    fails       \* allocations that have failed

regVars == <<dict, series, dims, protos, err_codes, used, flat, lost, fails>>

-----------------------------------------------------------------------------
(* Profiles: which families an observation is reported in, the axis of its  *)
(* total counter, and the grid of its sizes.                                *)

Profile == {"QUERY", "HTTP", "S3", "REDIS"}

Families ==
    [QUERY |-> {"QTOTAL", "DURATION", "ROWS", "FIRST_ROW", "ERRORS", "TRUNCATED", "OTHER", "TXN"},
     HTTP  |-> {"TOTAL", "DURATION", "TTFB", "ERRORS", "UPLOAD", "BYTES", "SIZE"},
     S3    |-> {"TOTAL", "DURATION", "TTFB", "ERRORS", "UPLOAD", "BYTES", "SIZE", "INTERNAL"},
     REDIS |-> {"TOTAL", "DURATION", "ERRORS", "BYTES", "SIZE", "BLOCKING", "REDIRECT", "DEPTH"}]

HasOp(prof) == prof \in {"HTTP", "S3"}

TotalAxis(prof) ==
    IF prof = "REDIS" THEN {"ok", "error", "aborted", "canceled"}
                      ELSE {"other", "1xx", "2xx", "3xx", "4xx", "5xx"}

DefaultGrid == [min |-> 6, n |-> 25]

NoGrid == [min |-> 0, n |-> 0]

ProfileGrid == [QUERY |-> NoGrid, HTTP |-> NoGrid,
                S3 |-> [min |-> 10, n |-> 31], REDIS |-> [min |-> 3, n |-> 21]]

-----------------------------------------------------------------------------
(* Histograms: a latency histogram is the bag of the cells its observations *)
(* fell into, a size histogram has its grid beside it.                      *)

(* The grid index of v seconds: frexp gives v = m * 2^e with m in [1/2, 1), *)
(* and the thresholds of m are the quarter powers of two.                   *)
LkHistIndex(v) ==
    LET e == Min({n \in 0 .. 20 : v < 2 ^ n})
        m4 == v ^ 4
        AtLeast(j) == m4 * 2 ^ j >= 2 ^ (4 * e)
        sub == IF AtLeast(1) THEN -1 ELSE IF AtLeast(2) THEN -2
               ELSE IF AtLeast(3) THEN -3 ELSE -4
    IN  4 * (e - TimeUnit) + sub

Underflow == HistMin - 1

Overflow == HistMax

LkHistObserve(h, v) ==
    LET idx == LkHistIndex(v)
    IN  BagAdd(h, IF v <= 0 \/ idx < HistMin THEN Underflow
                  ELSE IF idx >= HistMax THEN Overflow ELSE idx)

LkHistMerge(dst, src) == dst (+) src

CumLt(h, lt) ==
    LET hi == IF lt < HistMax THEN lt ELSE HistMax
    IN  MapThenSumSet(LAMBDA c : CopiesIn(c, h), Underflow .. hi - 1)

GridOf(s) == IF s.grid = NoGrid THEN DefaultGrid ELSE s.grid

SizeOverflow == 99

LkBhistObserve(s, bytes) ==
    LET g == GridOf(s)
        bits == Min({n \in 0 .. 30 : bytes <= 2 ^ n})
        cell == IF bits <= g.min THEN 0 ELSE IF bits - g.min < g.n THEN bits - g.min ELSE SizeOverflow
    IN  [s EXCEPT !.size = BagAdd(@, cell)]

LkBhistMerge(dst, src) ==
    LET d == IF dst.grid = NoGrid THEN [dst EXCEPT !.grid = GridOf(src)] ELSE dst
        cells == {i \in DOMAIN src.size : i < GridOf(d).n \/ i = SizeOverflow}
    IN  [d EXCEPT !.size = @ (+) [i \in cells |-> src.size[i]]]

-----------------------------------------------------------------------------
(* The fingerprint hash: linear probing, deletion by shifting back.         *)

FpHome(fp) == Home[fp]

FpOf(d, i) == d.entries[d.hash[i]].fp

Probe(fp, n) == (FpHome(fp) + n) % HCap

(* The search ends at the fingerprint or at a free place.                   *)
FpFind(d, fp) ==
    LET n == Min({m \in 0 .. HCap - 1 :
                     LET i == Probe(fp, m) IN d.hash[i] < 0 \/ FpOf(d, i) = fp})
    IN  d.hash[Probe(fp, n)]

FpInsert(d, fp, s) ==
    LET n == Min({m \in 0 .. HCap - 1 : d.hash[Probe(fp, m)] < 0})
    IN  [d EXCEPT !.hash[Probe(fp, n)] = s]

(* Mutated form of CannotMove: the table's end is not considered.           *)
CannotMoveFlat(i, j, home) == i < home /\ home <= j

(* An entry between the hole and j stays when its search starts after the   *)
(* hole, counting around the table.                                         *)
CannotMove(i, j, home) ==
    IF i <= j THEN i < home /\ home <= j ELSE i < home \/ home <= j

FpRemove(d, fp) ==
    LET at == Probe(fp, Min({m \in 0 .. HCap - 1 :
                  LET i == Probe(fp, m) IN d.hash[i] >= 0 /\ FpOf(d, i) = fp}))
        scan[n \in 0 .. HCap] ==
            IF n = 0
            THEN [hash |-> [d.hash EXCEPT ![at] = -1], hole |-> at, done |-> FALSE]
            ELSE LET p == scan[n - 1]
                     j == (at + n) % HCap
                 IN  IF p.done \/ p.hash[j] < 0 THEN [p EXCEPT !.done = TRUE]
                     ELSE IF CannotMove(p.hole, j, FpHome(d.entries[p.hash[j]].fp)) THEN p
                     ELSE [hash |-> [p.hash EXCEPT ![p.hole] = p.hash[j], ![j] = -1],
                           hole |-> j, done |-> FALSE]
    IN  [d EXCEPT !.hash = scan[HCap].hash]

-----------------------------------------------------------------------------
(* The LRU list, linked through the entries.                                *)

LruUnlink(d, s) ==
    LET p == d.entries[s].prev
        n == d.entries[s].next
        e == [x \in DOMAIN d.entries |->
                 IF x = p THEN [d.entries[x] EXCEPT !.next = n]
                 ELSE IF x = n THEN [d.entries[x] EXCEPT !.prev = p] ELSE d.entries[x]]
    IN  [d EXCEPT !.entries = e,
                  !.head = IF p >= 0 THEN @ ELSE n,
                  !.tail = IF n >= 0 THEN @ ELSE p]

LruPushFront(d, s) ==
    LET e == [d.entries EXCEPT ![s].prev = -1, ![s].next = d.head]
    IN  [d EXCEPT !.entries = IF d.head >= 0 THEN [e EXCEPT ![d.head].prev = s] ELSE e,
                  !.head = s,
                  !.tail = IF @ < 0 THEN s ELSE @]

LruTouch(d, s) == IF d.head = s THEN d ELSE LruPushFront(LruUnlink(d, s), s)

-----------------------------------------------------------------------------
(* Interned names.  The place after the last is "other".                    *)

IndexIn(seq, x) == CHOOSE i \in DOMAIN seq : seq[i] = x

Interned(seq, x, max) ==
    IF \E i \in DOMAIN seq : seq[i] = x THEN [seq |-> seq, id |-> IndexIn(seq, x)]
    ELSE IF Len(seq) >= max THEN [seq |-> seq, id |-> max + 1]
    ELSE [seq |-> Append(seq, x), id |-> Len(seq) + 1]

InternDim(pair) == Interned(dims, pair, MaxDims)

InternErrCode(prof, code) == Interned(err_codes[prof], code, MaxErrCodes)

(* A protocol keeps the profile it was first seen with; the spill takes the *)
(* profile of whoever overflowed last.                                      *)
InternProto(name, prof) ==
    LET known == {i \in 1 .. Len(protos.names) : protos.names[i] = name}
    IN  IF known # {} THEN [protos |-> protos, id |-> Min(known)]
        ELSE IF Len(protos.names) >= MaxProtos
        THEN [protos |-> [protos EXCEPT !.prof[OtherProto] = prof], id |-> OtherProto]
        ELSE [protos |-> [names |-> Append(protos.names, name),
                          prof |-> [protos.prof EXCEPT ![Len(protos.names) + 1] = prof]],
              id |-> Len(protos.names) + 1]

ProtoProfile(p) == protos.prof[p]

-----------------------------------------------------------------------------
(* The dictionary: admission, eviction and resolution.                      *)

(* A label is cut to LabelLen bytes and then back to the start of a UTF-8   *)
(* sequence: no byte after the cut continues one.                           *)
Continues(byte) == byte \div 64 = 2

Utf8Trunc(src) ==
    IF Len(src) <= LabelLen THEN src
    ELSE SubSeq(src, 1, Max({n \in 0 .. LabelLen : n = 0 \/ ~Continues(src[n + 1])}))

NoEntry == [fp |-> NULL, prev |-> -1, next |-> -1, label |-> <<>>, op |-> ""]

Admit(d, o) ==
    LET s == d.free[Len(d.free)]
        e == [d EXCEPT !.free = SubSeq(@, 1, Len(@) - 1),
                       !.entries[s] = [NoEntry EXCEPT !.fp = o.fp, !.label = Utf8Trunc(o.label),
                                                      !.op = o.op]]
    IN  LruPushFront(FpInsert(e, o.fp, s), s)

NewSeries ==
    [dur |-> EmptyBag, rows |-> 0, second |-> EmptyBag, tally |-> EmptyBag, bytes_in |-> 0,
     bytes_out |-> 0, upload |-> EmptyBag, size |-> EmptyBag, grid |-> NoGrid]

(* The series of key k: an existing one, or a fresh one when memory allows. *)
SeriesGet(ser, k, miss) ==
    IF k \in DOMAIN ser \/ <<k, "series">> \in miss THEN ser ELSE ser @@ (k :> NewSeries)

(* A second histogram that does not exist yet is allocated on first use.    *)
Room(k, kind, hist, miss) == hist # EmptyBag \/ <<k, kind>> \notin miss

(* Mutated form of FoldInto: the evicted series replaces the one of "other". *)
FoldIntoMoved(dst, s, k, miss) == s

(* What a series of "other" takes over from a series of an evicted slot.    *)
FoldInto(dst, s, k, miss) ==
    LET sized == IF s.size # EmptyBag /\ Room(k, "size", dst.size, miss)
                 THEN LkBhistMerge(dst, s) ELSE dst
    IN  [sized EXCEPT
            !.dur = LkHistMerge(@, s.dur),
            !.rows = @ + s.rows,
            !.bytes_in = @ + s.bytes_in,
            !.bytes_out = @ + s.bytes_out,
            !.tally = @ (+) s.tally,
            !.second = IF Room(k, "second", @, miss) THEN LkHistMerge(@, s.second) ELSE @,
            !.upload = IF Room(k, "upload", @, miss) THEN LkHistMerge(@, s.upload) ELSE @]

OtherKey(k) == [k EXCEPT !.q = K]

SlotKeys(ser, s) == {k \in DOMAIN ser : k.q = s}

(* The slot's series that find a series of "other" to fold into.            *)
Folded(ser, t, miss) ==
    {k \in SlotKeys(ser, t) : OtherKey(k) \in DOMAIN ser \/ <<OtherKey(k), "series">> \notin miss}

Fold(ser, t, miss) ==
    LET from == Folded(ser, t, miss)
        stay == DOMAIN ser \ SlotKeys(ser, t)
    IN  [k \in stay \union {OtherKey(s) : s \in from} |->
            LET old == IF k \in stay THEN ser[k] ELSE NewSeries
                src == {s \in from : OtherKey(s) = k}
            IN  IF src = {} THEN old ELSE FoldInto(old, ser[CHOOSE s \in src : TRUE], k, miss)]

(* Eviction of the least recently used slot: its series are folded and      *)
(* freed, then the slot leaves the hash and the list and becomes free.      *)
EvictLru(d, ser, miss) ==
    LET t == d.tail
        u == LruUnlink(FpRemove(d, d.entries[t].fp), t)
    IN  [dict |-> [u EXCEPT !.free = Append(@, t)], series |-> Fold(ser, t, miss)]

DoorKey(fp) == IF fp = 0 THEN 1 ELSE fp

(* The slot an observation is recorded under.                               *)
ResolveQuery(d, ser, o, miss) ==
    LET s == FpFind(d, o.fp)
        key == DoorKey(o.fp)
        door == key % DoorSlots
        opened == [d EXCEPT !.door[door] = 0]
        evicted == EvictLru(opened, ser, miss)
    IN  IF s >= 0 THEN [dict |-> LruTouch(d, s), series |-> ser, slot |-> s]
        ELSE IF d.free # <<>>
        THEN [dict |-> Admit(d, o), series |-> ser, slot |-> d.free[Len(d.free)]]
        ELSE IF d.door[door] = key
        THEN [dict |-> Admit(evicted.dict, o), series |-> evicted.series, slot |-> d.tail]
        ELSE [dict |-> [d EXCEPT !.door[door] = key], series |-> ser, slot |-> K]

-----------------------------------------------------------------------------
(* Observations.                                                            *)

Has(prof, fam) == fam \in Families[prof]

(* The counters of an observation that hang on no slot.                     *)
FlatOf(o, dim, proto, err) ==
    (IF Has(o.profile, "QTOTAL") THEN {<<"q_total", dim, proto, o.kind, o.qcode>>} ELSE {})
    \union (IF o.truncated /\ Has(o.profile, "TRUNCATED") THEN {<<"truncated", o.profile>>} ELSE {})
    \union (IF o.err_code # "" /\ Has(o.profile, "ERRORS")
            THEN {<<"err_total", o.profile, err, dim, proto>>} ELSE {})
    \union (IF o.redirect # "none" /\ Has(o.profile, "REDIRECT")
            THEN {<<"redirects", o.redirect, proto>>} ELSE {})
    \union (IF o.depth > 0 /\ Has(o.profile, "DEPTH") THEN {<<"depth", proto>>} ELSE {})

Second(o) ==
    Has(o.profile, "TTFB") \/ (FirstRow /\ Has(o.profile, "FIRST_ROW"))

(* What an observation adds to its series k.                                *)
Recorded(s, o, k, miss) ==
    LET Hist(h, v, kind, wanted) ==
            IF wanted /\ Room(k, kind, h, miss) THEN LkHistObserve(h, v) ELSE h
        sized == IF o.has_size /\ Has(o.profile, "SIZE") /\ Room(k, "size", s.size, miss)
                 THEN LkBhistObserve(IF s.size = EmptyBag THEN [s EXCEPT !.grid = ProfileGrid[o.profile]]
                                                          ELSE s, o.size_bytes)
                 ELSE s
        counted == [sized EXCEPT
            !.tally = IF Has(o.profile, "TOTAL") THEN BagAdd(@, o.axis) ELSE @,
            !.bytes_in = IF Has(o.profile, "BYTES") THEN @ + o.bytes_in ELSE @,
            !.bytes_out = IF Has(o.profile, "BYTES") THEN @ + o.bytes_out ELSE @,
            !.second = Hist(@, o.block_seconds, "second", o.has_block /\ Has(o.profile, "BLOCKING"))]
    IN  IF ~o.has_duration THEN counted
        ELSE [counted EXCEPT
            !.dur = LkHistObserve(@, o.dur_seconds),
            !.rows = @ + o.rows,
            !.second = Hist(@, o.first_row_seconds, "second", o.has_first_row /\ Second(o)),
            !.upload = Hist(@, o.upload_seconds, "upload", o.has_upload /\ Has(o.profile, "UPLOAD"))]

Timed(ser, keys) == MapThenSumSet(LAMBDA k : BagCardinality(ser[k].dur), keys)

(* One observation, miss the allocations it is refused.  An internal one is *)
(* counted and nothing else; one that has no duration reaches a slot only   *)
(* in a profile whose total counter is keyed by the slot.                   *)
LkRegObserve(o, miss) ==
    LET dim == InternDim(o.pair)
        pro == InternProto(o.proto, o.profile)
        err == InternErrCode(o.profile, o.err_code)
        res == IF o.force_other THEN [dict |-> dict, series |-> series, slot |-> K]
               ELSE ResolveQuery(dict, series, o, miss)
        k == [q |-> res.slot, dim |-> dim.id, proto |-> pro.id, code |-> o.dcode]
        got == SeriesGet(res.series, k, miss)
        counted == FlatOf(o, dim.id, pro.id, err.id)
        timed == IF k \notin DOMAIN got \/ ~o.has_duration THEN {}
                 ELSE {<<"total_obs", o.profile>>}
                      \union (IF res.slot = K THEN {<<"other_obs", o.profile>>} ELSE {})
    IN  /\ used' = used \union {o.profile}
        /\ IF o.internal /\ Has(o.profile, "INTERNAL")
           THEN /\ flat' = BagAdd(flat, <<"internal", o.profile>>)
                /\ UNCHANGED <<dict, series, dims, protos, err_codes, lost>>
           ELSE /\ dims' = dim.seq
                /\ protos' = pro.protos
                /\ err_codes' = IF o.err_code # "" /\ Has(o.profile, "ERRORS")
                                THEN [err_codes EXCEPT ![o.profile] = err.seq] ELSE err_codes
                /\ IF ~o.has_duration /\ ~Has(o.profile, "TOTAL")
                   THEN /\ flat' = flat (+) SetToBag(counted)
                        /\ UNCHANGED <<dict, series, lost>>
                   ELSE /\ dict' = res.dict
                        /\ series' = IF k \in DOMAIN got
                                     THEN [got EXCEPT ![k] = Recorded(@, o, k, miss)] ELSE got
                        /\ flat' = flat (+) SetToBag(counted \union timed)
                        /\ lost' = lost + (Timed(series, DOMAIN series)
                                           - Timed(res.series, DOMAIN res.series))

(* Mutated form of LkRegObserveTxn: the protocol is interned as a database.  *)
LkRegObserveTxnQuery(pair, proto, profile, aborted) ==
    LET dim == InternDim(pair)
        pro == InternProto(proto, "QUERY")
    IN  /\ dims' = dim.seq
        /\ protos' = pro.protos
        /\ flat' = BagAdd(flat, <<"txn", dim.id, pro.id, aborted>>)
        /\ UNCHANGED <<dict, series, err_codes, used, lost>>

(* One transaction: it has no slot, and it marks no profile as used.        *)
LkRegObserveTxn(pair, proto, profile, aborted) ==
    LET dim == InternDim(pair)
        pro == InternProto(proto, profile)
    IN  /\ dims' = dim.seq
        /\ protos' = pro.protos
        /\ flat' = BagAdd(flat, <<"txn", dim.id, pro.id, aborted>>)
        /\ UNCHANGED <<dict, series, err_codes, used, lost>>

LkRegNew ==
    /\ dict = [entries |-> [s \in Slot |-> NoEntry],
               hash |-> [i \in 0 .. HCap - 1 |-> -1],
               head |-> -1, tail |-> -1,
               free |-> [i \in 1 .. K |-> K - i],
               door |-> [i \in 0 .. DoorSlots - 1 |-> 0]]
    /\ series = <<>> /\ dims = <<>> /\ lost = 0 /\ fails = 0
    /\ protos = [names |-> <<>>, prof |-> [p \in 1 .. OtherProto |-> "QUERY"]]
    /\ err_codes = [p \in Profile |-> <<>>]
    /\ used = {"QUERY"} /\ flat = EmptyBag
=============================================================================

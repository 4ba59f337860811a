------------------------------ MODULE Metrics -------------------------------
(***************************************************************************)
(* The metrics facade (metrics/metrics.c): the sink the protocol handlers  *)
(* report to and the cache of session labels.  It turns what a handler     *)
(* reports (lk_query_obs) into an observation of the registry.             *)
(***************************************************************************)
EXTENDS Exposition

CONSTANTS
    Conn,        \* connections, each with its protocol and its cookie's place in the cache
    Proto,       \* [name, profile]: the registered protocols
    ProtoOf,     \* the protocol of a connection
    SessSlot,    \* the place of a connection's cookie in the session cache
    Session,     \* the pairs of database and user a connection may carry
    Query,       \* what a handler may report, by name
    Traffic      \* the loads: what a behaviour draws from, and how much of it

VARIABLES
    traffic,  \* the load of this behaviour: [from, reports, txns, fails]
    sess,     \* the session cache
    given,    \* the reports so far, as a bag of names and protocols
    txns      \* the transactions so far, as a bag of protocols

vars == <<regVars, traffic, sess, given, txns>>

-----------------------------------------------------------------------------
(* The mapping of a report.                                                 *)

SpanSeconds(from, to) == IF to > from THEN to - from ELSE 0

Blank ==
    [fp |-> 0, label |-> <<>>, op |-> "", pair |-> <<"", "">>, proto |-> "", profile |-> "QUERY",
     kind |-> "simple", qcode |-> "ok", axis |-> "other", force_other |-> FALSE, internal |-> FALSE,
     has_duration |-> FALSE, dcode |-> "ok", dur_seconds |-> 0, rows |-> 0,
     has_first_row |-> FALSE, first_row_seconds |-> 0, has_upload |-> FALSE, upload_seconds |-> 0,
     has_size |-> FALSE, size_bytes |-> 0, bytes_in |-> 0, bytes_out |-> 0, truncated |-> FALSE,
     err_code |-> "", redirect |-> "none", has_block |-> FALSE, block_seconds |-> 0, depth |-> 0]

OrDash(s) == IF s = "" THEN "-" ELSE s

Named(ro, o) ==
    IF o.fp = NULL THEN [ro EXCEPT !.force_other = TRUE]
    ELSE [ro EXCEPT !.label = o.text, !.fp = o.fp]

StatusClass(status) ==
    IF status \in 100 .. 599 THEN <<"1xx", "2xx", "3xx", "4xx", "5xx">>[status \div 100] ELSE "other"

(* One HTTP or S3 exchange: the clock of the server starts when the request *)
(* has ended, and the upload is a time of its own unless the client waited  *)
(* for a 100 Continue.                                                      *)
MxHttpObs(ops, pair, o) ==
    LET s3 == ops.profile = "S3"
        base == [Blank EXCEPT !.profile = ops.profile, !.proto = ops.name]
        failed == "ERROR" \in o.flags
        size == IF s3 THEN o.obj_bytes ELSE o.bytes_out
    IN  IF s3 /\ "INTERNAL" \in o.flags THEN [base EXCEPT !.internal = TRUE]
        ELSE Named([base EXCEPT
            !.pair = <<OrDash(pair[1]), OrDash(pair[2])>>,
            !.op = o.op, !.kind = o.kind, !.has_duration = TRUE,
            !.axis = StatusClass(o.status),
            !.qcode = IF failed THEN "error" ELSE "ok",
            !.dcode = IF failed THEN "error" ELSE "ok",
            !.err_code = IF o.status < 400 THEN ""
                         ELSE IF s3 /\ o.err_name # "" THEN o.err_name ELSE ToString(o.status),
            !.dur_seconds = SpanSeconds(o.req_done, o.complete),
            !.has_first_row = o.first_row > o.req_done,
            !.first_row_seconds = SpanSeconds(o.req_done, o.first_row),
            !.has_upload = "EXPECT_CONT" \notin o.flags /\ o.req_done > o.start,
            !.upload_seconds = SpanSeconds(o.start, o.req_done),
            !.bytes_in = o.bytes_in, !.bytes_out = o.bytes_out,
            !.size_bytes = size,
            !.has_size = "BODY_UNSEEN" \notin o.flags
                         /\ (s3 => o.obj_bytes > 0 /\ o.status < 400 /\ o.data_op)], o)

(* One Redis command: a queued one is counted and not timed, the wait of a  *)
(* blocking one goes to a histogram of its own, and a redirect is no error. *)
MxRedisObs(ops, pair, o) ==
    LET dur == SpanSeconds(o.start, o.complete)
        failed == "ERROR" \in o.flags
        blocking == "BLOCKING" \in o.flags
        queued == "QUEUED" \in o.flags
    IN  Named([Blank EXCEPT
            !.profile = "REDIS", !.proto = ops.name, !.kind = o.kind,
            !.pair = <<OrDash(pair[1]), OrDash(pair[2])>>,
            !.qcode = IF failed THEN "error" ELSE "ok",
            !.axis = IF failed THEN "error" ELSE "ok",
            !.dcode = IF failed THEN "error" ELSE "ok",
            !.err_code = IF failed THEN o.err_name ELSE "",
            !.redirect = o.redirect, !.depth = o.depth,
            !.has_block = blocking, !.block_seconds = IF blocking THEN dur ELSE 0,
            !.has_duration = ~blocking /\ ~queued,
            !.dur_seconds = IF blocking \/ queued THEN 0 ELSE dur,
            !.bytes_in = o.bytes_in, !.bytes_out = o.bytes_out,
            !.has_size = o.bytes_out > 0 /\ ~queued, !.size_bytes = o.bytes_out], o)

(* One database query: a cancelled or an aborted one has no latency; a      *)
(* pipelined one ends when it is complete, another when the server is ready *)
(* again.                                                                   *)
MxSqlObs(ops, pair, o) ==
    LET cancel == o.kind = "cancel"
        aborted == "ABORTED" \in o.flags
        failed == "ERROR" \in o.flags
        timed == ~cancel /\ ~aborted
        stamp == IF "PIPELINED" \in o.flags THEN o.complete ELSE o.ready
        end == IF stamp <= o.start THEN o.complete ELSE stamp
        no_text == cancel \/ "NO_TEXT" \in o.flags \/ o.fp = NULL
        ro == [Blank EXCEPT
            !.pair = pair, !.proto = ops.name, !.kind = o.kind,
            !.qcode = IF cancel THEN "canceled" ELSE IF aborted THEN "aborted"
                      ELSE IF failed THEN "error" ELSE "ok",
            !.dcode = IF timed /\ failed THEN "error" ELSE "ok",
            !.err_code = IF timed /\ failed THEN o.err_name ELSE "",
            !.has_duration = timed,
            !.dur_seconds = IF timed THEN SpanSeconds(o.start, end) ELSE 0,
            !.rows = IF timed THEN o.rows ELSE 0,
            !.has_first_row = timed /\ o.first_row # 0 /\ o.first_row >= o.start,
            !.first_row_seconds = IF timed THEN SpanSeconds(o.start, o.first_row) ELSE 0,
            !.truncated = ~no_text /\ "TEXT_TRUNC" \in o.flags]
    IN  IF no_text THEN [ro EXCEPT !.force_other = TRUE] ELSE Named(ro, o)

RegObs(ops, pair, o) ==
    CASE ops.profile \in {"HTTP", "S3"} -> MxHttpObs(ops, pair, o)
      [] ops.profile = "REDIS" -> MxRedisObs(ops, pair, o)
      [] ops.profile = "QUERY" -> MxSqlObs(ops, pair, o)

-----------------------------------------------------------------------------
(* The sink.                                                                *)

SessStore(c, pair) ==
    [sess EXCEPT ![SessSlot[c]] = [conn |-> c, pair |-> pair, proto |-> ProtoOf[c].name]]

SessGet(c) == IF sess[SessSlot[c]].conn = c THEN sess[SessSlot[c]] ELSE NULL

MxOnSession(c, pair) ==
    /\ sess' = SessStore(c, pair)
    /\ UNCHANGED <<regVars, traffic, given, txns>>

(* The allocations one observation may be refused, one at a time: those of  *)
(* its own series and those of the rows it folds.                           *)
Refusals(o) ==
    LET slot == IF o.force_other THEN K ELSE ResolveQuery(dict, series, o, {}).slot
        own == [q |-> slot, dim |-> InternDim(o.pair).id, code |-> o.dcode,
                proto |-> InternProto(o.proto, o.profile).id]
        evicts == slot \in Slot /\ dict.entries[slot].fp \notin {NULL, o.fp}
        asked == {"series"} \union (IF o.has_first_row \/ o.has_block THEN {"second"} ELSE {})
                 \union (IF o.has_upload THEN {"upload"} ELSE {})
                 \union (IF o.has_size THEN {"size"} ELSE {})
        Kept(k) == {"series"} \union {h \in {"second", "upload", "size"} : series[k][h] # EmptyBag}
        folded == IF evicts THEN SlotKeys(series, slot) ELSE {}
    IN  {{<<own, h>>} : h \in asked} \union UNION {{{<<OtherKey(k), h>>} : h \in Kept(k)} : k \in folded}

MxOnQuery(c, pair, name) ==
    LET o == RegObs(ProtoOf[c], pair, Query[name])
    IN  /\ BagCardinality(given) < traffic.reports
        /\ sess' = SessStore(c, pair)
        /\ given' = BagAdd(given, <<name, ProtoOf[c].name>>)
        /\ \/ LkRegObserve(o, {}) /\ UNCHANGED fails
           \/ /\ fails < traffic.fails
              /\ fails' = fails + 1
              /\ \E miss \in Refusals(o) : LkRegObserve(o, miss)
        /\ UNCHANGED <<traffic, txns>>

(* A transaction is labelled from the cache; the profile is the one of the  *)
(* connection's protocol.                                                   *)
MxOnTxn(c, status) ==
    LET e == SessGet(c)
        pair == IF e = NULL THEN <<"", "">> ELSE e.pair
        name == IF e = NULL THEN ProtoOf[c].name ELSE e.proto
    IN  /\ BagCardinality(txns) < traffic.txns
        /\ LkRegObserveTxn(pair, name, ProtoOf[c].profile, status)
        /\ txns' = BagAdd(txns, <<name, status>>)
        /\ UNCHANGED <<traffic, sess, given, fails>>

Init ==
    /\ LkRegNew
    /\ traffic \in Traffic
    /\ sess = [s \in {SessSlot[c] : c \in Conn} |-> [conn |-> NULL, pair |-> <<"", "">>, proto |-> ""]]
    /\ given = EmptyBag /\ txns = EmptyBag

Live == {t[1] : t \in traffic.from}

(* Which handlers call the other two operations of the sink.                *)
Announcing == {c \in Live : ProtoOf[c].profile \in {"QUERY", "HTTP", "S3"}}

Transacting == {c \in Live : ProtoOf[c].profile \in {"QUERY", "REDIS"}}

Next ==
    \/ \E c \in Announcing : \E pair \in Session[c] : MxOnSession(c, pair)
    \/ \E t \in traffic.from : \E pair \in Session[t[1]] : MxOnQuery(t[1], pair, t[2])
    \/ \E c \in Transacting, status \in {"ok", "aborted"} : MxOnTxn(c, status)

Spec == Init /\ [][Next]_vars

-----------------------------------------------------------------------------
(* Properties.                                                              *)

(* The list from its head, as the fingerprints of its slots.                *)
LruOrder ==
    LET at[i \in 1 .. K + 1] ==
            IF i = 1 THEN dict.head ELSE IF at[i - 1] < 0 THEN -1 ELSE dict.entries[at[i - 1]].next
        n == Min({i \in 0 .. K : i = K \/ at[i + 1] < 0})
    IN  [i \in 1 .. n |-> dict.entries[at[i]].fp]

RowCount(fp) == Timed(series, SlotKeys(series, FpFind(dict, fp)))

Top == INSTANCE TopQueries WITH
    order <- LruOrder,
    count <- [fp \in {LruOrder[i] : i \in DOMAIN LruOrder} |-> RowCount(fp)],
    other <- Timed(series, SlotKeys(series, K)),
    waiting <- {fp \in Fp : dict.door[DoorKey(fp) % DoorSlots] = DoorKey(fp)}

(* The hash with its deletions, the linked list, the free stack and the     *)
(* direct-mapped doorkeeper of registry.c together implement the dictionary *)
(* TopQueries describes: K rows, the least recently observed makes room,    *)
(* only for a fingerprint turned away before, and its counts move to        *)
(* "other".                                                                 *)
TopQueriesKept == Top!Spec

Reported(prof, P(_)) ==
    LET Obs(g) == RegObs(CHOOSE p \in Proto : p.name = g[2], <<"", "">>, Query[g[1]])
        Mine(g) == Obs(g).profile = prof /\ P(Obs(g))
    IN  MapThenSumSet(LAMBDA g : CopiesIn(g, given), {g \in DOMAIN given : Mine(g)})

Printed(dump, prof, fam) == {s \in dump : s.fam = <<prof, fam>>}

(* While no allocation fails, a scrape adds up to what the handlers have    *)
(* reported, profile by profile, whatever was evicted, folded or spilled in *)
(* between: the total counters, each classic bucket of the latencies, the   *)
(* second and the upload histograms, the sizes on the grid of the profile,  *)
(* the errors, the internal requests and the transactions.                  *)
ScrapeTrue ==
    LET dump == LkRegDump
        Total(prof, fam) == MapThenSumSet(LAMBDA s : s.n, Printed(dump, prof, fam))
        Cum(prof, fam, x) == MapThenSumSet(LAMBDA s : s.cum[x], Printed(dump, prof, fam))
        Is(prof, fam, P(_)) == Total(prof, fam) = Reported(prof, LAMBDA o : ~o.internal /\ P(o))
    IN  fails = 0 =>
        /\ \A prof \in Profile :
            LET grid == GridOf([grid |-> ProfileGrid[prof]])
            IN  /\ Is(prof, "total", LAMBDA o : TRUE)
                /\ Is(prof, "dur", LAMBDA o : o.has_duration)
                /\ \A lt \in Classic :
                      Cum(prof, "dur", lt) =
                        Reported(prof, LAMBDA o : ~o.internal /\ o.has_duration
                                                  /\ o.dur_seconds < 2 ^ (lt \div 4 + TimeUnit))
                /\ Is(prof, "second", LAMBDA o : IF o.has_duration THEN o.has_first_row /\ Second(o)
                                                                   ELSE o.has_block)
                /\ Is(prof, "upload", LAMBDA o : o.has_upload)
                /\ Is(prof, "err", LAMBDA o : o.err_code # "")
                /\ Is(prof, "size", LAMBDA o : o.has_size)
                /\ \A s \in Printed(dump, prof, "size") : DOMAIN s.cum = 0 .. grid.n - 1
                /\ \A i \in 0 .. 4 :
                      Cum(prof, "size", i) =
                        Reported(prof, LAMBDA o : ~o.internal /\ o.has_size
                                                  /\ o.size_bytes <= 2 ^ (grid.min + i))
        /\ Total("S3", "internal") = Reported("S3", LAMBDA o : o.internal)
        /\ Total("QUERY", "txn") = BagCardinality(txns)

(* A row of "other" never disappears and never shrinks, in any of its       *)
(* accumulators, whatever step is taken and whatever allocation fails.      *)
OtherNeverShrinks ==
    [][\A k \in SlotKeys(series, K) :
          /\ k \in DOMAIN series'
          /\ series[k].dur \sqsubseteq series'[k].dur /\ series[k].second \sqsubseteq series'[k].second
          /\ series[k].upload \sqsubseteq series'[k].upload /\ series[k].size \sqsubseteq series'[k].size
          /\ series[k].tally \sqsubseteq series'[k].tally /\ series[k].rows <= series'[k].rows
          /\ series[k].bytes_in <= series'[k].bytes_in
          /\ series[k].bytes_out <= series'[k].bytes_out]_vars

(* A scrape and a push hand out the same series with the same values:       *)
(* lk_reg_dump and lk_reg_iter skip, group and sum alike.                   *)
ViewsAgree ==
    LET Shape(s) == <<s.fam, s.labels, s.extra, s.n, s.rows>>
    IN  {Shape(s) : s \in LkRegDump} = {Shape(v) : v \in LkRegIter}

(* No two series of a scrape carry the same name and the same labels:       *)
(* registry.h says that "a duplicate series is a scrape error".             *)
SeriesUnique ==
    LET dump == LkRegDump
    IN  \A s, t \in dump :
            s.fam = t.fam /\ s.labels = t.labels /\ s.extra = t.extra => s.rows = t.rows

=============================================================================

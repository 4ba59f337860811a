------------------------------ MODULE Exporters -----------------------------
(***************************************************************************)
(* The agent's loop with everything it drives on the way out: the ring     *)
(* buffer whose records end in observations, the clock, the Prometheus     *)
(* endpoint and the push exporter with its spans.  All of it is one        *)
(* thread; what interleaves is the order of the events within a batch, the *)
(* clients, the collector and the seconds.                                 *)
(***************************************************************************)
EXTENDS HttpServer, Otlp, Sequences

CONSTANTS
    Obs,        \* the observations a handler may report
    Burst,      \* how many of them one pass over the ring buffer may bring
    Interval,   \* the seconds between two ticks of the push exporter
    MaxLag      \* how many seconds the loop may be behind

ASSUME LoopAssumption == Burst \in Nat /\ Interval \in Nat /\ MaxLag \in Nat /\ NFds >= 3

VARIABLES
    loop,      \* the event loop
    conns,     \* the clients of the endpoint
    otlp,      \* the push exporter
    spans,     \* the span collector
    lag,       \* expirations of the timer that have not been read
    elapsed,   \* the seconds the exporter's tick has waited
    accepts,   \* what is left of on_accept's loop: clients waiting to be taken
    reports,   \* what is left of on_ringbuf_ready's: observations to be reported
    phase,     \* running, stopping (the loop is to end) or down
    strays     \* whether an observation went to a collector already freed

vars == <<loop, conns, otlp, spans, lag, elapsed, accepts, reports, phase, strays>>

Now == [loop |-> loop, conns |-> conns, otlp |-> otlp, spans |-> spans]

Become(w) == loop' = w.loop /\ conns' = w.conns /\ otlp' = w.otlp /\ spans' = w.spans

(* A handler returns.                                                       *)
Returns(w) == Become([w EXCEPT !.loop = Settled(@)])

(* No handler is in one of its loops; and no event is left to dispatch.     *)
Between == accepts = 0 /\ reports = 0

Resting == Between /\ loop.batch = {}

Fixed == <<<<"timer">>, <<"ring">>, <<"listen">>>>

Owner == {Fixed[k] : k \in DOMAIN Fixed} \union {<<"otlp">>} \union {ConnOwner(i) : i \in Place}

Registration == [fd: 1 .. NFds + 1, owner: Owner, wants: {"in", "out"}]

ASSUME NullAssumption == NULL \notin Registration /\ NULL \notin Nat

(* The files registered before the loop runs.                               *)
Init ==
    /\ loop = [LkLoopNew EXCEPT !.fds = [s \in Slot |->
                  IF s <= Len(Fixed) THEN [fd |-> s, owner |-> Fixed[s], wants |-> "in"] ELSE NULL]]
    /\ conns = [i \in Place |-> Free]
    /\ otlp = LkOtlpNew
    /\ spans = LkSpansNew
    /\ lag = 0 /\ elapsed = 0 /\ accepts = 0 /\ reports = 0 /\ phase = "running" /\ strays = FALSE

(* A second passes.  Only the timer's handler looks at the clock, so the    *)
(* seconds a batch takes pass at its end.                                   *)
Second ==
    /\ phase # "down" /\ Resting /\ lag < MaxLag
    /\ lag' = lag + 1
    /\ conns' = [i \in Place |-> [conns[i] EXCEPT !.ttl = Max({0, @ - 1})]]
    /\ otlp' = [otlp EXCEPT !.ttl = Max({0, @ - 1}), !.skip = Max({0, @ - 1})]
    /\ UNCHANGED <<loop, spans, elapsed, accepts, reports, phase, strays>>

-----------------------------------------------------------------------------
(* The handlers.                                                            *)

EvOnQuery(w, o, memory) ==
    LET q == SpansOnQuery(w.spans, o, memory)
        x == [w EXCEPT !.spans = q.spans]
    IN  IF q.fires THEN OtlpOnWatermark(x) ELSE {x}

(* A handler that fails ends the batch and the loop.                        *)
HandlerFails(w) ==
    /\ Returns([w EXCEPT !.loop.batch = {}, !.loop.stale = {}])
    /\ accepts' = 0 /\ reports' = 0 /\ phase' = "stopping"
    /\ UNCHANGED <<lag, elapsed, strays>>

(* One pass over the ring buffer, which brings n observations, one by one;  *)
(* a failure of it ends the loop.                                           *)
OnRingbufReady(w) ==
    /\ \E n \in 0 .. Burst :
          reports' = n /\ IF n = 0 THEN Returns(w) ELSE Become(w)
    /\ UNCHANGED <<lag, elapsed, accepts, phase, strays>>

Report ==
    /\ reports > 0
    /\ reports' = reports - 1
    /\ \E o \in Obs, memory \in BOOLEAN : \E x \in EvOnQuery(Now, o, memory) :
          IF reports = 1 THEN Returns(x) ELSE Become(x)
    /\ UNCHANGED <<lag, elapsed, accepts, phase, strays>>

RingFails == reports > 0 /\ HandlerFails(Now)

(* As many clients as are waiting, up to one more than there are places.    *)
OnAccept(w) ==
    /\ \E n \in 0 .. MaxConn + 1 :
          accepts' = n /\ IF n = 0 THEN Returns(w) ELSE Become(w)
    /\ UNCHANGED <<lag, elapsed, reports, phase, strays>>

Accept ==
    /\ accepts > 0
    /\ accepts' = accepts - 1
    /\ \E ctl \in BOOLEAN :
          LET x == Accepted(Now, ctl) IN IF accepts = 1 THEN Returns(x) ELSE Become(x)
    /\ UNCHANGED <<lag, elapsed, reports, phase, strays>>

(* The tasks in the order of their registration; several missed seconds are *)
(* one run.                                                                 *)
OnTimer(w) ==
    LET due == elapsed + lag >= Interval
        swept == OnHttpSweep(w)
        ticked == IF due THEN OnTick(swept) ELSE {swept}
    IN  /\ \E x \in UNION {OnOtlpSweep(t) : t \in ticked} : Returns(x)
        /\ elapsed' = IF due THEN 0 ELSE elapsed + lag
        /\ lag' = 0
        /\ UNCHANGED <<accepts, reports, phase, strays>>

(* SIGINT or SIGTERM: the batch goes on to its end, so the signal may as    *)
(* well be its last event.                                                  *)
OnSignal ==
    /\ phase = "running" /\ Resting
    /\ phase' = "stopping"
    /\ UNCHANGED <<loop, conns, otlp, spans, lag, elapsed, accepts, reports, strays>>

-----------------------------------------------------------------------------
(* One pass of the loop.                                                    *)

LkLoopPoll ==
    /\ phase = "running" /\ Resting
    /\ \E ready \in SUBSET Active(loop) \ {{}} :
          /\ \A s \in ready : loop.fds[s].owner = <<"timer">> => lag > 0
          /\ lag > 0 => \E s \in ready : loop.fds[s].owner = <<"timer">>
          /\ loop' = NewBatch(loop, ready)
    /\ UNCHANGED <<conns, otlp, spans, lag, elapsed, accepts, reports, phase, strays>>

Skip(s) ==
    /\ loop.fds[s] = NULL
    /\ Returns([Now EXCEPT !.loop = Taken(loop, s)])
    /\ UNCHANGED <<lag, elapsed, accepts, reports, phase, strays>>

Dispatch(s) ==
    LET r == loop.fds[s]
        w == [Now EXCEPT !.loop = Taken(loop, s)]
        Only(worlds) == /\ \E x \in worlds : Returns(x)
                        /\ UNCHANGED <<lag, elapsed, accepts, reports, phase, strays>>
    IN  /\ r # NULL
        /\ \/ r.owner = <<"timer">> /\ (OnTimer(w) \/ HandlerFails(w))
           \/ r.owner = <<"ring">> /\ (OnRingbufReady(w) \/ HandlerFails(w))
           \/ r.owner = <<"listen">> /\ OnAccept(w)
           \/ r.owner = <<"otlp">> /\ Only(OnOtlpConn(w))
           \/ r.owner[1] = "conn" /\ Only(OnConn(w, r.owner[2]))

(* The end: the exporters go first and take the collector with them, then   *)
(* the connections being observed, one of which may have an HTTP answer     *)
(* open that its removal reports to every sink.                             *)
LkEventsFree ==
    /\ phase = "stopping" /\ Resting
    /\ \E w \in {LkHttpFree(LkOtlpFree(Now))}, open \in BOOLEAN :
          Returns(w) /\ strays' = (open /\ w.spans = NULL)
    /\ phase' = "down"
    /\ UNCHANGED <<lag, elapsed, accepts, reports>>

Pass ==
    \/ LkLoopPoll
    \/ Between /\ \E s \in loop.batch : Skip(s) \/ Dispatch(s)
    \/ Report \/ RingFails \/ Accept

Next == Second \/ Pass \/ OnSignal \/ LkEventsFree

(* The loop is scheduled: weak fairness of Pass, which is enabled while the  *)
(* agent runs, a batch is open or a handler is in its loop and is the only  *)
(* step that changes any of these, and of LkEventsFree, which is enabled    *)
(* until it happens.                                                        *)
Scheduled ==
    /\ \/ []<>(phase # "running" /\ Resting)
       \/ []<><<<<loop'.batch, accepts', reports'>> # <<loop.batch, accepts, reports>>>>_vars
    /\ []<>(phase # "stopping" \/ ~Resting)

(* The clock runs as well, which shows between two batches: strong fairness. *)
(* Clients and collector owe nothing.                                       *)
Spec == Init /\ [][Next]_vars /\ Scheduled /\ SF_vars(Second)

-----------------------------------------------------------------------------
(* Properties.                                                              *)

(* No event reaches a registration made after the event was raised: a slot  *)
(* whose event is still waiting in the batch (loop.c, memory_slot) is not    *)
(* given to another file, although accepting clients, sweeping connections  *)
(* and starting exports all happen in the middle of a batch.                *)
NoStaleDispatch == \A s \in loop.stale : loop.fds[s] = NULL

Awaited(state) == IF state = "READ" THEN "in" ELSE "out"

Standing == {[fd |-> k, owner |-> Fixed[k], wants |-> "in"] : k \in DOMAIN Fixed}

Open(cs) == {i \in Place : cs[i].state # "FREE"}

Clients(cs) == {[fd |-> cs[i].fd, owner |-> ConnOwner(i), wants |-> Awaited(cs[i].state)] : i \in Open(cs)}

Export(o) ==
    IF Idle(o) THEN {} ELSE {[fd |-> o.fd, owner |-> <<"otlp">>, wants |-> Awaited(o.state)]}

(* The loop's table and its users agree (http.c, otlp.c): each open client  *)
(* and the export in flight hold exactly one registration, under their own  *)
(* file, for what their state waits for, and nobody else holds any besides  *)
(* the three that stand: no handler runs for a client already let go.       *)
LoopMatchesOwners ==
    phase # "down" =>
        /\ {loop.fds[s] : s \in Active(loop)} = Standing \union Clients(conns) \union Export(otlp)
        /\ \A s, t \in Active(loop) : loop.fds[s].fd = loop.fds[t].fd => s = t

(* Every export started is counted once, as ok or as an error, however it   *)
(* ends, and every sampled span is queued, in the request in flight,        *)
(* counted as dropped or part of a counted export (otlp.c, spans.c).        *)
ExportsAccounted ==
    phase # "down" =>
        /\ \A sig \in Signal :
              otlp.owed[sig] = IF ~Idle(otlp) /\ otlp.cur = sig THEN 1 ELSE 0
        /\ spans.owed = spans.count + otlp.carried

(* Every client is let go (http.c, on_sweep): neither one that sends half a *)
(* request nor one that never reads its answer keeps its place.             *)
ClientsEnd == \A i \in Place : conns[i].state # "FREE" ~> conns[i].state = "FREE"

(* A buffer past the watermark is flushed, whatever the collector does      *)
(* (otlp.c, on_sweep), or the agent ends.                                   *)
WatermarkFlushed ==
    (phase # "down" /\ spans.wm_fired) ~> (phase = "down" \/ ~spans.wm_fired)

(* An observation reaches live sinks only (otlp.h, lk_otlp_span_sink: the   *)
(* sink is valid for the exporter's lifetime).                              *)
SinksAlive == ~strays

=============================================================================

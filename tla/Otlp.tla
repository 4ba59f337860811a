-------------------------------- MODULE Otlp --------------------------------
(***************************************************************************)
(* The push exporter (export/otlp.c): one HTTP client for two signals,     *)
(* metrics on the tick and spans behind them or at the watermark.  The     *)
(* operators take a world w with the fields loop, otlp and spans and       *)
(* return the worlds a call may leave; the collector's answers and the     *)
(* failures of system calls are open.  An export is counted as ok or as an *)
(* error when it ends; owed is what was started and not counted yet.       *)
(***************************************************************************)
EXTENDS Loop, Spans

CONSTANTS
    OtlpTimeout,   \* OTLP_TIMEOUT_SEC
    RetryAfter     \* the pauses, in seconds, a collector may ask for

ASSUME OtlpAssumption == OtlpTimeout \in Nat /\ RetryAfter \subseteq Nat

Signal == {"metrics", "traces"}

Idle(o) == o.state = "IDLE"

LkOtlpNew ==
    [state |-> "IDLE", cur |-> "metrics", fd |-> NULL, ttl |-> 0, pending_traces |-> FALSE,
     skip |-> 0, status |-> "none", carried |-> 0,
     owed |-> [sig \in Signal |-> 0]]

(* The export in flight is counted, as ok or as an error.                   *)
Counted(w) ==
    [w EXCEPT !.otlp.owed[w.otlp.cur] = @ - 1, !.otlp.carried = 0,
              !.spans.owed = @ - w.otlp.carried]

OtlpFinish(w) ==
    [w EXCEPT !.loop = IF w.otlp.fd = NULL THEN @ ELSE LkLoopDelFd(@, w.otlp.fd),
              !.otlp.fd = NULL, !.otlp.status = "none", !.otlp.state = "IDLE", !.otlp.ttl = 0]

(* The request is built, which for spans empties the collector.             *)
OtlpBuildRequest(w, sig) ==
    LET b == [w EXCEPT !.otlp.cur = sig, !.otlp.owed[sig] = @ + 1]
    IN  IF sig = "traces"
        THEN [b EXCEPT !.otlp.carried = w.spans.count, !.spans = LkSpansDrain(w.spans)]
        ELSE b

(* A call ends in one of two ways: the exporter stays as it is, or the       *)
(* request is torn down and the spans waiting behind it get their turn.     *)
Stays(w) == [world |-> w, after |-> FALSE]

Ends(w) == [world |-> OtlpFinish(w), after |-> TRUE]

Failed(w) == Ends(Counted(w))

OtlpOnResponseDone(w) ==
    LET c == Counted(w)
    IN  IF w.otlp.status = "busy" THEN {Ends([c EXCEPT !.otlp.skip = s]) : s \in RetryAfter}
        ELSE {Ends(c)}

(* The head of the answer: its status when the line is complete (busy: 429  *)
(* or 503); the answer ends when the collector closes or the buffer is full.*)
OtlpRead(w) ==
    LET seen == IF w.otlp.status # "none" THEN {w}
                ELSE {[w EXCEPT !.otlp.status = c] : c \in {"none", "busy", "other"}}
    IN  {Failed(w)} \union {Stays(x) : x \in seen} \union UNION {OtlpOnResponseDone(x) : x \in seen}

OtlpWrite(w) ==
    LET Sent(ctl) == LET m == LkLoopModFd(w.loop, w.otlp.fd, "in", ctl)
                         x == [w EXCEPT !.otlp.state = "READ", !.loop = m.loop]
                     IN  IF m.ok THEN OtlpRead(x) ELSE {Failed(x)}
    IN  {Stays(w), Failed(w)} \union UNION {Sent(ctl) : ctl \in BOOLEAN}

OtlpConnected(w) ==
    LET Up(ctl) == LET m == LkLoopModFd(w.loop, w.otlp.fd, "out", ctl)
                       x == [w EXCEPT !.otlp.state = "WRITE", !.loop = m.loop]
                   IN  IF m.ok THEN OtlpWrite(x) ELSE {Failed(x)}
    IN  {Failed(w)} \union UNION {Up(ctl) : ctl \in BOOLEAN}

OtlpOnConn(w) ==
    CASE w.otlp.state = "CONNECT" -> OtlpConnected(w)
      [] w.otlp.state = "WRITE" -> OtlpWrite(w)
      [] w.otlp.state = "READ" -> OtlpRead(w)

(* The socket is connecting or connected: into the loop, for writing.  A    *)
(* refusal ends the export without a look at the waiting spans.             *)
Launched(w, state, ctl) ==
    LET fd == NewFd(w.loop)
        x == [w EXCEPT !.otlp.state = state, !.otlp.fd = fd, !.otlp.ttl = OtlpTimeout]
        a == LkLoopAddFd(w.loop, fd, <<"otlp">>, ctl)
        m == LkLoopModFd(a.loop, fd, "out", ctl)
    IN  IF ~a.ok \/ ~m.ok THEN {Stays(OtlpFinish(Counted([x EXCEPT !.loop = a.loop])))}
        ELSE LET y == [x EXCEPT !.loop = m.loop] IN IF state = "WRITE" THEN OtlpWrite(y) ELSE {Stays(y)}

(* An export begins.  It may fail before anything is in flight: the request *)
(* cannot be built, the name does not resolve, there is no socket, or the   *)
(* connection is refused at once.  Whether the address is cached decides    *)
(* only which of these can happen.                                          *)
Begun(w, sig) ==
    LET b == OtlpBuildRequest(w, sig)
    IN  {Stays(Counted(b))}
        \union UNION {Launched(b, state, ctl) : state \in {"CONNECT", "WRITE"}, ctl \in BOOLEAN}

(* The waiting spans go when the client is free.  The export this starts    *)
(* may itself end within the call, but finds no spans waiting.              *)
OtlpMaybeTraces(w) ==
    IF ~Idle(w.otlp) \/ ~w.otlp.pending_traces THEN {w}
    ELSE LET x == [w EXCEPT !.otlp.pending_traces = FALSE]
         IN  IF w.spans.count = 0 THEN {x} ELSE {r.world : r \in Begun(x, "traces")}

OtlpAfterBare(r) == {r.world}   \* forgets the waiting spans

OtlpAfter(r) == IF r.after THEN OtlpMaybeTraces(r.world) ELSE {r.world}

OtlpSend(w, sig) == UNION {OtlpAfter(r) : r \in Begun(w, sig)}

OnOtlpConn(w) == UNION {OtlpAfter(r) : r \in OtlpOnConn(w)}

(* The tick owns the metrics: it pauses when the collector asked for it, and *)
(* is skipped while an export is in flight.                                  *)
OnTick(w) ==
    LET x == [w EXCEPT !.otlp.pending_traces = @ \/ w.spans.count > 0]
    IN  IF w.otlp.skip > 0 THEN {w}
        ELSE IF ~Idle(w.otlp) THEN {x} ELSE OtlpSend(x, "metrics")

OtlpOnWatermark(w) == OtlpMaybeTraces([w EXCEPT !.otlp.pending_traces = TRUE])

OnOtlpSweepQuiet(w) == IF ~Idle(w.otlp) /\ w.otlp.ttl = 0 THEN OtlpAfter(Ends(w)) ELSE {w}   \* counts nothing

OnOtlpSweep(w) == IF ~Idle(w.otlp) /\ w.otlp.ttl = 0 THEN OtlpAfter(Failed(w)) ELSE {w}

LkOtlpFree(w) == [OtlpFinish(w) EXCEPT !.spans = NULL]

=============================================================================

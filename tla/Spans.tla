-------------------------------- MODULE Spans -------------------------------
(***************************************************************************)
(* The span collector (export/spans.c): a sampling sink and a bounded      *)
(* buffer.  Its counters of sampled and dropped spans only ever meet as a  *)
(* difference, kept in owed together with what the exports have settled:   *)
(* sampled, not counted as dropped and not part of a finished export.      *)
(***************************************************************************)
EXTENDS Integers

CONSTANTS SpanBuf   \* LK_SPAN_BUF

ASSUME SpanAssumption == SpanBuf \in Nat

LkSpansNew == [count |-> 0, wm_fired |-> FALSE, owed |-> 0]

(* What an observation o says: whether it ended after it began (timed), was *)
(* slow as the server counts, was a wait the client asked for (blocking),   *)
(* its caller's decision (trace) and how the draw falls.                    *)
ShouldSample(o) ==
    /\ o.timed
    /\ \/ o.slow /\ ~o.blocking
       \/ IF o.trace # "none" THEN o.trace = "sampled" ELSE o.drawn

Watermark == (SpanBuf * 3) \div 4

(* One observation: the collector it leaves and whether the watermark fires.*)
(* A full buffer drops it, and so does an HTTP exchange whose attributes    *)
(* find no memory.                                                          *)
SpansOnQuery(s, o, memory) ==
    IF ~ShouldSample(o) \/ s.count >= SpanBuf \/ (o.http /\ ~memory)
    THEN [spans |-> s, fires |-> FALSE]
    ELSE LET fires == ~s.wm_fired /\ s.count + 1 >= Watermark
         IN  [spans |-> [s EXCEPT !.count = @ + 1, !.owed = @ + 1, !.wm_fired = @ \/ fires],
              fires |-> fires]

LkSpansDrain(s) == [s EXCEPT !.count = 0, !.wm_fired = FALSE]

=============================================================================

----------------------------- MODULE RedisFrame -----------------------------
(***************************************************************************)
(* The RESP framer (src/proto/redis/redis_frame.c) over the handler.  Each *)
(* direction reads one value after another, with a stack of the elements   *)
(* that open aggregates still want; when it loses the thread it waits for  *)
(* a call that begins with something it can believe.                       *)
(*                                                                         *)
(* The stream is made of tokens, each one byte to the framer's arithmetic: *)
(*   s         a whole line: status, error, number, null                   *)
(*   + c       the start of such a line; a line end                        *)
(*   V         a whole short bulk                                          *)
(*   B q e     the header of a long bulk; its payload, which may read like *)
(*             a reply; the line end after it                              *)
(*   1 2 3 5   the header of an array of that many elements                *)
(*   > |       the header of a push, of an attribute (one element each)    *)
(*   0         an array with no elements, or a null one                    *)
(*   i l       an inline command: its text; its line end                   *)
(*   !         a length that is none        x   a TLS record               *)
(***************************************************************************)
EXTENDS RedisUnits

CONSTANT MaxDepth   \* LK_REDIS_MAX_DEPTH

ASSUME RedisDepthAssumption == MaxDepth \in Nat \ {0}

NoValue == [t |-> "none", x |-> 0, w |-> "none", ts |-> 0, first |-> FALSE, lost |-> FALSE,
            cut |-> FALSE, args |-> 0, len |-> 0]

(* redis_dir, with the dirty flag of its lk_frame.  v: the value being put  *)
(* together; buf: its text is kept, or could not be.  tail: bytes of the    *)
(* last call that were not captured, told with the next call.               *)
Dir == [st |-> "VALUE", stack |-> <<>>, v |-> NoValue, buf |-> FALSE, call_new |-> FALSE,
        dirty |-> FALSE, fresh |-> TRUE, tail |-> 0]

NewConn(synthetic) ==
    [d |-> [r \in {"RECV", "SEND"} |-> [Dir EXCEPT !.dirty = synthetic]],
     state |-> FALSE, ignore |-> FALSE, tls |-> FALSE, h |-> RedisConn(synthetic)]

(* redis_value_open                                                         *)
ValueOpen(rd) == rd.st \in {"LINE", "BULK", "EOL", "INLINE"} \/ (rd.st = "VALUE" /\ rd.stack # <<>>)

GoScan(c, d) ==
    [c EXCEPT !.d[d] = [@ EXCEPT !.st = "SCAN", !.stack = <<>>, !.v = NoValue, !.buf = FALSE,
                                 !.dirty = TRUE]]

(* value_emit: the value goes to the handler, and its text is released.     *)
ValueEmit(c, d, mem) ==
    LET h == ConnGet(c.h, mem)
        v == c.d[d].v
        g == [c EXCEPT !.d[d] = [@ EXCEPT !.st = "VALUE", !.v = NoValue, !.buf = FALSE]]
    IN  IF ~h.on THEN [g EXCEPT !.h = h]
        ELSE [g EXCEPT !.h = OnMsg(h, d, v, ValueOpen(c.d["RECV"])),
                       !.ignore = @ \/ (d = "RECV" /\ v.w = "monitor" /\ ~v.lost)]

(* value_done: every level whose last element this was is over.             *)
ValueDone(c, d, mem) ==
    LET s == c.d[d].stack
        more == {i \in DOMAIN s : s[i] > 1}
        top == CHOOSE i \in more : \A j \in more : j <= i
    IN  IF more = {} THEN ValueEmit([c EXCEPT !.d[d].stack = <<>>], d, mem)
        ELSE [c EXCEPT !.d[d].st = "VALUE",
                       !.d[d].stack = [SubSeq(s, 1, top) EXCEPT ![top] = @ - 1]]

-----------------------------------------------------------------------------
Elements(t) == CASE t \in {"1", ">", "|"} -> 1 [] t = "2" -> 2 [] t = "3" -> 3 [] t = "5" -> 5

(* rd_elem: the text of an element is whole, and nothing is missing before. *)
ElementRead(c, d) ==
    IF Len(c.d[d].stack) = 1 /\ ~c.d[d].v.cut THEN [c EXCEPT !.d[d].v.args = @ + 1] ELSE c

(* line_complete: a header is whole, and tells what follows.                *)
LineComplete(c, d, t, mem) ==
    CASE t \in {"s", "V", "0", "q"} -> ValueDone(ElementRead(c, d), d, mem)
      [] t = "B" -> [c EXCEPT !.d[d].st = "BULK"]
      [] t = "!" -> GoScan(c, d)
      [] t \in {"1", "2", "3", "5", ">", "|"} ->
            IF Len(c.d[d].stack) >= MaxDepth THEN GoScan(c, d)
            ELSE [c EXCEPT !.d[d].st = "VALUE", !.d[d].stack = Append(@, Elements(t))]

(* redis_vshape: the token starts with a type byte.                         *)
Typed(d, t) == t \in {"s", "+", "V", "B", "0", "1", "2", "3", "5", ">", "|", "!"} \/ (t = "q" /\ d = "SEND")

(* value_start.  Payload that is read as a value is nobody's.               *)
ValueStart(c, d, tok, now, mem) ==
    LET new == [t |-> tok.t, x |-> IF tok.t = "q" THEN 0 ELSE tok.x,
                w |-> IF tok.t = "q" THEN "junk" ELSE tok.w, ts |-> now,
                first |-> c.d[d].call_new, lost |-> FALSE, cut |-> FALSE, args |-> 0, len |-> 1]
        g == IF c.d[d].stack # <<>> THEN [c EXCEPT !.d[d].v.len = @ + 1]
             ELSE [c EXCEPT !.d[d].v = new, !.d[d].call_new = FALSE]
    IN  IF c.d[d].stack = <<>> /\ tok.t \in {"c", "e", "l"} THEN c
        ELSE IF ~Typed(d, tok.t)
        THEN IF d = "RECV" /\ c.d[d].stack = <<>> THEN [g EXCEPT !.d[d].st = "INLINE"]
             ELSE GoScan(g, d)
        ELSE IF tok.t = "+" THEN [g EXCEPT !.d[d].st = "LINE"]
        ELSE LineComplete(g, d, tok.t, mem)

Grow(c, d) == [c EXCEPT !.d[d].v.len = @ + 1]

(* line_feed: the rest of a line that was begun.                            *)
LineFeed(c, d, tok, mem) ==
    IF tok.t \in {"+", "q", "x"} THEN Grow(c, d) ELSE ValueDone(Grow(c, d), d, mem)

(* eol_feed: the length was right, or nothing is.                           *)
EolFeed(c, d, tok, mem) ==
    IF tok.t \in {"e", "c", "l"} THEN ValueDone(Grow(c, d), d, mem) ELSE GoScan(c, d)

InlineFeed(c, d, tok, mem) ==
    IF tok.t \in {"i", "q", "x"} THEN Grow(c, d) ELSE ValueEmit(Grow(c, d), d, mem)

(* redis_anchor_fe, redis_anchor_be                                         *)
Anchor(d, toks) ==
    IF d = "SEND" THEN Typed(d, toks[1].t)
    ELSE toks[1].t \in {"1", "2", "3", "5"} /\ Len(toks) > 1 /\ toks[2].t \in {"V", "B"}

(* One turn of the loop of redis_stream_bytes                               *)
Feed(c, d, tok, now, mem) ==
    IF c.ignore THEN c
    ELSE CASE c.d[d].st = "VALUE" -> ValueStart(c, d, tok, now, mem)
           [] c.d[d].st = "LINE" -> LineFeed(c, d, tok, mem)
           [] c.d[d].st = "BULK" -> [ElementRead(Grow(c, d), d) EXCEPT !.d[d].st = "EOL"]
           [] c.d[d].st = "EOL" -> EolFeed(c, d, tok, mem)
           [] c.d[d].st = "INLINE" -> InlineFeed(c, d, tok, mem)
           [] c.d[d].st = "SCAN" -> c

(* The way back: a call that begins with an anchor.                         *)
Resync(c, d, mem) ==
    LET h == ConnGet(c.h, mem)
    IN  [c EXCEPT !.d[d].st = "VALUE", !.d[d].dirty = FALSE, !.h = IF h.on THEN OnResync(h) ELSE h]

(* Before the bytes are read: loss was noticed in between.                  *)
Settle(c, d, toks, mem) ==
    LET g == IF c.d[d].dirty THEN GoScan(c, d) ELSE c
    IN  IF g.d[d].st = "SCAN" /\ Anchor(d, toks) THEN Resync(g, d, mem) ELSE g

(* stash: a value that goes on after the event keeps its text, if there is  *)
(* memory for it.                                                           *)
Stash(c, d, mem) ==
    IF ValueOpen(c.d[d]) /\ ~c.d[d].buf /\ ~c.ignore
    THEN [c EXCEPT !.d[d].buf = TRUE, !.d[d].v.lost = ~mem]
    ELSE c

(* redis_stream_bytes, for the bytes at the start of a call                 *)
StreamBytes(c, d, toks, now, mem) ==
    LET g == [c EXCEPT !.state = TRUE, !.d[d].fresh = FALSE, !.d[d].call_new = TRUE]
        r[i \in 0 .. Len(toks)] ==
            IF i = 0 THEN Settle(g, d, toks, mem) ELSE Feed(r[i - 1], d, toks[i], now, mem)
    IN  IF ~c.state /\ ~mem THEN [c EXCEPT !.ignore = TRUE]
        ELSE IF c.d[d].fresh /\ c.d[d].st = "VALUE" /\ toks[1].t = "x" THEN [g EXCEPT !.tls = TRUE]
        ELSE Stash(r[Len(toks)], d, mem)

(* redis_stream_hole: a payload and the line end after it can be skipped,   *)
(* nothing else can.                                                        *)
StreamHole(c, d, n, mem) ==
    LET room == CASE c.d[d].st = "BULK" -> 2 [] c.d[d].st = "EOL" -> 1 [] OTHER -> 0
        skip == IF n < room THEN n ELSE room
        g == [c EXCEPT !.d[d].v.len = @ + skip, !.d[d].v.cut = TRUE]
        past == IF skip = room THEN ValueDone(g, d, mem) ELSE [g EXCEPT !.d[d].st = "EOL"]
    IN  IF ~c.state THEN [c EXCEPT !.ignore = TRUE]
        ELSE IF c.d[d].dirty \/ room = 0 THEN GoScan(c, d)
        ELSE IF n <= skip THEN past
        ELSE GoScan(past, d)

(* What the call before it left out is told; now its own bytes.             *)
CallBytes(c, d, toks, cap, now, mem) ==
    IF cap = 0 \/ c.ignore THEN c ELSE StreamBytes(c, d, SubSeq(toks, 1, cap), now, mem)

(* lk_reasm_data: a call of Len(toks) bytes, cap of them captured; the rest *)
(* of the call before it is told to the framer first.                       *)
ReasmData(c, d, toks, cap, now, mem) ==
    LET g == [c EXCEPT !.h.out = <<>>]
        after == IF g.d[d].tail = 0 THEN g
                 ELSE StreamHole([g EXCEPT !.state = @ \/ mem], d, g.d[d].tail, mem)
    IN  IF g.ignore \/ (g.tls /\ toks[1].t = "x") THEN g
        ELSE CallBytes([after EXCEPT !.d[d].tail = Len(toks) - cap], d, toks, cap, now, mem)
=============================================================================

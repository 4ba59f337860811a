----------------------------- MODULE HttpFrame ------------------------------
(***************************************************************************)
(* The HTTP/1.x stream framer (src/proto/http/http_frame.c) over the       *)
(* handler.  A direction reads a head, decides where the body ends, skips  *)
(* it and reads the next head; when it loses the thread it scans for a     *)
(* start line.                                                             *)
(*                                                                         *)
(* The stream is made of tokens, each one byte to the framer's arithmetic: *)
(*   a, z      a start line; the rest of its head, with the empty line     *)
(*   i         a whole interim head                                        *)
(*   b, q      body; body that reads like the start of a start line        *)
(*   n, e      the size line of a chunk of one byte; the line end after it *)
(*   0, t      the last chunk's size line; the empty line of its trailer   *)
(*   p         the HTTP/2 preface          x   a TLS record                *)
(* A captured token also says if it is the last of its call.               *)
(***************************************************************************)
EXTENDS HttpUnits

NoTok == [t |-> "none", x |-> 0]

(* http_dir, with the dirty flag of its lk_frame and the part of the header *)
(* block that was kept: its first token.  tail: bytes of the last call that *)
(* were not captured, told to the framer with the next call.                *)
Dir == [st |-> "HEAD", buf |-> NoTok, left |-> 0, seen |-> FALSE, chunk |-> "size",
        err_want |-> FALSE, dirty |-> FALSE, fresh |-> TRUE, tail |-> 0]

(* The framer's part of a connection, and the handler's.  off is not in the *)
(* code: a response was read with another request in mind, or body was      *)
(* taken for a head.                                                        *)
NewConn(dirty) ==
    [d |-> [r \in {"RECV", "SEND"} |-> [Dir EXCEPT !.dirty = dirty]], state |-> FALSE,
     pend |-> <<>>, pend_skew |-> FALSE, ignore |-> FALSE, tls |-> FALSE, off |-> FALSE,
     h |-> HttpConn]

GoBlind(c) == [c EXCEPT !.ignore = TRUE]

GoScan(c, d) ==
    [c EXCEPT !.d[d] = [Dir EXCEPT !.st = "SCAN", !.dirty = TRUE, !.fresh = FALSE,
                                   !.tail = c.d[d].tail]]

(* A head that is refused, or has no memory to be put together in.          *)
BadHead(c, d) == GoScan(c, d)

(* http_on_msg; to is what the routine for the type of the message makes of *)
(* the connection.  Without memory for its state it makes nothing of it.    *)
(* http_on_resync comes by its state in the same way.                       *)
OnMsg(h, to, mem) ==
    IF ConnGet(h, mem).on THEN ConnGet(to, mem) ELSE h

Emit(c, to, mem) == [c EXCEPT !.h = OnMsg(@, to, mem)]

(* n body bytes; src is the first of them, if it was captured.  The element *)
(* that names an error is two bytes long, and only the piece of the body    *)
(* that starts with src is searched for it: the rest of the call, or of the *)
(* chunk.                                                                   *)
BodyAdd(c, d, src, n, mem) ==
    LET g == IF c.d[d].err_want /\ src # NoTok
             THEN Emit(c, ErrBody(c.h, src.x, ~src.last /\ c.d[d].st # "CHUNK"), mem) ELSE c
    IN  IF n = 0 THEN c
        ELSE Emit([g EXCEPT !.d[d].err_want = FALSE, !.d[d].seen = TRUE],
                  BodyData(g.h, d, n), mem)

(* body_end: the message is over.                                           *)
End(c, d, mem) ==
    Emit([c EXCEPT !.d[d] = [@ EXCEPT !.st = "HEAD", !.seen = FALSE, !.left = 0,
                                      !.err_want = FALSE]], BodyEnd(c.h, d), mem)

-----------------------------------------------------------------------------
(* The FIFO of requests that responses are framed by.                       *)

PendPush(c, x) ==
    IF Len(c.pend) >= Inflight THEN [c EXCEPT !.pend_skew = TRUE]
    ELSE [c EXCEPT !.pend = Append(@, x)]

PendPop(c) ==
    IF c.pend = <<>> THEN c
    ELSE [c EXCEPT !.pend = Tail(@), !.pend_skew = @ /\ Len(c.pend) > 1]

(* The request the popped entry is of; 0 when there is none to go by.       *)
Popped(c) ==
    IF c.pend = <<>> \/ PendPop(c).pend_skew THEN 0 ELSE c.pend[1]

Method(x) == IF x = 0 THEN "none" ELSE About(x).m

(* Only these methods make a difference to the response.                    *)
Misread(rq, x) == \E m \in {"HEAD", "CONNECT"} : (Method(rq) = m) # (Method(x) = m)

(* What follows a head with a body framed as how.                           *)
BodyFollows(c, d, how, mem) ==
    IF how \in {"none", "zero"} THEN End(c, d, mem)
    ELSE [c EXCEPT !.d[d].st = CASE how = "len" -> "BODY" [] how = "chunk" -> "CHUNK"
                                 [] how \in {"close", "te"} -> "CLOSE",
                   !.d[d].left = IF how = "len" THEN 2 ELSE 0, !.d[d].chunk = "size"]

(* head_complete, requests                                                  *)
ReqComplete(c, tok, mem) ==
    IF tok.t = "p" THEN GoBlind(c)
    ELSE IF tok.t # "a" \/ About(tok.x).up = "both" THEN BadHead(c, "RECV")
    ELSE LET g == Emit(c, ReqHead(c.h, tok.x, "no"), mem)
         IN  BodyFollows(PendPush(g, tok.x), "RECV", About(tok.x).up, mem)

(* Mutated form of RespComplete: the length in the answer to a HEAD counts. *)
RespCompleteHead(c, tok, mem) ==
    LET k == About(tok.x)
        rq == Popped(c)
        g == [Emit(PendPop(c), RespHead(c.h, tok.x, "no"), mem) EXCEPT
                  !.d["SEND"].err_want = S3 /\ k.code >= 400, !.off = @ \/ Misread(rq, tok.x)]
    IN  IF tok.t = "i" THEN [c EXCEPT !.h = ConnGet(@, mem)]
        ELSE IF tok.t # "a" \/ k.down = "both" THEN BadHead(c, "SEND")
        ELSE IF k.code = 101 \/ (Method(rq) = "CONNECT" /\ k.code < 300)
        THEN GoBlind(End(g, "SEND", mem))
        ELSE BodyFollows(g, "SEND", IF k.code \in {204, 304} THEN "none" ELSE k.down, mem)

(* head_complete, responses                                                 *)
RespComplete(c, tok, mem) ==
    LET k == About(tok.x)
        rq == Popped(c)
        g == [Emit(PendPop(c), RespHead(c.h, tok.x, "no"), mem) EXCEPT
                  !.d["SEND"].err_want = S3 /\ k.code >= 400, !.off = @ \/ Misread(rq, tok.x)]
    IN  IF tok.t = "i" THEN [c EXCEPT !.h = ConnGet(@, mem)]
        ELSE IF tok.t # "a" \/ k.down = "both" THEN BadHead(c, "SEND")
        ELSE IF k.code = 101 \/ (Method(rq) = "CONNECT" /\ k.code < 300)
        THEN GoBlind(End(g, "SEND", mem))
        ELSE IF Method(rq) = "HEAD" \/ k.code \in {204, 304} THEN End(g, "SEND", mem)
        ELSE BodyFollows(g, "SEND", k.down, mem)

HeadComplete(c, d, tok, mem) ==
    LET g == [c EXCEPT !.d[d].buf = NoTok]
    IN  IF d = "RECV" THEN ReqComplete(g, tok, mem) ELSE RespComplete(g, tok, mem)

(* head_feed: a line end before a start line is skipped; the block ends at  *)
(* the empty line.                                                          *)
HeadFeed(c, d, tok, mem) ==
    LET first == IF c.d[d].buf = NoTok THEN [t |-> tok.t, x |-> tok.x] ELSE c.d[d].buf
    IN  IF c.d[d].buf = NoTok /\ tok.t \in {"e", "t"} THEN c
        ELSE IF tok.t \in {"z", "t", "i"} THEN HeadComplete(c, d, first, mem)
        ELSE [c EXCEPT !.d[d].buf = first]

-----------------------------------------------------------------------------
BodyFeed(c, d, src, n, mem) ==
    LET g == BodyAdd([c EXCEPT !.d[d].left = @ - n], d, src, n, mem)
    IN  IF c.d[d].left = n THEN End(g, d, mem) ELSE g

(* chunk_feed: the sizes are in the stream.                                 *)
ChunkFeed(c, d, tok, mem) ==
    LET To(s) == [c EXCEPT !.d[d].chunk = s]
        st == c.d[d].chunk
    IN  CASE st = "size" /\ tok.t = "n" -> To("data")
          [] st = "size" /\ tok.t = "0" -> To("trailer")
          [] st = "data" -> BodyAdd(To("eol"), d, tok, 1, mem)
          [] st = "eol" /\ tok.t = "e" -> To("size")
          [] st = "trailer" -> IF tok.t \in {"z", "t", "e"} THEN End(c, d, mem) ELSE c
          [] OTHER -> BadHead(c, d)

(* anchor_ok: the methods that are anchors are the common ones.             *)
Anchor(d, tok) ==
    \/ tok.t = "q"
    \/ tok.t = "a" /\ (d = "RECV" => About(tok.x).m # "PROPFIND")
    \/ tok.t = "i"

(* scan_feed: on an anchor framing resumes at the start line, which has to  *)
(* be kept.                                                                 *)
ScanFeed(c, d, tok, mem) ==
    LET g == [c EXCEPT !.d[d].st = "HEAD", !.d[d].dirty = FALSE,
                       !.off = @ \/ tok.t = "q",
                       !.h = OnMsg(@, OnResync(@, d), mem)]
    IN  IF ~Anchor(d, tok) THEN c
        ELSE IF ~mem THEN BadHead(g, d)
        ELSE HeadFeed(g, d, tok, mem)

Feed(c, d, tok, mem) ==
    IF c.ignore THEN c
    ELSE CASE c.d[d].st = "HEAD" -> HeadFeed(c, d, tok, mem)
           [] c.d[d].st = "BODY" -> BodyFeed(c, d, tok, 1, mem)
           [] c.d[d].st = "CHUNK" -> ChunkFeed(c, d, tok, mem)
           [] c.d[d].st = "CLOSE" -> BodyAdd(c, d, tok, 1, mem)
           [] c.d[d].st = "SCAN" -> ScanFeed(c, d, tok, mem)

-----------------------------------------------------------------------------
(* Before the bytes are read: loss was noticed in between; or a body was    *)
(* promised, none of it came, and here is the next status line.             *)
Settle(c, d, tok, mem) ==
    IF c.d[d].dirty /\ c.d[d].st # "SCAN" THEN GoScan(c, d)
    ELSE IF d = "SEND" /\ c.d[d].st = "BODY" /\ ~c.d[d].seen /\ tok.t \in {"a", "i"}
    THEN End(Emit(c, BodyUnseen(c.h), mem), d, mem)
    ELSE c

(* A header block that is not complete with the event needs a buffer.       *)
Spill(c, d, had, mem) ==
    IF c.d[d].buf # NoTok /\ ~had /\ ~mem /\ ~c.ignore THEN BadHead(c, d) ELSE c

(* http_stream_bytes                                                        *)
StreamBytes(c, d, toks, mem) ==
    LET g == [c EXCEPT !.state = TRUE, !.d[d].fresh = FALSE]
        r[i \in 0 .. Len(toks)] ==
            IF i = 0 THEN Settle(g, d, toks[1], mem)
            ELSE Feed(r[i - 1], d, [t |-> toks[i].t, x |-> toks[i].x, last |-> i = Len(toks)], mem)
    IN  IF ~c.state /\ ~mem THEN GoBlind(c)
        ELSE IF c.d[d].fresh /\ c.d[d].st = "HEAD" /\ toks[1].t = "x" THEN [g EXCEPT !.tls = TRUE]
        ELSE Spill(r[Len(toks)], d, g.d[d].buf # NoTok, mem)

(* The start of the block goes out as a truncated head; when the hole cut   *)
(* the start line, the handler has no use for it.                           *)
HeadHole(c, d, cut, mem) ==
    LET tok == c.d[d].buf
    IN  IF tok.t # "a" \/ cut = "line" THEN [c EXCEPT !.h = ConnGet(@, mem)]
        ELSE Emit(c, IF d = "RECV" THEN ReqHead(c.h, tok.x, cut) ELSE RespHead(c.h, tok.x, cut), mem)

(* Mutated form of StreamHole: a hole leaves a chunked body as it is.       *)
StreamHoleChunk(c, d, n, cut, mem) ==
    LET take == IF c.d[d].left < n THEN c.d[d].left ELSE n
    IN  IF ~c.state THEN GoBlind(c)
        ELSE IF c.d[d].dirty /\ c.d[d].st # "SCAN" THEN GoScan(c, d)
        ELSE CASE c.d[d].st = "HEAD" -> GoScan(HeadHole(c, d, cut, mem), d)
               [] c.d[d].st = "BODY" ->
                    LET g == BodyFeed(c, d, NoTok, take, mem) IN IF n > take THEN GoScan(g, d) ELSE g
               [] c.d[d].st = "CHUNK" -> c
               [] c.d[d].st = "CLOSE" -> BodyAdd(c, d, NoTok, n, mem)
               [] c.d[d].st = "SCAN" -> c

(* http_stream_hole                                                         *)
StreamHole(c, d, n, cut, mem) ==
    LET take == IF c.d[d].left < n THEN c.d[d].left ELSE n
    IN  IF ~c.state THEN GoBlind(c)
        ELSE IF c.d[d].dirty /\ c.d[d].st # "SCAN" THEN GoScan(c, d)
        ELSE CASE c.d[d].st = "HEAD" -> GoScan(HeadHole(c, d, cut, mem), d)
               [] c.d[d].st = "BODY" ->
                    LET g == BodyFeed(c, d, NoTok, take, mem) IN IF n > take THEN GoScan(g, d) ELSE g
               [] c.d[d].st = "CHUNK" -> GoScan(c, d)
               [] c.d[d].st = "CLOSE" -> BodyAdd(c, d, NoTok, n, mem)
               [] c.d[d].st = "SCAN" -> c

(* lk_reasm_data: a call of Len(toks) bytes, cap of them captured; the rest *)
(* of the call before it is told to the framer first.                       *)
ReasmData(c, d, toks, cap, raw, cut, mem) ==
    LET g == [c EXCEPT !.h.out = <<>>]
        after == IF g.d[d].tail = 0 THEN g 
                 ELSE StreamHole([g EXCEPT !.state = @ \/ mem], d, g.d[d].tail, cut, mem)
        called == [after EXCEPT !.d[d].tail = Len(toks) - cap]
    IN  IF g.ignore \/ (g.tls /\ raw) THEN g
        ELSE IF cap = 0 THEN called
        ELSE StreamBytes(called, d, SubSeq(toks, 1, cap), mem)
=============================================================================

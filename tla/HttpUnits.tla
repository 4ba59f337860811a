----------------------------- MODULE HttpUnits ------------------------------
(***************************************************************************)
(* The HTTP/1.x handler of one connection (src/proto/http/http.c, and the  *)
(* two head parsers http_req.c and http_resp.c): the ring of exchanges in  *)
(* flight, and the observation each becomes.  With it the part of the S3   *)
(* dialect (src/proto/s3/s3_dialect.c) that keeps state.                   *)
(*                                                                         *)
(* An exchange is known by its number x, which stands for all that its two *)
(* heads say: plan[x] is its kind.  The operators take the connection      *)
(* record and return it changed; out holds the observations of the step.   *)
(***************************************************************************)
EXTENDS Integers, Sequences, FiniteSets

CONSTANTS
    Inflight,  \* LK_HTTP_MAX_INFLIGHT
    S3         \* the port speaks S3: errors are named by their body

ASSUME InflightAssumption == Inflight \in Nat \ {0} /\ S3 \in BOOLEAN

VARIABLE plan  \* the exchanges of the connection, in order

(* What the peers of this model say to each other.  m: the method.  up,     *)
(* down: how a body is framed; both: by two fields at once, which the      *)
(* framer refuses like any field it cannot read.  code: the status.  interim: a 100 Continue  *)
(* comes first.  named: the response head carries an error code.            *)
KindOf ==
    LET K(m, up, code, down) == [m |-> m, up |-> up, code |-> code, down |-> down,
                                 interim |-> FALSE, named |-> FALSE]
    IN  [get     |-> K("GET", "none", 200, "len"),
         head    |-> K("HEAD", "none", 200, "len"),
         put     |-> [K("PUT", "len", 200, "zero") EXCEPT !.interim = TRUE],
         post    |-> K("POST", "chunk", 200, "chunk"),
         old     |-> K("GET", "none", 200, "close"),
         gzip    |-> K("GET", "none", 200, "te"),
         same    |-> K("GET", "none", 304, "len"),
         gone    |-> K("GET", "none", 404, "len"),
         nohead  |-> [K("HEAD", "none", 404, "zero") EXCEPT !.named = TRUE],
         tunnel  |-> K("CONNECT", "none", 200, "zero"),
         upgrade |-> K("GET", "none", 101, "zero"),
         bad     |-> K("POST", "both", 400, "zero"),
         odd     |-> K("GET", "none", 200, "both"),
         dav     |-> K("PROPFIND", "none", 200, "len"),
         h2      |-> K("PRI", "none", 0, "zero")]

About(x) == KindOf[plan[x]]

-----------------------------------------------------------------------------
(* One exchange in flight.  rx is not in the code: the exchange whose       *)
(* response the unit was given.                                             *)
Unit(x, fl) == [x |-> x, rx |-> 0, have_resp |-> FALSE, req_done |-> FALSE,
                bytes_in |-> 0, bytes_out |-> 0, to_close |-> FALSE, fl |-> fl]

(* http_conn.  err is the exchange whose response dr.err_name was read from.*)
HttpConn == [on |-> FALSE, units |-> <<>>, head |-> 1, req |-> 0, owed |-> 0,
             resp_orphan |-> FALSE, err |-> 0, out |-> <<>>]

(* http_conn_get: state comes with the first message there is memory for.   *)
ConnGet(h, mem) == [h EXCEPT !.on = @ \/ mem]

(* http_unit_at                                                             *)
Live(h, s) == h.head <= s /\ s < h.head + Len(h.units)

Front(h) == h.units # <<>>

DropFront(h) == [h EXCEPT !.units = Tail(@), !.head = @ + 1]

(* s3_obs: the error code goes into the observation.                        *)
S3Obs(h) == IF S3 THEN h.err ELSE 0

(* unit_emit; the observation has the labels of its own unit.               *)
UnitEmit(h, u) ==
    [h EXCEPT !.out = Append(@, [x |-> u.x, rx |-> u.rx, bytes_in |-> u.bytes_in,
                                 bytes_out |-> u.bytes_out, done |-> u.req_done, fl |-> u.fl,
                                 err |-> S3Obs(h)])]

(* unit_retire, of a unit that has a response.                              *)
UnitRetire(h) == DropFront(UnitEmit(h, h.units[1]))

UnitsDropAll(h) ==
    [h EXCEPT !.units = <<>>, !.head = @ + Len(h.units), !.req = 0, !.owed = 0,
              !.resp_orphan = FALSE]

-----------------------------------------------------------------------------
(* A head is cut nowhere, in its start line, before its fields, or after    *)
(* them.                                                                    *)
Cuts == {"no", "line", "fields", "end"}

Truncated(cut) == IF cut = "no" THEN {} ELSE {"TRUNC"}

(* http_req_head, of a head whose first line can be read.                   *)
ReqHead(h, x, cut) ==
    IF Len(h.units) >= Inflight THEN [h EXCEPT !.owed = @ + 1]
    ELSE [h EXCEPT !.units = Append(@, Unit(x, Truncated(cut))),
                   !.req = h.head + Len(h.units)]

(* Rule 6 of the body length list, as http_resp_head reads it from the      *)
(* fields it has seen.                                                      *)
ToClose(x, u, cut) ==
    /\ cut = "fields" \/ About(x).down = "close"
    /\ About(x).code \notin {204, 304} /\ About(u.x).m # "HEAD"

(* s3_resp_field: a head may name the error itself.                         *)
ErrField(x, cut) == IF About(x).named /\ cut # "fields" THEN x ELSE 0

(* Mutated form of RespHead: the dialect's scratch is not cleared.          *)
RespHeadStale(h, x, cut) ==
    IF ~Front(h)
    THEN IF h.owed > 0 THEN [h EXCEPT !.owed = @ - 1, !.resp_orphan = TRUE] ELSE h
    ELSE [h EXCEPT !.err = IF ErrField(x, cut) # 0 THEN x ELSE @,
                   !.units[1] = [@ EXCEPT !.rx = x, !.have_resp = TRUE,
                                          !.fl = @ \cup Truncated(cut),
                                          !.to_close = ToClose(x, h.units[1], cut)]]

(* http_resp_head, of a final response whose status line can be read; an    *)
(* interim one leaves a timestamp.                                          *)
RespHead(h, x, cut) ==
    IF ~Front(h)
    THEN IF h.owed > 0 THEN [h EXCEPT !.owed = @ - 1, !.resp_orphan = TRUE] ELSE h
    ELSE [h EXCEPT !.err = ErrField(x, cut),
                   !.units[1] = [@ EXCEPT !.rx = x, !.have_resp = TRUE,
                                          !.fl = @ \cup Truncated(cut),
                                          !.to_close = ToClose(x, h.units[1], cut)]]

(* s3_err_body: the code out of the first bytes of a failing response;      *)
(* whole: the element that names it is all in them.                         *)
ErrBody(h, x, whole) == IF whole THEN [h EXCEPT !.err = x] ELSE h

BodyData(h, d, n) ==
    IF d = "RECV"
    THEN IF Live(h, h.req) THEN [h EXCEPT !.units[h.req - h.head + 1].bytes_in = @ + n] ELSE h
    ELSE IF h.resp_orphan \/ ~Front(h) THEN h
    ELSE [h EXCEPT !.units[1].bytes_out = @ + n]

BodyEnd(h, d) ==
    IF d = "RECV"
    THEN LET g == [h EXCEPT !.req = 0]
         IN  IF Live(h, h.req) THEN [g EXCEPT !.units[h.req - h.head + 1].req_done = TRUE] ELSE g
    ELSE IF h.resp_orphan THEN [h EXCEPT !.resp_orphan = FALSE]
    ELSE IF ~Front(h) THEN h
    ELSE IF ~h.units[1].have_resp THEN DropFront(h)
    ELSE UnitRetire(h)

(* framer_note, the one note that marks a unit.                             *)
BodyUnseen(h) == IF Front(h) THEN [h EXCEPT !.units[1].fl = @ \cup {"UNSEEN"}] ELSE h

(* Mutated form of OnResync: a loss of responses drops nothing.             *)
OnResyncKeeps(h, d) == IF d = "RECV" THEN UnitsDropAll(h) ELSE [h EXCEPT !.resp_orphan = FALSE]

(* http_on_resync; at most the front has a response in progress.            *)
OnResync(h, d) ==
    IF d = "RECV" THEN UnitsDropAll(h)
    ELSE LET g == IF Front(h) /\ h.units[1].have_resp THEN DropFront(h) ELSE h
         IN  [g EXCEPT !.resp_orphan = FALSE]

(* http_on_conn_close                                                       *)
OnConnClose(h) ==
    IF Front(h) /\ h.units[1].have_resp
    THEN UnitsDropAll(UnitRetire(IF h.units[1].to_close THEN h ELSE BodyUnseen(h)))
    ELSE UnitsDropAll(h)
=============================================================================

-------------------------------- MODULE Http --------------------------------
(***************************************************************************)
(* One HTTP connection as the agent sees it: a client that sends requests, *)
(* several ahead if it likes, a server that answers them in order and may  *)
(* answer before it has read the whole request, the calls their bytes are  *)
(* cut into, what becomes of a call on its way to the agent, the framer    *)
(* and the handler.                                                        *)
(***************************************************************************)
EXTENDS HttpFrame

CONSTANTS
    Kinds,         \* kinds of the first exchange
    Later,         \* kinds of the others
    Joins,         \* the agent came at the start, or later: "open", "synthetic", "tls"
    Faults,        \* "cut", "lost", "oom", "sendfile"
    Depth,         \* requests the client has under way at most
    MaxExchanges,  \* bound: exchanges
    MaxFaults,     \* bound: calls not delivered whole
    MaxCall        \* bound: bytes of a call

ASSUME HttpChoiceAssumption ==
    /\ Kinds \cup Later \subseteq DOMAIN KindOf
    /\ Joins \subseteq {"open", "synthetic", "tls"}
    /\ Faults \subseteq {"cut", "lost", "oom", "sendfile"}
ASSUME HttpBoundAssumption ==
    {Depth, MaxExchanges, MaxFaults, MaxCall} \subseteq Nat

VARIABLES
    wire,      \* bytes each peer has still to pass
    answered,  \* exchanges the server has begun to answer
    c,         \* the connection in the agent
    gap,       \* a call was lost that the sequence detector has not seen yet
    faults,    \* calls not delivered whole
    mode,      \* what to expect: "clean", "hurt", "disorder"
    base,      \* exchanges before the connection was last quiet
    told,      \* exchanges observed since, while it is clean
    torn,      \* failing exchanges whose body came in more than one piece
    closed

vars == <<plan, wire, answered, c, gap, faults, mode, base, told, torn, closed>>

-----------------------------------------------------------------------------
Tokens(x, ts) == [i \in DOMAIN ts |-> [t |-> ts[i], x |-> x]]

Body(how) ==
    CASE how \in {"none", "zero"} -> <<>>
      [] how \in {"len", "both"} -> <<"b", "b">>
      [] how \in {"close", "te"} -> <<"b", "q">>
      [] how = "chunk" -> <<"n", "b", "e", "0", "t">>

(* Bytes of body of exchange x in a direction.                              *)
BodyLen(x, d) ==
    LET how == IF d = "RECV" THEN About(x).up ELSE About(x).down
        bare == d = "SEND" /\ (About(x).m = "HEAD" \/ About(x).code = 304)
    IN  IF bare THEN 0 ELSE Cardinality({i \in DOMAIN Body(how) : Body(how)[i] \in {"b", "q"}})

Request(k, x) == Tokens(x, <<IF KindOf[k].m = "PRI" THEN "p" ELSE "a", "z">> \o Body(KindOf[k].up))

Response(k, x) ==
    Tokens(x, (IF KindOf[k].interim THEN <<"i">> ELSE <<>>) \o <<"a", "z">>
              \o IF KindOf[k].m = "HEAD" \/ KindOf[k].code = 304 THEN <<>> ELSE Body(KindOf[k].down))

(* After these the connection is no longer used for HTTP.                   *)
Last(k) == KindOf[k].m = "PRI" \/ KindOf[k].down \in {"close", "te"} \/ KindOf[k].m = "CONNECT" \/ KindOf[k].code = 101

(* Exchange x has bytes of these kinds still to pass in direction d.        *)
ToPass(w, d, x, ts) == \E i \in DOMAIN w[d] : w[d][i].x = x /\ w[d][i].t \in ts

HeadParts == {"a", "z", "p"}
AllParts == {"p", "a", "z", "i", "b", "q", "n", "e", "0", "t"}

(* The request has been read by the server, and its answer has not passed.  *)
Outstanding(w, n, x) == ~ToPass(w, "RECV", x, HeadParts) /\ (x > n \/ ToPass(w, "SEND", x, AllParts))

-----------------------------------------------------------------------------
Init ==
    /\ gap = FALSE /\ faults = 0 /\ told = <<>> /\ torn = {} /\ closed = FALSE /\ base = 0
    /\ \/ /\ \E tls \in BOOLEAN :
                /\ (IF tls THEN "tls" ELSE "open") \in Joins
                /\ wire = [d \in {"RECV", "SEND"} |-> IF tls THEN Tokens(0, <<"x">>) ELSE <<>>]
          /\ plan = <<>> /\ answered = 0 /\ mode = "clean"
          /\ c = NewConn(FALSE)
       \/ /\ "synthetic" \in Joins
          /\ \E k \in Later, n \in 1 .. 3 :
                /\ ~Last(k) /\ n <= Len(Response(k, 1))
                /\ plan = <<k>>
                /\ wire = [RECV |-> <<>>, SEND |-> SubSeq(Response(k, 1), n, Len(Response(k, 1)))]
          /\ answered = 1 /\ mode = "disorder"
          /\ c = NewConn(TRUE)

(* Nothing is under way, and the agent has nothing open; nor has the framer *)
(* a request it still expects the response of, for it forgets none.         *)
Quiet ==
    /\ answered = Len(plan) /\ wire["RECV"] = <<>> /\ wire["SEND"] = <<>>
    /\ c.h.units = <<>> /\ c.pend = <<>> /\ ~c.ignore
    /\ \A d \in {"RECV", "SEND"} : c.d[d].st \in {"HEAD", "SCAN"} /\ c.d[d].buf = NoTok

(* A request that finds the connection quiet starts a clean stretch.        *)
SendRequest ==
    \E k \in IF plan = <<>> THEN Kinds ELSE Later :
        LET x == Len(plan) + 1
        IN  /\ ~closed /\ Len(plan) < MaxExchanges
            /\ \A y \in DOMAIN plan : ~Last(plan[y])
            /\ KindOf[k].m = "PRI" => plan = <<>>
            /\ Cardinality({y \in DOMAIN plan : y > answered \/ ToPass(wire, "SEND", y, AllParts)}) < Depth
            /\ plan' = Append(plan, k)
            /\ wire' = [wire EXCEPT !["RECV"] = @ \o Request(k, x)]
            /\ mode' = IF Quiet THEN "clean" ELSE mode
            /\ base' = IF Quiet THEN Len(plan) ELSE base
            /\ told' = IF Quiet THEN <<>> ELSE told
            /\ c' = [c EXCEPT !.h.out = <<>>, !.off = @ /\ ~Quiet]
            /\ UNCHANGED <<answered, gap, faults, torn, closed>>

Answer ==
    LET x == answered + 1
    IN  /\ ~closed /\ x <= Len(plan) /\ ~ToPass(wire, "RECV", x, HeadParts) /\ About(x).m # "PRI"
        /\ answered' = x
        /\ wire' = [wire EXCEPT !["SEND"] = @ \o Response(plan[x], x)]
        /\ c' = [c EXCEPT !.h.out = <<>>]
        /\ UNCHANGED <<plan, gap, faults, mode, base, told, torn, closed>>

Units(g) == {g.h.units[i].x : i \in DOMAIN g.h.units}

(* What a call does to the order of requests and responses: a head did not  *)
(* reach the framer, or it could not keep it, or refused it; the ring was   *)
(* full; requests were dropped that have their responses still to come.     *)
(* Once something was lost, a head cut short may have left an entry in the  *)
(* framer's FIFO, by which a later response is misread.                     *)
Disorders(d, toks, cap, cut, oom, g, g2) ==
    \/ cut = "line" \/ (g.d[d].dirty /\ g.d[d].buf # NoTok)
    \/ \E i \in DOMAIN toks : toks[i].t \in (IF d = "SEND" THEN {"a"} ELSE HeadParts) /\ (i > cap \/ oom)
    \/ d = "RECV" /\ \E i \in DOMAIN toks :
          toks[i].t = "a" /\ (About(toks[i].x).up = "both"
                              \/ ((g.d[d].dirty \/ g.d[d].tail > 0) /\ About(toks[i].x).m = "PROPFIND"))
    \/ d = "SEND" /\ \E i \in DOMAIN toks : toks[i].t = "a" /\ About(toks[i].x).down = "both"
    \/ g2.h.owed > g.h.owed
    \/ /\ d = "RECV" /\ mode # "clean"
       /\ \E x \in Units(g) \ Units(g2) : Outstanding(wire, answered, x)
    \/ mode # "clean" /\ g2.off

(* A call of n bytes in direction d, of which cap reach the agent.          *)
Pass(d, n, cap, how, cut) ==
    LET toks == SubSeq(wire[d], 1, n)
        raw == wire[d][1].t = "x"
        heard == [c EXCEPT !.d = [r \in {"RECV", "SEND"} |-> [@[r] EXCEPT !.dirty = @ \/ gap]]]
        g == IF how = "lost" THEN [c EXCEPT !.h.out = <<>>]
             ELSE ReasmData(heard, d, toks, cap, raw, cut, how # "oom")
        dis == Disorders(d, toks, IF how = "lost" THEN 0 ELSE cap, cut, how = "oom", heard, g)
        clean == mode = "clean" /\ ~dis /\ how = "full" /\ ~gap
    IN  /\ raw => n = 1
        /\ wire' = [wire EXCEPT ![d] = SubSeq(@, n + 1, Len(@))]
        /\ gap' = (how = "lost")
        /\ c' = g
        /\ mode' = CASE dis \/ mode = "disorder" -> "disorder" [] clean -> "clean" [] OTHER -> "hurt"
        /\ told' = IF clean THEN told \o [i \in DOMAIN g.h.out |-> g.h.out[i].x] ELSE <<>>
        /\ torn' = torn \cup {x \in DOMAIN plan : About(x).code >= 400 /\ d = "SEND" /\ toks[n] = [t |-> "b", x |-> x]
                                                /\ ToPass(wire', d, x, {"b"})}
        /\ UNCHANGED <<plan, answered, base, closed>>

Halves(d) == IF c.d[d].tail > 0 /\ c.d[d].buf # NoTok THEN Cuts \ {"no"} ELSE {"no"}

Calls(d) == 1 .. (IF Len(wire[d]) < MaxCall THEN Len(wire[d]) ELSE MaxCall)

Whole ==
    /\ ~closed
    /\ \E d \in {"RECV", "SEND"} : \E n \in Calls(d), cut \in Halves(d) : Pass(d, n, n, "full", cut)
    /\ UNCHANGED faults

Cut ==
    /\ ~closed /\ "cut" \in Faults /\ faults < MaxFaults /\ faults' = faults + 1
    /\ \E d \in {"RECV", "SEND"} : \E n \in Calls(d), cut \in Halves(d) :
          \E cap \in 0 .. n - 1 : Pass(d, n, cap, "cut", cut)

Lose ==
    /\ ~closed /\ "lost" \in Faults /\ faults < MaxFaults /\ faults' = faults + 1
    /\ \E d \in {"RECV", "SEND"} : \E n \in Calls(d) : Pass(d, n, 0, "lost", "no")

NoMemory ==
    /\ ~closed /\ "oom" \in Faults /\ faults < MaxFaults /\ faults' = faults + 1
    /\ \E d \in {"RECV", "SEND"} : \E n \in Calls(d) : Pass(d, n, n, "oom", "no")

(* The body goes out of the kernel without a call the agent sees.           *)
Sendfile ==
    /\ ~closed /\ "sendfile" \in Faults /\ faults < MaxFaults
    /\ wire["SEND"] # <<>> /\ wire["SEND"][1].t = "b"
    /\ LET x == wire["SEND"][1].x
           n == BodyLen(x, "SEND")
       IN  /\ About(x).down = "len" /\ n > 0 /\ ~ToPass(wire, "SEND", x, HeadParts)
           /\ \A i \in 1 .. n : Len(wire["SEND"]) >= i /\ wire["SEND"][i].x = x
           /\ wire' = [wire EXCEPT !["SEND"] = SubSeq(@, n + 1, Len(@))]
    /\ faults' = faults + 1
    /\ mode' = IF mode = "clean" THEN "hurt" ELSE mode
    /\ c' = [c EXCEPT !.h.out = <<>>] /\ told' = <<>>
    /\ UNCHANGED <<plan, answered, gap, base, torn, closed>>

Close ==
    /\ ~closed /\ closed' = TRUE
    /\ c' = [c EXCEPT !.h = OnConnClose([@ EXCEPT !.out = <<>>])]
    /\ told' = IF mode = "clean" THEN told \o [i \in DOMAIN c'.h.out |-> c'.h.out[i].x] ELSE <<>>
    /\ UNCHANGED <<plan, wire, answered, gap, faults, mode, base, torn>>

Next == SendRequest \/ Answer \/ Whole \/ Cut \/ Lose \/ NoMemory \/ Sendfile \/ Close

Spec == Init /\ [][Next]_vars

-----------------------------------------------------------------------------
Observed == {c.h.out[i] : i \in DOMAIN c.h.out}

(* An observation is of one exchange: the response it carries answers the   *)
(* request it carries (the ring of http.c is a FIFO).  Truncated calls,     *)
(* losses, failed allocations and bodies sent out of sight do not change    *)
(* that, until the connection is quiet again and no request is left in      *)
(* either FIFO, with these exceptions: a start line was lost with a call or *)
(* for want of memory; a request under way was dropped, or had no room in   *)
(* the ring; the framer refused a head; the head of a response was cut, and *)
(* the entry it left in the framer's FIFO made it read the response to a    *)
(* HEAD or a CONNECT for another's.                                         *)
PairTrue == mode # "disorder" => \A o \in Observed : o.x = o.rx

(* What docs/notes-httpproto.md and http_on_resync say of a loss on the     *)
(* response side: the units behind the one being answered still get their   *)
(* own responses.                                                           *)
ResponsesPaired == \A o \in Observed : o.x = o.rx

(* Body bytes are counted exactly under any capture budget (body_data,      *)
(* body_add, http_stream_hole); a count that may be short is marked; no     *)
(* byte of another exchange is counted, not even of an upload that goes on  *)
(* after its early answer was reported.  Stretches in which PairTrue makes  *)
(* an exception are left out here too.                                      *)
BytesTrue ==
    mode # "disorder" =>
        \A o \in Observed :
            /\ o.bytes_in <= BodyLen(o.x, "RECV") /\ (o.done => o.bytes_in = BodyLen(o.x, "RECV"))
            /\ o.bytes_out <= BodyLen(o.rx, "SEND")
            /\ o.fl = {} /\ About(o.rx).down # "close" => o.bytes_out = BodyLen(o.rx, "SEND")

(* The response to x is over as far as its framing says.                    *)
Over(x) ==
    /\ x <= answered
    /\ IF closed THEN ~ToPass(wire, "SEND", x, HeadParts)
       ELSE ~ToPass(wire, "SEND", x, AllParts) /\ About(x).down \notin {"close", "te"}

(* From any quiet moment on at which the framer's FIFO is empty as well as  *)
(* the handler's, whatever was lost before it, exchanges that are captured  *)
(* whole, fit the ring and have no head the framer refuses are reported     *)
(* once each, in order and as soon as their responses are over: the framer  *)
(* is back in step, and a HEAD is answered without a body.                  *)
Reported ==
    mode = "clean" =>
        told = [i \in 1 .. Cardinality({x \in base + 1 .. Len(plan) : Over(x)}) |-> base + i]

(* The error code of an S3 observation was read from the response the       *)
(* observation carries (the scratch of s3_dialect.c is one per connection), *)
(* and a failing response captured whole has one if its body came in one    *)
(* piece: body_add hands over the first piece alone.                        *)
ErrTrue ==
    \A o \in Observed :
        /\ o.err # 0 => o.err = o.rx
        /\ (mode = "clean" /\ S3 /\ ~closed /\ About(o.x).code >= 400 /\ o.x \notin torn) => o.err = o.x

(* What http_frame.c says of a head it refuses (bad_head): its unit is      *)
(* dropped, it is not given a response that was not its own.                *)
RefusedDropped == \A o \in Observed : About(o.x).down # "both"

(* What docs/notes-httpproto.md says of the framer: any response to a HEAD  *)
(* is read without a body.  Here of a response that the handler has given   *)
(* to the HEAD it answers.                                                  *)
HeadBodyless ==
    \A u \in {c.h.units[i] : i \in DOMAIN c.h.units} :
        u.have_resp /\ u.rx = u.x /\ About(u.x).m = "HEAD" => c.d["SEND"].st # "BODY"
=============================================================================

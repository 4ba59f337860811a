------------------------------- MODULE Redis --------------------------------
(***************************************************************************)
(* One Redis connection as the agent sees it: a client that may send       *)
(* several commands ahead, a server that answers them in order and may     *)
(* publish in between, the calls their bytes are cut into, what becomes of *)
(* a call on its way to the agent, the framer and the handler.             *)
(***************************************************************************)
EXTENDS RedisFrame, TLC

CONSTANTS
    Scripts,       \* what each of the clients may send: sets of sequences of kinds
    Faults,        \* "cut", "lost", "oom", "pause"; "large": only payloads are cut
    Depth,         \* commands the client has under way at most
    MaxPushes,     \* bound: deliveries
    MaxFaults,     \* bound: calls not delivered whole, and long pauses
    MaxCall        \* bound: bytes of a call

(* Versions 2 and 3 of the protocol; over TLS; a connection the agent finds *)
(* in the middle of its first reply.                                        *)
Clients == {"resp2", "resp3", "tls", "late"}

Simple == {"get", "set", "ping", "fail", "many", "attr", "deep"}
Selects == {"select", "selbig"}           \* selbig: of a database past LK_REDIS_MAX_DB
Auths == {"auth", "authpw", "hello"}      \* a user and a password, only a password, in a HELLO
Stateful == {"multi", "exec", "discard", "reset"} \cup SubFam \cup Selects \cup Auths
Silent == {"void", "bad", "monitor"}

ASSUME RedisChoiceAssumption ==
    /\ DOMAIN Scripts \subseteq Clients
    /\ \A r \in DOMAIN Scripts : \A s \in Scripts[r] : s \in Seq(Simple \cup Stateful \cup Silent)
    /\ Faults \subseteq {"cut", "lost", "oom", "pause", "large"}
ASSUME RedisBoundAssumption ==
    {Depth, MaxPushes, MaxFaults, MaxCall} \subseteq Nat

VARIABLES
    client,    \* who is connected
    plan,      \* kinds of the commands sent
    wire,      \* bytes each peer has still to pass
    srv,       \* the server's view of the connection
    truth,     \* of each command the server has dealt with: what was the case then
    c,         \* the connection in the agent
    calls,     \* the call each command began in
    now,       \* stretches of time, more than a unit's timeout apart
    gap,       \* a call was lost that the sequence detector has not seen yet
    faults,    \* what went wrong so far
    pushes,    \* deliveries so far
    mode,      \* what to expect: "clean", "hurt", "disorder"
    doubt,     \* a command that moves a label or ends a transaction was missed
    base,      \* commands before the connection was last quiet
    told,      \* observations since, while it is clean
    closed

vars == <<client, plan, wire, srv, truth, c, calls, now, gap, faults, pushes, mode, doubt, base, told, closed>>

-----------------------------------------------------------------------------
Tokens(x, w, ts) == [i \in DOMAIN ts |-> [t |-> ts[i], x |-> x, w |-> w]]

Command(k, x) ==
    Tokens(x, k, CASE k \in {"set", "select"} -> <<"2", "V", "B", "q", "e">>
                   [] k \in {"selbig", "authpw"} -> <<"2", "V", "V">>
                   [] k = "auth" -> <<"3", "V", "V", "B", "q", "e">>
                   [] k = "hello" -> <<"5", "V", "V", "V", "V", "B", "q", "e">>
                   [] k = "discard" -> <<"1", "B", "q", "e">>
                   [] k = "ping" -> <<"i", "l">>
                   [] k = "void" -> <<"c", "0">>
                   [] k = "bad" -> <<"!">>
                   [] OTHER -> <<"1", "V">>)

Value(x, w) ==
    Tokens(x, w, CASE w \in {"ok", "queued"} -> <<"s">>
                   [] w = "err" -> <<"+", "c">>
                   [] w = "data" -> <<"B", "q", "e">>
                   [] w = "nil" -> <<"0">>
                   [] w = "all" -> <<"1", "B", "q", "e">>
                   [] w = "deep" -> <<"1", "1", "V">>
                   [] w = "attr" -> <<"|", "V">>
                   [] w = "pong" -> <<"1", "V">>
                   [] w \in {"confirm", "message"} -> <<IF srv.resp3 THEN ">" ELSE "1", "V">>)

(* LRANGE, of a list that begins with the word of a delivery.               *)
Looks(x) == Tokens(x, "message", <<"1", "V">>)

(* The values the server sends for outcome w of a command of kind k; the    *)
(* confirmations after the first are marked with -x.                        *)
Reply(x, k, w) ==
    CASE w \notin {"done", "part"} -> Value(x, w)
      [] k = "get" -> Value(x, "data")
      [] k = "many" -> Looks(x)
      [] k = "attr" -> Value(x, "attr") \o Value(x, "ok")
      [] k = "deep" -> Value(x, "deep")
      [] k \in {"exec", "hello"} -> Value(x, "all")
      [] k \in SubFam -> Value(x, "confirm") \o Value(-x, "confirm")
      [] k = "ping" /\ srv.sub /\ ~srv.resp3 -> Value(x, "pong")
      [] OTHER -> Value(x, "ok")

(* The database and the user.  at: as they are; then: as they will be when  *)
(* what is queued has been executed.                                        *)
Default == [db |-> 0, user |-> 0]
Pending == {l \in {"db", "user"} : srv.then[l] # srv.at[l]}

(* The label a command chooses, and what.                                   *)
Label(k) == CASE k \in Selects -> "db" [] k \in Auths -> "user" [] OTHER -> "none"
Choice(x, k) == IF k = "authpw" THEN 0 ELSE x

(* What the server may do with a command.  part: executed, but the choices  *)
(* among the commands that were queued were refused then.                   *)
Outcomes(k) ==
    CASE k \in {"fail", "bad"} -> {"err"}
      [] srv.sub /\ ~srv.resp3 /\ k \notin SubFam \cup {"ping", "reset"} -> {"err"}
      [] k = "reset" -> {"done"}
      [] k = "multi" -> {IF srv.multi = 0 THEN "done" ELSE "err"}
      [] k = "discard" -> {IF srv.multi = 0 THEN "err" ELSE "done"}
      [] k = "exec" -> IF srv.multi = 0 \/ srv.spoilt THEN {"err"}
                        ELSE {"done", "nil"} \cup {w \in {"part"} : Pending # {}}
      [] srv.multi # 0 -> {"queued", "err"}
      [] k \in Selects \cup Auths -> {"done", "err"}
      [] OTHER -> {"done"}

NoTxn == [multi |-> 0, spoilt |-> FALSE, queued |-> 0]

After(x, k, w) ==
    CASE k = "reset" -> NoTxn @@ [at |-> Default, then |-> Default, astray |-> {}, sub |-> FALSE,
                                  resp3 |-> FALSE]
      [] k = "multi" /\ w = "done" -> [srv EXCEPT !.multi = x]
      [] k = "exec" /\ w = "done" -> [(NoTxn @@ srv) EXCEPT !.at = srv.then]
      [] k \in {"exec", "discard"} -> [(NoTxn @@ srv) EXCEPT !.then = srv.at, !.astray = @ \cup Pending]
      [] srv.multi # 0 /\ w = "err" -> [srv EXCEPT !.spoilt = TRUE]
      [] w \in {"done", "queued"} /\ Label(k) # "none" ->
            [srv EXCEPT !.then[Label(k)] = Choice(x, k), !.astray = @ \ {Label(k)},
                        !.at[Label(k)] = IF w = "done" THEN Choice(x, k) ELSE @,
                        !.queued = IF w = "queued" THEN @ + 1 ELSE @]
      [] w = "queued" -> [srv EXCEPT !.queued = @ + 1]
      [] k = "sub" /\ w = "done" -> [srv EXCEPT !.sub = TRUE]
      [] k = "unsub" /\ w = "done" -> [srv EXCEPT !.sub = FALSE]
      [] OTHER -> srv

(* The transaction a command ends, and how.                                 *)
Ends(k, w) ==
    IF srv.multi # 0 /\ k \in {"exec", "discard", "reset"}
    THEN [txn |-> srv.multi, end |-> IF k = "exec" /\ w \in {"done", "part"} THEN "I" ELSE "E"]
    ELSE [txn |-> 0, end |-> "none"]

(* Bytes of the value that answers the command.                             *)
ReplyLen(x, k, w) ==
    CASE k = "attr" /\ w = "done" -> 1 [] k \in SubFam /\ w = "done" -> 2 [] OTHER -> Len(Reply(x, k, w))

(* Command x has bytes still to pass in direction d.                        *)
ToPass(w, d, x) == \E i \in DOMAIN w[d] : w[d][i].x = x

Replied(x) == plan[x] # "void"

-----------------------------------------------------------------------------
Init ==
    /\ gap = FALSE /\ faults = 0 /\ pushes = 0 /\ told = <<>> /\ closed = FALSE /\ base = 0 /\ now = 0
    /\ doubt = FALSE
    /\ client \in DOMAIN Scripts
    /\ srv = NoTxn @@ [at |-> Default, then |-> Default, astray |-> {}, sub |-> FALSE,
                       resp3 |-> client = "resp3"]
    /\ \/ /\ client # "late"
          /\ wire = [d \in {"RECV", "SEND"} |-> IF client = "tls" THEN Tokens(0, "tls", <<"x">>) ELSE <<>>]
          /\ plan = <<>> /\ calls = <<>> /\ truth = <<>> /\ mode = "clean"
          /\ c = NewConn(FALSE)
       \/ /\ client = "late"
          /\ plan = <<"get">> /\ calls = <<0>>
          /\ \E n \in 1 .. 3 :
                wire = [RECV |-> <<>>, SEND |-> SubSeq(Value(1, "data"), n, 3)]
          /\ truth = <<Default @@ [astray |-> {}, txn |-> 0, end |-> "none", n |-> 0, out |-> 3]>>
          /\ mode = "disorder" /\ c = NewConn(TRUE)

(* Nothing is under way, and the agent has nothing open.                    *)
Quiet ==
    /\ Len(truth) = Len(plan) /\ wire["RECV"] = <<>> /\ wire["SEND"] = <<>>
    /\ c.h.units = <<>> /\ c.h.early = <<>> /\ c.h.owed = 0 /\ ~c.ignore /\ ~gap
    /\ \A d \in {"RECV", "SEND"} : ~ValueOpen(c.d[d]) /\ ~c.d[d].dirty /\ c.d[d].tail = 0

NextKinds ==
    LET n == Len(plan)
    IN  {s[n + 1] : s \in {r \in Scripts[client] : Len(r) > n /\ SubSeq(r, 1, n) = plan}}

SendCommand ==
    \E k \in NextKinds :
        /\ ~closed
        /\ Cardinality({y \in DOMAIN plan : y > Len(truth) \/ ToPass(wire, "SEND", y)}) < Depth
        /\ plan' = Append(plan, k)
        /\ wire' = [wire EXCEPT !["RECV"] = @ \o Command(k, Len(plan) + 1)]
        /\ calls' = Append(calls, 0)
        /\ mode' = IF Quiet THEN "clean" ELSE mode
        /\ base' = IF Quiet THEN Len(plan) ELSE base
        /\ told' = IF Quiet THEN <<>> ELSE told
        /\ c' = [c EXCEPT !.h.out = <<>>]
        /\ UNCHANGED <<client, srv, truth, now, gap, faults, pushes, doubt, closed>>

(* The database and the user a command has: the one that ends a transaction *)
(* those it finds, one that is queued those it will be executed with.       *)
(* astray: a choice that was queued has not come to be, or not yet.         *)
Has(k) ==
    IF k \in {"exec", "discard", "reset"} THEN [astray |-> srv.astray \cup Pending] @@ srv.at
    ELSE [astray |-> srv.astray] @@ srv.then

(* The server reads a command and answers it.                               *)
Answer ==
    LET x == Len(truth) + 1
    IN  /\ ~closed /\ x <= Len(plan) /\ ~ToPass(wire, "RECV", x)
        /\ \E w \in Outcomes(plan[x]) :
              /\ truth' = Append(truth, [n |-> srv.queued, out |-> ReplyLen(x, plan[x], w)]
                                       @@ Has(plan[x]) @@ Ends(plan[x], w))
              /\ srv' = After(x, plan[x], w)
              /\ wire' = [wire EXCEPT !["SEND"] = @ \o IF Replied(x) THEN Reply(x, plan[x], w) ELSE <<>>]
        /\ c' = [c EXCEPT !.h.out = <<>>]
        /\ UNCHANGED <<client, plan, calls, now, gap, faults, pushes, mode, doubt, base, told, closed>>

(* A delivery to a subscriber.                                              *)
Publish ==
    /\ ~closed /\ srv.sub /\ pushes < MaxPushes
    /\ pushes' = pushes + 1
    /\ wire' = [wire EXCEPT !["SEND"] = @ \o Value(0, "message")]
    /\ c' = [c EXCEPT !.h.out = <<>>]
    /\ UNCHANGED <<client, plan, srv, truth, calls, now, gap, faults, mode, doubt, base, told, closed>>

-----------------------------------------------------------------------------
Units(g) == {g.h.units[i].x : i \in DOMAIN g.h.units}

Named(g) == {<<g.h.units[i].x, g.h.units[i].cmd>> : i \in DOMAIN g.h.units}

(* The reply to x has not been read to its end.                             *)
ToCome(w, g, x) == x > Len(truth) \/ ToPass(w, "SEND", x) \/ g.d["SEND"].v.x = x

(* The ring is not what the server has still to answer: a command is not in *)
(* it, or its reply has gone by.                                            *)
Misaligned(w, g) ==
    \/ \E x \in DOMAIN plan : /\ Replied(x) /\ ~ToPass(w, "RECV", x) /\ ToCome(w, g, x)
                              /\ x \notin Units(g) /\ g.d["RECV"].v.x # x
    \/ \E x \in Units(g) : ~ToCome(w, g, x)

(* Values of the server that the handler takes for what they are not: what  *)
(* is published in RESP2 after a RESET was sent, a list that begins like a  *)
(* delivery on a connection that has subscribed, a further confirmation     *)
(* while another command of that family waits.                              *)
Confuses(g, d, toks) ==
    \E i \in DOMAIN toks :
        LET tok == toks[i]
            array == (IF i = 1 THEN g.d[d].v.t ELSE toks[i - 1].t) = "1"
        IN  /\ tok.t = "V"
            /\ \/ array /\ tok.w = "message" /\ (tok.x = 0) # g.h.sub
               \/ array /\ tok.x < 0 /\ ~g.h.sub
               \/ tok.x < 0 /\ \E j \in DOMAIN g.h.units : /\ g.h.units[j].cmd \in SubFam
                                                         /\ g.h.units[j].x # -tok.x

(* What a call comes to that makes the connection in the agent g.  heard:   *)
(* it before, with what the sequence detector noticed; w: what is left to   *)
(* pass; got: bytes of the call that were captured.                         *)
Passed(d, toks, got, how, w, heard, g) ==
    LET missed == {toks[i].t : i \in got + 1 .. Len(toks)}
        whole == how # "oom" /\ ~gap /\ missed \subseteq {"q", "e"}
                 /\ \A i \in DOMAIN toks : toks[i].w \notin {"deep", "bad", "monitor"}
        dis == \/ Confuses(c, d, toks) \/ g.h.owed > c.h.owed
               \/ /\ mode # "clean" /\ d = "SEND" /\ how # "lost" /\ ~heard.d[d].dirty
                  /\ Misaligned(wire, c)
               \/ /\ ~(mode = "clean" /\ whole) /\ how # "lost" /\ ~g.d["SEND"].dirty
                  /\ g.d["SEND"].tail = 0 /\ Misaligned(w, g)
        clean == mode = "clean" /\ ~dis /\ whole
        worded == \E i \in got + 1 .. Len(toks) : toks[i].t = "q" /\ toks[i].w \in Stateful \ Selects
        mute == d = "RECV" /\ ~(mode = "clean" /\ whole)
                /\ \E x \in DOMAIN plan : /\ plan[x] \in Stateful /\ ~ToPass(w, d, x)
                                          /\ <<x, plan[x]>> \notin Named(g) /\ g.d[d].v.x # x
                                          /\ ToPass(wire, d, x) \/ c.d[d].v.x = x
        call == 1 + Cardinality({calls[y] : y \in DOMAIN calls} \ {0})
    IN  /\ wire' = w
        /\ gap' = (how = "lost")
        /\ c' = g
        /\ calls' = [y \in DOMAIN calls |->
                        IF d = "RECV" /\ calls[y] = 0 /\ \E i \in DOMAIN toks : toks[i].x = y THEN call
                        ELSE calls[y]]
        /\ mode' = CASE dis \/ mode = "disorder" -> "disorder" [] clean -> "clean" [] OTHER -> "hurt"
        /\ doubt' = (doubt \/ dis \/ mute \/ worded)
        /\ told' = IF clean THEN told \o [i \in DOMAIN g.h.out |-> [x |-> g.h.out[i].x, rx |-> g.h.out[i].rx]]
                   ELSE <<>>
        /\ UNCHANGED <<client, plan, srv, truth, now, pushes, base, closed>>

(* A call of n bytes in direction d, of which cap reach the agent.          *)
Pass(d, n, cap, how) ==
    LET toks == SubSeq(wire[d], 1, n)
        heard == [c EXCEPT !.d = [r \in {"RECV", "SEND"} |-> [@[r] EXCEPT !.dirty = @ \/ gap]]]
    IN  /\ wire[d][1].t = "x" => n = 1
        /\ Passed(d, toks, cap, how, [wire EXCEPT ![d] = SubSeq(@, n + 1, Len(@))], heard,
                  ReasmData(heard, d, toks, cap, now, how # "oom"))

Calls(d) == 1 .. (IF Len(wire[d]) < MaxCall THEN Len(wire[d]) ELSE MaxCall)

Fault(f) == ~closed /\ f \in Faults /\ faults < MaxFaults /\ faults' = faults + 1

(* A call reaches the agent; not all of it may have been captured, or there *)
(* may be no memory for what has to be kept of it.                          *)
Deliver ==
    \E d \in {"RECV", "SEND"} : \E n \in Calls(d) :
        \E cap \in 0 .. n, how \in {"full", "cut", "oom", "large"} :
            /\ ~closed /\ (cap < n) = (how \in {"cut", "large"})
            /\ how = "large" => how \in Faults /\ \A i \in cap + 1 .. n : wire[d][i].t \in {"q", "e"}
            /\ IF how \in {"full", "large"} THEN UNCHANGED faults ELSE Fault(how)
            /\ Pass(d, n, cap, how)

Lose ==
    /\ Fault("lost")
    /\ \E d \in {"RECV", "SEND"} : \E n \in Calls(d) :
          Passed(d, SubSeq(wire[d], 1, n), 0, "lost", [wire EXCEPT ![d] = SubSeq(@, n + 1, Len(@))],
                 c, [c EXCEPT !.h.out = <<>>])

(* Nothing happens for longer than a unit may wait.                         *)
Pause ==
    /\ Fault("pause") /\ now' = now + 1
    /\ mode' = IF mode = "clean" /\ (c.h.units # <<>> \/ ValueOpen(c.d["RECV"])) THEN "hurt" ELSE mode
    /\ told' = IF mode' = "clean" THEN told ELSE <<>>
    /\ c' = [c EXCEPT !.h.out = <<>>]
    /\ UNCHANGED <<client, plan, wire, srv, truth, calls, gap, pushes, doubt, base, closed>>

(* The rest of the connection goes with it.                                 *)
Close ==
    /\ ~closed /\ closed' = TRUE
    /\ c' = [NewConn(FALSE) EXCEPT !.h.out = OnConnClose([c.h EXCEPT !.out = <<>>]).out]
    /\ wire' = [d \in {"RECV", "SEND"} |-> <<>>] /\ plan' = <<>> /\ calls' = <<>> /\ truth' = <<>>
    /\ srv' = NoTxn @@ [at |-> Default, then |-> Default, astray |-> {}, sub |-> FALSE, resp3 |-> FALSE]
    /\ now' = 0 /\ gap' = FALSE /\ pushes' = 0 /\ mode' = "clean" /\ doubt' = FALSE /\ base' = 0
    /\ told' = <<>> /\ UNCHANGED <<client, faults>>

Next == SendCommand \/ Answer \/ Publish \/ Deliver \/ Lose \/ Pause \/ Close

Spec == Init /\ [][Next]_vars

-----------------------------------------------------------------------------
Observed == {c.h.out[i] : i \in DOMAIN c.h.out}

(* Command x is answered, and neither it nor its reply waits for the rest   *)
(* of a call to be told.                                                    *)
Over(x) ==
    /\ x <= Len(truth) /\ Replied(x) /\ plan[x] # "monitor"
    /\ ~ToPass(wire, "SEND", x) /\ \A d \in {"RECV", "SEND"} : c.d[d].v.x # x

(* From any quiet moment on, commands are observed once each, in the order  *)
(* they were sent, each with its own reply: a value too large for the       *)
(* capture budget does not change that, though its command may be put       *)
(* together only after the reply has been read (early_claim), and neither   *)
(* do attributes, empty commands, deliveries and further confirmations,     *)
(* but for three cases the handler gets wrong (Confuses).  What is          *)
(* published in RESP2 after the client sent a RESET is taken for a reply,   *)
(* a further confirmation answers the next command of that family if it is  *)
(* waiting, and a list that begins with the word of a delivery is none for  *)
(* a connection that has subscribed.  DeliveriesCloseNothing,               *)
(* FurtherCloseNothing and AllAnswered state what they break.               *)
AllReported ==
    mode = "clean" =>
        LET n == Cardinality({x \in base + 1 .. Len(plan) : Over(x)})
        IN  /\ Len(told) = n
            /\ \A i \in 1 .. n : /\ Over(told[i].x) /\ told[i].x = told[i].rx
                                 /\ \A j \in 1 .. i - 1 : told[j].x < told[i].x

(* Sizes are those on the wire under any capture budget, and the depth of a *)
(* pipeline is the number of commands that began in the same call           *)
(* (batch_new): never more, and no less once the last of them is answered.  *)
SizesTrue ==
    mode = "clean" =>
        \A o \in Observed :
            LET batch == {y \in DOMAIN plan : calls[y] = calls[o.x] /\ Replied(y)}
            IN  /\ o.bytes_in = Len(Command(plan[o.x], o.x))
                /\ o.bytes_out = truth[o.x].out
                /\ o.depth \in 1 .. Cardinality(batch)
                /\ (\A y \in batch : y <= o.x) => o.depth = Cardinality(batch)

(* The number of the database is one parse_db reads.                        *)
Readable(db) == db = 0 \/ plan[db] # "selbig"

(* A label names the database and the user the server had for the command,  *)
(* or says that it is not known: commands dropped in flight, refused,       *)
(* superseded or cut short leave no wrong name (session_apply,              *)
(* units_drop_all, lk_redis_session).  With nothing missed the database is  *)
(* known, if its number is one that parse_db reads.  Two things are left    *)
(* out.  A label chosen by a command that was queued is wrong for the       *)
(* command that ends the transaction, and after it if the choice was thrown *)
(* away or refused, until the next choice (DatabaseTrue).  And nothing is   *)
(* said once a command that moves a label was missed, cut before its last   *)
(* argument, or paired with another's reply.                                *)
SessionTrue ==
    mode # "disorder" /\ ~doubt =>
        \A o \in Observed :
            LET has == truth[o.x]
            IN  /\ "db" \in has.astray \/ o.db \in {Unknown, has.db}
                /\ "user" \in has.astray \/ o.user \in {Unknown, has.user}
                /\ (mode = "clean" /\ faults = 0 /\ client # "late" /\ "db" \notin has.astray)
                   => o.db = IF Readable(has.db) THEN has.db ELSE Unknown

(* A transaction is reported by the reply that ended it, from its MULTI, as *)
(* the server decided: committed, or discarded, refused or stopped by a     *)
(* WATCH (txn_apply); its size is the number of commands queued.            *)
TxnsTrue ==
    mode # "disorder" /\ ~doubt =>
        \A o \in Observed :
            /\ o.txn # 0 => o.txn = truth[o.x].txn /\ o.end = truth[o.x].end
            /\ (mode = "clean" /\ faults = 0 /\ client # "late")
               => o.txn = truth[o.x].txn /\ o.txn_size = (IF plan[o.x] = "exec" THEN truth[o.x].n ELSE 0)

(* What redis.c says the ring is for: an observation never pairs a command  *)
(* with the reply to another.                                               *)
RepliesPaired == \A o \in Observed : o.x = o.rx

(* What redis.c says of a delivery (kind_is_delivery): it closes no unit.   *)
DeliveriesCloseNothing == \A o \in Observed : o.rx # 0

(* Of the confirmations of one command the first answers it and the others  *)
(* answer nothing (the confirmation rule of redis_reply).                   *)
FurtherCloseNothing == \A o \in Observed : o.rx >= 0

(* While subscribed in RESP3 commands are answered as ever: when all the    *)
(* replies have been read whole, no unit is left waiting (reply_kind).      *)
AllAnswered ==
    Len(truth) = Len(plan) /\ wire["RECV"] = <<>> /\ wire["SEND"] = <<>> /\ faults = 0
    => c.h.units = <<>>

(* Only a SELECT that succeeded moves the database label (session_apply):   *)
(* a command that ends no transaction has its database for a label.         *)
DatabaseTrue ==
    mode = "clean" =>
        \A o \in Observed : truth[o.x].txn = 0 => o.db \in {Unknown, truth[o.x].db}
=============================================================================

------------------------------- MODULE MySql --------------------------------
(***************************************************************************)
(* One MySQL connection as the agent sees it: a client and a server that   *)
(* follow the protocol, the packets of one exchange after the other in     *)
(* script, the framing hooks of src/proto/my/my_frame.c, and the handlers. *)
(*                                                                         *)
(* A packet reaches the handlers whole, in part, or not at all.  A packet  *)
(* whose header is lost leaves its direction dirty until the next anchor.  *)
(***************************************************************************)
EXTENDS MyHandlers

CONSTANTS
    Commands,   \* commands the client sends
    CapSets,    \* capabilities a client may announce
    Joins,      \* how the agent came to the connection: "open", "synthetic"
    Logins,     \* shapes of the handshake beyond the plain one
    Late,       \* commands it goes on with after two exchanges
    Hows,       \* what may happen to a packet: m.how of MyConn, "lost"
    MaxExchanges,  \* bound: exchanges
    MaxFaults      \* bound: packets not delivered whole

ASSUME MyChoiceAssumption ==
    /\ Joins \subseteq {"open", "synthetic"} /\ Logins \subseteq {"ssl", "switch", "refused"}
    /\ Late \subseteq Commands /\ Hows \subseteq {"cut", "in name", "in db", "blind", "lost", "oom"}
ASSUME MyBoundAssumption == MaxExchanges \in Nat /\ MaxFaults \in Nat

VARIABLES
    c,       \* struct my_conn
    fr,      \* the framer's part of struct lk_conn: startup_done, dirt, flags
    script,  \* packets of the exchange that are still to come
    srv,     \* the server
    ex,      \* the exchange: what an observation of it has to say
    hurt     \* what happened to packets, and how often

vars == <<c, fr, script, srv, ex, hurt>>

-----------------------------------------------------------------------------
(* Packets.                                                                 *)

Server == [dir |-> "SEND", seq |-> 2, head |-> "n", len |-> "long", st |-> {}, n |-> 1,
           db |-> NoName, defs |-> TRUE, progress |-> FALSE, id |-> 0, how |-> "full"]

Client == [dir |-> "RECV", seq |-> 2, head |-> "none", text |-> NoText, attrs |-> "none", id |-> 0,
           db |-> NoName, user |-> NoName, caps |-> {}, ssl |-> FALSE, n |-> 1, how |-> "full"]

Ok(n, st) == [Server EXCEPT !.head = "00", !.n = n, !.st = st]
Err == [Server EXCEPT !.head = "ff"]
Progress == [Err EXCEPT !.progress = TRUE]
Eof(st) == [Server EXCEPT !.head = "fe", !.len = "short", !.st = st, !.n = 0]
LongEnd(st) == [Server EXCEPT !.head = "fe", !.st = st, !.n = 0]
Row == Server
HugeRow == [Server EXCEPT !.head = "fe", !.len = "huge"]
Def == [Server EXCEPT !.n = 3]
Data == Client
Command(k) == [Client EXCEPT !.seq = 0, !.head = k]

(* The first packet of a reply has the sequence number 1.                   *)
Reply(ps) == [ps EXCEPT ![1].seq = 1]

(* A result set: the count, the definition, the rows; without DEPRECATE_EOF *)
(* an EOF behind the definition.                                            *)
Meta(caps, st) ==
    (IF "mcache" \in caps THEN <<[Server EXCEPT !.defs = FALSE]>> ELSE <<Server, Def>>)
        \o (IF caps \cap {"deof", "mcache"} = {} THEN <<Eof(st)>> ELSE <<>>)

ResultSet(caps, rows, st) == Meta(caps, st \ {"MORE"}) \o rows \o <<Eof(st)>>

-----------------------------------------------------------------------------
(* What the server answers.  external: a MySQL server as src/proto/my takes *)
(* it to be.                                                                *)

(* txn: the server is in a transaction when it has answered; shows: the end *)
(* of the reply says so; new: the transaction is not the one of before.     *)
Answer(ps, rows, txn) ==
    [ps |-> Reply(ps), rows |-> rows, txn |-> txn, err |-> FALSE, susp |-> FALSE,
     shows |-> TRUE, new |-> FALSE]

Mute(a) == [a EXCEPT !.shows = FALSE]

In(txn) == IF txn THEN {"T"} ELSE {}

(* An error carries no status.                                              *)
Refusal(ps) == Mute([Answer(ps, 0, srv.txn) EXCEPT !.err = TRUE])

(* A deadlock rolls the transaction back; COMMIT AND CHAIN begins another.  *)
Turns ==
    IF ~srv.txn THEN {}
    ELSE {[Refusal(<<Err>>) EXCEPT !.txn = FALSE], [Answer(<<Ok(0, {"T"})>>, 0, TRUE) EXCEPT !.new = TRUE]}

StatementAnswers(text) ==
    LET st == In(srv.txn)
    IN IF text = Rollback THEN {Answer(<<Ok(0, {})>>, 0, FALSE)}
       ELSE {Answer(<<Ok(1, In(t))>>, 1, t) : t \in BOOLEAN}
            \cup {Answer(ResultSet(srv.caps, <<Row>>, st), 1, srv.txn),
                  Answer(ResultSet(srv.caps, <<HugeRow>>, st), 1, srv.txn),
                  Answer(ResultSet(srv.caps, <<Row>>, st \cup {"MORE"})
                            \o ResultSet(srv.caps, <<Row>>, st), 2, srv.txn),
                  Refusal(<<Err>>), Refusal(Meta(srv.caps, st) \o <<Row, Err>>)}
            \cup Turns
            \cup (IF "deof" \in srv.caps
                  THEN {Answer(Meta(srv.caps, st) \o <<Row, LongEnd(st)>>, 1, srv.txn)} ELSE {})
            \cup (IF "progress" \in srv.caps
                  THEN {Answer(<<Progress, Ok(1, st)>>, 1, srv.txn)} ELSE {})

Infile(st) == Answer(<<[Server EXCEPT !.head = "fb"], Data, [Data EXCEPT !.n = 0], Ok(1, st)>>,
                     1, srv.txn)

Cursor(ps, rows, st) == [Answer(ps \o <<Eof(st)>>, rows, srv.txn) EXCEPT !.susp = "LAST_ROW" \notin st]

PrepareAnswers(id) ==
    {Mute(Answer(<<[Server EXCEPT !.head = "00", !.id = id, !.n = k]>> \o [i \in 1 .. k |-> Def]
              \o IF k > 0 /\ "deof" \notin srv.caps THEN <<Eof({})>> ELSE <<>>, 0, srv.txn))
       : k \in {0, 2}}

(* The server uses the id of a closed statement again.                      *)
FreshIds == {i \in StmtIds : srv.stmts[i] = NoText}

(* The client's packet p, the answer a, and what they do to the server.     *)
Exchange(p, a, query, text, s) == [p |-> p, a |-> a, query |-> query, text |-> text, srv |-> s]

NoStmts == [i \in StmtIds |-> NoText]

Plain(k, a) == Exchange(Command(k), a, FALSE, NoText, srv)

Done(ps) == Answer(ps, 0, srv.txn)

NoAnswer == Mute([Done(<<Err>>) EXCEPT !.ps = <<>>])

Attrs == IF "attrs" \in srv.caps THEN {"empty", "params"} ELSE {"none"}

Exchanges(k) ==
    CASE k = "QUERY" ->
           {Exchange([Command(k) EXCEPT !.text = t, !.attrs = at], a, TRUE, t, srv)
              : t \in Texts \ {Rollback}, at \in Attrs \ {"empty"}, a \in {Infile(In(srv.txn))}}
           \cup UNION {{Exchange([Command(k) EXCEPT !.text = t, !.attrs = at], a, TRUE, t, srv)
                          : a \in StatementAnswers(t), at \in Attrs \ {"params"}} : t \in Texts}
      [] k = "USE" ->
           IF "track" \notin srv.caps THEN {}
           ELSE {Exchange([Command("QUERY") EXCEPT !.text = t, !.attrs = CHOOSE at \in Attrs : at # "params"],
                          Done(<<[Ok(0, In(srv.txn) \cup {"CHANGED"}) EXCEPT !.db = d]>>), TRUE, t,
                          [srv EXCEPT !.db = d, !.dbs = @ \cup {d}])
                   : t \in Texts \ {Rollback}, d \in Names \ {srv.db}}
      [] k = "STMT_PREPARE" ->
           UNION {{Exchange([Command(k) EXCEPT !.text = t], a, FALSE, NoText,
                            [srv EXCEPT !.stmts[i] = t])
                     : a \in PrepareAnswers(i), t \in Texts} : i \in FreshIds}
           \cup {Plain(k, Refusal(<<Err>>))}
      [] k = "STMT_EXECUTE" ->
           UNION {{Exchange([Command(k) EXCEPT !.id = i], a, TRUE, srv.stmts[i], srv)
                     : a \in StatementAnswers(srv.stmts[i])
                             \cup {Cursor(Meta(srv.caps \cup {"deof"}, {}), 0, In(srv.txn) \cup {"CURSOR"})}}
                  : i \in {j \in StmtIds : srv.stmts[j] # NoText}}
      [] k = "STMT_FETCH" ->
           {Exchange([Command(k) EXCEPT !.id = i],
                     Cursor(<<Row>>, 1, In(srv.txn) \cup {"CURSOR"} \cup last), TRUE, srv.stmts[i], srv)
              : i \in {j \in StmtIds : srv.stmts[j] # NoText}, last \in {{}, {"LAST_ROW"}}}
      [] k = "STMT_CLOSE" ->
           {Exchange([Command(k) EXCEPT !.id = i], NoAnswer, FALSE, NoText,
                     [srv EXCEPT !.stmts[i] = NoText])
              : i \in {j \in StmtIds : srv.stmts[j] # NoText}}
      [] k = "INIT_DB" ->
           UNION {{Exchange([Command(k) EXCEPT !.db = d], Done(<<Ok(0, In(srv.txn))>>), FALSE, NoText,
                            [srv EXCEPT !.db = d, !.dbs = @ \cup {d}]),
                   Exchange([Command(k) EXCEPT !.db = d], Refusal(<<Err>>), FALSE, NoText, srv)}
                  : d \in Names \ {srv.db}}
      [] k = "CHANGE_USER" ->
           UNION {{Exchange([Command(k) EXCEPT !.user = u, !.db = u], 
                            Mute([Done(w \o <<Ok(0, {})>>) EXCEPT !.txn = FALSE]), FALSE, NoText,
                            [srv EXCEPT !.user = u, !.db = u, !.users = @ \cup {u}, !.dbs = @ \cup {u},
                                        !.stmts = NoStmts]),
                   Exchange([Command(k) EXCEPT !.user = u, !.db = u], Refusal(w \o <<Err>>), FALSE, NoText,
                            [srv EXCEPT !.alive = FALSE])}
                  : u \in Names \ {srv.user}, w \in {<<>>, <<[Eof({}) EXCEPT !.len = "long"], Data>>}}
      [] k = "RESET_CONNECTION" ->
           {Exchange(Command(k), [Done(<<Ok(0, {})>>) EXCEPT !.txn = FALSE], FALSE, NoText,
                     [srv EXCEPT !.stmts = NoStmts])}
      [] k = "STATISTICS" -> {Plain(k, Mute(Done(<<Server>>)))}
      [] k = "FIELD_LIST" -> {Plain(k, Mute(Done(<<Def, Eof(In(srv.txn))>>))), Plain(k, Refusal(<<Err>>))}
      [] k = "BINLOG_DUMP" -> {Plain(k, Mute(Done(<<Ok(1, {}), Ok(1, {})>>)))}
      [] k = "PING" -> {Plain(k, Done(<<Ok(0, In(srv.txn))>>))}
      [] k = "PROCESS_INFO" -> {Plain(k, Done(ResultSet(srv.caps, <<Row>>, In(srv.txn))))}
      [] k = "unknown" -> {Plain(k, Refusal(<<Err>>))}
      [] k = "QUIT" -> {Exchange(Command(k), NoAnswer, FALSE, NoText, [srv EXCEPT !.alive = FALSE])}

(* The handshake: greeting, perhaps a request for TLS, response, perhaps a  *)
(* change of the authentication method, and the verdict.                    *)
Login(caps, how) ==
    LET resp == [Client EXCEPT !.seq = 1, !.caps = caps, !.ssl = "ssl" \in how,
                               !.user = CHOOSE u \in Names : TRUE, !.db = CHOOSE d \in Names : TRUE]
    IN <<[Server EXCEPT !.seq = 0]>>
       \o (IF "ssl" \in how THEN <<[resp EXCEPT !.user = NoName]>> ELSE <<>>)
       \o <<resp>>
       \o (IF "switch" \in how THEN <<[Eof({}) EXCEPT !.len = "long"], Data>> ELSE <<>>)
       \o <<IF "refused" \in how THEN Err ELSE Ok(0, {})>>

-----------------------------------------------------------------------------
(* The framing hooks (my_frame.c) on a packet whose header was captured.    *)

CmdOk == {"QUERY", "STMT_PREPARE", "STMT_EXECUTE", "STMT_FETCH", "STMT_CLOSE", "INIT_DB",
          "CHANGE_USER", "RESET_CONNECTION", "STATISTICS", "FIELD_LIST", "BINLOG_DUMP",
          "QUIT", "STMT_SEND_LONG_DATA", "MARIADB_BULK"} \cup Service

(* my_resync_boundary: a known command, or the first packet of a reply.     *)
ResyncBoundary(m) ==
    IF m.dir = "RECV" THEN m.seq = 0 /\ Seen(m) /\ m.head \in CmdOk
    ELSE m.seq = 1 /\ m.len # "huge"

IsCommand(f, m) == m.dir = "RECV" /\ "RECV" \in f.started /\ m.seq = 0

TypeOf(f, m) == IF IsCommand(f, m) /\ Seen(m) THEN m.head ELSE "none"

(* The phase is over: with compression negotiated the rest is unreadable.   *)
Over(f) == [f EXCEPT !.started = @ \cup {"SEND"},
                     !.flags = @ \cup IF "COMPRESS" \in f.flags THEN {"IGNORE"} ELSE {}]

PreEmit(f, m) ==
    IF IsCommand(f, m) THEN Over(f)
    ELSE IF m.dir = "RECV" /\ "RECV" \notin f.started
    THEN IF Seen(m) /\ m.ssl /\ "TLS" \notin f.flags THEN [f EXCEPT !.flags = @ \cup {"TLS"}]
         ELSE [f EXCEPT !.started = @ \cup {"RECV"},
                        !.flags = @ \cup IF Seen(m) /\ "compress" \in m.caps THEN {"COMPRESS"} ELSE {}]
    ELSE IF m.dir = "SEND" /\ "SEND" \notin f.started /\ Seen(m) /\ m.head = "00" THEN Over(f)
    ELSE f

-----------------------------------------------------------------------------
(* The agent's step on a packet: framing, an anchor perhaps, the handler.   *)

Handled(d, f, m) ==
    IF m.dir = "RECV"
    THEN FrontendMsg(d, TypeOf(f, m),
                     IF "COMPRESS" \in f.flags /\ IsCommand(f, m) THEN [m EXCEPT !.text = Garbage] ELSE m,
                     ex.n)
    ELSE BackendMsg(d, m, ex.n, "IGNORE" \in PreEmit(f, m).flags)

CutsName(m, how) == m.user # NoName \/ (how = "in name" /\ m.head = "INIT_DB")

Queries(out) == Cardinality({i \in DOMAIN out : out[i].what = "query"})

Deliver(how) ==
    LET m      == [Head(script) EXCEPT !.how = how]
        idle   == [c EXCEPT !.out = <<>>]
        deaf   == "IGNORE" \in fr.flags \/ (m.dir \in fr.dirty /\ (how = "lost" \/ ~ResyncBoundary(m)))
        anchor == m.dir \in fr.dirty
        f      == [fr EXCEPT !.dirty = @ \ {m.dir}, !.started = @ \cup IF anchor THEN {m.dir} ELSE {}]
        d      == Handled(IF anchor THEN OnResync(idle) ELSE idle, f, m)
        g      == PreEmit(f, m)
        clean  == ex.clean /\ how = "full" /\ ~anchor
    IN /\ script # <<>>
       /\ how # "full" => hurt.count < MaxFaults
       /\ how \in {"in name", "in db"} => m.dir = "RECV" /\ CutsName(m, how)
       /\ script' = Tail(script)
       /\ srv' = srv
       /\ hurt' = [count |-> hurt.count + IF how = "full" THEN 0 ELSE 1,
                   hows |-> hurt.hows \cup ({how} \ {"full"})]
       /\ IF deaf THEN c' = idle /\ fr' = fr /\ ex' = ex
          ELSE IF how = "lost"
          THEN c' = idle /\ fr' = [fr EXCEPT !.dirty = @ \cup {m.dir}] /\ ex' = [ex EXCEPT !.clean = FALSE]
          ELSE /\ c' = d
               /\ fr' = [g EXCEPT !.flags = @ \cup IF d.phase = "IGNORE" THEN {"IGNORE"} ELSE {}]
               /\ ex' = [ex EXCEPT !.clean = clean, !.told = @ + Queries(d.out)]

(* The client's next command, and the reply the server will give.           *)
Send(k) ==
    /\ script = <<>> /\ srv.alive /\ ex.n < MaxExchanges /\ (ex.n >= 2 => k \in Late)
    /\ \E e \in Exchanges(k) :
         LET begun == e.a.txn /\ (e.a.new \/ ~srv.txn)
             ended == srv.txn /\ (e.a.new \/ ~e.a.txn)
         IN /\ script' = <<e.p>> \o e.a.ps
            /\ srv' = [e.srv EXCEPT !.txn = e.a.txn, !.began = IF begun THEN ex.n + 1 ELSE @,
                                    !.shown = IF e.a.shows THEN e.a.txn ELSE @,
                                    !.since = IF e.a.shows /\ ~srv.shown THEN ex.n + 1 ELSE @]
            /\ ex' = [n |-> ex.n + 1, query |-> e.query, text |-> e.text, rows |-> e.a.rows,
                      err |-> e.a.err, susp |-> e.a.susp, told |-> 0, piped |-> FALSE,
                      ended |-> IF ended THEN srv.began ELSE 0,
                      unshown |-> IF e.a.shows /\ ~e.a.txn /\ srv.shown THEN srv.since ELSE 0,
                      clean |-> fr.dirty = {} /\ fr.flags \cap {"IGNORE", "COMPRESS"} = {}]
    /\ c' = [c EXCEPT !.out = <<>>]
    /\ UNCHANGED <<fr, hurt>>

(* A statement is closed while the reply to another command is under way.   *)
Pipeline ==
    /\ script # <<>> /\ ex.n > 0 /\ ~ex.piped /\ script[1].dir = "SEND"
    /\ \E i \in StmtIds :
         /\ srv.stmts[i] # NoText
         /\ script' = <<[Command("STMT_CLOSE") EXCEPT !.id = i]>> \o script
         /\ srv' = [srv EXCEPT !.stmts[i] = NoText]
    /\ ex' = [ex EXCEPT !.piped = TRUE]
    /\ c' = [c EXCEPT !.out = <<>>]
    /\ UNCHANGED <<fr, hurt>>

(* my_on_conn_close: on every way a connection leaves the table.            *)
ConnClose ==
    /\ srv.alive \/ script # <<>>
    /\ c' = NewConn(FALSE)
    /\ srv' = [srv EXCEPT !.alive = FALSE]
    /\ script' = <<>>
    /\ ex' = [ex EXCEPT !.clean = FALSE]
    /\ UNCHANGED <<fr, hurt>>

Init ==
    \E join \in Joins, caps \in CapSets, how \in {{}} \cup {{l} : l \in Logins} :
      LET syn == join = "synthetic"
      IN /\ syn => how = {}
         /\ c = NewConn(syn)
         /\ fr = [started |-> {}, dirty |-> IF syn THEN {"RECV", "SEND"} ELSE {}, flags |-> {}]
         /\ script = IF syn THEN <<>> ELSE Login(caps, how)
         /\ srv = LET name == CHOOSE u \in Names : TRUE
                  IN [caps |-> caps, stmts |-> NoStmts, txn |-> FALSE, began |-> 0,
                      shown |-> FALSE, since |-> 0, user |-> name, db |-> name, users |-> {name}, dbs |-> {name},
                      alive |-> "refused" \notin how, joined |-> syn, refused |-> "refused" \in how]
         /\ ex = [n |-> 0, query |-> FALSE, text |-> NoText, rows |-> 0, err |-> FALSE, susp |-> FALSE,
                  told |-> 0, piped |-> FALSE, ended |-> 0, unshown |-> 0, clean |-> FALSE]
         /\ hurt = [count |-> 0, hows |-> {}]

Next ==
    \/ \E how \in Hows \cup {"full"} : Deliver(how)
    \/ \E k \in Commands : Send(k)
    \/ Pipeline
    \/ ConnClose

Spec == Init /\ [][Next]_vars

-----------------------------------------------------------------------------
(* The capabilities the agent goes by lead it to the right terminators.     *)
CapsTrue ==
    IF c.known THEN c.caps = srv.caps ELSE srv.caps \cap {"deof", "mcache", "progress"} = {}

(* An observation is of one exchange: the command that opened its unit is   *)
(* the one whose reply closed it (emit_unit, the drops of my.c).            *)
NeverSpans ==
    \A i \in DOMAIN c.out : c.out[i].what = "query" =>
        c.out[i].start = ex.n /\ c.out[i].first \in {0, ex.n} /\ ex.query

(* With capabilities that lead to the right terminators an observation is   *)
(* of one exchange, it failed if the server said so, and its text, when it  *)
(* has one, is the text the server ran.  The text of a statement is taken   *)
(* from a cache, and the server uses ids again: it is right while every     *)
(* packet was captured.  (A progress report of MariaDB that is cut reads as *)
(* an error.)                                                               *)
ObsTrue ==
    CapsTrue =>
        /\ NeverSpans
        /\ \A i \in DOMAIN c.out : c.out[i].what = "query" =>
              /\ ("progress" \in srv.caps => "cut" \notin hurt.hows) =>
                    ("ERROR" \in c.out[i].flags) = ex.err
              /\ ~srv.joined /\ hurt.hows \subseteq {"oom"} => c.out[i].text \in {NoText, ex.text}

(* An exchange of which every packet was captured, on directions in step,   *)
(* is reported once if it ran a query and never if it did not, with the     *)
(* rows the server sent or changed, whatever was lost before it (the reply  *)
(* machine follows every shape of reply to its end).                        *)
CleanReported ==
    ex.clean /\ CapsTrue =>
        /\ script = <<>> => ex.told = IF ex.query THEN 1 ELSE 0
        /\ \A i \in DOMAIN c.out : c.out[i].what = "query" /\ ~ex.err =>
              /\ c.out[i].rows = ex.rows
              /\ ("SUSPENDED" \in c.out[i].flags) = ex.susp

(* What a label made from one of the names S may read.                      *)
Told(S) == S \cup {NoName} \cup {Stem[n] : n \in S}

(* The labels are names the server accepted, or the captured part of one,   *)
(* never ones it refused, unless the body of a verdict was not captured;    *)
(* and while every packet was captured they are the session's own between   *)
(* two exchanges.  A session is reported once, and only for a login the     *)
(* server granted; reported as complete, with the names of that login whole *)
(* (session.complete).                                                      *)
LabelsTrue ==
    /\ "blind" \notin hurt.hows =>
          /\ c.db \in Told(srv.dbs) /\ c.user \in Told(srv.users)
          /\ c.emitted => ~srv.refused
    /\ \A i \in DOMAIN c.out : c.out[i].what = "session" /\ c.out[i].complete =>
          c.out[i].user = srv.user /\ c.out[i].db = srv.db
    /\ hurt.hows \subseteq {"oom"} /\ ~srv.joined /\ script = <<>> /\ srv.alive /\ c.phase = "READY" =>
          c.db = srv.db /\ c.user = srv.user /\ c.emitted

(* A span is reported by the reply whose status is the first to show no     *)
(* transaction, as rolled back only by a ROLLBACK, and never from before    *)
(* the reply whose status was the first to show one: what was lost may only *)
(* hide the first statements.  With nothing lost it is from that reply      *)
(* (txn_track, my_on_resync).  Excepted are packets captured in part: those *)
(* end nothing and reset nothing.                                           *)
TxnTrue ==
    hurt.hows \subseteq {"oom", "lost"} =>
        \A i \in DOMAIN c.out : c.out[i].what = "txn" =>
            /\ ex.unshown # 0 /\ c.out[i].to = ex.n /\ c.out[i].from >= ex.unshown
            /\ "lost" \notin hurt.hows /\ ~srv.joined => c.out[i].from = ex.unshown
            /\ c.out[i].final = "E" => ex.query /\ ex.text = Rollback

(* Not so: a span is one transaction of the server.  An error that rolls    *)
(* back, a COMMIT AND CHAIN and a change of user end one without a status   *)
(* that says so, and the span goes on (terminator_err, session_ok).         *)
TxnExact ==
    hurt.count = 0 /\ ~srv.joined =>
        \A i \in DOMAIN c.out : c.out[i].what = "txn" => ex.ended # 0 /\ c.out[i].from = ex.ended
=============================================================================

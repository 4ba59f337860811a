------------------------------ MODULE PgQuery -------------------------------
(***************************************************************************)
(* The PostgreSQL handlers (src/proto/pg: pg.c, pg_query.c, pg_prep.c,     *)
(* pg_session.c) of one connection, watching a client and a server talk.   *)
(*                                                                         *)
(* The agent sees a request when the server receives it and a reply when   *)
(* the server sends it; queue is what lies between.  Every request has a   *)
(* number and every reply carries the number of the request it answers:    *)
(* the agent does not see the numbers, its timestamps stand for them.  An  *)
(* observation is right when all it is made of carries one number.         *)
(*                                                                         *)
(* The framer's part is a set of directions that are dirty: their messages *)
(* are not delivered until the anchor of the direction is found.           *)
(***************************************************************************)
EXTENDS Integers, Sequences, FiniteSets

CONSTANTS
    Names,        \* names of prepared statements
    Unnamed,      \* the one of them that a Parse overwrites
    Texts,        \* texts of statements
    NoText,       \* no text
    MaxInflight,  \* LK_PG_MAX_INFLIGHT
    PrepCache,    \* LK_PG_PREP_CACHE
    Kinds,        \* what the client sends: "Q", "F", "P", "B", "C"
    Replies,      \* what the server may answer beyond C, E and Z
    Faults,       \* sets of directions that one fault may dirty
    Joins,        \* how the connection came to the agent
    Habits,       \* what the peers do beyond the plain discipline
    Ooms,         \* outcomes of an allocation: {FALSE} or BOOLEAN
    MaxReq,       \* bound: requests
    MaxMsgs,      \* bound: messages of the client
    MaxFaults     \* bound: faults

ASSUME NameAssumption == Unnamed \in Names /\ NoText \notin Texts
ASSUME SizeAssumption == MaxInflight \in Nat \ {0} /\ PrepCache \in Nat \ {0}
ASSUME BoundAssumption == MaxReq \in Nat /\ MaxMsgs \in Nat /\ MaxFaults \in Nat
ASSUME ChoiceAssumption ==
    /\ Kinds \subseteq {"Q", "F", "P", "B", "C"}
    /\ Replies \subseteq {"D", "I", "s", "G", "H", "W", "C!", "Z!", "txn"}
    /\ Faults \subseteq SUBSET {"RECV", "SEND"}
    /\ Joins \subseteq {"open", "synthetic", "recreated"} /\ Joins # {}
    /\ Habits \subseteq {"sync ahead", "bare bind", "re-execute", "copy amid batch", "late request",
                   "cut name"}
    /\ Ooms \subseteq BOOLEAN /\ FALSE \in Ooms

VARIABLES
    pc,      \* struct pg_conn
    dirty,   \* directions the framer has lost
    held,    \* a request the framer holds until the next call shows its end
    queue,   \* requests the server has received and not taken
    srv,     \* the server
    stmts,   \* its prepared statements
    client,  \* the client
    truth,   \* text the server ran for each request
    done,    \* requests answered since the last ReadyForQuery
    excused, \* requests up to this one need no observation
    faults,  \* faults so far
    out      \* what the last step emitted, and what it had to

vars == <<pc, dirty, held, queue, srv, stmts, client, truth, done, excused, faults, out>>

Ids == 0 .. MaxReq

Flag == {"NO_TEXT", "PIPELINED", "ERROR", "ABORTED", "SUSPENDED", "EMPTY", "MULTI_STMT"}

(* first, complete: the request whose reply gave the timestamp, 0 for none. *)
(* tally: the requests whose replies counted into rows and bytes.           *)
Unit == [kind: {"SIMPLE", "EXTENDED", "FUNCTION"}, copy: {"no", "COPY_IN", "COPY_OUT"},
         flags: SUBSET Flag, start: Ids, first: Ids, complete: Ids, tally: SUBSET Ids,
         ncomplete: Nat, slot: 0 .. PrepCache, gen: Nat, own: Texts \cup {NoText}]

Prep == [used: BOOLEAN, gen: Nat, name: Names, text: Texts \cup {NoText}]

Phase == {"STARTUP", "AUTH", "READY", "COPY_IN", "COPY_OUT", "SKIP_TO_SYNC", "IGNORE"}

(* head never leaves 0: the ring is the sequence of its units.  recent: the *)
(* slots in the order of their lru stamps.                                  *)
Conn == [phase: Phase, ring: Seq(Unit), nclosed: Nat, lossy: BOOLEAN, degraded: BOOLEAN,
         prep: [1 .. PrepCache -> Prep], recent: Seq(1 .. PrepCache),
         txn: {"?", "I", "T", "E"}, txn_start: Nat]

FreeSlot == [used |-> FALSE, gen |-> 0, name |-> Unnamed, text |-> NoText]

(* pg_conn_get: a connection without the flag of a synthetic OPEN is taken  *)
(* to be at its start.                                                      *)
NewConn(how) ==
    [phase |-> IF how = "synthetic" THEN "READY" ELSE "STARTUP",
     degraded |-> how = "synthetic", ring |-> <<>>, nclosed |-> 0, lossy |-> FALSE,
     prep |-> [s \in 1 .. PrepCache |-> FreeSlot], recent |-> <<>>, txn |-> "?", txn_start |-> 0]

NewUnit(kind, id) ==
    [kind |-> kind, copy |-> "no", flags |-> {}, start |-> id, first |-> 0, complete |-> 0,
     tally |-> {}, ncomplete |-> 0, slot |-> 0, gen |-> 0, own |-> NoText]

-----------------------------------------------------------------------------
(* The ring (pg_query.c).                                                   *)

Full(c) == c.lossy \/ Len(c.ring) >= MaxInflight

Flagged(u, fs) == [u EXCEPT !.flags = @ \cup fs]

RingPush(c, u) ==
    IF Full(c) THEN [c EXCEPT !.lossy = TRUE]
    ELSE [c EXCEPT !.ring =
            IF c.ring = <<>> THEN <<u>>
            ELSE [i \in 1 .. Len(c.ring) + 1 |->
                    Flagged(Append(c.ring, u)[i], {"PIPELINED"})]]

(* Mutated form of DropAll: the count of closed units survives.             *)
DropAllButClosed(c) == [c EXCEPT !.ring = <<>>, !.lossy = FALSE]

DropAll(c) == [c EXCEPT !.ring = <<>>, !.nclosed = 0, !.lossy = FALSE]

Corrupt(c) == [DropAll(c) EXCEPT !.degraded = TRUE]

HasCurrent(c) == c.nclosed < Len(c.ring)

Current(c) == c.ring[c.nclosed + 1]

ZClosed(u) == u.kind \in {"SIMPLE", "FUNCTION"}

(* The current unit becomes u, and closes unless only Z closes its kind.    *)
Closing(c, u) ==
    [c EXCEPT !.ring[c.nclosed + 1] = u, !.nclosed = IF ZClosed(u) THEN @ ELSE @ + 1]

Standing(c, u) == [c EXCEPT !.ring[c.nclosed + 1] = u]

-----------------------------------------------------------------------------
(* The statement cache (pg_prep.c).                                         *)

Lowest(S) == CHOOSE s \in S : \A t \in S : s <= t

(* Mutated form of Named: names are compared by their length alone.         *)
NamedByLength(c, n) == {s \in 1 .. PrepCache : c.prep[s].used}

Named(c, n) == {s \in 1 .. PrepCache : c.prep[s].used /\ c.prep[s].name = n}

Without(q, s) == SelectSeq(q, LAMBDA x : x # s)

Touched(c, s) == [c EXCEPT !.recent = Append(Without(@, s), s)]

(* pick_slot: the first free slot, or the least recently used.              *)
PickSlot(c) ==
    LET free == {s \in 1 .. PrepCache : ~c.prep[s].used}
    IN  IF free # {} THEN Lowest(free) ELSE Head(c.recent)

(* Units that read their text from slot s get a copy of it.                 *)
RescueRefs(c, s, oom) ==
    LET e == c.prep[s]
        Own(u) == IF u.slot # s \/ u.gen # e.gen THEN u
                  ELSE IF e.text # NoText /\ ~oom THEN [u EXCEPT !.own = e.text, !.slot = 0]
                  ELSE IF e.text # NoText
                       THEN [Flagged(u, {"NO_TEXT"}) EXCEPT !.own = NoText, !.slot = 0]
                  ELSE [u EXCEPT !.own = NoText, !.slot = 0]
    IN  [c EXCEPT !.ring = [i \in DOMAIN c.ring |-> Own(c.ring[i])]]

FillSlot(c, s, n, text, oom) ==
    Touched([c EXCEPT !.prep[s] = [used |-> TRUE, gen |-> @.gen + 1, name |-> n,
                                   text |-> IF oom THEN NoText ELSE text]], s)

(* The cache is allocated by the first Parse.                               *)
NoCache(c) == \A s \in 1 .. PrepCache : c.prep[s].gen = 0

(* Mutated form of PrepParse: the slot is reused without the rescue.        *)
PrepParseUnrescued(c, n, text, oom) ==
    IF NoCache(c) /\ oom THEN c ELSE
    LET s == IF Named(c, n) # {} THEN Lowest(Named(c, n)) ELSE PickSlot(c)
    IN  FillSlot(c, s, n, text, oom)

(* A name that was cut reaches neither this nor PrepClose (FrontendMsg).    *)
PrepParse(c, n, text, oom) ==
    IF NoCache(c) /\ oom THEN c ELSE
    LET s == IF Named(c, n) # {} THEN Lowest(Named(c, n)) ELSE PickSlot(c)
    IN  FillSlot(RescueRefs(c, s, oom), s, n, text, oom)

PrepClose(c, n, oom) ==
    IF Named(c, n) = {} THEN c
    ELSE LET s == Lowest(Named(c, n))
             r == RescueRefs(c, s, oom)
         IN  [r EXCEPT !.prep[s] = [FreeSlot EXCEPT !.gen = r.prep[s].gen + 1],
                       !.recent = Without(@, s)]

(* fill_text                                                                *)
TextOf(c, u) ==
    IF "NO_TEXT" \in u.flags THEN NoText
    ELSE IF u.slot = 0 THEN u.own
    ELSE IF c.prep[u.slot].used /\ c.prep[u.slot].gen = u.gen THEN c.prep[u.slot].text
    ELSE NoText

-----------------------------------------------------------------------------
(* Requests (pg.c: pg_frontend_msg).                                        *)

Simple(c, m, oom) ==
    IF c.phase # "READY" \/ c.degraded THEN c
    ELSE RingPush(c, IF oom THEN Flagged(NewUnit("SIMPLE", m.id), {"NO_TEXT"})
                     ELSE [NewUnit("SIMPLE", m.id) EXCEPT !.own = m.text])

Bind(c, m) ==
    LET u == NewUnit("EXTENDED", m.id)
        s == Lowest(Named(c, m.name))
    IN  IF c.phase # "READY" \/ c.degraded THEN c
        ELSE IF Full(c) \/ Named(c, m.name) = {} THEN RingPush(c, Flagged(u, {"NO_TEXT"}))
        ELSE RingPush(Touched(c, s), [u EXCEPT !.slot = s, !.gen = c.prep[s].gen])

(* The name of the statement was cut.                                       *)
BindUnread(c, m) ==
    IF c.phase # "READY" \/ c.degraded THEN c
    ELSE RingPush(c, Flagged(NewUnit("EXTENDED", m.id), {"NO_TEXT"}))

Function(c, m) ==
    IF c.phase # "READY" \/ c.degraded THEN c
    ELSE RingPush(c, Flagged(NewUnit("FUNCTION", m.id), {"NO_TEXT"}))

CopyData(c, id) ==
    IF HasCurrent(c) THEN Standing(c, [Current(c) EXCEPT !.tally = @ \cup {id}]) ELSE c

(* Execute, Sync, CopyDone and the rest are only counted; a Parse or Close  *)
(* whose name was cut ("P!", "C!") is given up before it touches the cache. *)
FrontendMsg(c, m, oom) ==
    IF c.phase = "IGNORE" THEN c
    ELSE CASE m.t = "startup" -> [c EXCEPT !.phase = "AUTH"]
           [] m.t = "Q" -> Simple(c, m, oom)
           [] m.t = "P" -> PrepParse(c, m.name, m.text, oom)
           [] m.t = "B" -> Bind(c, m)
           [] m.t = "B!" -> BindUnread(c, m)
           [] m.t = "F" -> Function(c, m)
           [] m.t = "C" -> PrepClose(c, m.name, oom)
           [] m.t = "d" -> CopyData(c, m.id)
           [] OTHER -> c

-----------------------------------------------------------------------------
(* Replies (pg.c: pg_backend_msg).                                          *)

DataRow(c, id) ==
    IF HasCurrent(c) /\ Current(c).first = 0
    THEN Standing(c, [Current(c) EXCEPT !.first = id]) ELSE c

Complete(c, id) ==
    IF ~HasCurrent(c) THEN c
    ELSE LET u == Current(c)
         IN  Closing(c, [u EXCEPT !.complete = id, !.tally = @ \cup {id}, !.ncomplete = @ + 1,
                                  !.flags = IF u.ncomplete > 0 THEN @ \cup {"MULTI_STMT"} ELSE @])

Empty(c, id) ==
    IF ~HasCurrent(c) THEN c
    ELSE Closing(c, [Flagged(Current(c), {"EMPTY"}) EXCEPT !.complete = id, !.ncomplete = @ + 1])

Suspended(c, id) ==
    IF ~HasCurrent(c) THEN c
    ELSE [Standing(c, [Flagged(Current(c), {"SUSPENDED"}) EXCEPT
                         !.complete = id, !.ncomplete = @ + 1])
          EXCEPT !.nclosed = @ + 1]

Aborted(u) == [Flagged(u, {"ABORTED"}) EXCEPT !.complete = 0, !.first = 0]

(* Mutated form of Error: the whole batch is aborted.                       *)
ErrorAbortsAll(c, id) ==
    IF ~HasCurrent(c) THEN c
    ELSE LET u == [Flagged(Current(c), {"ERROR"}) EXCEPT
                     !.complete = id, !.ncomplete = IF @ = 0 THEN 1 ELSE @]
             k == c.nclosed + 1
         IN  IF ZClosed(u) THEN Standing(c, u)
             ELSE [c EXCEPT !.ring = [i \in DOMAIN c.ring |->
                                        IF i = k THEN u ELSE Aborted(c.ring[i])],
                            !.nclosed = Len(c.ring), !.phase = "SKIP_TO_SYNC"]

(* The error closes its unit; in an extended batch the units behind it are  *)
(* aborted.                                                                 *)
Error(c, id) ==
    IF ~HasCurrent(c) THEN c
    ELSE LET u == [Flagged(Current(c), {"ERROR"}) EXCEPT
                     !.complete = id, !.ncomplete = IF @ = 0 THEN 1 ELSE @]
             k == c.nclosed + 1
         IN  IF ZClosed(u) THEN Standing(c, u)
             ELSE [c EXCEPT !.ring = [i \in DOMAIN c.ring |->
                                        IF i < k THEN c.ring[i]
                                        ELSE IF i = k THEN u ELSE Aborted(c.ring[i])],
                            !.nclosed = Len(c.ring), !.phase = "SKIP_TO_SYNC"]

FuncResponse(c, id) ==
    IF HasCurrent(c)
    THEN Standing(c, [Current(c) EXCEPT !.complete = id, !.ncomplete = @ + 1]) ELSE c

CopyBegin(c, kind) ==
    LET d == [c EXCEPT !.phase = kind]
    IN  IF HasCurrent(c) THEN Standing(d, [Current(c) EXCEPT !.copy = kind]) ELSE d

CopyBoth(c) == [DropAll(c) EXCEPT !.phase = "IGNORE"]

AuthOk(c) == IF c.phase = "AUTH" THEN [c EXCEPT !.phase = "READY"] ELSE c

(* Mutated form of Ready: a copy is not left.                               *)
ReadyStillCopying(c, z) ==
    [DropAll(c) EXCEPT
        !.degraded = FALSE,
        !.phase = IF @ = "SKIP_TO_SYNC" THEN "READY" ELSE @,
        !.txn_start = IF z.status = "T" /\ c.txn \notin {"T", "E"} THEN z.n ELSE @,
        !.txn = IF z.status = "?" THEN @ ELSE z.status]

(* Mutated form of Ready: every T starts a transaction.                     *)
ReadyRestartsTxn(c, z) ==
    [DropAll(c) EXCEPT
        !.degraded = FALSE,
        !.phase = IF @ \in {"SKIP_TO_SYNC", "COPY_IN", "COPY_OUT"} THEN "READY" ELSE @,
        !.txn_start = IF z.status = "T" THEN z.n ELSE @,
        !.txn = IF z.status = "?" THEN @ ELSE z.status]

(* pg_query_ready: the ring is emptied, the boundary is clean.  z.n numbers *)
(* the ReadyForQuery, as its timestamp does; a cut body has no status.      *)
Ready(c, z) ==
    [DropAll(c) EXCEPT
        !.degraded = FALSE,
        !.phase = IF @ \in {"SKIP_TO_SYNC", "COPY_IN", "COPY_OUT"} THEN "READY" ELSE @,
        !.txn_start = IF z.status = "T" /\ c.txn \notin {"T", "E"} THEN z.n ELSE @,
        !.txn = IF z.status = "?" THEN @ ELSE z.status]

(* emit_unit, with the batch that the ReadyForQuery ends for its time.      *)
Observation(c, u, z) ==
    [start |-> u.start, flags |-> u.flags, first |-> u.first, tally |-> u.tally,
     complete |-> IF ZClosed(u) /\ u.complete = 0 THEN z.id ELSE u.complete,
     text |-> TextOf(c, u),
     batch |-> IF "ABORTED" \in u.flags THEN {} ELSE z.base + 1 .. z.id]

(* Mutated form of Observations: only units closed by a reply are emitted.  *)
ObservationsClosed(c, z) ==
    IF c.lossy \/ c.phase = "IGNORE" THEN {}
    ELSE {Observation(c, c.ring[i], z) : i \in {j \in DOMAIN c.ring : j <= c.nclosed}}

Observations(c, z) ==
    IF c.lossy \/ c.phase = "IGNORE" THEN {}
    ELSE {Observation(c, c.ring[i], z) :
            i \in {j \in DOMAIN c.ring : j <= c.nclosed \/ ZClosed(c.ring[j])}}

NoSpan == [from |-> 0, to |-> 0]

(* on_txn                                                                   *)
Span(c, z) ==
    IF z.status = "I" /\ c.txn \in {"T", "E"} /\ c.phase # "IGNORE"
    THEN [from |-> c.txn_start, to |-> z.n] ELSE NoSpan

BackendMsg(c, r) ==
    IF c.phase = "IGNORE" THEN c
    ELSE CASE r.t = "R" -> AuthOk(c)
           [] r.t = "D" -> DataRow(c, r.id)
           [] r.t = "C" -> Complete(c, r.id)
           [] r.t = "C!" -> IF HasCurrent(c) THEN Corrupt(c) ELSE c
           [] r.t = "I" -> Empty(c, r.id)
           [] r.t = "s" -> Suspended(c, r.id)
           [] r.t = "E" -> Error(c, r.id)
           [] r.t = "V" -> FuncResponse(c, r.id)
           [] r.t = "G" -> CopyBegin(c, "COPY_IN")
           [] r.t = "H" -> CopyBegin(c, "COPY_OUT")
           [] r.t = "d" -> CopyData(c, r.id)
           [] r.t = "W" -> CopyBoth(c)
           [] r.t = "Z" -> Ready(c, r)

(* Mutated form of OnResync: the units in flight stay.                      *)
OnResyncKeeps(c) ==
    [c EXCEPT !.degraded = TRUE, !.txn = "?",
              !.phase = IF @ \in {"SKIP_TO_SYNC", "COPY_IN", "COPY_OUT"} THEN "READY" ELSE @]

(* pg_on_resync                                                             *)
OnResync(c) ==
    [DropAll(c) EXCEPT
        !.degraded = TRUE, !.txn = "?",
        !.phase = IF @ \in {"SKIP_TO_SYNC", "COPY_IN", "COPY_OUT"} THEN "READY" ELSE @]

-----------------------------------------------------------------------------
(* What reaches the handlers.                                               *)

NoMsg == [t |-> "none", id |-> 0, name |-> Unnamed, text |-> NoText]

NoOut == [obs |-> {}, span |-> NoSpan, due |-> {}]

Message(t, id, n, x) == [t |-> t, id |-> id, name |-> n, text |-> x]

(* The body of m was captured up to a point before the name.                *)
Cut(m) == [m EXCEPT !.t = CASE m.t = "P" -> "P!" [] m.t = "B" -> "B!" [] m.t = "C" -> "C!"]

(* The text of a Parse that the handler is not given.                       *)
Unseen == "unseen"

Unread(m) == IF m.t = "P" THEN [m EXCEPT !.text = Unseen] ELSE m

(* The server receives m.  A clean direction delivers it, whole or cut,     *)
(* behind a request the framer still held; a dirty one misses it or finds   *)
(* its anchor in it.                                                        *)
Receive(m) ==
    /\ out' = NoOut
    /\ \E oom \in Ooms :
          LET c == IF held = NoMsg THEN pc ELSE FrontendMsg(pc, held, oom)
          IN  \/ /\ "RECV" \notin dirty
                 /\ pc' = FrontendMsg(c, m, oom) /\ held' = NoMsg
                 /\ excused' = IF pc.degraded THEN client'.sent ELSE excused
                 /\ queue' = Append(queue, m) /\ dirty' = dirty
              \/ /\ "RECV" \notin dirty /\ "cut name" \in Habits /\ m.t \in {"P", "B", "C"}
                 /\ pc' = FrontendMsg(c, Cut(m), oom) /\ held' = NoMsg
                 /\ queue' = Append(queue, Unread(m))
                 /\ UNCHANGED <<dirty, excused>>
              \/ /\ "RECV" \notin dirty /\ "late request" \in Habits /\ m.t = "Q"
                 /\ pc' = c /\ held' = m
                 /\ queue' = Append(queue, m)
                 /\ UNCHANGED <<dirty, excused>>
              \/ /\ "RECV" \in dirty
                 /\ queue' = Append(queue, Unread(m)) /\ excused' = client'.sent
                 /\ UNCHANGED <<pc, dirty, held>>
              \/ /\ "RECV" \in dirty /\ m.t # "startup"
                 /\ pc' = FrontendMsg(OnResync(pc), m, oom)
                 /\ queue' = Append(queue, m) /\ held' = held
                 /\ dirty' = dirty \ {"RECV"} /\ excused' = client'.sent

(* What the ReadyForQuery z emits, and the requests it has to account for.  *)
Output(z) == [obs |-> Observations(pc, z), span |-> Span(pc, z),
              due |-> IF pc.lossy THEN {} ELSE {i \in done : i > excused}]

(* The server sends r.  A command tag may be malformed and the body of a    *)
(* ReadyForQuery may be cut.  On a dirty direction a ReadyForQuery may serve *)
(* as the anchor, and is not delivered itself.                              *)
Send(r) ==
    /\ held' = held
    /\ \/ /\ "SEND" \notin dirty
          /\ pc' = BackendMsg(pc, r)
          /\ out' = IF r.t = "Z" THEN Output(r) ELSE NoOut
          /\ UNCHANGED <<dirty, excused, faults>>
       \/ /\ "SEND" \notin dirty /\ r.t = "C" /\ "C!" \in Replies /\ faults < MaxFaults
          /\ pc' = BackendMsg(pc, [r EXCEPT !.t = "C!"])
          /\ faults' = faults + 1 /\ excused' = client.sent /\ out' = NoOut
          /\ dirty' = dirty
       \/ /\ "SEND" \notin dirty /\ r.t = "Z" /\ "Z!" \in Replies /\ faults < MaxFaults
          /\ pc' = BackendMsg(pc, [r EXCEPT !.status = "?"])
          /\ faults' = faults + 1 /\ out' = Output([r EXCEPT !.status = "?"])
          /\ UNCHANGED <<dirty, excused>>
       \/ /\ "SEND" \in dirty
          /\ out' = NoOut
          /\ UNCHANGED <<pc, dirty, excused, faults>>
       \/ /\ "SEND" \in dirty /\ r.t = "Z"
          /\ pc' = OnResync(pc)
          /\ dirty' = dirty \ {"SEND"} /\ excused' = client.sent /\ out' = NoOut
          /\ faults' = faults

(* Records are lost, or a hole falls on a header, after the handshake.      *)
Fault(D) ==
    /\ faults < MaxFaults
    /\ srv.zs > 0
    /\ faults' = faults + 1
    /\ dirty' = dirty \cup D
    /\ held' = IF "RECV" \in D THEN NoMsg ELSE held
    /\ excused' = client.sent
    /\ out' = NoOut
    /\ UNCHANGED <<pc, queue, srv, stmts, client, truth, done>>

-----------------------------------------------------------------------------
(* The client.  Left to itself it waits for the ReadyForQuery of one batch  *)
(* before it begins the next, and executes each portal it binds, once.      *)

Turn ==
    /\ srv.zs > 0 /\ srv.mode # "copyin"
    /\ client.waiting = 0 \/ ("sync ahead" \in Habits /\ client.waiting = 1)

ClientSends(m, next) ==
    /\ m.id <= MaxReq /\ next.msgs <= MaxMsgs
    /\ client' = next
    /\ Receive(m)
    /\ UNCHANGED <<srv, stmts, truth, done, faults>>

ClientStartup ==
    /\ srv.mode = "startup" /\ client.waiting = 0
    /\ ClientSends(Message("startup", 0, Unnamed, NoText), [client EXCEPT !.waiting = 1])

ClientQuery(t, x) ==
    /\ Turn /\ t \in Kinds /\ ~client.open
    /\ ClientSends(Message(t, client.sent + 1, Unnamed, IF t = "Q" THEN x ELSE NoText),
                   [client EXCEPT !.sent = @ + 1, !.msgs = @ + 1, !.waiting = @ + 1])

Settled == ~client.owes /\ (client.executed \/ "bare bind" \in Habits)

ClientParse(n, x) ==
    /\ Turn /\ "P" \in Kinds /\ Settled
    /\ n = Unnamed \/ client.known[n] = NoText
    /\ ClientSends(Message("P", client.sent + 1, n, x),
                   [client EXCEPT !.msgs = @ + 1, !.open = TRUE, !.known[n] = x])

ClientBind(n) ==
    /\ Turn /\ "B" \in Kinds /\ Settled
    /\ client.known[n] # NoText
    /\ n \notin client.tainted
    /\ ClientSends(Message("B", client.sent + 1, n, NoText),
                   [client EXCEPT !.sent = @ + 1, !.msgs = @ + 1, !.open = TRUE,
                                  !.portal = client.sent + 1, !.executed = FALSE])

ClientExecute ==
    /\ Turn /\ client.portal # 0
    /\ \/ /\ ~client.executed
          /\ ClientSends(Message("E", client.portal, Unnamed, NoText),
                         [client EXCEPT !.executed = TRUE])
       \/ /\ client.executed /\ "re-execute" \in Habits
          /\ ClientSends(Message("E", client.sent + 1, Unnamed, NoText),
                         [client EXCEPT !.sent = @ + 1, !.msgs = @ + 1])

ClientClose(n) ==
    /\ Turn /\ "C" \in Kinds /\ Settled
    /\ client.known[n] # NoText
    /\ ClientSends(Message("C", client.sent, n, NoText),
                   [client EXCEPT !.msgs = @ + 1, !.open = TRUE, !.known[n] = NoText])

ClientSync ==
    /\ Turn /\ client.open /\ (Settled \/ client.owes)
    /\ ClientSends(Message("S", client.sent, Unnamed, NoText),
                   [client EXCEPT !.open = FALSE, !.waiting = @ + 1, !.owes = FALSE,
                                  !.portal = 0, !.executed = TRUE])

(* Data, its end or its failure, for a server that asked for it.            *)
ClientCopy(t) ==
    /\ srv.mode = "copyin"
    /\ ~\E i \in DOMAIN queue : queue[i].t \in {"c", "f"} \/ (t = "d" /\ queue[i].t = "d")
    /\ ClientSends(Message(t, srv.id, Unnamed, NoText), client)

-----------------------------------------------------------------------------
(* The server.                                                              *)

Taken(t) == queue # <<>> /\ Head(queue).t = t /\ queue' = Tail(queue)

Reply(t, id) == Send([t |-> t, id |-> id, base |-> 0, status |-> "I", n |-> 0])

Silent == /\ out' = NoOut
          /\ UNCHANGED <<pc, dirty, held, excused, faults>>

TakeStartup ==
    /\ srv.mode = "startup" /\ Taken("startup")
    /\ srv' = [srv EXCEPT !.mode = "zdue"]
    /\ Reply("R", 0)
    /\ UNCHANGED <<stmts, client, truth, done>>

Fails(id) ==
    /\ srv' = [srv EXCEPT !.mode = "skip"]
    /\ Reply("E", id)

TakeParse ==
    /\ srv.mode = "idle" /\ Taken("P")
    /\ LET m == Head(queue)
       IN  \/ /\ m.name = Unnamed \/ stmts[m.name] = NoText
              /\ stmts' = [stmts EXCEPT ![m.name] = m.text]
              /\ client' = [client EXCEPT !.tainted = @ \ {m.name}]
              /\ srv' = srv /\ Silent
           \/ /\ stmts' = IF m.name = Unnamed THEN [stmts EXCEPT ![Unnamed] = NoText] ELSE stmts
              /\ client' = client
              /\ Fails(m.id)
    /\ UNCHANGED <<truth, done>>

TakeBind ==
    /\ srv.mode = "idle" /\ Taken("B")
    /\ LET m == Head(queue)
       IN  \/ /\ stmts[m.name] # NoText
              /\ truth' = [truth EXCEPT ![m.id] = stmts[m.name]]
              /\ done' = done /\ srv' = srv /\ Silent
           \/ /\ done' = done \cup {m.id} /\ truth' = truth
              /\ Fails(m.id)
    /\ UNCHANGED <<stmts, client>>

TakeClose ==
    /\ srv.mode = "idle" /\ Taken("C")
    /\ stmts' = [stmts EXCEPT ![Head(queue).name] = NoText]
    /\ Silent
    /\ UNCHANGED <<srv, client, truth, done>>

TakeExecute ==
    /\ srv.mode = "idle" /\ Taken("E")
    /\ srv' = [srv EXCEPT !.mode = "busy", !.id = Head(queue).id, !.kind = "E"]
    /\ Silent
    /\ UNCHANGED <<stmts, client, truth, done>>

TakeQuery(t) ==
    /\ srv.mode = "idle" /\ Taken(t)
    /\ srv' = [srv EXCEPT !.mode = "busy", !.id = Head(queue).id, !.kind = t]
    /\ truth' = [truth EXCEPT ![Head(queue).id] = Head(queue).text]
    /\ Silent
    /\ UNCHANGED <<stmts, client, done>>

TakeSync ==
    /\ srv.mode \in {"idle", "skip"} /\ Taken("S")
    /\ srv' = [srv EXCEPT !.mode = "zdue", !.id = Head(queue).id]
    /\ Silent
    /\ UNCHANGED <<stmts, client, truth, done>>

(* Behind an error everything up to the Sync is ignored.                    *)
TakeSkipped ==
    /\ srv.mode = "skip" /\ queue # <<>> /\ Head(queue).t # "S"
    /\ queue' = Tail(queue)
    /\ client' = IF Head(queue).t = "P"
                 THEN [client EXCEPT !.tainted = @ \cup {Head(queue).name}] ELSE client
    /\ Silent
    /\ UNCHANGED <<srv, stmts, truth, done>>

(* While it waits for copy data the server ignores a Sync, which its client *)
(* repeats, and fails at any other message.                                 *)
TakeCopying ==
    /\ srv.mode = "copyin" /\ queue # <<>>
    /\ queue' = Tail(queue)
    /\ LET m == Head(queue)
       IN  \/ /\ m.t = "d"
              /\ Silent
              /\ UNCHANGED <<srv, client, done>>
           \/ /\ m.t = "c"
              /\ srv' = [srv EXCEPT !.mode = "copied"]
              /\ Silent
              /\ UNCHANGED <<client, done>>
           \/ /\ m.t = "S"
              /\ client' = [client EXCEPT !.waiting = @ - 1, !.open = TRUE, !.owes = TRUE]
              /\ Silent
              /\ UNCHANGED <<srv, done>>
           \/ /\ m.t \notin {"d", "c", "S"}
              /\ srv' = [srv EXCEPT !.mode = IF srv.kind = "E" THEN "skip" ELSE "zdue"]
              /\ done' = done \cup {srv.id}
              /\ Reply("E", srv.id)
              /\ client' = client
    /\ UNCHANGED <<stmts, truth>>

Sends(t, mode) ==
    /\ srv' = [srv EXCEPT !.mode = mode]
    /\ Reply(t, srv.id)
    /\ UNCHANGED <<queue, stmts, client, truth>>

Row == /\ srv.mode = "busy" /\ srv.kind # "F" /\ "D" \in Replies
       /\ done' = done
       /\ Sends("D", "busy")

(* A portal is answered once; a simple query may hold several statements.   *)
Completion ==
    /\ srv.mode \in {"busy", "copied"} /\ srv.kind # "F"
    /\ done' = done \cup {srv.id}
    /\ \/ srv.kind = "E" /\ Sends("C", "idle")
       \/ srv.kind = "Q" /\ Sends("C", "zdue")
       \/ srv.kind = "Q" /\ srv.id \notin done /\ Sends("C", "busy")

EmptyQuery ==
    /\ srv.mode = "busy" /\ srv.kind # "F" /\ "I" \in Replies /\ srv.id \notin done
    /\ done' = done \cup {srv.id}
    /\ Sends("I", IF srv.kind = "E" THEN "idle" ELSE "zdue")

PortalSuspended ==
    /\ srv.mode = "busy" /\ srv.kind = "E" /\ "s" \in Replies
    /\ done' = done \cup {srv.id}
    /\ Sends("s", "idle")

Failure ==
    /\ srv.mode = "busy"
    /\ done' = done \cup {srv.id}
    /\ Sends("E", IF srv.kind = "E" THEN "skip" ELSE "zdue")

FunctionResponse ==
    /\ srv.mode = "busy" /\ srv.kind = "F"
    /\ done' = done \cup {srv.id}
    /\ Sends("V", "zdue")

(* Left to itself a client copies in a batch of its own.                    *)
MayCopy == /\ srv.mode = "busy" /\ srv.kind # "F"
           /\ \/ srv.kind = "Q"
              \/ ~client.open /\ Len(queue) = 1
              \/ "copy amid batch" \in Habits

CopyInResponse ==
    /\ MayCopy /\ "G" \in Replies
    /\ done' = done
    /\ Sends("G", "copyin")

CopyOutResponse ==
    /\ MayCopy /\ "H" \in Replies
    /\ done' = done
    /\ Sends("H", "copyout")

CopyOutData ==
    /\ srv.mode = "copyout"
    /\ done' = done
    /\ \/ Sends("d", "copyout")
       \/ Sends("d", "copied")

CopyBothResponse ==
    /\ srv.mode = "busy" /\ srv.kind = "Q" /\ "W" \in Replies
    /\ done' = done
    /\ Sends("W", "walsender")

(* A batch may hold several statements: begin a transaction and fail in it, *)
(* or end one and begin the next.                                           *)
NextStatus(s) == IF "txn" \in Replies THEN {"I", "T", "E"} ELSE {s}

(* opened: the ReadyForQuery with which the server last left idle; begun:   *)
(* it was a T.                                                              *)
ReadyForQuery ==
    /\ srv.mode = "zdue"
    /\ \E s \in NextStatus(srv.txn) :
          /\ srv' = [srv EXCEPT !.mode = "idle", !.base = srv.id, !.zs = @ + 1, !.txn = s,
                                !.opened = IF srv.txn = "I" THEN srv.zs + 1 ELSE @,
                                !.begun = IF srv.txn = "I" THEN s = "T" ELSE @]
          /\ Send([t |-> "Z", id |-> srv.id, base |-> srv.base, status |-> s, n |-> srv.zs + 1])
    /\ client' = [client EXCEPT !.waiting = @ - 1,
                                !.known = IF client.open THEN @ ELSE stmts]
    /\ done' = {}
    /\ UNCHANGED <<queue, stmts, truth>>

-----------------------------------------------------------------------------
Init ==
    \E how \in Joins :
       /\ pc = NewConn(how)
       /\ dirty = IF how = "open" THEN {} ELSE {"RECV", "SEND"}
       /\ \E s \in IF how = "open" THEN {"I"} ELSE NextStatus("I") :
             srv = [mode |-> IF how = "open" THEN "startup" ELSE "idle", id |-> 0, kind |-> "Q",
                    base |-> 0, txn |-> s, zs |-> IF how = "open" THEN 0 ELSE 1, opened |-> 0,
                    begun |-> FALSE]
       /\ held = NoMsg /\ queue = <<>> /\ stmts = [n \in Names |-> NoText]
       /\ client = [sent |-> 0, msgs |-> 0, waiting |-> 0, open |-> FALSE, owes |-> FALSE,
                    portal |-> 0, executed |-> TRUE, known |-> [n \in Names |-> NoText],
                    tainted |-> {}]
       /\ truth = [i \in 1 .. MaxReq |-> NoText]
       /\ done = {} /\ excused = 0 /\ faults = 0 /\ out = NoOut

ClientNext ==
    \/ ClientStartup
    \/ \E t \in {"Q", "F"}, x \in Texts : ClientQuery(t, x)
    \/ \E n \in Names, x \in Texts : ClientParse(n, x)
    \/ \E n \in Names : ClientBind(n)
    \/ ClientExecute
    \/ \E n \in Names : ClientClose(n)
    \/ ClientSync
    \/ \E t \in {"d", "c", "f"} : ClientCopy(t)

ServerNext ==
    \/ TakeStartup \/ TakeParse \/ TakeBind \/ TakeClose \/ TakeExecute
    \/ \E t \in {"Q", "F"} : TakeQuery(t)
    \/ TakeSync \/ TakeSkipped \/ TakeCopying
    \/ Row \/ Completion \/ EmptyQuery \/ PortalSuspended \/ Failure \/ FunctionResponse
    \/ CopyInResponse \/ CopyOutResponse \/ CopyOutData \/ CopyBothResponse
    \/ ReadyForQuery

Next == ClientNext \/ ServerNext \/ \E D \in Faults : Fault(D)

Spec == Init /\ [][Next]_vars

-----------------------------------------------------------------------------
(* Ring, cache and phase keep their types: the ring its bound, nclosed its  *)
(* place in it, and the recency order each used slot once.                  *)
PgTypeOK ==
    /\ pc \in Conn
    /\ Len(pc.ring) <= MaxInflight /\ pc.nclosed <= Len(pc.ring)
    /\ {pc.recent[i] : i \in DOMAIN pc.recent} = {s \in 1 .. PrepCache : pc.prep[s].used}
    /\ Len(pc.recent) = Cardinality({s \in 1 .. PrepCache : pc.prep[s].used})
    /\ dirty \subseteq {"RECV", "SEND"}

(* pg_query_ready emits a unit with the timings, rows and bytes of its own  *)
(* request's replies and with the ReadyForQuery of its own batch, also when *)
(* requests are pipelined, fail or are cut by a fault of the capture.       *)
RepliesMatched ==
    \A o \in out.obs :
       /\ {o.first, o.complete} \cup o.tally \subseteq {0, o.start}
       /\ o.batch # {} => o.start \in o.batch

(* pg_query_error marks as aborted only what the server did not run.        *)
AbortedTrue == \A o \in out.obs : "ABORTED" \in o.flags => truth[o.start] = NoText

(* Each request that was answered while the agent was clean is reported at  *)
(* its ReadyForQuery, once: the ring loses nothing without a mark (lossy,   *)
(* degraded).                                                               *)
Accounted ==
    \A i \in out.due : Cardinality({o \in out.obs : o.start = i}) = 1

(* The text of an observation, own copy or read from the cache by           *)
(* fill_text, is the one the server ran, whatever was parsed, closed or     *)
(* evicted between Bind and ReadyForQuery, for every statement whose Parse  *)
(* the handler was given with its name.                                     *)
TextTrue ==
    \A o \in out.obs : truth[o.start] \notin {NoText, Unseen} => o.text \in {NoText, truth[o.start]}

(* Not so for the others: pg_prep_parse gives up a Parse whose name was     *)
(* cut, the entry of an earlier Parse stays, and the Bind takes its text.   *)
NoTextUnseen == \A o \in out.obs : truth[o.start] = Unseen => o.text = NoText

(* Nothing reuses a slot before pg_query_rescue_refs: the stale reference   *)
(* that fill_text guards against does not occur.                            *)
RefsLive ==
    \A i \in DOMAIN pc.ring :
       LET u == pc.ring[i]
       IN  u.slot # 0 => pc.prep[u.slot].used /\ pc.prep[u.slot].gen = u.gen

(* Between two batches a clean agent expects the next one: no phase, unit   *)
(* or lossy mark of an earlier batch, of a copy, of an error or of the      *)
(* handshake remains.                                                       *)
Listening ==
    /\ dirty = {} /\ ~pc.degraded
    /\ srv.mode = "idle" /\ srv.zs > 0 /\ queue = <<>>
    /\ client.waiting = 0 /\ ~client.open
    => pc.phase = "READY" /\ pc.ring = <<>> /\ ~pc.lossy

(* on_txn reports a span from the ReadyForQuery with which the server left  *)
(* idle, where that was a T: no later T or E moves it and none of an        *)
(* earlier transaction is left.  Transactions with no idle status between   *)
(* them are one span.                                                       *)
TxnSpanTrue == out.span # NoSpan /\ srv.begun => out.span.from = srv.opened

(* As TxnSpanTrue, of every span: txn_start_ns is said to be the timestamp  *)
(* of the status that opened the current transaction.                       *)
TxnSpanOpened == out.span # NoSpan => out.span.from = srv.opened
=============================================================================

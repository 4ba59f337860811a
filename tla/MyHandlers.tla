----------------------------- MODULE MyHandlers -----------------------------
(***************************************************************************)
(* The MySQL handlers of one connection (src/proto/my: my_session.c,       *)
(* my_query.c, my.c): the handshake and the session's labels, the commands *)
(* of the client, and the machine that follows the server's reply.         *)
(*                                                                         *)
(* A packet of the server has head, the class of its first byte: "00",     *)
(* "ff", "fb", "fe" or "n" (any other); len, "short" below 9 bytes, "huge" *)
(* from 16 MB on; n, the number it carries (affected rows, a count of      *)
(* columns or definitions); st, its status flags.  n of an operator is the *)
(* exchange that the packet is part of.                                    *)
(***************************************************************************)
EXTENDS MyConn

NoPending(c) == [c EXCEPT !.db2 = <<>>, !.user2 = <<>>]

(* The capabilities that MariaDB clients announce in a word of their own.   *)
MariaCaps == {"mcache", "progress"}

DeprecateEof(c) == c.known /\ "deof" \in c.caps

-----------------------------------------------------------------------------
(* OK and EOF packets (my_query.c), and what they do to the labels.         *)

OkOf(m, eof) ==
    [have |-> Parsed(m), affected |-> IF eof \/ ~Parsed(m) THEN 0 ELSE m.n,
     st |-> IF Parsed(m) THEN m.st ELSE {}]

ParseSessionTrack(c, m, eof) ==
    IF ~eof /\ Parsed(m) /\ c.known /\ "track" \in c.caps /\ "CHANGED" \in m.st
    THEN [c EXCEPT !.db = m.db] ELSE c

OkEffects(c) == [c EXCEPT !.db = IF c.db2 = <<>> THEN @ ELSE c.db2[1], !.db2 = <<>>]

-----------------------------------------------------------------------------
(* The handshake and the labels (my_session.c).                             *)

SessionEvent(c) == [what |-> "session", user |-> c.user, db |-> c.db, complete |-> c.complete]

EmitSession(c) ==
    IF c.emitted THEN c ELSE [Out(c, SessionEvent(c)) EXCEPT !.emitted = TRUE]

Greeting(c, m) ==
    IF ~Seen(m) \/ m.head = "ff" THEN c ELSE [c EXCEPT !.sess = "RESPONSE"]

(* Of a response cut before the names the first word of capabilities is     *)
(* read, not the one of MariaDB; of one cut inside a name, the part before. *)
(* One that ends before the user is the short request for TLS.              *)
HandshakeResponse(c, m) ==
    LET known == [c EXCEPT !.caps = m.caps, !.known = TRUE]
        auth  == [known EXCEPT !.sess = "AUTH", !.complete = Parsed(m)]
    IN CASE ~Seen(m) -> c
         [] m.how = "cut" -> [known EXCEPT !.caps = @ \ MariaCaps, !.sess = "AUTH"]
         [] m.how = "in name" -> [auth EXCEPT !.user = Stem[m.user]]
         [] m.how = "in db" -> [auth EXCEPT !.user = m.user, !.db = Stem[m.db]]
         [] OTHER -> IF m.user = NoName THEN known
                     ELSE [auth EXCEPT !.user = m.user, !.db = IF m.db = NoName THEN @ ELSE m.db]

SessionOk(c, m, blind) ==
    LET named == [c EXCEPT !.user = IF c.user2 = <<>> THEN @ ELSE c.user2[1], !.user2 = <<>>]
        d == OkEffects(ParseSessionTrack(named, m, FALSE))
    IN EmitSession([d EXCEPT !.sess = "DONE", !.phase = IF blind THEN "IGNORE" ELSE "READY"])

(* A body that was not captured reads as the byte 0.                        *)
HeadOf(m) == IF Seen(m) THEN m.head ELSE "00"

SessionBackend(c, m, blind) ==
    CASE c.sess = "GREETING" -> Greeting(c, m)
      [] c.sess = "RESPONSE" -> IF HeadOf(m) = "ff" THEN [c EXCEPT !.sess = "DONE"] ELSE c
      [] c.sess = "AUTH" ->
           IF HeadOf(m) = "00" THEN SessionOk(c, m, blind)
           ELSE IF HeadOf(m) = "ff" THEN [NoPending(c) EXCEPT !.sess = "DONE", !.phase = "READY"]
           ELSE c
      [] c.sess = "DONE" -> c

SessionFrontend(c, m) ==
    IF c.sess \in {"GREETING", "RESPONSE"} THEN HandshakeResponse(c, m) ELSE c

Promote(c) ==
    LET d == IF c.sess = "AUTH" /\ ~c.emitted THEN EmitSession([c EXCEPT !.complete = FALSE]) ELSE c
    IN [NoPending(d) EXCEPT !.sess = "DONE", !.phase = "READY"]

(* Mutated form of InitDb: the label changes before the server agrees.      *)
InitDbEager(c, m) == [c EXCEPT !.db = IF Parsed(m) THEN m.db ELSE @, !.reply = "HEAD"]

(* Nothing tells a name that was cut from a whole one.                      *)
InitDb(c, m) ==
    LET name == CASE Parsed(m) -> m.db [] m.how = "in name" -> Stem[m.db] [] OTHER -> NoName
    IN [c EXCEPT !.db2 = <<name>>, !.reply = "HEAD"]

ChangeUser(c, m) ==
    LET d == [PrepDropAll(c, m) EXCEPT !.phase = "HANDSHAKE", !.sess = "AUTH"]
    IN CASE Parsed(m) -> [d EXCEPT !.user2 = <<m.user>>, !.db2 = <<m.db>>]
         [] m.how = "in name" -> [d EXCEPT !.user2 = <<Stem[m.user]>>]
         [] m.how = "in db" -> [d EXCEPT !.user2 = <<m.user>>]
         [] OTHER -> d

-----------------------------------------------------------------------------
(* Terminators (my_query.c).                                                *)

(* Mutated form of TxnTrack: only a transaction seen to begin has a start.  *)
TxnTrackKnown(c, ok, n) ==
    LET status == IF "T" \in ok.st THEN "T" ELSE "I"
        begun  == status = "T" /\ c.txn = "I"
        ended  == status = "I" /\ c.txn = "T"
        final  == IF c.open /\ UnitIsRollback(c) THEN "E" ELSE "T"
        told   == IF ended THEN Out(c, [what |-> "txn", from |-> c.txnstart, to |-> n, final |-> final])
                  ELSE c
    IN IF ok.have
       THEN [told EXCEPT !.txn = status, !.txnstart = IF begun THEN n ELSE @]
       ELSE c

TxnTrack(c, ok, n) ==
    LET status == IF "T" \in ok.st THEN "T" ELSE "I"
        begun  == status = "T" /\ c.txn # "T"
        ended  == status = "I" /\ c.txn = "T"
        final  == IF c.open /\ UnitIsRollback(c) THEN "E" ELSE "T"
        told   == IF ended THEN Out(c, [what |-> "txn", from |-> c.txnstart, to |-> n, final |-> final])
                  ELSE c
    IN IF ok.have
       THEN [told EXCEPT !.txn = status, !.txnstart = IF begun THEN n ELSE @]
       ELSE c

FromInfile(c) == [c EXCEPT !.phase = IF @ = "INFILE" THEN "READY" ELSE @]

Undrained(ok) == "CURSOR" \in ok.st /\ "LAST_ROW" \notin ok.st

TerminatorOk(c, m, eof, n) ==
    LET ok   == OkOf(m, eof)
        more == "MORE" \in ok.st
        d    == FromInfile(TxnTrack(OkEffects(ParseSessionTrack(c, m, eof)), ok, n))
        u    == [d EXCEPT !.unit.rows = @ + ok.affected, !.unit.ncomplete = @ + 1,
                          !.unit.flags = @ \cup IF d.unit.ncomplete > 0 THEN {"MULTI_STMT"} ELSE {}]
    IN IF ~c.open THEN [d EXCEPT !.reply = IF more THEN "HEAD" ELSE "NONE"]
       ELSE IF more THEN [u EXCEPT !.reply = "HEAD"]
       ELSE EmitUnit(Flag([u EXCEPT !.reply = "NONE"], IF Undrained(ok) THEN {"SUSPENDED"} ELSE {}))

(* A progress report of MariaDB is not a terminator (parse_err).            *)
IsProgress(c, m) == Parsed(m) /\ m.progress /\ "progress" \in c.caps

TerminatorErr(c, m) ==
    LET d == [FromInfile(c) EXCEPT !.reply = "NONE", !.db2 = <<>>]
    IN IF IsProgress(c, m) THEN c
       ELSE IF c.open THEN EmitUnit(Flag(d, {"ERROR"}))
       ELSE d

(* Mutated form of FeTerminator: the terminator is always an EOF.           *)
FeTerminatorShort(c, m) == m.len = "short"

FeTerminator(c, m) ==
    IF c.known /\ "deof" \notin c.caps THEN m.len = "short" ELSE m.len # "huge"

EofShape(c, m) == IF c.known THEN "deof" \notin c.caps ELSE m.len = "short"

-----------------------------------------------------------------------------
(* The reply machine (my_query.c).                                          *)

(* The head opens a result set of m.n columns.  m.defs, a mark that only    *)
(* some capabilities announce: definitions follow.                          *)
ColumnCount(c, m) ==
    LET marked == c.caps \cap {"mcache", "optmeta"} # {}
        cols   == IF marked /\ ~m.defs THEN 0 ELSE m.n
        eofDue == c.known /\ "deof" \notin c.caps /\ "mcache" \notin c.caps
    IN IF marked /\ ~Parsed(m) THEN Corrupt(c)
       ELSE IF m.n = 0 \/ m.len = "huge" THEN Corrupt(c)
       ELSE [c EXCEPT !.cols = cols, !.reply = IF cols > 0 \/ eofDue THEN "COLS" ELSE "ROWS"]

ReplyHead(c, m, n) ==
    CASE m.head = "00" -> TerminatorOk(c, m, FALSE, n)
      [] m.head = "ff" -> TerminatorErr(c, m)
      [] m.head = "fb" -> [c EXCEPT !.phase = "INFILE", !.unit.kind = IF c.open THEN "COPY_IN" ELSE @]
      [] m.head = "fe" -> IF FeTerminator(c, m) THEN TerminatorOk(c, m, EofShape(c, m), n)
                          ELSE Corrupt(c)
      [] m.head = "n"  -> ColumnCount(c, m)

(* The EOF behind the definitions ends the reply that opens a cursor.       *)
ReplyCols(c, m, n) ==
    LET ok   == OkOf(m, TRUE)
        d    == [TxnTrack(c, ok, n) EXCEPT !.reply = "NONE"]
        left == IF c.cols > 0 THEN c.cols - 1 ELSE 0
    IN IF HeadOf(m) = "ff" THEN TerminatorErr(c, m)
       ELSE IF HeadOf(m) = "fe" /\ m.len = "short"
       THEN IF "CURSOR" \notin ok.st THEN [c EXCEPT !.cols = 0, !.reply = "ROWS"]
            ELSE IF c.open
            THEN EmitUnit(Flag([d EXCEPT !.unit.ncomplete = @ + 1],
                               IF Undrained(ok) THEN {"SUSPENDED"} ELSE {}))
            ELSE d
       ELSE [c EXCEPT !.cols = left, !.reply = IF left = 0 /\ DeprecateEof(c) THEN "ROWS" ELSE @]

ReplyRows(c, m, n) ==
    IF HeadOf(m) = "ff" THEN TerminatorErr(c, m)
    ELSE IF HeadOf(m) = "fe" /\ FeTerminator(c, m) THEN TerminatorOk(c, m, EofShape(c, m), n)
    ELSE IF c.open THEN [c EXCEPT !.unit.rows = @ + 1, !.unit.first = IF @ = 0 THEN n ELSE @]
    ELSE c

ReplyPrepMeta(c, m) ==
    LET left == IF c.meta > 0 THEN c.meta - 1 ELSE 0
    IN IF HeadOf(m) = "fe" /\ m.len = "short" THEN c
       ELSE [c EXCEPT !.meta = left, !.reply = IF left = 0 THEN "NONE" ELSE @]

QueryBackend(c, m, n) ==
    IF ~Seen(m) /\ c.reply \notin {"NONE", "ROWS", "COLS", "PREP_META"}
    THEN [DropUnit(c) EXCEPT !.reply = "NONE", !.text2 = <<>>]
    ELSE CASE c.reply = "NONE" -> c
           [] c.reply = "HEAD" -> ReplyHead(c, m, n)
           [] c.reply = "COLS" -> ReplyCols(c, m, n)
           [] c.reply = "ROWS" -> ReplyRows(c, m, n)
           [] c.reply = "PREPARE_OK" -> PrepOk(c, m)
           [] c.reply = "PREP_META" -> ReplyPrepMeta(c, m)
           [] c.reply = "STRING" -> [c EXCEPT !.reply = "NONE"]
           [] c.reply = "FIELD_LIST" ->
                [c EXCEPT !.reply = IF m.head = "ff" \/ (m.head = "fe" /\ m.len = "short")
                                    THEN "NONE" ELSE @]

-----------------------------------------------------------------------------
(* The client's commands (my_query.c, my.c).  type is the command byte, or  *)
(* "none" for a packet that is not the first of an exchange.                *)

QuerySimple(c, m, n) ==
    LET d == [UnitOpen(c, "SIMPLE", n) EXCEPT !.reply = "HEAD"]
    IN IF ~Parsed(m) THEN Flag(d, {"NO_TEXT", "TEXT_TRUNC"})
       ELSE Own(d, QueryTextAt(c, m), m)

OpenStmtUnit(c, m, n) ==
    LET d == UnitOpen(c, "EXTENDED", n)
        s == Least(ById(c, m.id))
    IN IF ~Parsed(m) \/ ById(c, m.id) = {} THEN Flag(d, {"NO_TEXT"})
       ELSE Flag([PrepLookup(d, s) EXCEPT !.unit.slot = s, !.unit.gen = c.prep[s].gen],
                 IF c.prep[s].trunc THEN {"TEXT_TRUNC"} ELSE {})

InfileData(c, m) == IF c.open THEN [c EXCEPT !.unit.bytes = @ + m.n] ELSE c

(* Mutated form of Anchored: the open unit and the staged name survive.     *)
AnchoredNot(c) == [c EXCEPT !.reply = "NONE", !.text2 = <<>>]

(* A command says that the reply before it is over, seen to its end or not. *)
Anchored(c) == [DropUnit(c) EXCEPT !.reply = "NONE", !.db2 = <<>>, !.text2 = <<>>]

Service == {"PING", "DEBUG", "PROCESS_INFO", "SET_OPTION", "STMT_RESET", "REGISTER_SLAVE"}

Dispatch(c, type, m, n) ==
    CASE type = "QUERY" -> QuerySimple(c, m, n)
      [] type = "STMT_PREPARE" -> PrepPrepare(c, m)
      [] type \in {"STMT_EXECUTE", "MARIADB_BULK"} -> [OpenStmtUnit(c, m, n) EXCEPT !.reply = "HEAD"]
      [] type = "STMT_FETCH" -> [OpenStmtUnit(c, m, n) EXCEPT !.reply = "ROWS"]
      [] type = "INIT_DB" -> InitDb(c, m)
      [] type = "CHANGE_USER" -> ChangeUser(c, m)
      [] type = "BINLOG_DUMP" -> [DropUnit(c) EXCEPT !.phase = "IGNORE"]
      [] type = "STATISTICS" -> [c EXCEPT !.reply = "STRING"]
      [] type = "FIELD_LIST" -> [c EXCEPT !.reply = "FIELD_LIST"]
      [] type = "RESET_CONNECTION" -> [PrepDropAll(c, m) EXCEPT !.reply = "HEAD"]
      [] type \in Service -> [c EXCEPT !.reply = "HEAD"]
      [] OTHER -> c

FrontendMsg(c, type, m, n) ==
    LET d == IF c.phase = "HANDSHAKE" THEN Promote(c)
             ELSE FromInfile(c)
    IN IF c.phase = "IGNORE" THEN c
       ELSE IF type = "none" /\ c.phase = "HANDSHAKE" THEN SessionFrontend(c, m)
       ELSE IF type = "none" THEN IF c.phase = "INFILE" THEN InfileData(c, m) ELSE c
       ELSE IF type = "STMT_CLOSE" THEN PrepClose(d, m)
       ELSE IF type \in {"QUIT", "STMT_SEND_LONG_DATA"} THEN d
       ELSE Dispatch(Anchored(d), type, m, n)

BackendMsg(c, m, n, blind) ==
    IF c.phase = "IGNORE" THEN c
    ELSE IF c.phase = "HANDSHAKE" THEN SessionBackend(c, m, blind)
    ELSE QueryBackend(c, m, n)

(* my_on_resync                                                             *)
OnResync(c) ==
    FromInfile([NoPending(DropUnit(c)) EXCEPT !.reply = "NONE", !.text2 = <<>>, !.txn = "?"])
=============================================================================

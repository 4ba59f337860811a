----------------------------- MODULE RedisUnits -----------------------------
(***************************************************************************)
(* The Redis handler of one connection (src/proto/redis/redis.c): the ring *)
(* of commands that wait for their replies, the replies that came before   *)
(* the command was put together, the batch a command came in, the labels   *)
(* SELECT, AUTH and RESET move, the transaction.                           *)
(*                                                                         *)
(* A value is [t, x, w, ts, first, lost, cut, args, len]: its type byte,   *)
(* the command it is or answers, what it says (a command's name; of a      *)
(* reply, what its first word tells), when it began, whether it was the    *)
(* first to begin in its call, whether its text could not be kept, or only *)
(* up to a hole, how many of its elements are in the text, its size.       *)
(***************************************************************************)
EXTENDS Integers, Sequences, FiniteSets

CONSTANTS
    Inflight,   \* LK_REDIS_MAX_INFLIGHT
    MaxEarly    \* LK_REDIS_MAX_EARLY

ASSUME RedisRingAssumption == Inflight \in Nat \ {0} /\ MaxEarly \in Nat

(* A label that says "?"; database 0 and the user default are 0, and a      *)
(* database or a user is otherwise named after the command that chose it.   *)
Unknown == -1

(* lk_redis_cmd_flags: what the commands are to the handler.                *)
SubFam == {"sub", "unsub"}

(* redis_read_argv: a command is what its first element says, an inline one *)
(* its first word.  An element that is not whole in the text is not read.   *)
CommandOf(v) ==
    IF ~v.lost /\ (v.t \in {"i", "q", "0"} \/ (v.t \in {"1", "2", "3", "5"} /\ v.args > 0))
    THEN v.w ELSE "other"

(* parse_db: the number of a database, if the element is there and is one.  *)
ParseDb(v) == IF v.args > 1 /\ v.w # "selbig" THEN v.x ELSE Unknown

(* hello_auth: the clause is there with both its arguments.                 *)
HelloAuth(v) == v.args > 4

(* lk_redis_session: what the command would do to the labels.  The user is  *)
(* named by the first of two arguments that are there; else it is default.  *)
Session(v, cmd) ==
    LET Moves(what, db, user) == [what |-> what, db |-> db, user |-> user]
    IN  CASE cmd \in {"select", "selbig"} -> Moves("db", ParseDb(v), 0)
          [] cmd = "reset" -> Moves("reset", 0, 0)
          [] cmd \in {"auth", "authpw"} -> Moves("user", 0, IF v.args > 2 THEN v.x ELSE 0)
          [] cmd = "hello" /\ HelloAuth(v) -> Moves("user", 0, v.x)
          [] OTHER -> Moves("none", 0, 0)

(* The first word of a reply (redis_read_word).                             *)
WordIs(v, w) == v.w = w /\ ~v.lost

(* The kind of a published value is its first element.                      *)
KindIsConfirm(v) == WordIs(v, "confirm")
KindIsDelivery(v) == WordIs(v, "message")

(* redis_conn, not attached yet; joined later than its start, the labels    *)
(* are not known (session_init).                                            *)
RedisConn(synthetic) ==
    [on |-> FALSE, units |-> <<>>, open_seq |-> 0, batch_seq0 |-> 0, batch_n |-> 0,
     owed |-> 0, early |-> <<>>, sub |-> FALSE, txn |-> 0, txn_n |-> 0,
     db |-> IF synthetic THEN Unknown ELSE 0, user |-> IF synthetic THEN Unknown ELSE 0,
     auth_seq |-> 0, auth_user |-> 0, out |-> <<>>]

(* redis_conn_get                                                           *)
ConnGet(rc, mem) == [rc EXCEPT !.on = @ \/ mem]

(* What the units in flight would do to the labels.                         *)
Moving(rc) == {rc.units[i].moves : i \in DOMAIN rc.units}

(* Mutated form of UnitsDropAll: a dropped unit leaves the labels alone.    *)
UnitsDropAllLabels(rc) ==
    [rc EXCEPT !.units = <<>>, !.txn = 0, !.txn_n = 0, !.owed = 0, !.early = <<>>,
               !.batch_seq0 = rc.open_seq, !.batch_n = 0]

(* Drop what is in flight; a label that a dropped command may have moved is *)
(* not known any more.                                                      *)
UnitsDropAll(rc) ==
    [rc EXCEPT !.db = IF Moving(rc) \cap {"db", "reset"} # {} THEN Unknown ELSE @,
               !.user = IF Moving(rc) \cap {"user", "reset"} # {} THEN Unknown ELSE @,
               !.units = <<>>, !.txn = 0, !.txn_n = 0, !.owed = 0, !.early = <<>>,
               !.batch_seq0 = rc.open_seq, !.batch_n = 0]

(* Mutated form of BatchNew: the units of the batch before keep no depth.   *)
BatchNewForgets(rc) == [rc EXCEPT !.batch_seq0 = rc.open_seq, !.batch_n = 0]

(* A batch begins; the size of the one before it is kept with its units.    *)
BatchNew(rc) ==
    [rc EXCEPT !.units = [i \in DOMAIN @ |->
                             IF @[i].seq >= rc.batch_seq0 THEN [@[i] EXCEPT !.depth = rc.batch_n]
                             ELSE @[i]],
               !.batch_seq0 = rc.open_seq, !.batch_n = 0]

(* units_expire: looked at when a command comes, at the front only.         *)
UnitsExpire(rc, now) ==
    IF rc.units # <<>> /\ now > rc.units[1].ts THEN UnitsDropAll(rc) ELSE rc

-----------------------------------------------------------------------------
(* reply_verdict: [x, err, queued, null, len].  Without the text only the   *)
(* type byte speaks.                                                        *)
ReplyVerdict(v) ==
    [x |-> v.x, err |-> v.w = "err", queued |-> WordIs(v, "queued"),
     null |-> v.w = "nil" /\ (v.t = "0" => ~v.lost), len |-> v.len]

(* Mutated form of TxnEnd: a failed watch commits.                          *)
TxnEndNull(u, r) ==
    IF u.cmd = "exec" THEN IF r.err THEN "E" ELSE "I"
    ELSE IF u.cmd \in {"discard", "reset"} /\ ~r.err THEN "E" ELSE "none"

(* How the reply ends an open transaction, if it does.                      *)
TxnEnd(u, r) ==
    IF u.cmd = "exec" THEN IF r.err \/ r.null THEN "E" ELSE "I"
    ELSE IF u.cmd \in {"discard", "reset"} /\ ~r.err THEN "E" ELSE "none"

(* txn_apply                                                                *)
TxnApply(rc, u, r) ==
    IF u.cmd = "multi"
    THEN IF ~r.err /\ rc.txn = 0 THEN [rc EXCEPT !.txn = u.x, !.txn_n = 0] ELSE rc
    ELSE IF r.queued /\ rc.txn # 0 THEN [rc EXCEPT !.txn_n = @ + 1]
    ELSE IF rc.txn = 0 \/ TxnEnd(u, r) = "none" THEN rc
    ELSE [rc EXCEPT !.txn = 0, !.txn_n = 0]

(* session_apply: the server has ruled on a command that moves a label.     *)
(* That it wrote the command down for later is no error.                    *)
SessionApply(rc, u, err) ==
    IF err THEN rc
    ELSE CASE u.moves = "reset" -> [rc EXCEPT !.db = 0, !.user = 0]
           [] u.moves = "db" -> [rc EXCEPT !.db = u.db]
           [] u.moves = "user" -> [rc EXCEPT !.user = IF u.seq = rc.auth_seq THEN rc.auth_user
                                                      ELSE Unknown]
           [] u.moves = "none" -> rc

(* unit_emit: the observation of the front unit, with on_txn if the reply   *)
(* ends a transaction.                                                      *)
UnitEmit(rc, u, r) ==
    LET ends == u.cmd # "multi" /\ ~(r.queued /\ rc.txn # 0) /\ rc.txn # 0 /\ TxnEnd(u, r) # "none"
    IN  [rc EXCEPT !.out = Append(@,
            [x |-> u.x, rx |-> r.x, cmd |-> u.cmd, err |-> r.err, queued |-> r.queued,
             bytes_in |-> u.len, bytes_out |-> r.len, db |-> rc.db, user |-> rc.user,
             depth |-> IF u.seq >= rc.batch_seq0 THEN rc.batch_n ELSE u.depth,
             txn_size |-> IF u.cmd = "exec" THEN rc.txn_n ELSE 0,
             txn |-> IF ends THEN rc.txn ELSE 0, end |-> IF ends THEN TxnEnd(u, r) ELSE "none"])]

(* The front unit gets its reply.                                           *)
Answered(rc, r) ==
    LET u == rc.units[1]
        g == TxnApply(SessionApply(UnitEmit(rc, u, r), u, r.err), u, r)
    IN  [g EXCEPT !.units = Tail(@)]

(* Mutated form of UnitClose: a reply that has no command yet is an orphan. *)
UnitCloseOrphan(rc, v, assembling) ==
    IF rc.units # <<>> THEN Answered(rc, ReplyVerdict(v))
    ELSE IF rc.owed > 0 THEN [rc EXCEPT !.owed = @ - 1]
    ELSE rc

(* unit_close; assembling: a command is being put together.                 *)
UnitClose(rc, v, assembling) ==
    IF rc.units # <<>> THEN Answered(rc, ReplyVerdict(v))
    ELSE IF rc.owed > 0 THEN [rc EXCEPT !.owed = @ - 1]
    ELSE IF assembling /\ Len(rc.early) < MaxEarly
    THEN [rc EXCEPT !.early = Append(@, ReplyVerdict(v))]
    ELSE rc

EarlyClaim(rc) ==
    IF Len(rc.units) # 1 THEN [rc EXCEPT !.early = <<>>]
    ELSE Answered([rc EXCEPT !.early = Tail(@)], rc.early[1])

-----------------------------------------------------------------------------
(* unit_open, for a command that has an identity                            *)
UnitOpen(rc, v, cmd) ==
    LET seq == rc.open_seq
        s == Session(v, cmd)
    IN  [rc EXCEPT !.units = Append(@, [x |-> v.x, seq |-> seq, cmd |-> cmd, ts |-> v.ts,
                                        depth |-> 0, len |-> v.len, moves |-> s.what, db |-> s.db]),
                   !.open_seq = @ + 1,
                   !.auth_seq = IF s.what = "user" THEN seq ELSE @,
                   !.auth_user = IF s.what = "user" THEN s.user ELSE @]

Claimed(rc) == IF rc.early # <<>> THEN EarlyClaim(rc) ELSE rc

(* redis_command.  A command that nothing answers opens no unit.            *)
RedisCommandOf(rc, v, cmd) ==
    LET s == [rc EXCEPT !.sub = CASE cmd = "reset" -> FALSE [] cmd = "sub" -> TRUE [] OTHER -> @,
                        !.batch_n = @ + 1]
    IN  CASE cmd = "void" -> rc
          [] cmd = "monitor" -> UnitsDropAll(rc)
          [] OTHER -> IF Len(rc.units) >= Inflight THEN [s EXCEPT !.owed = @ + 1]
                      ELSE Claimed(UnitOpen(s, v, cmd))

RedisCommand(rc, v) ==
    RedisCommandOf(IF v.first THEN BatchNew(rc) ELSE rc, v, CommandOf(v))

(* reply_kind: what a value of the server is.  In RESP2 a delivery is an    *)
(* array as any other, and only a subscriber's arrays are looked at.        *)
ReplyKind(rc, v) ==
    IF v.t = "|" THEN "ATTR"
    ELSE IF v.t = ">" THEN IF KindIsConfirm(v) THEN "CONFIRM" ELSE "PUSH"
    ELSE IF v.t = "1" /\ rc.sub /\ KindIsDelivery(v) THEN "PUSH"
    ELSE IF v.t = "1" /\ rc.sub /\ KindIsConfirm(v) THEN "CONFIRM"
    ELSE "REPLY"

(* redis_reply: a confirmation is only for a command that subscribes.       *)
RedisReply(rc, v, assembling) ==
    LET k == ReplyKind(rc, v)
        s == [rc EXCEPT !.sub = @ \/ k = "CONFIRM"]
        mine == s.units # <<>> /\ s.units[1].cmd \in SubFam
    IN  IF k \in {"ATTR", "PUSH"} THEN rc
        ELSE IF k = "CONFIRM" /\ ~mine THEN s
        ELSE UnitClose(s, v, assembling)

(* redis_on_msg                                                             *)
OnMsg(rc, d, v, assembling) ==
    IF d = "RECV" THEN RedisCommand(UnitsExpire(rc, v.ts), v)
    ELSE RedisReply(rc, v, assembling)

(* redis_on_resync: whichever direction it was.                             *)
OnResync(rc) == UnitsDropAll(rc)

(* redis_on_conn_close                                                      *)
OnConnClose(rc) == [UnitsDropAll(rc) EXCEPT !.on = FALSE]
=============================================================================

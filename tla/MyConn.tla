------------------------------- MODULE MyConn -------------------------------
(***************************************************************************)
(* struct my_conn and the parts of the MySQL handlers that every other     *)
(* part uses (src/proto/my: my.h, my_prep.c, my_query.c): the one unit in  *)
(* flight, its text, and the cache of prepared statements.                 *)
(*                                                                         *)
(* The operators take the connection's record and return it changed.  What *)
(* a step reports to the sink is appended to its field out.  A timestamp   *)
(* is the number of the exchange (a command and its reply) whose packet    *)
(* gave it.  m.how says what the agent got of the packet m: "full", "cut"  *)
(* (its first byte; of a handshake response its first four), "in name" (up *)
(* to the middle of its first name), "in db" (up to the middle of its      *)
(* second), "blind" (its header alone), or "oom" (all of it, and the       *)
(* allocations its handler makes fail).                                    *)
(***************************************************************************)
EXTENDS Integers, Sequences, FiniteSets

CONSTANTS
    Texts,      \* texts of statements
    Rollback,   \* the one of them that is an explicit ROLLBACK
    NoText,     \* no text
    Garbage,    \* a text read at the wrong offset
    Names,      \* names of databases and of users
    NoName,     \* the empty label
    Stem,       \* the part of each name that was captured when it was cut
    StmtIds,    \* statement ids the server hands out
    PrepCache   \* LK_MY_PREP_CACHE

ASSUME MyNameAssumption ==
    Rollback \in Texts /\ NoText \notin Texts /\ Garbage \notin Texts /\ NoName \notin Names
ASSUME MyStemAssumption == \A n \in Names : Stem[n] \notin Names \cup {NoName}
ASSUME MyCacheAssumption == PrepCache \in Nat \ {0}

Slots == 1 .. PrepCache

NoUnit == [start |-> 0, first |-> 0, rows |-> 0, bytes |-> 0, ncomplete |-> 0, kind |-> "NONE",
           flags |-> {}, slot |-> 0, gen |-> 0, own |-> NoText]

FreeSlot == [used |-> FALSE, trunc |-> FALSE, gen |-> 0, lru |-> 0, id |-> 0, text |-> NoText]

(* my_conn_get: a synthetic connection is past its handshake and knows no   *)
(* capabilities.                                                            *)
NewConn(synthetic) ==
    [phase |-> IF synthetic THEN "READY" ELSE "HANDSHAKE",
     sess |-> IF synthetic THEN "DONE" ELSE "GREETING",
     reply |-> "NONE", caps |-> {}, known |-> FALSE, emitted |-> FALSE, complete |-> FALSE,
     user |-> NoName, db |-> NoName, user2 |-> <<>>, db2 |-> <<>>,
     unit |-> NoUnit, open |-> FALSE, cols |-> 0, meta |-> 0,
     text2 |-> <<>>, trunc2 |-> FALSE, prep |-> <<>>, clock |-> 0,
     txn |-> "?", txnstart |-> 0, out |-> <<>>]

Out(c, o) == [c EXCEPT !.out = Append(@, o)]

Seen(m) == m.how # "blind"            \* body_cap > 0
Parsed(m) == m.how \in {"full", "oom"}  \* the fields behind the first byte
Trunc(m) == ~Parsed(m)                  \* LK_MSG_BODY_TRUNC

-----------------------------------------------------------------------------
(* The unit (my_query.c).                                                   *)

UnitOpen(c, kind, n) == [c EXCEPT !.unit = [NoUnit EXCEPT !.kind = kind, !.start = n], !.open = TRUE]

(* Nothing reads the unit once it is closed: its record is emptied.         *)
DropUnit(c) == [c EXCEPT !.open = FALSE, !.unit = NoUnit]

Flag(c, fs) == [c EXCEPT !.unit.flags = @ \cup fs]

Corrupt(c) == [DropUnit(c) EXCEPT !.reply = "NONE"]

(* own_grow: an owned copy of the text t, or no text when memory is short.  *)
Own(c, t, m) ==
    IF m.how = "oom" THEN Flag([c EXCEPT !.unit.own = NoText], {"NO_TEXT"})
    ELSE [c EXCEPT !.unit.own = t]

RescueRef(c, s, m) ==
    IF c.open /\ c.unit.slot = s /\ c.unit.gen = c.prep[s].gen
    THEN [Own(c, c.prep[s].text, m) EXCEPT !.unit.slot = 0]
    ELSE c

UnitText(c) ==
    LET u == c.unit
        e == c.prep[u.slot]
    IN IF "NO_TEXT" \in u.flags THEN NoText
       ELSE IF u.slot = 0 THEN u.own
       ELSE IF e.used /\ e.gen = u.gen THEN e.text ELSE NoText

UnitIsRollback(c) == UnitText(c) = Rollback

(* query_text_off: the header of query attributes is skipped when the       *)
(* capabilities announce it.  With none known its empty form is recognised. *)
QueryTextAt(c, m) ==
    IF IF c.known THEN (m.attrs = "none") = ("attrs" \notin c.caps) ELSE m.attrs # "params"
    THEN m.text ELSE Garbage

EmitUnit(c) ==
    Out(DropUnit(c),
        [what |-> "query", start |-> c.unit.start, first |-> c.unit.first, rows |-> c.unit.rows,
         bytes |-> c.unit.bytes, kind |-> c.unit.kind, flags |-> c.unit.flags,
         text |-> UnitText(c), txn |-> c.txn, user |-> c.user, db |-> c.db])

-----------------------------------------------------------------------------
(* The cache of prepared statements (my_prep.c).                            *)

ById(c, id) == {s \in DOMAIN c.prep : c.prep[s].used /\ c.prep[s].id = id}

Least(S) == CHOOSE s \in S : \A t \in S : s <= t

(* A free slot, or the one used least recently.                             *)
PickSlot(c) ==
    LET free == {s \in Slots : ~c.prep[s].used}
    IN IF free # {} THEN Least(free)
       ELSE CHOOSE s \in Slots : \A t \in Slots : c.prep[s].lru <= c.prep[t].lru

PrepPrepare(c, m) ==
    [c EXCEPT !.reply = "PREPARE_OK", !.trunc2 = Trunc(m),
              !.text2 = <<IF m.how = "full" THEN m.text ELSE NoText>>]

(* The slot of the reply m, once the unit that refers to it keeps a copy.   *)
Bound(c, m) ==
    LET same == ById(c, m.id)
        s    == IF same = {} THEN PickSlot(c) ELSE Least(same)
        d    == RescueRef(c, s, m)
    IN [d EXCEPT
          !.clock = @ + 1,
          !.prep[s] = [used |-> TRUE, trunc |-> c.trunc2, gen |-> @.gen + 1, lru |-> c.clock + 1,
                       id |-> m.id,
                       text |-> IF m.how = "oom" THEN NoText ELSE c.text2[1]]]

PrepOk(c, m) ==
    LET meta == [c EXCEPT !.meta = m.n, !.reply = IF m.n > 0 THEN "PREP_META" ELSE "NONE"]
        had  == [meta EXCEPT !.text2 = <<>>]
        cache == IF c.prep = <<>> THEN [s \in Slots |-> FreeSlot] ELSE c.prep
    IN IF m.head # "00" \/ ~Parsed(m) THEN [c EXCEPT !.reply = "NONE", !.text2 = <<>>]
       ELSE IF c.text2 = <<>> THEN meta
       ELSE IF c.prep = <<>> /\ m.how = "oom" THEN had
       ELSE [Bound([meta EXCEPT !.prep = cache], m) EXCEPT !.text2 = <<>>]

Emptied(e) == IF e.used THEN [e EXCEPT !.used = FALSE, !.gen = @ + 1, !.text = NoText] ELSE e

PrepClose(c, m) ==
    LET found == ById(c, m.id)
        s == Least(found)
    IN IF ~Parsed(m) \/ found = {} THEN c
       ELSE [RescueRef(c, s, m) EXCEPT !.prep[s] = Emptied(@)]

(* The slot that holds the statement becomes the most recently used.        *)
PrepLookup(c, s) == [c EXCEPT !.clock = @ + 1, !.prep[s].lru = c.clock + 1]

PrepDropAll(c, m) ==
    LET mine == {s \in DOMAIN c.prep : c.open /\ c.unit.slot = s /\ c.prep[s].used}
        d == IF mine = {} THEN c ELSE RescueRef(c, Least(mine), m)
    IN [d EXCEPT !.prep = [s \in DOMAIN @ |-> Emptied(@[s])]]
=============================================================================

----------------------------- MODULE HttpServer -----------------------------
(***************************************************************************)
(* The server of the Prometheus endpoint (export/http.c): a pool of client *)
(* connections in the event loop, each reading one request and writing one *)
(* answer.  The operators take a world w with the fields loop and conns    *)
(* and return the worlds that a call may leave; what a client sends, how   *)
(* much of an answer it takes and which system calls fail is open.         *)
(***************************************************************************)
EXTENDS Loop

CONSTANTS
    MaxConn,      \* LK_HTTP_MAX_CONN
    HttpTimeout   \* the seconds a connection may last

ASSUME HttpAssumption == MaxConn \in Nat /\ HttpTimeout \in Nat

Place == 1 .. MaxConn

Free == [state |-> "FREE", fd |-> NULL, ttl |-> 0]

ConnOwner(i) == <<"conn", i>>

CloseAllKept(w, late) ==   \* leaves the registrations behind
    [w EXCEPT !.conns = [i \in Place |-> IF i \in late THEN Free ELSE w.conns[i]]]

(* conn_close of every connection of the set.                               *)
CloseAll(w, late) ==
    [w EXCEPT !.loop = LkLoopDelFds(w.loop, {w.conns[i].fd : i \in late}),
              !.conns = [i \in Place |-> IF i \in late THEN Free ELSE w.conns[i]]]

ConnClose(w, i) == CloseAll(w, {i})

(* Everything sent, or the client is gone: closed.  Otherwise the rest      *)
(* waits for the socket.                                                    *)
ConnWrite(w, i) == {w, ConnClose(w, i)}

(* The answer stands in memory: the connection changes to writing.          *)
Answering(w, i, ctl) ==
    LET m == LkLoopModFd(w.loop, w.conns[i].fd, "out", ctl)
    IN  IF m.ok THEN ConnWrite([w EXCEPT !.loop = m.loop, !.conns[i].state = "WRITE"], i)
        ELSE {ConnClose(w, i)}

(* The bytes that have arrived: an incomplete request waits for more; the   *)
(* end of the stream, an error or an answer that cannot be allocated closes *)
(* the connection; a whole request, or a buffer full without one, is        *)
(* answered.                                                                *)
ConnRead(w, i) == {w, ConnClose(w, i)} \union UNION {Answering(w, i, ctl) : ctl \in BOOLEAN}

OnConn(w, i) == IF w.conns[i].state = "WRITE" THEN ConnWrite(w, i) ELSE ConnRead(w, i)

(* One client taken from the queue of the listening socket: shed when no    *)
(* place is free or the loop does not take it.                              *)
Accepted(w, ctl) ==
    LET free == {i \in Place : w.conns[i].state = "FREE"}
        i == Min(free)
        fd == NewFd(w.loop)
        a == LkLoopAddFd(w.loop, fd, ConnOwner(i), ctl)
    IN  IF free = {} \/ ~a.ok THEN w
        ELSE [w EXCEPT !.loop = a.loop,
                       !.conns[i] = [state |-> "READ", fd |-> fd, ttl |-> HttpTimeout]]

OnHttpSweepReading(w) ==   \* spares a connection that is writing
    CloseAll(w, {i \in Place : w.conns[i].state = "READ" /\ w.conns[i].ttl = 0})

(* Once a second: the connections past their deadline.                      *)
OnHttpSweep(w) == CloseAll(w, {i \in Place : w.conns[i].state # "FREE" /\ w.conns[i].ttl = 0})

LkHttpFree(w) ==
    LET c == CloseAll(w, {i \in Place : w.conns[i].state # "FREE"})
        lfd == {s \in Active(c.loop) : c.loop.fds[s].owner = <<"listen">>}
    IN  [c EXCEPT !.loop = LkLoopDelFd(c.loop, c.loop.fds[Min(lfd)].fd)]

=============================================================================

-------------------------------- MODULE Loop --------------------------------
(***************************************************************************)
(* The event loop (agent/loop.c): a fixed table of registrations behind    *)
(* one epoll set.  A batch is what one epoll_wait returned and has not been *)
(* dispatched yet; a handler may register and deregister other files while *)
(* the batch still holds their events.  The loop is a value                *)
(*                                                                         *)
(*   fds    the registration of each slot, NULL where none is active       *)
(*   held   the slots freed since the batch began (freed_gen = gen)        *)
(*   batch  the slots whose events are still to be dispatched              *)
(*   stale  those whose registration went away after the event was raised  *)
(*                                                                         *)
(* that the operators below take and return.                               *)
(***************************************************************************)
EXTENDS Integers, FiniteSets, FiniteSetsExt

CONSTANTS
    NFds,   \* LK_LOOP_MAX_FDS
    NULL

ASSUME FdsAssumption == NFds \in Nat

Slot == 1 .. NFds

LkLoopNew == [fds |-> [s \in Slot |-> NULL], held |-> {}, batch |-> {}, stale |-> {}]

Active(l) == {s \in Slot : l.fds[s] # NULL}

AllocSlotAny(l) == Slot \ Active(l)   \* forgets freed_gen

(* The slots alloc_slot may hand out: inactive, and not freed by a handler  *)
(* of the batch being dispatched.                                           *)
AllocSlot(l) == {s \in Slot \ Active(l) : s \notin l.held}

FindSlot(l, fd) == {s \in Active(l) : l.fds[s].fd = fd}

(* Registers fd for reading; epoll_ctl may refuse.                          *)
LkLoopAddFd(l, fd, owner, ctl) ==
    IF AllocSlot(l) = {} \/ ~ctl THEN [ok |-> FALSE, loop |-> l]
    ELSE [ok |-> TRUE,
          loop |-> [l EXCEPT !.fds[Min(AllocSlot(l))] = [fd |-> fd, owner |-> owner, wants |-> "in"]]]

LkLoopModFd(l, fd, wants, ctl) ==
    IF FindSlot(l, fd) = {} \/ ~ctl THEN [ok |-> FALSE, loop |-> l]
    ELSE [ok |-> TRUE, loop |-> [l EXCEPT !.fds[Min(FindSlot(l, fd))].wants = wants]]

(* The files are closed, one lk_loop_del_fd each.                           *)
LkLoopDelFds(l, fds) ==
    LET gone == UNION {FindSlot(l, fd) : fd \in fds}
    IN  [l EXCEPT !.fds = [s \in Slot |-> IF s \in gone THEN NULL ELSE @[s]],
                  !.held = @ \union gone,
                  !.stale = @ \union (gone \intersect l.batch)]

LkLoopDelFd(l, fd) == LkLoopDelFds(l, {fd})

(* socket and accept4 return the lowest number that is free.                *)
NewFd(l) == Min({n \in 1 .. NFds + 1 : FindSlot(l, n) = {}})

(* One epoll_wait: a new generation, nothing held.                          *)
NewBatch(l, ready) == [l EXCEPT !.held = {}, !.batch = ready, !.stale = {}]

(* Between two batches nothing is held: gen moves on before the next         *)
(* registration.                                                            *)
Settled(l) == IF l.batch = {} THEN [l EXCEPT !.held = {}] ELSE l

Taken(l, s) == [l EXCEPT !.batch = @ \ {s}, !.stale = @ \ {s}]

=============================================================================

---------------------------- MODULE MCConnTable ----------------------------
(* Instances of ConnTable for TLC. *)
EXTENDS ConnTable, TLC

CONSTANTS c1, c2, c3, pg, my

MCCookie == {c1, c2, c3}
MCCookie2 == {c1, c2}
MCProto == {pg, my}

\* Port 3306 is mysql, not the default protocol; or 5432, the default.
MCPortOne == 3306 :> my
MCPortPg == 5432 :> pg

(* The framing state of an entry (dirty) is written and never read here: no *)
(* guard and no property looks at it.                                       *)
Undirtied(e) == IF e = NULL THEN NULL ELSE [e EXCEPT !.dirty = <<>>]

(* All there is of a cookie: nothing in this run tells an override in force *)
(* from one that the kernel forgot.                                         *)
Facts(c) == <<Undirtied(tab.conn[c]), capmode[c] = "full", {p \in Proto : <<c, p>> \in tab.heap}>>

(* The cookies by their place in the list: states that differ only in the   *)
(* names of the cookies are one.                                            *)
View == <<[i \in 1 .. Len(tab.lru) |-> Facts(tab.lru[i])], {Facts(c) : c \in Cookie},
          Cardinality({c \in Cookie : capmode[c] = "full"}), tab.active, tab.tls_active, lost, running>>

=============================================================================

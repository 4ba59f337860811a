------------------------------ MODULE MCMySql -------------------------------
(* Small instances of MySql.                                                *)
EXTENDS MySql

MCStem == [n \in Names |-> IF n = "a" THEN "a-" ELSE "b-"]

MCCapSets == {{"deof", "track", "attrs"}, {"mcache", "progress"}, {"compress"}, {}}

(* The capabilities of a client of MySQL 8.                                 *)
ModernCaps == {{"deof"}}
=============================================================================

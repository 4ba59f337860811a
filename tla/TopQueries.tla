----------------------------- MODULE TopQueries -----------------------------
(***************************************************************************)
(* What the query dictionary of the registry promises, without the hash    *)
(* table, the linked list and the free stack it is made of: at most K      *)
(* fingerprints have a row of their own; the least recently observed of    *)
(* them makes room; a newcomer that finds the rows taken is admitted on    *)
(* its second appearance only; and what a row has counted moves to the     *)
(* row "other" with it.                                                    *)
(***************************************************************************)
EXTENDS Integers, Sequences, SequencesExt

CONSTANTS K, Fp

VARIABLES
    order,   \* the fingerprints with a row, the most recently observed first
    count,   \* what each of those rows has counted
    other,   \* what the row "other" has counted
    lost,    \* what no row holds any more: no memory for a row of "other"
    waiting  \* newcomers that were turned away and are remembered

vars == <<order, count, other, lost, waiting>>

Held == {order[i] : i \in DOMAIN order}

Init ==
    /\ order = <<>> /\ count = <<>> /\ other = 0 /\ lost = 0 /\ waiting = {}

(* An observation counts n: nothing when it carries no duration.            *)
Hit(fp, n) ==
    /\ fp \in Held
    /\ order' = <<fp>> \o SelectSeq(order, LAMBDA g : g # fp)
    /\ count' = [count EXCEPT ![fp] = @ + n]
    /\ UNCHANGED <<other, lost, waiting>>

Admit(fp, n) ==
    /\ fp \notin Held /\ Len(order) < K
    /\ order' = <<fp>> \o order
    /\ count' = [g \in Held \union {fp} |-> IF g = fp THEN n ELSE count[g]]
    /\ UNCHANGED <<other, lost, waiting>>

(* Turning a newcomer away may forget others, never the newcomer.           *)
Defer(fp, n) ==
    /\ fp \notin Held /\ Len(order) = K /\ fp \notin waiting
    /\ waiting' \in {w \union {fp} : w \in SUBSET waiting}
    /\ other' = other + n
    /\ UNCHANGED <<order, count, lost>>

Replace(fp, n) ==
    /\ fp \notin Held /\ Len(order) = K /\ fp \in waiting
    /\ waiting' = waiting \ {fp}
    /\ order' = <<fp>> \o Front(order)
    /\ count' = [g \in (Held \ {Last(order)}) \union {fp} |-> IF g = fp THEN n ELSE count[g]]
    /\ \E x \in 0 .. count[Last(order)] :
          /\ other' = other + x
          /\ lost' = lost + (count[Last(order)] - x)

(* An observation without a text goes to "other" and asks nobody.           *)
Spill(n) ==
    /\ other' = other + n
    /\ UNCHANGED <<order, count, lost, waiting>>

Next ==
    \E n \in 0 .. 1 :
        \/ Spill(n)
        \/ \E fp \in Fp : Hit(fp, n) \/ Admit(fp, n) \/ Defer(fp, n) \/ Replace(fp, n)

Spec == Init /\ [][Next]_vars

=============================================================================

------------------------------ MODULE MCFramer ------------------------------
(***************************************************************************)
(* Instances of Framer for TLC: headers of 2 bytes, a prefix of at most 2, *)
(* and four short streams.                                                 *)
(***************************************************************************)
EXTENDS Framer, Sequences

(* Fragments of the given lengths one after another, as far as MaxPos;      *)
(* cont and flips are sets of their indices.                                *)
Stream(lens, cont, flips) ==
    LET Start[i \in 1 .. Len(lens) + 1] ==
            IF i = 1 THEN 0 ELSE Start[i - 1] + HdrSize + lens[i - 1]
        First[i \in 1 .. Len(lens)] ==
            IF i > 1 /\ i - 1 \in cont THEN First[i - 1] ELSE Start[i]
        Upto[i \in 1 .. Len(lens)] ==
            lens[i] + (IF i > 1 /\ i - 1 \in cont THEN Upto[i - 1] ELSE 0)
        Last(i) == CHOOSE j \in i .. Len(lens) :
                      /\ j \notin cont \/ j = Len(lens)
                      /\ \A m \in i .. j - 1 : m \in cont
        Index(p) == CHOOSE i \in 1 .. Len(lens) : Start[i] = p
    IN  [p \in {Start[i] : i \in 1 .. Len(lens)} \cap 0 .. MaxPos |->
            LET i == Index(p)
            IN  [len |-> lens[i], cont |-> i \in cont, first |-> First[i],
                 end |-> Start[Last(i) + 1], upto |-> Upto[i], flips |-> i \in flips]]

(* Empty, short and long bodies.                                            *)
Plain == Stream(<<3, 0, 2>>, {}, {})

(* A message of three fragments, the last of them empty, then another.      *)
Glued == Stream(<<1, 2, 0, 1>>, {1, 2}, {})

(* A message that begins after another and runs past the end.               *)
LongTail == Stream(<<0, 1, 8>>, {2}, {})

(* A message after which there is ciphertext.                               *)
Flip == Stream(<<1, 2>>, {}, {2})

MCWires == {Plain, Glued, LongTail, Flip}
=============================================================================

----------------------------- MODULE MCPgQuery ------------------------------
(* Small instances of PgQuery.                                              *)
EXTENDS PgQuery, TLC

OneFault == {{"RECV", "SEND"}, {"RECV"}, {"SEND"}}

NoFault == {}

(* Texts are only compared.                                                 *)
AnyTexts == Permutations(Texts)
=============================================================================

------------------------------ MODULE MCRedis -------------------------------
(* Instances of Redis for TLC.                                              *)
EXTENDS Redis

MCScripts ==
    [resp2 |->
        {<<"get", "get", "get">>, <<"set", "get", "set">>, <<"void", "ping">>, <<"fail", "set">>,
         <<"multi", "get", "exec">>, <<"multi", "multi", "discard">>, <<"multi", "reset">>,
         <<"multi", "select", "discard", "ping">>, <<"multi", "authpw", "exec", "ping">>,
         <<"auth", "authpw", "ping">>, <<"hello", "ping">>, <<"selbig", "ping">>, <<"select", "reset", "ping">>,
         <<"sub", "reset">>, <<"sub", "ping", "unsub">>, <<"sub", "sub", "ping">>,
         <<"select", "select", "ping">>, <<"many", "ping">>, <<"deep", "ping">>,
         <<"get", "bad">>, <<"get", "monitor">>},
     resp3 |-> {<<"sub", "get", "many">>, <<"attr", "get">>},
     tls |-> {<<"get", "select">>},
     late |-> {<<"get", "select", "get">>}]

(* A client that asks for values larger than the capture budget, and rests. *)
MCScriptsIdle == [resp2 |-> {<<"get", "get">>}]

(* A subscriber that leaves with a RESET, one that asks for more channels,  *)
(* one of RESP3 that also reads a list; a SELECT that is thrown away with   *)
(* its transaction.                                                         *)
MCScriptsClaims ==
    [resp2 |-> {<<"sub", "reset">>, <<"sub", "sub">>, <<"multi", "select", "discard", "get">>},
     resp3 |-> {<<"sub", "many">>}]
=============================================================================

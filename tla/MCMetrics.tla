----------------------------- MODULE MCMetrics ------------------------------
(***************************************************************************)
(* Metrics on small instances: two slots in a table of eight, whose        *)
(* searches start at its last places and wrap around.                      *)
(***************************************************************************)
EXTENDS Metrics

MCFp == {0, 2, 3, 4}

MCHome == [fp \in MCFp |-> CASE fp = 0 -> 7 [] fp = 2 -> 7 [] fp = 3 -> 6 [] fp = 4 -> 0]

pg == [name |-> "pg", profile |-> "QUERY"]
http == [name |-> "http", profile |-> "HTTP"]
s3 == [name |-> "s3", profile |-> "S3"]
redis == [name |-> "redis", profile |-> "REDIS"]

MCHistMin == -12

MCClassic == {-8, -4, 0, 4}

MCProto == {pg, http, s3, redis}

MCProtoOf == [c \in {1, 2, 3, 4} |-> CASE c = 1 -> pg [] c = 2 -> http [] c = 3 -> s3 [] c = 4 -> redis]

MCSession == [c \in {1, 2, 3, 4} |-> IF c = 1 THEN {<<"d", "u">>} ELSE {<<"", "u">>}]

MCSessSlot == [c \in {1, 2, 3, 4} |-> 0]

Report ==
    [profile |-> "QUERY", kind |-> "simple", flags |-> {}, fp |-> NULL, text |-> <<>>, op |-> "",
     status |-> 0, err_name |-> "", start |-> 1, req_done |-> 0, first_row |-> 0, complete |-> 2,
     ready |-> 3, rows |-> 1, bytes_in |-> 0, bytes_out |-> 0, obj_bytes |-> 0, data_op |-> FALSE,
     redirect |-> "none", depth |-> 0]

Sql(fp) == [Report EXCEPT !.fp = fp, !.text = <<115, 48 + fp>>]

MCQuery ==
    [q0 |-> Sql(0),
     q2 |-> [Sql(2) EXCEPT !.flags = {"ERROR"}, !.err_name = "42601", !.first_row = 2],
     q3 |-> [Sql(3) EXCEPT !.flags = {"PIPELINED", "TEXT_TRUNC"}, !.complete = 9],
     cancel |-> [Report EXCEPT !.kind = "cancel"],
     aborted |-> [Sql(2) EXCEPT !.flags = {"ABORTED"}],
     get |-> [Report EXCEPT !.profile = "HTTP", !.op = "GET", !.fp = 4, !.text = <<47>>,
                            !.status = 404, !.req_done = 2, !.first_row = 3, !.complete = 5,
                            !.bytes_out = 100],
     put |-> [Report EXCEPT !.profile = "S3", !.op = "PUT", !.fp = 2, !.text = <<80>>, !.status = 200,
                            !.req_done = 4, !.complete = 6, !.obj_bytes = 3000, !.data_op = TRUE],
     health |-> [Report EXCEPT !.profile = "S3", !.flags = {"INTERNAL"}],
     blpop |-> [Report EXCEPT !.profile = "REDIS", !.kind = "command", !.fp = 4, !.text = <<66>>,
                              !.flags = {"BLOCKING"}, !.complete = 9, !.bytes_out = 20, !.depth = 2],
     queued |-> [Report EXCEPT !.profile = "REDIS", !.kind = "command", !.fp = 0, !.text = <<83>>,
                               !.flags = {"QUEUED"}, !.bytes_out = 9],
     moved |-> [Report EXCEPT !.profile = "REDIS", !.kind = "command", !.flags = {"ERROR"},
                              !.redirect = "moved", !.err_name = "MOVED"]]

Load(draws, r, t, f) == [from |-> draws, reports |-> r, txns |-> t, fails |-> f]

MCTraffic ==
    {Load({<<1, "q0">>, <<1, "q2">>, <<1, "q3">>, <<2, "get">>}, 5, 0, 0),
     Load({<<1, "q0">>, <<1, "q2">>, <<3, "put">>, <<4, "blpop">>}, 4, 0, 1),
     Load({<<1, "q0">>, <<1, "cancel">>, <<1, "aborted">>, <<4, "queued">>}, 3, 2, 0),
     Load({<<4, "blpop">>, <<4, "queued">>, <<4, "moved">>, <<3, "health">>}, 3, 1, 0)}

=============================================================================

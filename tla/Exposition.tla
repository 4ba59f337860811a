----------------------------- MODULE Exposition -----------------------------
(***************************************************************************)
(* What a scrape and a push read from the registry: the text exposition    *)
(* (lk_reg_dump) and the structured walk (lk_reg_iter) of metrics/         *)
(* registry.c.  Each is the set of samples it hands out; the order of the  *)
(* lines, their escaping and the HELP and TYPE lines are left out.         *)
(***************************************************************************)
EXTENDS Registry

CONSTANT Classic   \* the grid indices of the classic bucket boundaries

(* The label values of the pseudo-slot, as bytes.                           *)
OtherLabel == <<111, 116, 104, 101, 114>>

DimLabels(d) == IF d = OtherDim THEN <<"other", "other">> ELSE dims[d]

ProtoStr(p) == IF p <= Len(protos.names) THEN protos.names[p] ELSE "other"

ErrStr(prof, e) == IF e = OtherErr THEN "other" ELSE err_codes[prof][e]

(* The rows of a profile: the series whose protocol prints under it.        *)
CollectRows(prof) == {k \in DOMAIN series : ProtoProfile(k.proto) = prof}

(* The labels every family of a row prints; the operation only where the    *)
(* profile has one.                                                         *)
RowLabelset(k) ==
    [slot |-> IF k.q = K THEN OtherLabel ELSE dict.entries[k.q].label,
     op |-> IF ~HasOp(ProtoProfile(k.proto)) THEN ""
            ELSE IF k.q = K THEN "other" ELSE dict.entries[k.q].op,
     pair |-> DimLabels(k.dim), proto |-> ProtoStr(k.proto)]

(* Rows are grouped by their labels and their operation, printed or not.    *)
RowOp(k) == IF k.q = K THEN "other" ELSE dict.entries[k.q].op

SameQseries(a, b) == RowLabelset(a) = RowLabelset(b) /\ RowOp(a) = RowOp(b)

Groups(rows) == {{b \in rows : SameQseries(a, b)} : a \in rows}

Sum(ks, F(_)) == MapThenSumSet(F, ks)

(* hist is the histogram of a series to merge, "second" or "upload".        *)
MergedHist(ks, hist) ==
    MapThenFoldSet(LkHistMerge, EmptyBag, LAMBDA k : series[k][hist],
                   LAMBDA S : CHOOSE x \in S : TRUE, ks)

MergedSize(ks) ==
    MapThenFoldSet(LkBhistMerge, NewSeries, LAMBDA k : series[k],
                   LAMBDA S : CHOOSE x \in S : TRUE, {k \in ks : series[k].size # EmptyBag})

(* A sample: the family, the labels, what else tells it apart, the number   *)
(* or the cumulative buckets it prints, and the rows it is made from.       *)
Sample(fam, prof, labels, extra, n, cum, rows) ==
    [fam |-> <<prof, fam>>, labels |-> labels, extra |-> extra, n |-> n, cum |-> cum, rows |-> rows]

Labels(g) == RowLabelset(CHOOSE k \in g : TRUE)

LkHistWrite(h) == [lt \in Classic |-> CumLt(h, lt)]

LkBhistWrite(s) ==
    [i \in 0 .. GridOf(s).n - 1 |-> MapThenSumSet(LAMBDA c : CopiesIn(c, s.size), 0 .. i)]

Tallied(g, c) == Sum(g, LAMBDA k : CopiesIn(c, series[k].tally))

(* The families that are keyed by a slot, as text.                          *)
WriteQkeyed(prof, rows) ==
    LET gs == Groups(rows)
        Lines(fam) ==
            {Sample(fam, prof, Labels(g), <<>>, BagCardinality(MergedHist(g, fam)),
                    LkHistWrite(MergedHist(g, fam)), g) :
                g \in {x \in gs : \E k \in x : series[k][fam] # EmptyBag}}
    IN  (IF ~Has(prof, "TOTAL") THEN {}
         ELSE UNION {{Sample("total", prof, Labels(g), <<c>>, Tallied(g, c), <<>>, g) :
                         c \in {x \in TotalAxis(prof) : Tallied(g, x) > 0}} : g \in gs})
        \union {Sample("dur", prof, RowLabelset(k), <<k.code>>, BagCardinality(series[k].dur),
                       LkHistWrite(series[k].dur), {k}) :
                   k \in {x \in rows : series[x].dur # EmptyBag}}
        \union (IF ~Has(prof, "ROWS") THEN {}
                ELSE {Sample("rows", prof, Labels(g), <<>>, Sum(g, LAMBDA k : series[k].rows), <<>>, g) :
                         g \in gs})
        \union (IF Has(prof, "TTFB") \/ Has(prof, "BLOCKING") \/ (FirstRow /\ Has(prof, "FIRST_ROW"))
                THEN Lines("second") ELSE {})
        \union (IF Has(prof, "UPLOAD") THEN Lines("upload") ELSE {})

WriteQkeyedBytes(prof, rows) ==
    (IF ~Has(prof, "BYTES") THEN {}
     ELSE {Sample("bytes", prof, Labels(g), <<"in">>, Sum(g, LAMBDA k : series[k].bytes_in), <<>>, g) :
              g \in Groups(rows)}
          \union
          {Sample("bytes", prof, Labels(g), <<"out">>, Sum(g, LAMBDA k : series[k].bytes_out), <<>>, g) :
              g \in Groups(rows)})
    \union
    (IF ~Has(prof, "SIZE") THEN {}
     ELSE {Sample("size", prof, Labels(g), <<>>, BagCardinality(MergedSize(g).size),
                  LkBhistWrite(MergedSize(g)), g) :
              g \in {x \in Groups(rows) : \E k \in x : series[k].size # EmptyBag}})

(* A counter that hangs on no slot: its key tells its labels.               *)
FlatLabels(dim, proto) ==
    [slot |-> <<>>, op |-> "", pair |-> DimLabels(dim), proto |-> ProtoStr(proto)]

NoLabels == [slot |-> <<>>, op |-> "", pair |-> <<"", "">>, proto |-> ""]

ProtoLabel(proto) == [NoLabels EXCEPT !.proto = ProtoStr(proto)]

Flat(fam) == {c \in DOMAIN flat : c[1] = fam}

FlatSample(fam, prof, labels, extra, key) ==
    Sample(fam, prof, labels, extra, CopiesIn(key, flat), <<>>, {})

WriteProfile(prof) ==
    LET rows == CollectRows(prof)
        Mine(proto) == ProtoProfile(proto) = prof
        Plain(fam, key) == {FlatSample(fam, prof, NoLabels, <<>>, <<key, prof>>)}
    IN  (IF ~Has(prof, "QTOTAL") THEN {}
         ELSE {FlatSample("total", prof, FlatLabels(c[2], c[3]), <<c[4], c[5]>>, c) :
                  c \in {x \in Flat("q_total") : Mine(x[3])}})
        \union WriteQkeyed(prof, rows)
        \union (IF ~Has(prof, "ERRORS") THEN {}
                ELSE {FlatSample("err", prof, FlatLabels(c[4], c[5]), <<ErrStr(prof, c[3])>>, c) :
                         c \in {x \in Flat("err_total") : x[2] = prof /\ Mine(x[5])}})
        \union (IF ~Has(prof, "REDIRECT") THEN {}
                ELSE {FlatSample("redirect", prof, ProtoLabel(c[3]), <<c[2]>>, c) :
                         c \in {x \in Flat("redirects") : Mine(x[3])}})
        \union (IF ~Has(prof, "DEPTH") THEN {}
                ELSE {FlatSample("depth", prof, ProtoLabel(c[2]), <<>>, c) :
                         c \in {x \in Flat("depth") : Mine(x[2])}})
        \union (IF Has(prof, "TRUNCATED") THEN Plain("truncated", "truncated") ELSE {})
        \union (IF Has(prof, "OTHER") THEN Plain("other", "other_obs") ELSE {})
        \union (IF Has(prof, "INTERNAL") THEN Plain("internal", "internal") ELSE {})
        \union (IF ~Has(prof, "TXN") THEN {}
                ELSE {FlatSample("txn", prof, FlatLabels(c[2], c[3]), <<c[4]>>, c) : c \in Flat("txn")})
        \union WriteQkeyedBytes(prof, rows)

LkRegDump == UNION {WriteProfile(prof) : prof \in used}

-----------------------------------------------------------------------------
(* The same walk for the push: views instead of lines.  A histogram is      *)
(* handed over by its cells.                                                *)

View(fam, prof, labels, extra, n, cells, rows) ==
    [fam |-> <<prof, fam>>, labels |-> labels, extra |-> extra, n |-> n, cells |-> cells, rows |-> rows]

IterQkeyed(prof, rows) ==
    LET Views(fam) ==
            {View(fam, prof, Labels(g), <<>>, BagCardinality(MergedHist(g, fam)), MergedHist(g, fam), g) :
                g \in {x \in Groups(rows) : \E k \in x : series[k][fam] # EmptyBag}}
        totals == IF Has(prof, "TOTAL") THEN Groups(rows) \X TotalAxis(prof) ELSE {}
    IN  {View("total", prof, Labels(t[1]), <<t[2]>>, Tallied(t[1], t[2]), EmptyBag, t[1]) :
            t \in {x \in totals : Tallied(x[1], x[2]) > 0}}
        \union {View("dur", prof, RowLabelset(k), <<k.code>>, BagCardinality(series[k].dur),
                     series[k].dur, {k}) : k \in {x \in rows : series[x].dur # EmptyBag}}
        \union {View("rows", prof, Labels(g), <<>>, Sum(g, LAMBDA k : series[k].rows), EmptyBag, g) :
                   g \in IF Has(prof, "ROWS") THEN Groups(rows) ELSE {}}
        \union (IF Families[prof] \intersect {"TTFB", "BLOCKING"} # {}
                   \/ (FirstRow /\ Has(prof, "FIRST_ROW"))
                THEN Views("second") ELSE {})
        \union (IF Has(prof, "UPLOAD") THEN Views("upload") ELSE {})

(* Mutated form of Sized: a group without sizes is handed over too.         *)
SizedAll(rows) == Groups(rows)

Sized(rows) == {g \in Groups(rows) : \E k \in g : series[k].size # EmptyBag}

IterQkeyedBytes(prof, rows) ==
    LET sent == IF Has(prof, "BYTES") THEN Groups(rows) ELSE {}
        sized == IF Has(prof, "SIZE") THEN Sized(rows) ELSE {}
        Bytes(g, dir) == Sum(g, LAMBDA k : IF dir = "in" THEN series[k].bytes_in ELSE series[k].bytes_out)
    IN  {View("bytes", prof, Labels(x[1]), <<x[2]>>, Bytes(x[1], x[2]), EmptyBag, x[1]) :
            x \in sent \X {"in", "out"}}
        \union {View("size", prof, Labels(g), <<>>, BagCardinality(MergedSize(g).size),
                     MergedSize(g).size, g) : g \in sized}

IterProfile(prof) ==
    LET rows == CollectRows(prof)
        Kept(fam, key, proto) ==
            {c \in Flat(key) : Has(prof, fam) /\ ProtoProfile(c[proto]) = prof}
        Count(fam, labels, extra, key) == View(fam, prof, labels, extra, CopiesIn(key, flat), EmptyBag, {})
        alone == {<<"truncated", "TRUNCATED", "truncated">>, <<"other", "OTHER", "other_obs">>,
                  <<"internal", "INTERNAL", "internal">>}
    IN  {Count("total", FlatLabels(c[2], c[3]), <<c[4], c[5]>>, c) : c \in Kept("QTOTAL", "q_total", 3)}
        \union IterQkeyed(prof, rows)
        \union {Count("err", FlatLabels(c[4], c[5]), <<ErrStr(prof, c[3])>>, c) :
                   c \in {x \in Kept("ERRORS", "err_total", 5) : x[2] = prof}}
        \union {Count("redirect", ProtoLabel(c[3]), <<c[2]>>, c) : c \in Kept("REDIRECT", "redirects", 3)}
        \union {Count("depth", ProtoLabel(c[2]), <<>>, c) : c \in Kept("DEPTH", "depth", 2)}
        \union {Count(a[1], NoLabels, <<>>, <<a[3], prof>>) : a \in {x \in alone : Has(prof, x[2])}}
        \union {Count("txn", FlatLabels(c[2], c[3]), <<c[4]>>, c) :
                   c \in {x \in Flat("txn") : Has(prof, "TXN")}}
        \union IterQkeyedBytes(prof, rows)

LkRegIter == UNION {IterProfile(prof) : prof \in used}

=============================================================================

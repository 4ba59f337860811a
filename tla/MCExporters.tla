---- MODULE MCExporters ----
EXTENDS Exporters

MCObs ==
    {[timed |-> TRUE, slow |-> TRUE, blocking |-> FALSE, trace |-> "none", drawn |-> FALSE, http |-> FALSE],
     [timed |-> TRUE, slow |-> FALSE, blocking |-> FALSE, trace |-> "sampled", drawn |-> FALSE, http |-> TRUE]}
====

----------------------------- MODULE MCCapture -----------------------------
(* Instances of Capture for TLC.                                            *)
EXTENDS Capture, TLC

CONSTANTS c1, k1, k2, pg

MCPortPg == 5432 :> pg

(* The framer's private effects (framing turned off, parser state) touch    *)
(* neither the numbering nor the detector: an entry with them takes no step *)
(* that one without them cannot.                                            *)
FramingQuiet ==
    \A c \in Live(tab) : tab.conn[c].mode = "framed" /\ ~tab.conn[c].proto_state

(* Bounds on both channels of a connection together: records, and           *)
(* registrations.                                                           *)
FewRecords == \A c \in Cookie : made["raw"][c] + made["tls"][c] <= 4
FewEpochs == \A c \in Cookie : epochs["raw"][c] + epochs["tls"][c] <= 2

(* Left out: what is written and never read.  The framing state and the     *)
(* capture policy of an entry touch no number, and lost is looked at only   *)
(* in the step that writes it.                                              *)
Unframed(e) == IF e = NULL THEN NULL ELSE [e EXCEPT !.dirty = <<>>, !.cap_headers = FALSE]

View == <<[tab EXCEPT !.conn = [c \in Cookie |-> Unframed(tab.conn[c])]],
          running, kvars, hvars>>

TaskSymmetry == Permutations(Task)

=============================================================================

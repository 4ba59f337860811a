------------------------------- MODULE Framer -------------------------------
(***************************************************************************)
(* The streaming framer (src/agent/reassembly.c, message mode) on one      *)
(* direction of a connection, against the stream it is shown pieces of.    *)
(*                                                                         *)
(* The stream is a constant of the run: wire maps the position of every    *)
(* header to what the header says.  Bytes have no values here: a header    *)
(* read at its position parses to what wire says, a header read anywhere   *)
(* else is garbage and parses to anything.  The protocol's hooks are that  *)
(* and the two resync anchors.                                             *)
(*                                                                         *)
(* The kernel side cuts the stream into calls and each call into chunks;   *)
(* it may capture less than a call holds, and chunks may be lost, which    *)
(* the sequence detector reports with the next record (see Capture).       *)
(* lk_reasm_data runs to its end before the next record is taken: its      *)
(* loops are modelled one iteration a step, with pc the place in the code. *)
(***************************************************************************)
EXTENDS Integers

CONSTANTS
    HdrSize,       \* bytes of a header
    BodyMax,       \* LK_MSG_BODY_MAX: body prefix kept of a message
    MaxPos,        \* bound: bytes of the stream
    Wires,         \* the streams considered
    FalseAnchors,  \* kinds of resync anchor that data may imitate
    FlipsCaptured  \* calls are captured whole around a message that flips

(* What one header on the wire announces.  len: bytes of body that follow.  *)
(* cont: the logical message goes on in the next fragment.  first: where    *)
(* its first header is.  end: where the message after it starts.  upto: its *)
(* body up to the end of this fragment.  flips: the message turns the       *)
(* connection away from plaintext framing.                                  *)
Header == [len: Nat, cont: BOOLEAN, first: Nat, end: Nat, upto: Nat, flips: BOOLEAN]

Successor(w, b) == b + HdrSize + w[b].len

(* A stream begins with a message; fragments lie end to end; an empty one   *)
(* ends its message; after a flip there is ciphertext.                      *)
WellFormed(w) ==
    /\ DOMAIN w \subseteq 0 .. MaxPos
    /\ \A b \in DOMAIN w : w[b] \in Header
    /\ 0 \in DOMAIN w
    /\ w[0].first = 0
    /\ \A b \in DOMAIN w :
          /\ w[b].first \in DOMAIN w /\ w[b].first <= b
          /\ w[w[b].first].first = w[b].first /\ w[w[b].first].end = w[b].end
          /\ IF w[b].first = b THEN w[b].upto = w[b].len ELSE w[w[b].first].cont
          /\ w[b].cont => w[b].len > 0
          /\ w[b].flips => w[b].first = b /\ ~w[b].cont /\ w[b].len > 0
          /\ ~w[b].cont => w[b].end = Successor(w, b)
          /\ LET n == Successor(w, b)
             IN  n <= MaxPos /\ ~w[b].flips =>
                   /\ n \in DOMAIN w
                   /\ w[n].first = IF w[b].cont THEN w[b].first ELSE n
                   /\ w[b].cont => w[b].end = w[n].end
                   /\ w[n].upto = (IF w[b].cont THEN w[b].upto ELSE 0) + w[n].len

ASSUME SizeAssumption == HdrSize \in Nat \ {0} /\ BodyMax \in Nat \ {0} /\ MaxPos \in Nat
ASSUME WireAssumption == \A w \in Wires : WellFormed(w)
ASSUME ChoiceAssumption == FalseAnchors \subseteq {"scan", "call"} /\ FlipsCaptured \in BOOLEAN

VARIABLES
    wire,   \* the stream
    call,   \* the call under way: where it starts, its size, how far it got
    gap,    \* a record was lost that the detector has not seen yet
    f,      \* the direction's struct lk_frame
    blind,  \* the connection left plaintext framing (LK_CONN_TLS, _IGNORE)
    pc,     \* where lk_reasm_data is
    ev,     \* the record it handles
    left,   \* bytes of the hole or of the payload still to go
    entry,  \* blind at the start of lk_frame_bytes or lk_frame_hole
    pos,    \* stream position of the next of those bytes
    due,    \* stream position where the message emitted last ended
    out     \* the message emitted last

vars == <<wire, call, gap, f, blind, pc, ev, left, entry, pos, due, out>>

(* mstart is not in the code: the position of the first header byte of the  *)
(* message being assembled (the code keeps its timestamp there).            *)
Frame == [st: {"HEADER", "BODY", "SKIP", "DIRTY"}, hdr_len: Nat, body_len: Nat,
          body_total: Nat, msg_cont: BOOLEAN, prefix_closed: BOOLEAN,
          buf: BOOLEAN, buf_len: Nat, skip_left: Nat, call_pos: Nat,
          call_total: Nat, after_resync: BOOLEAN, mstart: Nat]

NoRecord == [off |-> 0, cap |-> 0, total |-> 0, at |-> 0]

NoMsg == [at |-> MaxPos + 1, total |-> 0, cap |-> 0, trunc |-> FALSE, resync |-> FALSE]

-----------------------------------------------------------------------------
MsgReset(g) ==
    [g EXCEPT !.st = "HEADER", !.buf = FALSE, !.buf_len = 0, !.hdr_len = 0,
              !.body_len = 0, !.msg_cont = FALSE, !.prefix_closed = FALSE]

GoDirty(g) == [MsgReset(g) EXCEPT !.skip_left = 0, !.st = "DIRTY"]

(* Mutated form of DoResync: the next message does not tell.                *)
DoResyncUntold(g) == [MsgReset(g) EXCEPT !.skip_left = 0]

DoResync(g) == [MsgReset(g) EXCEPT !.skip_left = 0, !.after_resync = TRUE]

(* The table's mark_dirty leaves the rest of the frame as it is.            *)
MarkDirty(g) == [g EXCEPT !.st = "DIRTY"]

Least(a, b) == IF a < b THEN a ELSE b

(* Mutated form of BodyTarget: the prefix is not cut at the buffer's size.  *)
BodyTargetWhole(g) == g.body_len

BodyTarget(g) == Least(g.body_len, BodyMax)

Boundary(p) == p \in DOMAIN wire

MessageStart(p) == Boundary(p) /\ wire[p].first = p

(* What the header that ends at p says: the truth at its place, anything    *)
(* elsewhere.                                                               *)
Parses(p) ==
    IF Boundary(p - HdrSize)
    THEN {[len |-> wire[p - HdrSize].len, cont |-> wire[p - HdrSize].cont]}
    ELSE [len: 0 .. MaxPos, cont: BOOLEAN]

(* A resync anchor of that kind is read just before p.                      *)
Anchor(kind, p) == MessageStart(p) \/ kind \in FalseAnchors

(* Mutated form of Emit: truncation judged by the last fragment alone.      *)
EmitLastFragment(g, cap) ==
    /\ out' = [at |-> g.mstart, total |-> g.body_total, cap |-> cap,
               trunc |-> cap < g.body_len, resync |-> g.after_resync]
    /\ blind' = (blind \/ (MessageStart(g.mstart) /\ wire[g.mstart].flips /\ cap > 0))

(* emit: the message as the sink gets it.  pre_emit may flip the connection *)
(* and needs the body for it.                                               *)
Emit(g, cap) ==
    /\ out' = [at |-> g.mstart, total |-> g.body_total, cap |-> cap,
               trunc |-> cap < g.body_total, resync |-> g.after_resync]
    /\ blind' = (blind \/ (MessageStart(g.mstart) /\ wire[g.mstart].flips /\ cap > 0))

Emitted(g) == MsgReset([g EXCEPT !.after_resync = FALSE])

(* Mutated form of ThenSkip: the rest of the body is read as a header.      *)
ThenSkipNothing(g, n) == g

(* Skip n bytes of body, if any are left, before the next header.           *)
ThenSkip(g, n) == IF n = 0 THEN g ELSE [g EXCEPT !.st = "SKIP", !.skip_left = n]

(* The fragment is over and its message is not: its prefix is final.        *)
CloseFragment(g) == [g EXCEPT !.prefix_closed = TRUE, !.hdr_len = 0, !.st = "HEADER"]

-----------------------------------------------------------------------------
(* Consume k bytes of the hole or of the payload.                           *)
Consume(k) == left' = left - k /\ pos' = pos + k

(* The rest of it is dropped unread.                                        *)
DropRest == Consume(left)

(* Mutated form of ConsumeUnlessBlind: went_blind is not asked.             *)
ConsumeAnyway(k) == Consume(k)

(* After an emit: the rest of a chunk behind a flip is dropped (went_blind). *)
ConsumeUnlessBlind(k) == IF blind' /\ ~entry THEN DropRest ELSE Consume(k)

NextDue(g) == IF MessageStart(g.mstart) THEN wire[g.mstart].end ELSE due

(* HEADER: accumulate, and parse when the header is whole.                  *)
HeaderBytes ==
    /\ pc = "bytes" /\ left > 0 /\ f.st = "HEADER"
    /\ LET take == Least(HdrSize - f.hdr_len, left)
           g == [f EXCEPT !.hdr_len = @ + take,
                          !.mstart = IF f.hdr_len = 0 /\ ~f.msg_cont THEN pos ELSE @]
       IN  \/ /\ g.hdr_len < HdrSize
              /\ f' = g
              /\ Consume(take)
              /\ UNCHANGED <<blind, due, out>>
           \/ /\ g.hdr_len = HdrSize
              /\ ~Boundary(pos + take - HdrSize)
              /\ f' = GoDirty(g)
              /\ DropRest
              /\ UNCHANGED <<blind, due, out>>
           \/ /\ g.hdr_len = HdrSize
              /\ \E h \in Parses(pos + take) :
                    LET p == [g EXCEPT !.body_len = h.len, !.msg_cont = h.cont,
                                       !.body_total = (IF f.msg_cont THEN @ ELSE 0) + h.len]
                    IN  IF h.len = 0
                        THEN /\ Emit(p, p.buf_len)
                             /\ f' = Emitted(p)
                             /\ due' = NextDue(p)
                             /\ ConsumeUnlessBlind(take)
                        ELSE /\ f' = [p EXCEPT !.st = "BODY"]
                             /\ Consume(take)
                             /\ UNCHANGED <<blind, due, out>>
    /\ UNCHANGED <<wire, call, gap, pc, ev, entry>>

(* BODY, and the chunk ends inside the prefix: spill it into the buffer.    *)
SpillBytes ==
    /\ pc = "bytes" /\ left > 0 /\ f.st = "BODY" /\ ~f.prefix_closed
    /\ left < BodyTarget(f) - f.buf_len
    /\ f' = [f EXCEPT !.buf = TRUE, !.buf_len = @ + left]
    /\ Consume(left)
    /\ UNCHANGED <<wire, call, gap, blind, pc, ev, entry, due, out>>

(* BODY, and the prefix is complete, or cut short for want of a buffer: the *)
(* rest of the fragment is skipped by its length.  A message that goes on   *)
(* keeps its prefix (or, again for want of a buffer, loses it); any other   *)
(* is emitted.                                                              *)
BodyBytes ==
    /\ pc = "bytes" /\ left > 0 /\ f.st = "BODY"
    /\ LET rem == IF f.prefix_closed THEN 0 ELSE BodyTarget(f) - f.buf_len
           take == Least(rem, left)
           target == f.buf_len + take
           skip == f.body_len - (IF f.prefix_closed THEN 0 ELSE target)
       IN  /\ left < rem => ~f.buf
           /\ IF f.msg_cont
              THEN /\ \E stored \in {take > 0, take > 0 /\ f.buf} :
                         f' = ThenSkip(CloseFragment(
                                [f EXCEPT !.buf = @ \/ stored,
                                          !.buf_len = IF stored THEN target ELSE @]), skip)
                   /\ Consume(take)
                   /\ UNCHANGED <<blind, due, out>>
              ELSE /\ Emit(f, target)
                   /\ f' = ThenSkip(Emitted(f), skip)
                   /\ due' = NextDue(f)
                   /\ ConsumeUnlessBlind(take)
    /\ UNCHANGED <<wire, call, gap, pc, ev, entry>>

(* Mutated form of Skip: the state is not left when the skip is done.       *)
SkipStays ==
    /\ pc \in {"bytes", "hole"} /\ left > 0 /\ f.st = "SKIP"
    /\ LET take == Least(f.skip_left, left)
       IN  f' = [f EXCEPT !.skip_left = @ - take] /\ Consume(take)
    /\ UNCHANGED <<wire, call, gap, blind, pc, ev, entry, due, out>>

(* SKIP, over payload or over a hole.                                       *)
Skip ==
    /\ pc \in {"bytes", "hole"} /\ left > 0 /\ f.st = "SKIP"
    /\ LET take == Least(f.skip_left, left)
       IN  /\ f' = [f EXCEPT !.skip_left = @ - take,
                             !.st = IF f.skip_left = take THEN "HEADER" ELSE "SKIP"]
           /\ Consume(take)
    /\ UNCHANGED <<wire, call, gap, blind, pc, ev, entry, due, out>>

(* DIRTY: scan for the anchor; framing resumes at the byte after it.        *)
DirtyBytes ==
    /\ pc = "bytes" /\ left > 0 /\ f.st = "DIRTY"
    /\ \/ DropRest /\ UNCHANGED f
       \/ \E p \in pos + 1 .. pos + left :
             /\ Anchor("scan", p)
             /\ f' = DoResync(f)
             /\ Consume(p - pos)
    /\ UNCHANGED <<wire, call, gap, blind, pc, ev, entry, due, out>>

-----------------------------------------------------------------------------
(* A hole on a dirty direction only breaks a match of the anchor.           *)
DirtyHole ==
    /\ pc = "hole" /\ left > 0 /\ f.st = "DIRTY"
    /\ DropRest
    /\ UNCHANGED <<wire, call, gap, f, blind, pc, ev, entry, due, out>>

(* A hole over a header: where the next one is cannot be known.             *)
HeaderHole ==
    /\ pc = "hole" /\ left > 0 /\ f.st = "HEADER"
    /\ f' = GoDirty(f)
    /\ DropRest
    /\ UNCHANGED <<wire, call, gap, blind, pc, ev, entry, due, out>>

(* A hole over a body: emit the prefix at hand and pass the rest by length. *)
BodyHole ==
    /\ pc = "hole" /\ left > 0 /\ f.st = "BODY"
    /\ LET rem == f.body_len - (IF f.prefix_closed THEN 0 ELSE f.buf_len)
           take == Least(rem, left)
       IN  IF f.msg_cont
           THEN /\ f' = ThenSkip(CloseFragment(f), rem - take)
                /\ Consume(take)
                /\ UNCHANGED <<blind, due, out>>
           ELSE /\ Emit(f, f.buf_len)
                /\ f' = ThenSkip(Emitted(f), rem - take)
                /\ due' = NextDue(f)
                /\ ConsumeUnlessBlind(take)
    /\ UNCHANGED <<wire, call, gap, pc, ev, entry>>

-----------------------------------------------------------------------------
(* lk_reasm_data up to the hole, if any, that the record reveals: what the  *)
(* last call left uncaptured, or an interval missing inside this one.  The  *)
(* sequence detector ran first.                                             *)
ReasmData(r) ==
    LET g == IF gap THEN MarkDirty(f) ELSE f
        adopt == r.off = 0 \/ g.call_total = 0
        a == IF adopt THEN [g EXCEPT !.call_total = r.total, !.call_pos = 0] ELSE g
        anomaly == r.total # a.call_total \/ r.off < a.call_pos \/ r.off + r.cap > r.total
        hole == IF r.off = 0 THEN g.call_total - g.call_pos
                ELSE IF anomaly THEN 0 ELSE r.off - a.call_pos
    IN  /\ pc = "idle"
        /\ gap' = FALSE
        /\ IF blind
           THEN f' = g /\ UNCHANGED <<pc, ev, left, entry, pos>>
           ELSE /\ ev' = r
                /\ f' = [(IF anomaly /\ a.st # "DIRTY" THEN GoDirty(a) ELSE a)
                            EXCEPT !.call_total = r.total, !.call_pos = r.off]
                /\ pc' = "hole"
                /\ left' = hole
                /\ pos' = r.at - hole
                /\ entry' = blind
        /\ UNCHANGED <<wire, blind, due, out>>

(* The hole is passed: try the call-boundary anchor, then the payload.      *)
Feed ==
    /\ pc = "hole" /\ left = 0
    /\ \/ UNCHANGED f
       \/ /\ f.st = "DIRTY" /\ ev.off = 0 /\ ev.cap > 0
          /\ Anchor("call", pos)
          /\ f' = DoResync(f)
    /\ pc' = "bytes"
    /\ left' = ev.cap
    /\ entry' = blind
    /\ UNCHANGED <<wire, call, gap, blind, ev, pos, due, out>>

(* The end of lk_reasm_data: how far the call is accounted for.             *)
Finish ==
    /\ pc = "bytes" /\ left = 0
    /\ LET n == ev.off + ev.cap
           over == n >= f.call_total
       IN  f' = [f EXCEPT !.call_pos = IF over THEN 0 ELSE n,
                          !.call_total = IF over THEN 0 ELSE @]
    /\ pc' = "idle" /\ ev' = NoRecord /\ entry' = FALSE
    /\ UNCHANGED <<wire, call, gap, blind, left, pos, due, out>>

-----------------------------------------------------------------------------
(* Bytes a .. b - 1 of the stream hold part of a message that flips.        *)
OverFlip(a, b) == \E p \in DOMAIN wire : wire[p].flips /\ p < b /\ a < Successor(wire, p)

(* The next chunk of a call, or the first of the next call: bytes a .. b - 1 *)
(* of the stream are captured, which the calls' sizes allow to be less than *)
(* the call holds.                                                          *)
Chunks ==
    LET start == call.base + call.size
        first == {[base |-> start, size |-> x[1], off |-> 0, cap |-> x[2]] :
                     x \in (0 .. MaxPos - start) \X (0 .. MaxPos)}
        more == {[base |-> call.base, size |-> call.size, off |-> x[1], cap |-> x[2]] :
                     x \in {o \in call.done .. call.size - 1 : o > 0} \X (0 .. MaxPos)}
    IN  {k \in first \cup more :
            /\ k.off + k.cap <= k.size
            /\ FlipsCaptured /\ OverFlip(k.base, k.base + k.size) => k.off = 0 /\ k.cap = k.size}

CallAfter(k) == [base |-> k.base, size |-> k.size, done |-> k.off + k.cap]

Deliver ==
    \E k \in Chunks :
        /\ ReasmData([off |-> k.off, cap |-> k.cap, total |-> k.size, at |-> k.base + k.off])
        /\ call' = CallAfter(k)

(* The record is lost; so may be one of the other direction.                *)
Lose ==
    /\ pc = "idle"
    /\ \E k \in Chunks : call' \in {CallAfter(k), call}
    /\ gap' = TRUE
    /\ UNCHANGED <<wire, f, blind, pc, ev, left, entry, pos, due, out>>

-----------------------------------------------------------------------------
NewFrame(st) ==
    [st |-> st, hdr_len |-> 0, body_len |-> 0, body_total |-> 0, msg_cont |-> FALSE,
     prefix_closed |-> FALSE, buf |-> FALSE, buf_len |-> 0, skip_left |-> 0,
     call_pos |-> 0, call_total |-> 0, after_resync |-> FALSE, mstart |-> 0]

(* A connection seen from its start is clean; one joined midway is dirty.   *)
Init ==
    /\ wire \in Wires
    /\ \E p \in 0 .. MaxPos, st \in {"HEADER", "DIRTY"} :
          /\ st = "HEADER" => p = 0
          /\ f = NewFrame(st)
          /\ call = [base |-> p, size |-> 0, done |-> 0]
          /\ pos = p
    /\ gap = FALSE /\ blind = FALSE /\ entry = FALSE
    /\ pc = "idle" /\ left = 0
    /\ ev = NoRecord
    /\ due = 0 /\ out = NoMsg

Handler == \/ HeaderBytes \/ SpillBytes \/ BodyBytes \/ Skip \/ DirtyBytes
           \/ DirtyHole \/ HeaderHole \/ BodyHole \/ Feed \/ Finish

Next == Deliver \/ Lose \/ Handler

Spec == Init /\ [][Next]_vars

(* lk_reasm_data runs on the event loop's thread until it returns.          *)
FairSpec == Spec /\ WF_vars(Handler)

-----------------------------------------------------------------------------
(* Types, and the bounds the code relies on: a header is never overrun, and *)
(* no more than LK_MSG_BODY_MAX bytes of body are ever in the buffer, which *)
(* exists when there are any.                                               *)
FramerTypeOK ==
    /\ wire \in Wires
    /\ f \in Frame
    /\ f.hdr_len <= HdrSize /\ f.buf_len <= BodyMax
    /\ f.buf_len > 0 => f.buf
    /\ f.call_pos <= f.call_total
    /\ call \in [base: 0 .. MaxPos, size: 0 .. MaxPos, done: 0 .. MaxPos]
    /\ call.done <= call.size /\ call.base + call.size <= MaxPos
    /\ ev \in [off: 0 .. MaxPos, cap: 0 .. MaxPos, total: 0 .. MaxPos, at: 0 .. MaxPos]
    /\ out \in [at: Nat, total: Nat, cap: 0 .. BodyMax, trunc: BOOLEAN, resync: BOOLEAN]
    /\ pc \in {"idle", "hole", "bytes"}
    /\ gap \in BOOLEAN /\ blind \in BOOLEAN /\ entry \in BOOLEAN
    /\ left \in Nat /\ pos \in 0 .. MaxPos /\ due \in Nat

(* Nothing between the framer and the stream is known to be wrong.          *)
Clean == f.st # "DIRTY" /\ ~gap /\ ~blind

(* Where the framer takes the current or the next header to be.             *)
HeaderAt ==
    CASE f.st = "SKIP" -> pos + f.skip_left
      [] f.st = "BODY" -> pos - HdrSize - (IF f.prefix_closed THEN 0 ELSE f.buf_len)
      [] OTHER -> pos - f.hdr_len

(* The framer is where it takes itself to be: on a clean direction, however *)
(* calls were cut into chunks and whatever was left uncaptured, the header  *)
(* it is reading, or has read, or will read after a skip, is the header of  *)
(* a fragment, and what it remembers of the message is the truth.           *)
InSync ==
    Clean =>
      \/ HeaderAt > MaxPos
      \/ /\ Boundary(HeaderAt)
         /\ LET h == wire[HeaderAt]
            IN  IF f.st = "BODY"
                THEN /\ f.body_len = h.len /\ f.msg_cont = h.cont
                     /\ f.mstart = h.first /\ f.body_total = h.upto
                ELSE IF f.msg_cont
                THEN h.first = f.mstart /\ f.body_total = h.upto - h.len
                ELSE /\ h.first = HeaderAt
                     /\ f.hdr_len > 0 => f.mstart = HeaderAt

(* What the handlers are told is so: every message emitted begins where a   *)
(* message begins, its length is that of all its fragments, and it is       *)
(* marked truncated exactly when the body is not all there.                 *)
EmittedTrue ==
    out = NoMsg \/
    \E b \in DOMAIN wire :
        /\ wire[b].first = out.at /\ ~wire[b].cont
        /\ out.total = wire[b].upto
        /\ out.cap <= wire[out.at].len
        /\ out.trunc = (out.cap < wire[b].upto)

(* A message that is not marked AFTER_RESYNC directly follows the message   *)
(* emitted before it: none is dropped, repeated or passed over in silence.  *)
NoSilentSkip == [][out' # out /\ ~out'.resync => out'.at = due]_vars

(* Once the connection went blind, nothing more of it is framed: the bytes  *)
(* behind the flip are ciphertext or compressed frames.                     *)
BlindStops == [][blind => out' = out]_vars

(* lk_reasm_data returns: its loops make progress on every input.           *)
HandlerReturns == pc # "idle" ~> pc = "idle"
=============================================================================

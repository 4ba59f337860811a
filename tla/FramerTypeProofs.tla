-------------------------- MODULE FramerTypeProofs ----------------------------
(***************************************************************************)
(* Proofs about Framer, for every stream and every size of header, prefix  *)
(* and stream.                                                             *)
(*                                                                         *)
(* Shape and CallOK hold whatever the data imitates and wherever messages  *)
(* are cut; with FramerTypeOK they are inductive.  InSync is not: that the *)
(* framer stays in step over a hole needs the framer's account of the call *)
(* to be the call's own (Placed), that no hole lies over a message that    *)
(* flips (Unflipped) and that the start it remembers is where the last     *)
(* message ended (Synced).                                                 *)
(***************************************************************************)
EXTENDS Framer, TLAPS

(* A leaf that names no prover is tried with Zenon, then with SMT.          *)
USE ZenonT(3), SMTT(30), ZenonT(30)

Healthy == FalseAnchors = {} /\ FlipsCaptured

(* What the state of the frame says of its other fields.                    *)
ShapeOf(g) ==
    /\ g.st \in {"HEADER", "SKIP"} =>
          (g.prefix_closed <=> g.msg_cont) /\ (~g.msg_cont => g.buf_len = 0 /\ ~g.buf)
    /\ g.st = "HEADER" => g.hdr_len < HdrSize
    /\ g.st = "SKIP" => g.skip_left > 0 /\ g.hdr_len = 0
    /\ g.st = "BODY" =>
          g.body_len > 0 /\ (~g.prefix_closed => g.buf_len < BodyTarget(g))

Shape == ShapeOf(f)

(* The part of the call that is outstanding lies before the call's end.     *)
CallOK ==
    /\ f.call_total - f.call_pos <= call.base + call.size
    /\ pc = "idle" => left = 0
    /\ pc = "hole" => pos + left = ev.at
    /\ pc # "idle" => pos + left <= ev.at + ev.cap /\ ev.at + ev.cap <= MaxPos
    /\ pc # "idle" => f.call_total = ev.total /\ f.call_pos = ev.off
    /\ pc # "idle" => ev.total = call.size /\ ev.off + ev.cap <= ev.total /\ ev.total <= ev.at + ev.total - ev.off
    /\ pc # "idle" => ev.at = call.base + ev.off

(* While nothing is lost, the framer's account of the call is the call's.   *)
Placed ==
    /\ pc # "idle" => ~gap /\ call.done = ev.off + ev.cap
    /\ pc = "bytes" => pos + left = ev.at + ev.cap
    /\ pc = "idle" /\ ~gap /\ ~blind =>
          /\ pos = call.base + call.done
          /\ f.call_total = 0 => call.done = call.size
          /\ f.call_total > 0 => f.call_total = call.size /\ f.call_pos = call.done

(* No hole lies over a message that flips, so none of them is flipped there. *)
Unflipped ==
    /\ call.done < call.size => ~OverFlip(call.base, call.base + call.size)
    /\ pc = "hole" => ~blind
    /\ pc = "hole" /\ f.st # "DIRTY" /\ left > 0 => ~OverFlip(pos, pos + left)
    /\ blind /\ pc = "bytes" => left = 0
    /\ ~entry

(* The header at b is the one that is being or will be read: g remembers    *)
(* the message it belongs to, and with no resync pending that message       *)
(* starts where the last one ended.                                         *)
AtHeader(g, b, d) ==
    /\ Boundary(b)
    /\ g.msg_cont =>
          /\ wire[b].first = g.mstart /\ g.mstart < b
          /\ g.body_total = wire[b].upto - wire[b].len
          /\ g.buf_len <= wire[g.mstart].len
          /\ ~g.after_resync => g.mstart = d
    /\ ~g.msg_cont =>
          /\ wire[b].first = b
          /\ g.hdr_len > 0 => g.mstart = b
          /\ ~g.after_resync => b = d

(* The header at b has been read: g is in its body.                         *)
AtBody(g, b, d) ==
    /\ Boundary(b)
    /\ g.body_len = wire[b].len /\ (g.msg_cont <=> wire[b].cont)
    /\ g.mstart = wire[b].first /\ g.body_total = wire[b].upto
    /\ g.prefix_closed <=> wire[b].first # b
    /\ g.prefix_closed => g.buf_len <= wire[g.mstart].len
    /\ ~g.after_resync => g.mstart = d

(* Past the end of the stream there is only a skip.                         *)
SyncAt(g, p, d) ==
    /\ g.st = "HEADER" => AtHeader(g, p - g.hdr_len, d)
    /\ g.st = "SKIP" => p + g.skip_left > MaxPos \/ AtHeader(g, p + g.skip_left, d)
    /\ g.st = "BODY" =>
          AtBody(g, p - HdrSize - (IF g.prefix_closed THEN 0 ELSE g.buf_len), d)

Synced == ~gap /\ ~blind => SyncAt(f, pos, due)

TInv == FramerTypeOK /\ Shape /\ CallOK

SInv == Placed /\ Unflipped /\ Synced /\ EmittedTrue

-----------------------------------------------------------------------------
(* Each step of the framer on the frame keeps its types.                    *)
LEMMA FrameOps ==
    ASSUME NEW g \in Frame, NEW n \in Nat
    PROVE  /\ MsgReset(g) \in Frame /\ GoDirty(g) \in Frame /\ DoResync(g) \in Frame
           /\ MarkDirty(g) \in Frame /\ Emitted(g) \in Frame
           /\ CloseFragment(g) \in Frame /\ ThenSkip(g, n) \in Frame
<1>1. MsgReset(g) \in Frame
  BY ZenonT(30) DEF Frame, MsgReset
<1>2. GoDirty(g) \in Frame
  BY ZenonT(30), <1>1 DEF Frame, GoDirty
<1>3. DoResync(g) \in Frame
  BY ZenonT(30), <1>1 DEF Frame, DoResync
<1>4. MarkDirty(g) \in Frame
  BY DEF Frame, MarkDirty
<1>5. Emitted(g) \in Frame
  <2>1. [g EXCEPT !.after_resync = FALSE] \in Frame
    BY ZenonT(30) DEF Frame
  <2> QED
    BY ZenonT(30), <2>1 DEF Frame, Emitted, MsgReset
<1>6. CloseFragment(g) \in Frame
  BY ZenonT(30) DEF Frame, CloseFragment
<1>7. ThenSkip(g, n) \in Frame
  BY ZenonT(30) DEF Frame, ThenSkip
<1> QED
  BY <1>1, <1>2, <1>3, <1>4, <1>5, <1>6, <1>7

LEMMA InitT == Init => TInv
<1> SUFFICES ASSUME Init PROVE TInv
  OBVIOUS
<1>1. PICK p \in 0 .. MaxPos, st \in {"HEADER", "DIRTY"} :
          /\ f = NewFrame(st)
          /\ call = [base |-> p, size |-> 0, done |-> 0]
          /\ pos = p
  BY DEF Init
<1>2. f \in Frame
  BY <1>1 DEF NewFrame, Frame
<1>3. Shape /\ CallOK
  BY <1>1, SizeAssumption DEF Init, Shape, ShapeOf, CallOK, NewFrame, NoRecord
<1>4. /\ ev \in [off: 0 .. MaxPos, cap: 0 .. MaxPos, total: 0 .. MaxPos, at: 0 .. MaxPos]
      /\ out \in [at: Nat, total: Nat, cap: 0 .. BodyMax, trunc: BOOLEAN, resync: BOOLEAN]
  BY SizeAssumption DEF Init, NoRecord, NoMsg
<1>5. /\ call \in [base: 0 .. MaxPos, size: 0 .. MaxPos, done: 0 .. MaxPos]
      /\ call.done <= call.size /\ call.base + call.size <= MaxPos
  BY <1>1, SizeAssumption
<1>6. /\ f.hdr_len <= HdrSize /\ f.buf_len <= BodyMax /\ (f.buf_len > 0 => f.buf)
      /\ f.call_pos <= f.call_total
  BY <1>1, SizeAssumption DEF NewFrame
<1> QED
  BY ZenonT(30), <1>1, <1>2, <1>3, <1>4, <1>5, <1>6, SizeAssumption DEF Init, TInv, FramerTypeOK

(* Shape is about the fields of the frame only.                             *)
LEMMA FinishT == TInv /\ Finish => TInv'
<1> SUFFICES ASSUME TInv, Finish PROVE TInv'
  OBVIOUS
<1> DEFINE n == ev.off + ev.cap
<1>0. n \in Nat /\ f.call_total \in Nat /\ f \in Frame
  BY SizeAssumption DEF TInv, FramerTypeOK, Frame
<1>1. f' \in Frame
  <2> DEFINE x == IF n >= f.call_total THEN 0 ELSE n
             y == IF n >= f.call_total THEN 0 ELSE f.call_total
  <2>1. f' = [f EXCEPT !.call_pos = x, !.call_total = y]
    BY <1>0 DEF Finish, Frame
  <2>2. x \in Nat /\ y \in Nat
    BY <1>0
  <2> HIDE DEF x, y
  <2> QED
    BY ZenonT(30), <1>0, <2>1, <2>2 DEF Frame
<1>2. /\ f'.st = f.st /\ f'.hdr_len = f.hdr_len /\ f'.body_len = f.body_len
      /\ f'.msg_cont = f.msg_cont /\ f'.prefix_closed = f.prefix_closed
      /\ f'.buf = f.buf /\ f'.buf_len = f.buf_len /\ f'.skip_left = f.skip_left
  BY DEF TInv, FramerTypeOK, Frame, Finish
<1>3. Shape'
  BY <1>1, <1>2 DEF TInv, Shape, ShapeOf, BodyTarget, Least, Finish
<1>4. CallOK' /\ f'.call_pos <= f'.call_total
  BY <1>1, SizeAssumption DEF TInv, FramerTypeOK, CallOK, Finish, Frame, NoRecord
<1>5. ev' \in [off: 0 .. MaxPos, cap: 0 .. MaxPos, total: 0 .. MaxPos, at: 0 .. MaxPos]
  BY SizeAssumption DEF Finish, NoRecord
<1> QED
  BY ZenonT(30), <1>1, <1>2, <1>3, <1>4, <1>5 DEF TInv, FramerTypeOK, Finish

OutType == [at: Nat, total: Nat, cap: 0 .. BodyMax, trunc: BOOLEAN, resync: BOOLEAN]

(* What an iteration of the loops does to the frame, for its types.         *)
FrameStep ==
    /\ f' \in Frame
    /\ f'.hdr_len <= HdrSize /\ f'.buf_len <= BodyMax
    /\ f'.buf_len > 0 => f'.buf
    /\ f'.call_pos = f.call_pos /\ f'.call_total = f.call_total

(* What it does to the rest.                                                *)
LoopStep ==
    /\ UNCHANGED <<wire, call, gap, pc, ev, entry>>
    /\ \E k \in 0 .. left : Consume(k)

Emission == out' \in OutType /\ blind' \in BOOLEAN /\ due' \in Nat

LEMMA LoopT ==
    ASSUME TInv, pc # "idle", FrameStep, Shape', LoopStep, Emission
    PROVE  TInv'
<1>1. PICK k \in 0 .. left : left' = left - k /\ pos' = pos + k
  BY DEF LoopStep, Consume
<1>2. left \in Nat /\ pos \in 0 .. MaxPos /\ MaxPos \in Nat
  BY SizeAssumption DEF TInv, FramerTypeOK
<1>3. /\ ev.at \in Nat /\ ev.cap \in Nat
      /\ pos + left <= ev.at + ev.cap /\ ev.at + ev.cap <= MaxPos
  BY SizeAssumption DEF TInv, FramerTypeOK, CallOK
<1>4. left' \in Nat /\ pos' \in 0 .. MaxPos /\ pos' + left' = pos + left
  BY <1>1, <1>2, <1>3
<1>5. CallOK'
  BY <1>3, <1>4 DEF TInv, CallOK, FrameStep, LoopStep
<1> QED
  BY <1>4, <1>5 DEF TInv, FramerTypeOK, FrameStep, LoopStep, Emission, OutType

(* The truth of a header is typed.                                          *)
LEMMA WireFacts ==
    ASSUME TInv
    PROVE  /\ WellFormed(wire)
           /\ \A b : Boundary(b) => /\ b \in 0 .. MaxPos
                                    /\ wire[b].len \in Nat /\ wire[b].end \in Nat
                                    /\ wire[b].first \in Nat /\ wire[b].upto \in Nat
                                    /\ wire[b].cont \in BOOLEAN /\ wire[b].flips \in BOOLEAN
  BY WireAssumption DEF TInv, FramerTypeOK, WellFormed, Boundary, Header

LEMMA SkipT == TInv /\ Skip => TInv'
<1> SUFFICES ASSUME TInv, Skip PROVE TInv'
  OBVIOUS
<1> DEFINE take == Least(f.skip_left, left)
<1>1. f \in Frame /\ left \in Nat /\ f.skip_left \in Nat /\ f.skip_left > 0 /\ left > 0
  BY DEF TInv, FramerTypeOK, Frame, Shape, ShapeOf, Skip
<1>2. take \in 0 .. left /\ take <= f.skip_left
  BY <1>1 DEF Least
<1>3. f' = [f EXCEPT !.skip_left = f.skip_left - take,
                     !.st = IF f.skip_left = take THEN "HEADER" ELSE "SKIP"]
  BY <1>1 DEF Skip, Frame
<1> HIDE DEF take
<1>4. /\ f' \in Frame /\ f'.st \in {"HEADER", "SKIP"}
      /\ f'.hdr_len = f.hdr_len /\ f'.buf_len = f.buf_len /\ f'.buf = f.buf
      /\ f'.msg_cont = f.msg_cont /\ f'.prefix_closed = f.prefix_closed
      /\ f'.call_pos = f.call_pos /\ f'.call_total = f.call_total
      /\ f'.st = "SKIP" => f'.skip_left > 0
  <2> DEFINE n == f.skip_left - take
             st == IF f.skip_left = take THEN "HEADER" ELSE "SKIP"
  <2>1. n \in Nat /\ st \in {"HEADER", "SKIP"} /\ (st = "SKIP" => n > 0)
    BY <1>1, <1>2
  <2>2. f' = [f EXCEPT !.skip_left = n, !.st = st]
    BY <1>3
  <2> HIDE DEF n, st
  <2> QED
    BY ZenonT(30), <1>1, <2>1, <2>2 DEF Frame
<1>5. FrameStep /\ Shape'
  BY <1>4, SizeAssumption DEF FrameStep, TInv, FramerTypeOK, Shape, ShapeOf, Skip
<1>6. LoopStep
  BY <1>2 DEF LoopStep, Skip, take
<1>7. Emission /\ pc # "idle"
  BY DEF Emission, OutType, Skip, TInv, FramerTypeOK
<1> QED
  BY <1>5, <1>6, <1>7, LoopT

LEMMA DirtyHoleT == TInv /\ DirtyHole => TInv'
<1> SUFFICES ASSUME TInv, DirtyHole PROVE TInv'
  OBVIOUS
<1>1. FrameStep /\ Shape' /\ Emission /\ pc # "idle"
  BY DEF FrameStep, Shape, ShapeOf, Emission, OutType, DirtyHole, TInv, FramerTypeOK, BodyTarget, Least
<1>2. LoopStep
  BY DEF LoopStep, DirtyHole, DropRest, TInv, FramerTypeOK
<1> QED
  BY <1>1, <1>2, LoopT

(* What MsgReset, and so GoDirty and DoResync, leave of a message.          *)
Blank(r, g) ==
    /\ ~r.buf /\ r.buf_len = 0 /\ r.hdr_len = 0 /\ r.body_len = 0
    /\ ~r.msg_cont /\ ~r.prefix_closed
    /\ r.call_pos = g.call_pos /\ r.call_total = g.call_total

LEMMA ResetFields ==
    ASSUME NEW g \in Frame
    PROVE  /\ MsgReset(g).st = "HEADER" /\ GoDirty(g).st = "DIRTY" /\ DoResync(g).st = "HEADER"
           /\ Blank(MsgReset(g), g) /\ Blank(GoDirty(g), g) /\ Blank(DoResync(g), g)
           /\ Emitted(g).st = "HEADER" /\ Blank(Emitted(g), g) /\ ~Emitted(g).after_resync
           /\ MsgReset(g).skip_left = g.skip_left
           /\ MsgReset(g).after_resync = g.after_resync
           /\ DoResync(g).after_resync
  BY DEF Frame, MsgReset, GoDirty, DoResync, Emitted, Blank

LEMMA BlankShape ==
    ASSUME NEW r \in Frame, NEW g, Blank(r, g), r.st \in {"HEADER", "DIRTY"}
    PROVE  /\ ShapeOf(r) /\ r.hdr_len <= HdrSize /\ r.buf_len <= BodyMax
           /\ r.buf_len > 0 => r.buf
  BY SizeAssumption DEF Frame, Blank, ShapeOf

LEMMA HeaderHoleT == TInv /\ HeaderHole => TInv'
<1> SUFFICES ASSUME TInv, HeaderHole PROVE TInv'
  OBVIOUS
<1>1. f \in Frame /\ f' = GoDirty(f)
  BY DEF TInv, FramerTypeOK, HeaderHole
<1>2. FrameStep /\ Shape'
  <2>1. f' \in Frame /\ f'.st = "DIRTY" /\ Blank(f', f)
    BY <1>1, FrameOps, ResetFields
  <2> QED
    BY <2>1, BlankShape DEF FrameStep, Shape, Blank
<1>3. Emission /\ pc # "idle"
  BY DEF Emission, OutType, HeaderHole, TInv, FramerTypeOK
<1>4. LoopStep
  BY DEF LoopStep, HeaderHole, DropRest, TInv, FramerTypeOK
<1> QED
  BY <1>2, <1>3, <1>4, LoopT

LEMMA DirtyBytesT == TInv /\ DirtyBytes => TInv'
<1> SUFFICES ASSUME TInv, DirtyBytes PROVE TInv'
  OBVIOUS
<1>1. f \in Frame /\ left \in Nat /\ pos \in Nat
  BY SizeAssumption DEF TInv, FramerTypeOK
<1>2. Emission /\ pc # "idle"
  BY DEF Emission, OutType, DirtyBytes, TInv, FramerTypeOK
<1>3. CASE DropRest /\ UNCHANGED f
  <2>1. FrameStep /\ Shape'
    BY <1>3 DEF FrameStep, Shape, ShapeOf, TInv, FramerTypeOK, BodyTarget, Least
  <2>2. LoopStep
    BY <1>1, <1>3 DEF LoopStep, DirtyBytes, DropRest
  <2> QED
    BY <1>2, <2>1, <2>2, LoopT
<1>4. CASE \E p \in pos + 1 .. pos + left : f' = DoResync(f) /\ Consume(p - pos)
  <2>1. FrameStep /\ Shape'
    <3>1. f' \in Frame /\ f'.st = "HEADER" /\ Blank(f', f)
      BY <1>1, <1>4, FrameOps, ResetFields
    <3> QED
      BY <3>1, BlankShape DEF FrameStep, Shape, Blank
  <2>2. LoopStep
    <3>1. PICK p \in pos + 1 .. pos + left : Consume(p - pos)
      BY <1>4
    <3>2. p - pos \in 0 .. left
      BY <1>1
    <3> QED
      BY <3>1, <3>2 DEF LoopStep, DirtyBytes
  <2> QED
    BY <1>2, <2>1, <2>2, LoopT
<1> QED
  BY <1>3, <1>4 DEF DirtyBytes

LEMMA SpillBytesT == TInv /\ SpillBytes => TInv'
<1> SUFFICES ASSUME TInv, SpillBytes PROVE TInv'
  OBVIOUS
<1>1. /\ f \in Frame /\ left \in Nat /\ left > 0 /\ f.buf_len \in Nat /\ f.body_len \in Nat
      /\ BodyMax \in Nat
      /\ f.st = "BODY" /\ ~f.prefix_closed /\ left < BodyTarget(f) - f.buf_len
  BY SizeAssumption DEF TInv, FramerTypeOK, SpillBytes, Frame
<1>2. f' = [f EXCEPT !.buf = TRUE, !.buf_len = f.buf_len + left]
  BY <1>1 DEF SpillBytes, Frame
<1>3. f.buf_len + left < BodyTarget(f) /\ BodyTarget(f) <= BodyMax /\ BodyTarget(f) \in Nat
  BY <1>1 DEF BodyTarget, Least
<1>5. /\ f' \in Frame /\ f'.body_len = f.body_len /\ f'.st = "BODY"
      /\ f'.buf_len = f.buf_len + left /\ f'.buf /\ f'.hdr_len = f.hdr_len
      /\ f'.call_pos = f.call_pos /\ f'.call_total = f.call_total
  <2> DEFINE n == f.buf_len + left
  <2>1. n \in Nat /\ f' = [f EXCEPT !.buf = TRUE, !.buf_len = n]
    BY <1>1, <1>2
  <2> HIDE DEF n
  <2>2. /\ f' \in Frame /\ f'.body_len = f.body_len /\ f'.st = "BODY"
        /\ f'.buf_len = n /\ f'.buf /\ f'.hdr_len = f.hdr_len
        /\ f'.call_pos = f.call_pos /\ f'.call_total = f.call_total
    BY ZenonT(30), <1>1, <2>1 DEF Frame
  <2> QED
    BY <2>2 DEF n
<1>4. FrameStep
  BY <1>1, <1>3, <1>5 DEF FrameStep, TInv, FramerTypeOK
<1>6. Shape'
  BY <1>1, <1>3, <1>5 DEF Shape, ShapeOf, TInv, BodyTarget
<1>7. Emission /\ pc # "idle"
  BY DEF Emission, OutType, SpillBytes, TInv, FramerTypeOK
<1>8. LoopStep
  BY <1>1 DEF LoopStep, SpillBytes
<1> QED
  BY <1>4, <1>6, <1>7, <1>8, LoopT

(* The rest of a fragment, n bytes, is to be skipped: r is g after it.      *)
Passed(r, g, n) ==
    /\ r \in Frame /\ r.hdr_len = 0 /\ ShapeOf(r)
    /\ n = 0 => r.st = "HEADER"
    /\ n # 0 => r.st = "SKIP" /\ r.skip_left = n
    /\ r.call_pos = g.call_pos /\ r.call_total = g.call_total

(* ... of a fragment whose message goes on.                                 *)
Closed(r, g) ==
    /\ r.prefix_closed /\ r.msg_cont
    /\ r.mstart = g.mstart /\ r.body_total = g.body_total
    /\ r.buf = g.buf /\ r.buf_len = g.buf_len /\ r.after_resync = g.after_resync

(* ... of the last one, whose message is emitted.                           *)
Done(r) == ~r.prefix_closed /\ ~r.msg_cont /\ ~r.after_resync /\ ~r.buf /\ r.buf_len = 0

LEMMA CloseFields ==
    ASSUME NEW g \in Frame, NEW n \in Nat, g.msg_cont
    PROVE  /\ Passed(ThenSkip(CloseFragment(g), n), g, n)
           /\ Closed(ThenSkip(CloseFragment(g), n), g)
<1> DEFINE r == ThenSkip(CloseFragment(g), n)
<1>1. /\ r \in Frame /\ r.hdr_len = 0 /\ r.prefix_closed /\ r.msg_cont
      /\ r.mstart = g.mstart /\ r.body_total = g.body_total
      /\ r.buf = g.buf /\ r.buf_len = g.buf_len /\ r.after_resync = g.after_resync
      /\ r.call_pos = g.call_pos /\ r.call_total = g.call_total
  BY ZenonT(30) DEF Frame, ThenSkip, CloseFragment
<1>2. /\ n = 0 => r.st = "HEADER"
      /\ n # 0 => r.st = "SKIP" /\ r.skip_left = n
  BY DEF Frame, ThenSkip, CloseFragment
<1> HIDE DEF r
<1>3. ShapeOf(r)
  BY <1>1, <1>2, SizeAssumption DEF ShapeOf
<1>4. Passed(r, g, n) /\ Closed(r, g)
  BY <1>1, <1>2, <1>3 DEF Passed, Closed
<1> QED
  BY <1>4 DEF r

LEMMA EmitFields ==
    ASSUME NEW g \in Frame, NEW n \in Nat
    PROVE  Passed(ThenSkip(Emitted(g), n), g, n) /\ Done(ThenSkip(Emitted(g), n))
<1> DEFINE r == ThenSkip(Emitted(g), n)
<1>1. /\ r \in Frame /\ r.hdr_len = 0 /\ ~r.prefix_closed
      /\ ~r.msg_cont /\ ~r.after_resync /\ ~r.buf /\ r.buf_len = 0
      /\ r.call_pos = g.call_pos /\ r.call_total = g.call_total
  BY ZenonT(30) DEF Frame, ThenSkip, Emitted, MsgReset
<1>2. /\ n = 0 => r.st = "HEADER"
      /\ n # 0 => r.st = "SKIP" /\ r.skip_left = n
  BY DEF Frame, ThenSkip, Emitted, MsgReset
<1> HIDE DEF r
<1>3. ShapeOf(r)
  BY <1>1, <1>2, SizeAssumption DEF ShapeOf
<1>4. Passed(r, g, n) /\ Done(r)
  BY <1>1, <1>2, <1>3 DEF Passed, Done
<1> QED
  BY <1>4 DEF r

LEMMA EmissionT ==
    ASSUME TInv, NEW g \in Frame, NEW cap \in 0 .. BodyMax,
           Emit(g, cap), due' = NextDue(g)
    PROVE  Emission
<1>1. g.mstart \in Nat /\ g.body_total \in Nat /\ g.after_resync \in BOOLEAN
  BY DEF Frame
<1>2. due' \in Nat
  BY WireFacts DEF NextDue, MessageStart, TInv, FramerTypeOK
<1>3. blind' \in BOOLEAN
  BY DEF Emit
<1>4. out' \in OutType
  BY <1>1 DEF Emit, OutType
<1> QED
  BY <1>2, <1>3, <1>4 DEF Emission

LEMMA ConsumeT ==
    ASSUME TInv, NEW k \in 0 .. left, ConsumeUnlessBlind(k)
    PROVE  \E j \in 0 .. left : Consume(j)
<1>1. left \in 0 .. left
  BY DEF TInv, FramerTypeOK
<1> QED
  BY <1>1 DEF ConsumeUnlessBlind, DropRest

LEMMA BodyHoleT == TInv /\ BodyHole => TInv'
<1> SUFFICES ASSUME TInv, BodyHole PROVE TInv'
  OBVIOUS
<1> DEFINE rem == f.body_len - (IF f.prefix_closed THEN 0 ELSE f.buf_len)
           take == Least(rem, left)
           skip == rem - take
<1>1. /\ f \in Frame /\ left \in Nat /\ left > 0 /\ f.st = "BODY" /\ BodyMax \in Nat
      /\ f.buf_len \in 0 .. BodyMax /\ f.body_len \in Nat /\ f.body_len > 0
      /\ ~f.prefix_closed => f.buf_len < BodyTarget(f)
  BY SizeAssumption DEF TInv, FramerTypeOK, Frame, Shape, ShapeOf, BodyHole
<1>2. take \in 0 .. left /\ skip \in Nat
  BY <1>1 DEF BodyTarget, Least
<1>3. CASE f.msg_cont
  <2>1. f' = ThenSkip(CloseFragment(f), skip) /\ Consume(take) /\ UNCHANGED <<blind, due, out>>
    BY <1>3 DEF BodyHole
  <2> HIDE DEF rem, take, skip
  <2>2. FrameStep /\ Shape'
    <3>1. Passed(f', f, skip) /\ Closed(f', f)
      BY <1>1, <1>2, <1>3, <2>1, CloseFields
    <3> QED
      BY <3>1, SizeAssumption DEF Passed, Closed, FrameStep, Shape, TInv, FramerTypeOK
  <2>3. LoopStep /\ Emission /\ pc # "idle"
    BY <1>2, <2>1 DEF LoopStep, BodyHole, Emission, OutType, TInv, FramerTypeOK
  <2> QED
    BY <2>2, <2>3, LoopT
<1>4. CASE ~f.msg_cont
  <2>1. /\ f' = ThenSkip(Emitted(f), skip) /\ ConsumeUnlessBlind(take)
        /\ Emit(f, f.buf_len) /\ due' = NextDue(f)
    BY <1>4 DEF BodyHole
  <2> HIDE DEF rem, take, skip
  <2>2. FrameStep /\ Shape'
    <3>1. Passed(f', f, skip) /\ Done(f')
      BY <1>1, <1>2, <2>1, EmitFields
    <3> QED
      BY <3>1, SizeAssumption DEF Passed, Done, FrameStep, Shape
  <2>3. LoopStep /\ pc # "idle"
    BY <1>2, <2>1, ConsumeT DEF LoopStep, BodyHole
  <2>4. Emission
    BY <1>1, <2>1, EmissionT
  <2> QED
    BY <2>2, <2>3, <2>4, LoopT
<1> QED
  BY <1>3, <1>4

LEMMA BodyBytesT == TInv /\ BodyBytes => TInv'
<1> SUFFICES ASSUME TInv, BodyBytes PROVE TInv'
  OBVIOUS
<1> DEFINE rem == IF f.prefix_closed THEN 0 ELSE BodyTarget(f) - f.buf_len
           take == Least(rem, left)
           target == f.buf_len + take
           skip == f.body_len - (IF f.prefix_closed THEN 0 ELSE target)
<1>1. /\ f \in Frame /\ left \in Nat /\ left > 0 /\ f.st = "BODY" /\ BodyMax \in Nat
      /\ f.buf_len \in 0 .. BodyMax /\ f.body_len \in Nat /\ f.body_len > 0
      /\ ~f.prefix_closed => f.buf_len < BodyTarget(f)
      /\ f.buf \in BOOLEAN /\ (f.buf_len > 0 => f.buf)
  BY SizeAssumption DEF TInv, FramerTypeOK, Frame, Shape, ShapeOf, BodyBytes
<1>2. take \in 0 .. left /\ target \in 0 .. BodyMax /\ skip \in Nat
  BY <1>1 DEF BodyTarget, Least
<1>3. CASE f.msg_cont
  <2>1. PICK stored \in {take > 0, take > 0 /\ f.buf} :
           f' = ThenSkip(CloseFragment(
                  [f EXCEPT !.buf = @ \/ stored,
                            !.buf_len = IF stored THEN target ELSE @]), skip)
    BY <1>3 DEF BodyBytes
  <2>2. Consume(take) /\ UNCHANGED <<blind, due, out>>
    BY <1>3 DEF BodyBytes
  <2> DEFINE b == f.buf \/ stored
             n == IF stored THEN target ELSE f.buf_len
             g == [f EXCEPT !.buf = b, !.buf_len = n]
  <2>3. f' = ThenSkip(CloseFragment(g), skip)
    BY <1>1, <2>1 DEF Frame
  <2>4. b \in BOOLEAN /\ n \in 0 .. BodyMax /\ (n > 0 => b)
    BY <1>1, <1>2
  <2> HIDE DEF rem, take, target, skip, b, n
  <2>5. /\ g \in Frame /\ g.buf = b /\ g.buf_len = n /\ g.msg_cont
        /\ g.call_pos = f.call_pos /\ g.call_total = f.call_total
    <3>1. n \in Nat
      BY <2>4
    <3> QED
      BY ZenonT(30), <1>1, <1>3, <2>4, <3>1 DEF Frame
  <2> HIDE DEF g
  <2>6. FrameStep /\ Shape'
    <3>1. Passed(f', g, skip) /\ Closed(f', g)
      BY <1>2, <2>3, <2>5, CloseFields
    <3> QED
      BY <2>4, <2>5, <3>1, SizeAssumption DEF Passed, Closed, FrameStep, Shape
  <2>7. LoopStep /\ Emission /\ pc # "idle"
    BY <1>2, <2>2 DEF LoopStep, BodyBytes, Emission, OutType, TInv, FramerTypeOK
  <2> QED
    BY <2>6, <2>7, LoopT
<1>4. CASE ~f.msg_cont
  <2>1. /\ f' = ThenSkip(Emitted(f), skip) /\ ConsumeUnlessBlind(take)
        /\ Emit(f, target) /\ due' = NextDue(f)
    BY <1>4 DEF BodyBytes
  <2> HIDE DEF rem, take, target, skip
  <2>2. FrameStep /\ Shape'
    <3>1. Passed(f', f, skip) /\ Done(f')
      BY <1>1, <1>2, <2>1, EmitFields
    <3> QED
      BY <3>1, SizeAssumption DEF Passed, Done, FrameStep, Shape
  <2>3. LoopStep /\ pc # "idle"
    BY <1>2, <2>1, ConsumeT DEF LoopStep, BodyBytes
  <2>4. Emission
    BY <1>1, <1>2, <2>1, EmissionT
  <2> QED
    BY <2>2, <2>3, <2>4, LoopT
<1> QED
  BY <1>3, <1>4

(* The header's bytes so far: g is f after take more of them.               *)
Gathered(g, take) ==
    /\ g \in Frame /\ g.st = f.st /\ g.hdr_len = f.hdr_len + take
    /\ g.mstart = IF f.hdr_len = 0 /\ ~f.msg_cont THEN pos ELSE f.mstart
    /\ g.buf = f.buf /\ g.buf_len = f.buf_len /\ g.prefix_closed = f.prefix_closed
    /\ g.msg_cont = f.msg_cont /\ g.body_total = f.body_total
    /\ g.after_resync = f.after_resync
    /\ g.call_pos = f.call_pos /\ g.call_total = f.call_total

(* The header is whole and says h: p is g with what it says.                *)
Announced(p, g, h) ==
    /\ p \in Frame /\ p.st = g.st /\ p.hdr_len = g.hdr_len /\ p.mstart = g.mstart
    /\ p.body_len = h.len /\ p.msg_cont = h.cont
    /\ p.body_total = (IF f.msg_cont THEN f.body_total ELSE 0) + h.len
    /\ p.buf = g.buf /\ p.buf_len = g.buf_len /\ p.prefix_closed = g.prefix_closed
    /\ p.after_resync = g.after_resync
    /\ p.call_pos = g.call_pos /\ p.call_total = g.call_total

LEMMA GatherFields ==
    ASSUME f \in Frame, pos \in Nat, NEW take \in Nat
    PROVE  Gathered([f EXCEPT !.hdr_len = @ + take,
                              !.mstart = IF f.hdr_len = 0 /\ ~f.msg_cont THEN pos ELSE @], take)
<1> DEFINE n == f.hdr_len + take
           m == IF f.hdr_len = 0 /\ ~f.msg_cont THEN pos ELSE f.mstart
           g == [f EXCEPT !.hdr_len = n, !.mstart = m]
<1>1. n \in Nat /\ m \in Nat
  BY DEF Frame
<1>2. [f EXCEPT !.hdr_len = @ + take,
                !.mstart = IF f.hdr_len = 0 /\ ~f.msg_cont THEN pos ELSE @] = g
  BY DEF Frame
<1> HIDE DEF n, m
<1>3. /\ g \in Frame /\ g.st = f.st /\ g.hdr_len = n /\ g.mstart = m
      /\ g.buf = f.buf /\ g.buf_len = f.buf_len /\ g.prefix_closed = f.prefix_closed
      /\ g.msg_cont = f.msg_cont /\ g.body_total = f.body_total
      /\ g.after_resync = f.after_resync
      /\ g.call_pos = f.call_pos /\ g.call_total = f.call_total
  BY ZenonT(30), <1>1 DEF Frame
<1> HIDE DEF g
<1>4. Gathered(g, take)
  BY <1>3 DEF Gathered, n, m
<1> QED
  BY <1>2, <1>4

LEMMA AnnounceFields ==
    ASSUME f \in Frame, NEW g \in Frame, NEW h, h.len \in Nat, h.cont \in BOOLEAN,
           g.body_total = f.body_total
    PROVE  Announced([g EXCEPT !.body_len = h.len, !.msg_cont = h.cont,
                               !.body_total = (IF f.msg_cont THEN @ ELSE 0) + h.len], g, h)
<1> DEFINE n == (IF f.msg_cont THEN g.body_total ELSE 0) + h.len
           l == h.len
           c == h.cont
           p == [g EXCEPT !.body_len = l, !.msg_cont = c, !.body_total = n]
<1>1. n \in Nat /\ l \in Nat /\ c \in BOOLEAN
  BY DEF Frame
<1>2. [g EXCEPT !.body_len = h.len, !.msg_cont = h.cont,
                !.body_total = (IF f.msg_cont THEN @ ELSE 0) + h.len] = p
  BY DEF Frame
<1>3. n = (IF f.msg_cont THEN f.body_total ELSE 0) + h.len
  OBVIOUS
<1> HIDE DEF n, l, c
<1>4. /\ p \in Frame /\ p.st = g.st /\ p.hdr_len = g.hdr_len /\ p.mstart = g.mstart
      /\ p.body_len = l /\ p.msg_cont = c /\ p.body_total = n
      /\ p.buf = g.buf /\ p.buf_len = g.buf_len /\ p.prefix_closed = g.prefix_closed
      /\ p.after_resync = g.after_resync
      /\ p.call_pos = g.call_pos /\ p.call_total = g.call_total
  BY ZenonT(30), <1>1 DEF Frame
<1> HIDE DEF p
<1>5. Announced(p, g, h)
  BY <1>3, <1>4 DEF Announced, l, c
<1> QED
  BY <1>2, <1>5

(* The body begins.                                                         *)
InBody(r, p) ==
    /\ r \in Frame /\ r.st = "BODY" /\ r.hdr_len = p.hdr_len /\ r.mstart = p.mstart
    /\ r.body_len = p.body_len /\ r.msg_cont = p.msg_cont /\ r.body_total = p.body_total
    /\ r.buf = p.buf /\ r.buf_len = p.buf_len /\ r.prefix_closed = p.prefix_closed
    /\ r.after_resync = p.after_resync
    /\ r.call_pos = p.call_pos /\ r.call_total = p.call_total

LEMMA BodyFields == \A p \in Frame : InBody([p EXCEPT !.st = "BODY"], p)
  BY DEF Frame, InBody

LEMMA ThenSkipZero == \A g : ThenSkip(g, 0) = g
  BY DEF ThenSkip

(* A header says what a header can say.                                     *)
LEMMA ParsesT ==
    ASSUME TInv, NEW q \in Int
    PROVE  \A h \in Parses(q) : h.len \in Nat /\ h.cont \in BOOLEAN
<1>1. CASE Boundary(q - HdrSize)
  <2>1. /\ wire[q - HdrSize].len \in Nat /\ wire[q - HdrSize].cont \in BOOLEAN
    BY <1>1, WireFacts
  <2> QED
    BY <1>1, <2>1 DEF Parses
<1>2. CASE ~Boundary(q - HdrSize)
  BY <1>2, SizeAssumption DEF Parses
<1> QED
  BY <1>1, <1>2

(* The three outcomes of HeaderBytes, by name.                              *)
HdrTake == Least(HdrSize - f.hdr_len, left)

HdrSoFar == [f EXCEPT !.hdr_len = @ + HdrTake,
                      !.mstart = IF f.hdr_len = 0 /\ ~f.msg_cont THEN pos ELSE @]

HdrSays(h) == [HdrSoFar EXCEPT !.body_len = h.len, !.msg_cont = h.cont,
                               !.body_total = (IF f.msg_cont THEN @ ELSE 0) + h.len]

HdrPart ==
    /\ HdrSoFar.hdr_len < HdrSize
    /\ f' = HdrSoFar
    /\ Consume(HdrTake)
    /\ UNCHANGED <<blind, due, out>>

HdrBad ==
    /\ ~Boundary(pos + HdrTake - HdrSize)
    /\ f' = GoDirty(HdrSoFar)
    /\ DropRest
    /\ UNCHANGED <<blind, due, out>>

HdrEmpty(h) ==
    /\ HdrSoFar.hdr_len = HdrSize /\ h.len = 0
    /\ Emit(HdrSays(h), HdrSays(h).buf_len)
    /\ f' = Emitted(HdrSays(h))
    /\ due' = NextDue(HdrSays(h))
    /\ ConsumeUnlessBlind(HdrTake)

HdrBody(h) ==
    /\ HdrSoFar.hdr_len = HdrSize /\ h.len # 0
    /\ f' = [HdrSays(h) EXCEPT !.st = "BODY"]
    /\ Consume(HdrTake)
    /\ UNCHANGED <<blind, due, out>>

LEMMA HeaderCases ==
    HeaderBytes =>
      /\ pc = "bytes" /\ left > 0 /\ f.st = "HEADER"
      /\ UNCHANGED <<wire, call, gap, pc, ev, entry>>
      /\ \/ HdrPart
         \/ HdrBad
         \/ \E h \in Parses(pos + HdrTake) : HdrEmpty(h) \/ HdrBody(h)
  BY Zenon DEF HeaderBytes, HdrPart, HdrBad, HdrEmpty, HdrBody, HdrSays, HdrSoFar, HdrTake

LEMMA HeaderFacts ==
    ASSUME TInv, HeaderBytes
    PROVE  /\ f \in Frame /\ left \in Nat /\ left > 0 /\ pos \in Nat /\ f.hdr_len \in Nat
           /\ f.hdr_len < HdrSize /\ f.buf_len \in 0 .. BodyMax
           /\ HdrTake \in 1 .. left /\ f.hdr_len + HdrTake <= HdrSize
           /\ Gathered(HdrSoFar, HdrTake)
           /\ \A h : h.len \in Nat /\ h.cont \in BOOLEAN => Announced(HdrSays(h), HdrSoFar, h)
<1>0. f.st = "HEADER" /\ left > 0
  BY HeaderCases
<1>1. /\ f \in Frame /\ left \in Nat /\ left > 0 /\ pos \in Nat /\ f.hdr_len \in Nat
      /\ f.hdr_len < HdrSize /\ f.buf_len \in 0 .. BodyMax
  BY <1>0, SizeAssumption DEF TInv, FramerTypeOK, Frame, Shape, ShapeOf
<1>2. HdrTake \in 1 .. left /\ f.hdr_len + HdrTake <= HdrSize /\ HdrTake \in Nat
  BY <1>1, SizeAssumption DEF HdrTake, Least
<1>3. Gathered(HdrSoFar, HdrTake)
  BY ZenonT(30), <1>1, <1>2, GatherFields DEF HdrSoFar
<1>4. ASSUME NEW h, h.len \in Nat, h.cont \in BOOLEAN
      PROVE  Announced(HdrSays(h), HdrSoFar, h)
  <2>1. HdrSoFar \in Frame /\ HdrSoFar.body_total = f.body_total
    BY <1>3 DEF Gathered
  <2> QED
    BY ZenonT(30), <1>1, <1>4, <2>1, AnnounceFields DEF HdrSays
<1>5. \A h : h.len \in Nat /\ h.cont \in BOOLEAN => Announced(HdrSays(h), HdrSoFar, h)
  BY <1>4, Zenon
<1> QED
  BY <1>1, <1>2, <1>3, <1>5, Zenon

LEMMA HeaderBytesT == TInv /\ HeaderBytes => TInv'
<1> SUFFICES ASSUME TInv, HeaderBytes PROVE TInv'
  OBVIOUS
<1>1. f.st = "HEADER" /\ pc # "idle"
  BY HeaderCases
<1>2. /\ f.prefix_closed <=> f.msg_cont
      /\ ~f.msg_cont => f.buf_len = 0 /\ ~f.buf
      /\ f.buf_len > 0 => f.buf
  BY <1>1 DEF TInv, FramerTypeOK, Shape, ShapeOf
<1>3. HdrTake \in 0 .. left
  BY HeaderFacts
<1>4. UNCHANGED <<wire, call, gap, pc, ev, entry>>
  BY HeaderCases
<1>5. CASE HdrPart
  <2>1. FrameStep /\ Shape'
    BY <1>1, <1>2, <1>5, HeaderFacts, SizeAssumption
       DEF HdrPart, Gathered, FrameStep, Shape, ShapeOf
  <2>2. LoopStep /\ Emission
    BY <1>3, <1>4, <1>5 DEF HdrPart, LoopStep, Emission, OutType, TInv, FramerTypeOK
  <2> QED
    BY <1>1, <2>1, <2>2, LoopT
<1>6. CASE HdrBad
  <2>1. HdrSoFar \in Frame /\ f' = GoDirty(HdrSoFar)
    BY <1>6, HeaderFacts DEF HdrBad, Gathered
  <2>2. f' \in Frame /\ f'.st = "DIRTY" /\ Blank(f', HdrSoFar)
    BY <2>1, FrameOps, ResetFields
  <2>3. FrameStep /\ Shape'
    BY <2>2, BlankShape, HeaderFacts DEF FrameStep, Shape, Blank, Gathered
  <2>4. left \in 0 .. left
    BY HeaderFacts
  <2>5. LoopStep /\ Emission
    BY <1>4, <1>6, <2>4 DEF HdrBad, DropRest, LoopStep, Emission, OutType, TInv, FramerTypeOK
  <2> QED
    BY <1>1, <2>3, <2>5, LoopT
<1>7. ASSUME NEW h \in Parses(pos + HdrTake), HdrEmpty(h)
      PROVE  TInv'
  <2>1. h.len \in Nat /\ h.cont \in BOOLEAN
    BY HeaderFacts, ParsesT
  <2> DEFINE p == HdrSays(h)
  <2>2. Announced(p, HdrSoFar, h) /\ Gathered(HdrSoFar, HdrTake)
    BY <2>1, HeaderFacts
  <2>3. f' = ThenSkip(Emitted(p), 0) /\ Emit(p, p.buf_len) /\ due' = NextDue(p)
    BY <1>7, ThenSkipZero DEF HdrEmpty
  <2> HIDE DEF p
  <2>4. p \in Frame /\ p.buf_len \in 0 .. BodyMax
    BY <2>2, HeaderFacts DEF Announced, Gathered
  <2>5. Passed(f', p, 0) /\ Done(f')
    BY <2>3, <2>4, EmitFields
  <2>6. FrameStep /\ Shape'
    BY <2>2, <2>5, SizeAssumption DEF Passed, Done, FrameStep, Shape, Announced, Gathered
  <2>7. LoopStep
    BY <1>3, <1>4, <1>7, ConsumeT DEF HdrEmpty, LoopStep
  <2>8. Emission
    BY <2>3, <2>4, EmissionT
  <2> QED
    BY <1>1, <2>6, <2>7, <2>8, LoopT
<1>8. ASSUME NEW h \in Parses(pos + HdrTake), HdrBody(h)
      PROVE  TInv'
  <2>1. h.len \in Nat /\ h.cont \in BOOLEAN /\ h.len # 0
    BY <1>8, HeaderFacts, ParsesT DEF HdrBody
  <2> DEFINE p == HdrSays(h)
  <2>2. Announced(p, HdrSoFar, h) /\ Gathered(HdrSoFar, HdrTake)
    BY <2>1, HeaderFacts
  <2>3. f' = [p EXCEPT !.st = "BODY"] /\ p \in Frame
    BY <1>8, <2>2 DEF HdrBody, Announced
  <2> HIDE DEF p
  <2>4. InBody(f', p)
    BY <2>3, BodyFields
  <2>5. /\ f' \in Frame /\ f'.st = "BODY" /\ f'.body_len = h.len
        /\ f'.hdr_len = f.hdr_len + HdrTake
        /\ f'.buf = f.buf /\ f'.buf_len = f.buf_len /\ f'.prefix_closed = f.prefix_closed
        /\ f'.call_pos = f.call_pos /\ f'.call_total = f.call_total
    BY <2>2, <2>4 DEF InBody, Announced, Gathered
  <2>6. BodyTarget(f') > 0
    BY <2>1, <2>5, SizeAssumption DEF BodyTarget, Least
  <2>7. FrameStep
    BY <1>2, <2>5, HeaderFacts DEF FrameStep
  <2>8. Shape'
    BY <1>2, <2>1, <2>5, <2>6 DEF Shape, ShapeOf
  <2>9. LoopStep /\ Emission
    BY <1>3, <1>4, <1>8 DEF HdrBody, LoopStep, Emission, OutType, TInv, FramerTypeOK
  <2> QED
    BY <1>1, <2>7, <2>8, <2>9, LoopT
<1> QED
  BY <1>5, <1>6, <1>7, <1>8, HeaderCases

LEMMA FeedT == TInv /\ Feed => TInv'
<1> SUFFICES ASSUME TInv, Feed PROVE TInv'
  OBVIOUS
<1>1. f \in Frame /\ pc = "hole" /\ left = 0 /\ ev.cap \in Nat /\ pos = ev.at
  BY SizeAssumption DEF TInv, FramerTypeOK, Feed, CallOK
<1>2. FrameStep /\ Shape' /\ f'.call_pos <= f'.call_total
  <2>1. CASE UNCHANGED f
    BY <2>1 DEF FrameStep, Shape, ShapeOf, TInv, FramerTypeOK, BodyTarget
  <2>2. CASE f' = DoResync(f)
    <3>1. f' \in Frame /\ f'.st = "HEADER" /\ Blank(f', f)
      BY ZenonT(30), <1>1, <2>2, FrameOps, ResetFields
    <3> QED
      BY <3>1, BlankShape DEF FrameStep, Shape, Blank, TInv, FramerTypeOK
  <2> QED
    BY <2>1, <2>2 DEF Feed
<1>3. CallOK'
  BY <1>1, <1>2, SizeAssumption DEF TInv, FramerTypeOK, CallOK, Feed, FrameStep
<1> QED
  BY <1>1, <1>2, <1>3 DEF TInv, FramerTypeOK, Feed, FrameStep

(* A chunk continues the call or begins the next one.                       *)
ChunkOK(k) ==
    /\ k.base \in 0 .. MaxPos /\ k.size \in 0 .. MaxPos
    /\ k.off \in 0 .. MaxPos /\ k.cap \in 0 .. MaxPos
    /\ k.off + k.cap <= k.size /\ k.base + k.size <= MaxPos
    /\ k.off = 0 => k.base = call.base + call.size
    /\ k.off > 0 => /\ k.base = call.base /\ k.size = call.size
                    /\ k.off >= call.done /\ k.off < k.size
    /\ FlipsCaptured /\ OverFlip(k.base, k.base + k.size) => k.off = 0 /\ k.cap = k.size

LEMMA ChunkT ==
    ASSUME TInv, NEW k \in Chunks
    PROVE  ChunkOK(k)
<1> DEFINE start == call.base + call.size
           first == {[base |-> start, size |-> x[1], off |-> 0, cap |-> x[2]] :
                        x \in (0 .. MaxPos - start) \X (0 .. MaxPos)}
           more == {[base |-> call.base, size |-> call.size, off |-> x[1], cap |-> x[2]] :
                        x \in {o \in call.done .. call.size - 1 : o > 0} \X (0 .. MaxPos)}
<1>1. /\ call.base \in 0 .. MaxPos /\ call.size \in 0 .. MaxPos /\ call.done \in 0 .. MaxPos
      /\ call.done <= call.size /\ call.base + call.size <= MaxPos /\ MaxPos \in Nat
  BY SizeAssumption DEF TInv, FramerTypeOK
<1>2. /\ k \in first \cup more /\ k.off + k.cap <= k.size
      /\ FlipsCaptured /\ OverFlip(k.base, k.base + k.size) => k.off = 0 /\ k.cap = k.size
  BY DEF Chunks
<1>3. CASE k \in first
  <2>1. PICK x \in (0 .. MaxPos - start) \X (0 .. MaxPos) :
           k = [base |-> start, size |-> x[1], off |-> 0, cap |-> x[2]]
    BY <1>3
  <2>2. /\ k.base = start /\ k.size \in 0 .. MaxPos - start
        /\ k.off = 0 /\ k.cap \in 0 .. MaxPos
    BY <2>1
  <2> QED
    BY <1>1, <1>2, <2>2 DEF ChunkOK
<1>4. CASE k \in more
  <2>1. PICK x \in {o \in call.done .. call.size - 1 : o > 0} \X (0 .. MaxPos) :
           k = [base |-> call.base, size |-> call.size, off |-> x[1], cap |-> x[2]]
    BY <1>4
  <2>2. /\ k.base = call.base /\ k.size = call.size
        /\ k.off \in call.done .. call.size - 1 /\ k.off > 0 /\ k.cap \in 0 .. MaxPos
    BY <2>1
  <2> QED
    BY <1>1, <1>2, <2>2 DEF ChunkOK
<1> QED
  BY <1>2, <1>3, <1>4

LEMMA CallAfterT ==
    ASSUME TInv, NEW k, ChunkOK(k)
    PROVE  /\ CallAfter(k) \in [base: 0 .. MaxPos, size: 0 .. MaxPos, done: 0 .. MaxPos]
           /\ CallAfter(k).base = k.base /\ CallAfter(k).size = k.size
           /\ CallAfter(k).done = k.off + k.cap
           /\ k.base + k.size >= call.base + call.size
<1>1. /\ call.base \in 0 .. MaxPos /\ call.size \in 0 .. MaxPos /\ MaxPos \in Nat
  BY SizeAssumption DEF TInv, FramerTypeOK
<1>2. k.off + k.cap \in 0 .. MaxPos /\ k.base + k.size >= call.base + call.size
  BY <1>1 DEF ChunkOK
<1> QED
  BY <1>2 DEF ChunkOK, CallAfter

LEMMA LoseT == TInv /\ Lose => TInv'
<1> SUFFICES ASSUME TInv, Lose PROVE TInv'
  OBVIOUS
<1>1. PICK k \in Chunks : call' \in {CallAfter(k), call}
  BY DEF Lose
<1>2. /\ call' \in [base: 0 .. MaxPos, size: 0 .. MaxPos, done: 0 .. MaxPos]
      /\ call'.done <= call'.size /\ call'.base + call'.size <= MaxPos
      /\ call'.base + call'.size >= call.base + call.size
  <2>1. CASE call' = call
    BY <2>1, SizeAssumption DEF TInv, FramerTypeOK
  <2>2. CASE call' = CallAfter(k)
    BY <2>2, ChunkT, CallAfterT DEF ChunkOK
  <2> QED
    BY <1>1, <2>1, <2>2
<1>3. CallOK'
  <2>1. f.call_total \in Nat /\ f.call_pos \in Nat /\ call.base + call.size \in Nat
    BY SizeAssumption DEF TInv, FramerTypeOK, Frame
  <2> QED
    BY <1>2, <2>1, SizeAssumption DEF TInv, CallOK, Lose
<1> QED
  BY <1>2, <1>3 DEF TInv, FramerTypeOK, Shape, Lose

(* The parts of ReasmData, by name.                                         *)
Marked == IF gap THEN MarkDirty(f) ELSE f

Adopted(r) ==
    IF r.off = 0 \/ Marked.call_total = 0
    THEN [Marked EXCEPT !.call_total = r.total, !.call_pos = 0] ELSE Marked

Anomaly(r) ==
    \/ r.total # Adopted(r).call_total
    \/ r.off < Adopted(r).call_pos
    \/ r.off + r.cap > r.total

HoleBefore(r) ==
    IF r.off = 0 THEN Marked.call_total - Marked.call_pos
    ELSE IF Anomaly(r) THEN 0 ELSE r.off - Adopted(r).call_pos

Judged(r) == IF Anomaly(r) /\ Adopted(r).st # "DIRTY" THEN GoDirty(Adopted(r)) ELSE Adopted(r)

LEMMA ReasmCases ==
    ASSUME NEW r, ReasmData(r)
    PROVE  /\ pc = "idle" /\ gap' = FALSE /\ UNCHANGED <<wire, blind, due, out>>
           /\ blind => f' = Marked /\ UNCHANGED <<pc, ev, left, entry, pos>>
           /\ ~blind =>
                /\ ev' = r /\ pc' = "hole" /\ entry' = blind
                /\ f' = [Judged(r) EXCEPT !.call_total = r.total, !.call_pos = r.off]
                /\ left' = HoleBefore(r) /\ pos' = r.at - HoleBefore(r)
  BY Zenon DEF ReasmData, Marked, Adopted, Anomaly, HoleBefore, Judged

(* r and g differ in the account of the call only.                          *)
SameMsg(r, g) ==
    /\ r.st = g.st /\ r.hdr_len = g.hdr_len /\ r.body_len = g.body_len
    /\ r.body_total = g.body_total /\ r.msg_cont = g.msg_cont
    /\ r.prefix_closed = g.prefix_closed /\ r.buf = g.buf /\ r.buf_len = g.buf_len
    /\ r.skip_left = g.skip_left /\ r.after_resync = g.after_resync /\ r.mstart = g.mstart

WithCall(g, t, q) == [g EXCEPT !.call_total = t, !.call_pos = q]

Called(r, g, t, q) == r \in Frame /\ SameMsg(r, g) /\ r.call_total = t /\ r.call_pos = q

LEMMA CallFields ==
    ASSUME NEW g \in Frame, NEW t \in Nat, NEW q \in Nat
    PROVE  Called(WithCall(g, t, q), g, t, q)
  BY ZenonT(30) DEF Frame, SameMsg, WithCall, Called

Sized(g) == ShapeOf(g) /\ g.hdr_len <= HdrSize /\ g.buf_len <= BodyMax /\ (g.buf_len > 0 => g.buf)

LEMMA SameSized ==
    ASSUME NEW g, NEW r, SameMsg(r, g), Sized(g)
    PROVE  Sized(r)
  BY DEF SameMsg, Sized, ShapeOf, BodyTarget

LEMMA MarkedT ==
    ASSUME TInv
    PROVE  /\ Marked \in Frame /\ Sized(Marked)
           /\ Marked.call_total = f.call_total /\ Marked.call_pos = f.call_pos
           /\ f.call_pos \in Nat /\ f.call_total \in Nat /\ f.call_pos <= f.call_total
           /\ f.call_total - f.call_pos <= call.base + call.size
<1>1. f \in Frame /\ Sized(f)
  BY DEF TInv, FramerTypeOK, Shape, Sized
<1>2. MarkDirty(f) \in Frame /\ Sized(MarkDirty(f))
  BY <1>1 DEF Frame, MarkDirty, Sized, ShapeOf
<1>3. MarkDirty(f).call_total = f.call_total /\ MarkDirty(f).call_pos = f.call_pos
  BY <1>1 DEF Frame, MarkDirty
<1>4. /\ f.call_pos \in Nat /\ f.call_total \in Nat /\ f.call_pos <= f.call_total
      /\ f.call_total - f.call_pos <= call.base + call.size
  BY <1>1 DEF Frame, TInv, FramerTypeOK, CallOK
<1> QED
  BY <1>1, <1>2, <1>3, <1>4 DEF Marked

LEMMA AdoptedT ==
    ASSUME TInv, NEW r, r.off \in Nat, r.total \in Nat
    PROVE  /\ Adopted(r) \in Frame /\ Sized(Adopted(r)) /\ SameMsg(Adopted(r), Marked)
           /\ r.off = 0 => Adopted(r).call_total = r.total /\ Adopted(r).call_pos = 0
           /\ f.call_total = 0 => Adopted(r).call_total = r.total /\ Adopted(r).call_pos = 0
           /\ r.off # 0 /\ f.call_total # 0 =>
                Adopted(r).call_total = f.call_total /\ Adopted(r).call_pos = f.call_pos
           /\ Judged(r) \in Frame /\ Sized(Judged(r))
           /\ ~Anomaly(r) => Judged(r) = Adopted(r)
<1> DEFINE a == WithCall(Marked, r.total, 0)
<1>0. Called(a, Marked, r.total, 0)
  BY MarkedT, CallFields
<1>1. a \in Frame /\ SameMsg(a, Marked) /\ a.call_total = r.total /\ a.call_pos = 0
  BY <1>0 DEF Called
<1> HIDE DEF a
<1>2. Sized(a) /\ SameMsg(Marked, Marked)
  BY <1>1, MarkedT, SameSized DEF SameMsg
<1>3. Adopted(r) = IF r.off = 0 \/ f.call_total = 0 THEN a ELSE Marked
  BY MarkedT DEF Adopted, a, WithCall
<1>4. Adopted(r) \in Frame /\ Sized(Adopted(r)) /\ SameMsg(Adopted(r), Marked)
  BY <1>1, <1>2, <1>3, MarkedT
<1>5. GoDirty(Adopted(r)) \in Frame /\ GoDirty(Adopted(r)).st = "DIRTY"
      /\ Blank(GoDirty(Adopted(r)), Adopted(r))
  BY <1>4, FrameOps, ResetFields
<1>6. Sized(GoDirty(Adopted(r)))
  BY <1>5, BlankShape DEF Sized
<1> QED
  BY <1>1, <1>3, <1>4, <1>5, <1>6, MarkedT DEF Judged

LEMMA DeliverT == TInv /\ Deliver => TInv'
<1> SUFFICES ASSUME TInv, Deliver PROVE TInv'
  OBVIOUS
<1>1. PICK k \in Chunks :
          /\ ReasmData([off |-> k.off, cap |-> k.cap, total |-> k.size, at |-> k.base + k.off])
          /\ call' = CallAfter(k)
  BY DEF Deliver
<1> DEFINE r == [off |-> k.off, cap |-> k.cap, total |-> k.size, at |-> k.base + k.off]
<1>2. ChunkOK(k)
  BY ChunkT
<1>3. /\ r.off = k.off /\ r.cap = k.cap /\ r.total = k.size /\ r.at = k.base + k.off
      /\ ReasmData(r)
  BY <1>1
<1> HIDE DEF r
<1>4. /\ call' \in [base: 0 .. MaxPos, size: 0 .. MaxPos, done: 0 .. MaxPos]
      /\ call'.base = k.base /\ call'.size = k.size /\ call'.done = k.off + k.cap
      /\ k.base + k.size >= call.base + call.size
  BY <1>1, <1>2, CallAfterT
<1>5. k.base \in Nat /\ k.size \in Nat /\ k.off \in Nat /\ k.cap \in Nat /\ MaxPos \in Nat
      /\ call.base + call.size \in Nat
  BY <1>2, SizeAssumption DEF ChunkOK, TInv, FramerTypeOK
<1>6. gap' = FALSE /\ UNCHANGED <<wire, blind, due, out>> /\ pc = "idle"
  BY ZenonT(30), <1>3, ReasmCases
<1>7. CASE blind
  <2>1. f' = Marked /\ UNCHANGED <<pc, ev, left, entry, pos>>
    BY ZenonT(30), <1>3, <1>7, ReasmCases
  <2>2. f' \in Frame /\ Sized(f') /\ f'.call_total = f.call_total /\ f'.call_pos = f.call_pos
    BY <2>1, MarkedT
  <2>3. CallOK'
    BY <1>4, <1>5, <1>6, <2>1, <2>2, MarkedT DEF CallOK, TInv
  <2> QED
    BY ZenonT(30), <1>2, <1>4, <1>6, <2>1, <2>2, <2>3, MarkedT
       DEF TInv, FramerTypeOK, Sized, Shape, ChunkOK
<1>8. CASE ~blind
  <2>1. /\ ev' = r /\ pc' = "hole" /\ entry' = blind
        /\ f' = WithCall(Judged(r), r.total, r.off)
        /\ left' = HoleBefore(r) /\ pos' = r.at - HoleBefore(r)
    BY ZenonT(30), <1>3, <1>8, ReasmCases DEF WithCall
  <2>2. Judged(r) \in Frame /\ Sized(Judged(r)) /\ r.total \in Nat /\ r.off \in Nat
    BY <1>3, <1>5, AdoptedT
  <2>3. f' \in Frame /\ SameMsg(f', Judged(r)) /\ f'.call_total = r.total /\ f'.call_pos = r.off
    <3>1. Called(f', Judged(r), r.total, r.off)
      BY <2>1, <2>2, CallFields
    <3> QED
      BY <3>1 DEF Called
  <2>4. Sized(f')
    BY <2>2, <2>3, SameSized
  <2>5. HoleBefore(r) \in Nat /\ HoleBefore(r) <= r.at
    <3>1. CASE r.off = 0
      <4>1. HoleBefore(r) = f.call_total - f.call_pos
        BY <3>1, MarkedT DEF HoleBefore
      <4>2. r.at = call.base + call.size
        BY <1>2, <1>3, <1>5, <3>1 DEF ChunkOK
      <4> QED
        BY <4>1, <4>2, <1>5, MarkedT
    <3>2. CASE r.off # 0 /\ Anomaly(r)
      BY <1>3, <1>5, <3>2 DEF HoleBefore
    <3>3. CASE r.off # 0 /\ ~Anomaly(r)
      <4>1. HoleBefore(r) = r.off - Adopted(r).call_pos /\ r.off >= Adopted(r).call_pos
        BY <3>3, <2>2, AdoptedT DEF HoleBefore, Anomaly, Frame
      <4>2. Adopted(r).call_pos \in Nat
        BY <2>2, AdoptedT DEF Frame
      <4> QED
        BY <1>3, <1>5, <4>1, <4>2
    <3> QED
      BY <3>1, <3>2, <3>3
  <2>6. ev' \in [off: 0 .. MaxPos, cap: 0 .. MaxPos, total: 0 .. MaxPos, at: 0 .. MaxPos]
    <3>1. k.base + k.off \in 0 .. MaxPos
      BY <1>2, <1>5 DEF ChunkOK
    <3> QED
      BY <1>2, <2>1, <3>1 DEF ChunkOK, r
  <2>7. r.at <= MaxPos /\ r.at \in Nat
    BY <1>2, <1>3, <1>5 DEF ChunkOK
  <2>8. left' \in Nat /\ pos' \in 0 .. MaxPos /\ pos' + left' = r.at
    BY <1>5, <2>1, <2>5, <2>7
  <2>9. CallOK' /\ f'.call_pos <= f'.call_total
    BY <1>2, <1>3, <1>4, <1>5, <2>1, <2>3, <2>8 DEF CallOK, ChunkOK
  <2> QED
    BY ZenonT(30), <1>2, <1>4, <1>6, <2>1, <2>3, <2>4, <2>6, <2>8, <2>9
       DEF TInv, FramerTypeOK, Sized, Shape, ChunkOK
<1> QED
  BY <1>7, <1>8 DEF TInv, FramerTypeOK

LEMMA NextT == TInv /\ [Next]_vars => TInv'
<1>1. TInv /\ UNCHANGED vars => TInv'
  BY DEF TInv, FramerTypeOK, Shape, CallOK, vars
<1> QED
  BY <1>1, DeliverT, LoseT, HeaderBytesT, SpillBytesT, BodyBytesT, SkipT, DirtyBytesT,
     DirtyHoleT, HeaderHoleT, BodyHoleT, FeedT, FinishT DEF Next, Handler

LEMMA AlwaysT == Spec => []TInv
  BY InitT, NextT, PTL DEF Spec

(* Whatever data imitates an anchor and wherever calls are cut, a header is *)
(* never overrun, the body prefix never exceeds LK_MSG_BODY_MAX and is in a *)
(* buffer whenever it is not empty, and the account of the call stays in    *)
(* the call.                                                                *)
THEOREM FramerTypeCorrect == Spec => []FramerTypeOK
  BY AlwaysT, PTL DEF TInv

-----------------------------------------------------------------------------
(* In step over a skip, a hole and bytes that fill no prefix.               *)

LEMMA FragmentFacts ==
    ASSUME TInv, NEW b, Boundary(b)
    PROVE  /\ b \in 0 .. MaxPos /\ wire[b].len \in Nat /\ wire[b].upto \in Nat
           /\ wire[b].first \in Nat /\ wire[b].end \in Nat
           /\ wire[b].cont \in BOOLEAN /\ wire[b].flips \in BOOLEAN
           /\ MessageStart(wire[b].first) /\ wire[b].first <= b
           /\ wire[wire[b].first].end = wire[b].end
           /\ wire[wire[b].first].len \in Nat
           /\ wire[b].first = b => wire[b].upto = wire[b].len
           /\ wire[b].first # b => ~wire[wire[b].first].flips
           /\ wire[b].cont => wire[b].len > 0
           /\ wire[b].flips => wire[b].first = b /\ ~wire[b].cont /\ wire[b].len > 0
           /\ ~wire[b].cont => wire[b].end = b + HdrSize + wire[b].len
  BY WireFacts DEF WellFormed, Boundary, MessageStart, Successor

LEMMA NextFragment ==
    ASSUME TInv, NEW b, Boundary(b), ~wire[b].flips,
           NEW n, n = b + HdrSize + wire[b].len, n <= MaxPos
    PROVE  /\ Boundary(n)
           /\ wire[b].cont => wire[n].first = wire[b].first
           /\ ~wire[b].cont => wire[n].first = n
           /\ wire[b].cont => wire[n].upto - wire[n].len = wire[b].upto
<1>1. WellFormed(wire) /\ n = Successor(wire, b) /\ b \in DOMAIN wire
  BY WireFacts DEF Successor, Boundary
<1>2. /\ n \in DOMAIN wire
      /\ wire[n].first = IF wire[b].cont THEN wire[b].first ELSE n
      /\ wire[n].upto = (IF wire[b].cont THEN wire[b].upto ELSE 0) + wire[n].len
  BY <1>1 DEF WellFormed
<1>3. wire[n].len \in Nat /\ wire[b].upto \in Nat
  BY <1>2, FragmentFacts DEF Boundary
<1> QED
  BY <1>2, <1>3 DEF Boundary

LEMMA SyncedPrime ==
    ASSUME UNCHANGED wire, ~gap' /\ ~blind' => SyncAt(f', pos', due')
    PROVE  Synced'
  BY DEF Synced, SyncAt, AtHeader, AtBody, Boundary

(* What a step of the loops finds.                                          *)
LEMMA Live ==
    ASSUME TInv, SInv, pc = "hole" \/ (pc = "bytes" /\ left > 0)
    PROVE  ~gap /\ ~blind /\ ~entry /\ SyncAt(f, pos, due)
  BY DEF TInv, FramerTypeOK, SInv, Placed, Unflipped, Synced

(* What is enough for a step of the loops to keep SInv.                     *)
LEMMA LoopS ==
    ASSUME TInv, TInv', SInv, pc # "idle", LoopStep,
           f'.call_pos = f.call_pos, f'.call_total = f.call_total,
           pc = "bytes" /\ blind' => left' = 0,
           pc = "hole" => ~blind' /\ (f.st = "DIRTY" => f'.st = "DIRTY"),
           ~blind' => SyncAt(f', pos', due'), EmittedTrue'
    PROVE  SInv'
<1>1. UNCHANGED <<wire, call, gap, pc, ev, entry>>
  BY DEF LoopStep
<1>2. PICK k \in 0 .. left : left' = left - k /\ pos' = pos + k
  BY DEF LoopStep, Consume
<1>3. left \in Nat /\ pos \in Nat /\ pos' + left' = pos + left /\ pos' >= pos /\ left' <= left
      /\ pos' \in Nat /\ left' \in Nat
  BY <1>2, SizeAssumption DEF TInv, FramerTypeOK
<1>4. Placed'
  BY ZenonT(30), <1>1, <1>3 DEF SInv, Placed
<1>5. Unflipped'
  <2>1. ASSUME pc = "hole", f'.st # "DIRTY", left' > 0
        PROVE  ~OverFlip(pos', pos' + left')
    <3>1. f.st # "DIRTY" /\ left > 0
      BY <1>2, <1>3, <2>1
    <3>2. ~OverFlip(pos, pos + left)
      BY <2>1, <3>1 DEF SInv, Unflipped
    <3>3. ASSUME NEW p \in DOMAIN wire, wire[p].flips, p < pos' + left', pos' < Successor(wire, p)
          PROVE  FALSE
      <4>1. Successor(wire, p) \in Nat /\ p \in Nat
        BY FragmentFacts, SizeAssumption DEF Boundary, Successor
      <4>2. PICK n \in Nat : n = Successor(wire, p)
        BY <4>1
      <4>3. p < pos' + left' /\ pos' < n
        BY <3>3, <4>2
      <4>4. p < pos + left
        BY <1>3, <4>3
      <4>5. pos < n
        BY <1>3, <4>3
      <4> QED
        BY <3>2, <3>3, <4>2, <4>4, <4>5 DEF OverFlip
    <3> QED
      BY <3>3 DEF OverFlip
  <2> QED
    BY <1>1, <2>1 DEF SInv, Unflipped, OverFlip
<1>6. Synced'
  BY <1>1, SyncedPrime
<1> QED
  BY <1>4, <1>5, <1>6 DEF SInv

LEMMA EmittedSame ==
    ASSUME SInv, UNCHANGED <<wire, out>>
    PROVE  EmittedTrue'
  BY DEF SInv, EmittedTrue

(* r is in sync wherever g is.                                              *)
LEMMA SameSync ==
    ASSUME NEW g, NEW r, SameMsg(r, g), NEW p, NEW d, SyncAt(g, p, d)
    PROVE  SyncAt(r, p, d)
  BY DEF SameMsg, SyncAt, AtHeader, AtBody

-----------------------------------------------------------------------------
LEMMA SkipS == TInv /\ TInv' /\ SInv /\ Skip => SInv'
<1> SUFFICES ASSUME TInv, TInv', SInv, Skip PROVE SInv'
  OBVIOUS
<1> DEFINE take == Least(f.skip_left, left)
<1>1. /\ f \in Frame /\ left \in Nat /\ f.skip_left \in Nat /\ f.skip_left > 0 /\ left > 0
      /\ f.st = "SKIP" /\ f.hdr_len = 0 /\ pos \in Nat
  BY SizeAssumption DEF TInv, FramerTypeOK, Frame, Shape, ShapeOf, Skip
<1>2. take \in 0 .. left /\ take <= f.skip_left
  BY <1>1 DEF Least
<1>3. ~gap /\ ~blind /\ ~entry /\ SyncAt(f, pos, due)
  BY <1>1, Live DEF Skip
<1>4. /\ f'.st = IF f.skip_left = take THEN "HEADER" ELSE "SKIP"
      /\ f'.skip_left = f.skip_left - take
      /\ f'.hdr_len = 0 /\ f'.msg_cont = f.msg_cont /\ f'.mstart = f.mstart
      /\ f'.body_total = f.body_total /\ f'.buf_len = f.buf_len
      /\ f'.after_resync = f.after_resync
      /\ f'.call_pos = f.call_pos /\ f'.call_total = f.call_total
  BY <1>1 DEF Skip, Frame
<1>5. pos' = pos + take /\ UNCHANGED <<wire, blind, due, out, pc>>
  BY DEF Skip, Consume
<1> HIDE DEF take
<1>6. pos' \in 0 .. MaxPos /\ MaxPos \in Nat
  BY SizeAssumption DEF TInv, FramerTypeOK
<1>7. pos + f.skip_left > MaxPos \/ AtHeader(f, pos + f.skip_left, due)
  BY <1>1, <1>3 DEF SyncAt
<1>8. SyncAt(f', pos', due')
  <2>1. CASE f'.st = "HEADER"
    <3>1. pos' - f'.hdr_len = pos + f.skip_left /\ pos + f.skip_left <= MaxPos
      BY <1>1, <1>2, <1>4, <1>5, <1>6, <2>1
    <3>2. AtHeader(f', pos + f.skip_left, due')
      BY <1>1, <1>4, <1>5, <1>6, <1>7, <3>1 DEF AtHeader
    <3> QED
      BY <2>1, <3>1, <3>2 DEF SyncAt
  <2>2. CASE f'.st = "SKIP"
    <3>1. pos' + f'.skip_left = pos + f.skip_left
      BY <1>1, <1>2, <1>4, <1>5
    <3>2. pos + f.skip_left > MaxPos \/ AtHeader(f', pos + f.skip_left, due')
      BY <1>1, <1>4, <1>5, <1>7 DEF AtHeader
    <3> QED
      BY <2>2, <3>1, <3>2 DEF SyncAt
  <2> QED
    BY <1>4, <2>1, <2>2
<1>9. LoopStep
  BY <1>2 DEF LoopStep, Skip, take
<1> QED
  BY <1>1, <1>3, <1>4, <1>5, <1>8, <1>9, LoopS, EmittedSame DEF Skip

LEMMA DirtyHoleS == TInv /\ TInv' /\ SInv /\ DirtyHole => SInv'
<1> SUFFICES ASSUME TInv, TInv', SInv, DirtyHole PROVE SInv'
  OBVIOUS
<1>1. /\ f' = f /\ f.st = "DIRTY" /\ pc = "hole" /\ UNCHANGED <<wire, blind, out>>
      /\ ~blind
  BY Live DEF DirtyHole
<1>2. LoopStep
  BY DEF LoopStep, DirtyHole, DropRest, TInv, FramerTypeOK
<1>3. SyncAt(f', pos', due')
  BY <1>1 DEF SyncAt
<1> QED
  BY <1>1, <1>2, <1>3, LoopS, EmittedSame

LEMMA HeaderHoleS == TInv /\ TInv' /\ SInv /\ HeaderHole => SInv'
<1> SUFFICES ASSUME TInv, TInv', SInv, HeaderHole PROVE SInv'
  OBVIOUS
<1>1. f \in Frame /\ f' = GoDirty(f) /\ pc = "hole" /\ UNCHANGED <<wire, blind, out>> /\ ~blind
  BY Live DEF HeaderHole, TInv, FramerTypeOK
<1>2. f'.st = "DIRTY" /\ f'.call_pos = f.call_pos /\ f'.call_total = f.call_total
  BY <1>1, ResetFields DEF Blank
<1>3. LoopStep
  BY DEF LoopStep, HeaderHole, DropRest, TInv, FramerTypeOK
<1>4. SyncAt(f', pos', due')
  BY <1>2 DEF SyncAt
<1> QED
  BY <1>1, <1>2, <1>3, <1>4, LoopS, EmittedSame

(* Framing resumes at p.                                                    *)
LEMMA ResyncSync ==
    ASSUME NEW g \in Frame, NEW p \in Nat, MessageStart(p), NEW d
    PROVE  SyncAt(DoResync(g), p, d)
<1>1. DoResync(g).st = "HEADER" /\ Blank(DoResync(g), g) /\ DoResync(g).after_resync
  BY ResetFields
<1>2. AtHeader(DoResync(g), p, d)
  BY <1>1 DEF AtHeader, MessageStart, Blank
<1>3. p - DoResync(g).hdr_len = p
  BY <1>1 DEF Blank
<1> QED
  BY <1>1, <1>2, <1>3 DEF SyncAt

LEMMA DirtyBytesS == Healthy /\ TInv /\ TInv' /\ SInv /\ DirtyBytes => SInv'
<1> SUFFICES ASSUME Healthy, TInv, TInv', SInv, DirtyBytes PROVE SInv'
  OBVIOUS
<1>1. /\ f \in Frame /\ pc = "bytes" /\ left > 0 /\ f.st = "DIRTY" /\ ~blind
      /\ UNCHANGED <<wire, blind, due, out>> /\ left \in Nat /\ pos \in Nat
  BY Live, SizeAssumption DEF DirtyBytes, TInv, FramerTypeOK
<1>2. CASE DropRest /\ UNCHANGED f
  <2>1. LoopStep
    BY <1>1, <1>2 DEF LoopStep, DirtyBytes, DropRest
  <2>2. SyncAt(f', pos', due')
    BY <1>1, <1>2 DEF SyncAt
  <2> QED
    BY <1>1, <1>2, <2>1, <2>2, LoopS, EmittedSame
<1>3. ASSUME NEW p \in pos + 1 .. pos + left,
             Anchor("scan", p), f' = DoResync(f), Consume(p - pos)
      PROVE  SInv'
  <2>1. p - pos \in 0 .. left /\ p \in Nat /\ pos + (p - pos) = p
    BY <1>1
  <2>2. LoopStep /\ pos' = p
    BY <1>3, <2>1 DEF LoopStep, DirtyBytes, Consume
  <2>3. MessageStart(p)
    BY <1>3 DEF Anchor, Healthy
  <2>4. SyncAt(f', pos', due')
    BY <1>1, <1>3, <2>1, <2>2, <2>3, ResyncSync
  <2>5. f'.call_pos = f.call_pos /\ f'.call_total = f.call_total
    BY <1>1, <1>3, ResetFields DEF Blank
  <2> QED
    BY <1>1, <2>2, <2>4, <2>5, LoopS, EmittedSame
<1> QED
  BY <1>2, <1>3 DEF DirtyBytes

LEMMA SpillBytesS == TInv /\ TInv' /\ SInv /\ SpillBytes => SInv'
<1> SUFFICES ASSUME TInv, TInv', SInv, SpillBytes PROVE SInv'
  OBVIOUS
<1>1. /\ f \in Frame /\ left \in Nat /\ left > 0 /\ f.buf_len \in Nat /\ pos \in Nat
      /\ HdrSize \in Nat
      /\ f.st = "BODY" /\ ~f.prefix_closed /\ pc = "bytes"
      /\ UNCHANGED <<wire, blind, due, out>> /\ pos' = pos + left
  BY SizeAssumption DEF TInv, FramerTypeOK, SpillBytes, Frame, Consume
<1>2. /\ f'.st = "BODY" /\ f'.buf_len = f.buf_len + left /\ ~f'.prefix_closed
      /\ f'.body_len = f.body_len /\ f'.msg_cont = f.msg_cont /\ f'.mstart = f.mstart
      /\ f'.body_total = f.body_total /\ f'.after_resync = f.after_resync
      /\ f'.call_pos = f.call_pos /\ f'.call_total = f.call_total
  BY <1>1 DEF SpillBytes, Frame
<1>3. ~blind /\ AtBody(f, pos - HdrSize - f.buf_len, due)
  BY <1>1, Live DEF SyncAt
<1>4. pos' - HdrSize - f'.buf_len = pos - HdrSize - f.buf_len
  BY <1>1, <1>2
<1>5. AtBody(f', pos - HdrSize - f.buf_len, due')
  BY <1>1, <1>2, <1>3 DEF AtBody
<1>6. SyncAt(f', pos', due')
  BY <1>2, <1>4, <1>5 DEF SyncAt
<1>7. LoopStep
  BY <1>1 DEF LoopStep, SpillBytes
<1> QED
  BY <1>1, <1>2, <1>3, <1>6, <1>7, LoopS, EmittedSame

=============================================================================

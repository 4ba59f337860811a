---------------------------- MODULE FramerProofs ----------------------------
(***************************************************************************)
(* The framer stays in step over bodies, headers, deliveries and losses.   *)
(* With FramerTypeProofs: it emits the messages that are on the wire,      *)
(* skips none while it is in step, and stops where the protocol flips.     *)
(***************************************************************************)
EXTENDS FramerTypeProofs

(* A leaf that names no prover is tried with Zenon, then with SMT.          *)
USE ZenonT(3), SMTT(30), ZenonT(30)

(* The rest of the fragment at b is passed, up to n, where p + s is.        *)
LEMMA ClosedSync ==
    ASSUME TInv, NEW b, Boundary(b), ~wire[b].flips, wire[b].cont,
           NEW r, NEW g, NEW s \in Nat, Passed(r, g, s), Closed(r, g),
           NEW p \in 0 .. MaxPos, p + s = b + HdrSize + wire[b].len, NEW d,
           r.mstart = wire[b].first, r.body_total = wire[b].upto,
           r.buf_len <= wire[wire[b].first].len, ~r.after_resync => r.mstart = d
    PROVE  SyncAt(r, p, d)
<1> DEFINE n == b + HdrSize + wire[b].len
<1>1. /\ b \in 0 .. MaxPos /\ wire[b].len \in Nat /\ wire[b].first \in Nat /\ wire[b].first <= b
      /\ MaxPos \in Nat /\ HdrSize \in Nat \ {0}
  BY FragmentFacts, SizeAssumption
<1>2. n \in Nat /\ wire[b].first < n /\ p + s = n
  BY <1>1
<1>3. n <= MaxPos => AtHeader(r, n, d)
  <2> SUFFICES ASSUME n <= MaxPos PROVE AtHeader(r, n, d)
    OBVIOUS
  <2>1. Boundary(n) /\ wire[n].first = wire[b].first /\ wire[n].upto - wire[n].len = wire[b].upto
    BY NextFragment
  <2> HIDE DEF n
  <2> QED
    BY <1>2, <2>1 DEF AtHeader, Closed
<1> HIDE DEF n
<1>4. CASE s = 0
  <2>1. r.st = "HEADER" /\ p - r.hdr_len = n /\ n <= MaxPos
    BY <1>1, <1>2, <1>4 DEF Passed
  <2> QED
    BY <1>3, <2>1 DEF SyncAt
<1>5. CASE s # 0
  <2>1. r.st = "SKIP" /\ p + r.skip_left = n
    BY <1>2, <1>5 DEF Passed
  <2>2. n > MaxPos \/ n <= MaxPos
    BY <1>1, <1>2
  <2> QED
    BY <1>3, <2>1, <2>2 DEF SyncAt
<1> QED
  BY <1>4, <1>5

LEMMA DoneSync ==
    ASSUME TInv, NEW b, Boundary(b), ~wire[b].flips, ~wire[b].cont,
           NEW r, NEW g, NEW s \in Nat, Passed(r, g, s), Done(r),
           NEW p \in 0 .. MaxPos, p + s = b + HdrSize + wire[b].len, NEW d, d = wire[b].end
    PROVE  SyncAt(r, p, d)
<1> DEFINE n == b + HdrSize + wire[b].len
<1>1. /\ b \in 0 .. MaxPos /\ wire[b].len \in Nat /\ MaxPos \in Nat /\ HdrSize \in Nat \ {0}
      /\ d = n
  BY FragmentFacts, SizeAssumption
<1>2. n \in Nat /\ p + s = n
  BY <1>1
<1>3. n <= MaxPos => AtHeader(r, n, d)
  <2> SUFFICES ASSUME n <= MaxPos PROVE AtHeader(r, n, d)
    OBVIOUS
  <2>1. Boundary(n) /\ wire[n].first = n
    BY NextFragment
  <2> HIDE DEF n
  <2> QED
    BY <1>1, <1>2, <2>1 DEF AtHeader, Done, Passed
<1> HIDE DEF n
<1>4. CASE s = 0
  <2>1. r.st = "HEADER" /\ p - r.hdr_len = n /\ n <= MaxPos
    BY <1>1, <1>2, <1>4 DEF Passed
  <2> QED
    BY <1>3, <2>1 DEF SyncAt
<1>5. CASE s # 0
  <2>1. r.st = "SKIP" /\ p + r.skip_left = n
    BY <1>2, <1>5 DEF Passed
  <2>2. n > MaxPos \/ n <= MaxPos
    BY <1>1, <1>2
  <2> QED
    BY <1>3, <2>1, <2>2 DEF SyncAt
<1> QED
  BY <1>4, <1>5

(* What is emitted after the last fragment of a message, at b, is true.     *)
LEMMA EmitTrue ==
    ASSUME TInv, UNCHANGED wire, NEW b, Boundary(b), ~wire[b].cont,
           NEW g, g.mstart = wire[b].first, g.body_total = wire[b].upto,
           NEW cap \in Nat, cap <= wire[wire[b].first].len,
           Emit(g, cap), due' = NextDue(g)
    PROVE  /\ EmittedTrue' /\ due' = wire[b].end
           /\ blind' <=> blind \/ (wire[wire[b].first].flips /\ cap > 0)
           /\ out'.at = g.mstart /\ out'.resync = g.after_resync
<1>1. MessageStart(wire[b].first) /\ wire[wire[b].first].end = wire[b].end
  BY FragmentFacts
<1>2. /\ out' = [at |-> g.mstart, total |-> g.body_total, cap |-> cap,
                 trunc |-> cap < g.body_total, resync |-> g.after_resync]
      /\ blind' = (blind \/ (MessageStart(g.mstart) /\ wire[g.mstart].flips /\ cap > 0))
  BY DEF Emit
<1>3. /\ wire'[b].first = out'.at /\ ~wire'[b].cont /\ b \in DOMAIN wire'
      /\ out'.total = wire'[b].upto /\ out'.cap <= wire'[out'.at].len
      /\ out'.trunc = (out'.cap < wire'[b].upto)
  BY <1>2 DEF Boundary
<1>4. EmittedTrue'
  BY <1>3 DEF EmittedTrue
<1> QED
  BY ZenonT(30), <1>1, <1>2, <1>4 DEF NextDue

Follows == out' # out /\ ~out'.resync => out'.at = due

(* What the framer in a body knows of the fragment at b.                    *)
LEMMA BodyFacts ==
    ASSUME TInv, SInv, f.st = "BODY", pc = "hole" \/ (pc = "bytes" /\ left > 0),
           NEW b, b = pos - HdrSize - (IF f.prefix_closed THEN 0 ELSE f.buf_len)
    PROVE  /\ f \in Frame /\ AtBody(f, b, due) /\ Boundary(b)
           /\ b \in 0 .. MaxPos /\ pos \in 0 .. MaxPos /\ left \in Nat
           /\ MaxPos \in Nat /\ HdrSize \in Nat \ {0} /\ BodyMax \in Nat \ {0}
           /\ f.buf_len \in 0 .. BodyMax /\ f.body_len \in Nat /\ f.body_len > 0
           /\ ~f.prefix_closed => f.buf_len < BodyTarget(f)
           /\ ~f.prefix_closed => wire[b].first = b /\ f.body_len = wire[wire[b].first].len
           /\ f.body_len = wire[b].len /\ wire[wire[b].first].len \in Nat
           /\ f.prefix_closed => f.buf_len <= wire[wire[b].first].len
<1>1. SyncAt(f, pos, due)
  BY Live
<1>2. AtBody(f, b, due)
  BY <1>1 DEF SyncAt
<1>3. Boundary(b) /\ f.body_len = wire[b].len /\ f.mstart = wire[b].first
      /\ (f.prefix_closed <=> wire[b].first # b)
      /\ (f.prefix_closed => f.buf_len <= wire[f.mstart].len)
  BY <1>2 DEF AtBody
<1>4. b \in 0 .. MaxPos /\ wire[wire[b].first].len \in Nat
  BY <1>3, FragmentFacts
<1>5. /\ f \in Frame /\ pos \in 0 .. MaxPos /\ left \in Nat
      /\ f.buf_len \in 0 .. BodyMax /\ f.body_len \in Nat /\ f.body_len > 0
      /\ ~f.prefix_closed => f.buf_len < BodyTarget(f)
  BY SizeAssumption DEF TInv, FramerTypeOK, Frame, Shape, ShapeOf
<1> QED
  BY <1>2, <1>3, <1>4, <1>5, SizeAssumption

(* What a step takes of n bytes and what it leaves of m.                    *)
LEMMA LeastSplit ==
    ASSUME NEW m \in Nat, NEW n \in Nat
    PROVE  /\ Least(m, n) \in 0 .. n /\ m - Least(m, n) \in Nat
           /\ Least(m, n) + (m - Least(m, n)) = m
           /\ m > 0 /\ n > 0 => Least(m, n) > 0
BY DEF Least

LEMMA BodyHoleS == TInv /\ TInv' /\ SInv /\ BodyHole => SInv' /\ Follows
<1> SUFFICES ASSUME TInv, TInv', SInv, BodyHole PROVE SInv' /\ Follows
  OBVIOUS
<1> DEFINE rem == f.body_len - (IF f.prefix_closed THEN 0 ELSE f.buf_len)
           take == Least(rem, left)
           skip == rem - take
           b == pos - HdrSize - (IF f.prefix_closed THEN 0 ELSE f.buf_len)
<1>1. /\ pc = "hole" /\ left > 0 /\ f.st = "BODY"
      /\ UNCHANGED <<wire, call, gap, pc, ev, entry>>
  BY DEF BodyHole
<1>2. /\ f \in Frame /\ AtBody(f, b, due) /\ Boundary(b)
      /\ b \in 0 .. MaxPos /\ pos \in 0 .. MaxPos /\ left \in Nat
      /\ MaxPos \in Nat /\ HdrSize \in Nat \ {0} /\ BodyMax \in Nat \ {0}
      /\ f.buf_len \in 0 .. BodyMax /\ f.body_len \in Nat /\ f.body_len > 0
      /\ ~f.prefix_closed => f.buf_len < BodyTarget(f)
      /\ ~f.prefix_closed => wire[b].first = b /\ f.body_len = wire[wire[b].first].len
      /\ f.body_len = wire[b].len /\ wire[wire[b].first].len \in Nat
      /\ f.prefix_closed => f.buf_len <= wire[wire[b].first].len
  BY <1>1, BodyFacts
<1>3. take \in 0 .. left /\ skip \in Nat /\ pos + take + skip = b + HdrSize + wire[b].len
      /\ pos < b + HdrSize + wire[b].len /\ b < pos + left
      /\ f.buf_len <= wire[wire[b].first].len
  <2>1. CASE f.prefix_closed
    <3>1. rem = f.body_len /\ b = pos - HdrSize
      <4>1. rem = f.body_len - 0 /\ b = (pos - HdrSize) - 0
        BY <2>1
      <4>2. f.body_len \in Nat /\ pos \in Nat /\ HdrSize \in Nat
        BY <1>2
      <4> QED BY <4>1, <4>2
    <3>2. take \in 0 .. left /\ skip \in Nat /\ take + skip = rem /\ (left > 0 => take > 0)
      <4>1. rem \in Nat /\ rem > 0 /\ left \in Nat
        BY <1>2, <3>1
      <4> HIDE DEF rem
      <4> QED BY <4>1, LeastSplit
    <3> HIDE DEF rem, take, skip, b
    <3> QED
      BY <1>1, <1>2, <2>1, <3>1, <3>2
  <2>2. CASE ~f.prefix_closed
    <3>1. f.buf_len < f.body_len
      BY <1>2, <2>2 DEF BodyTarget, Least
    <3>2. rem = f.body_len - f.buf_len /\ b = (pos - HdrSize) - f.buf_len
      BY <2>2
    <3>3. rem \in Nat
      BY <1>2, <3>1, <3>2
    <3>4. take \in 0 .. left /\ skip \in Nat /\ take + skip = rem
      <4> HIDE DEF rem
      <4>1. left \in Nat
        BY <1>2
      <4> QED BY <4>1, <3>3, LeastSplit
    <3> HIDE DEF rem, take, skip, b
    <3>5. pos + take + skip = b + HdrSize + wire[b].len
      BY <1>2, <2>2, <3>2, <3>4
    <3>6. pos < b + HdrSize + wire[b].len /\ b < pos + left
      BY <1>1, <1>2, <2>2, <3>1, <3>2
    <3>7. f.buf_len <= wire[wire[b].first].len
      BY <1>2, <2>2, <3>1
    <3> QED
      BY <3>4, <3>5, <3>6, <3>7
  <2> QED
    BY <2>1, <2>2
<1>4. ~gap /\ ~blind /\ ~entry
  BY <1>1, Live
<1> HIDE DEF rem, take, skip, b
<1>5. ~wire[b].flips /\ ~wire[wire[b].first].flips
  <2>1. ~OverFlip(pos, pos + left)
    BY <1>1 DEF SInv, Unflipped
  <2>2. ~wire[b].flips
    BY <1>2, <1>3, <2>1 DEF OverFlip, Boundary, Successor
  <2> QED
    BY <1>2, <2>2, FragmentFacts
<1>6. /\ f.mstart = wire[b].first /\ f.body_total = wire[b].upto
      /\ f.msg_cont <=> wire[b].cont
      /\ ~f.after_resync => f.mstart = due
  BY <1>2 DEF AtBody
<1>7. pos' \in 0 .. MaxPos
  BY DEF TInv, FramerTypeOK
<1>8. CASE f.msg_cont
  <2>1. f' = ThenSkip(CloseFragment(f), skip) /\ Consume(take) /\ UNCHANGED <<blind, due, out>>
    BY <1>8 DEF BodyHole, rem, take, skip
  <2>2. Passed(f', f, skip) /\ Closed(f', f)
    BY <1>2, <1>3, <1>8, <2>1, CloseFields
  <2>3. pos' + skip = b + HdrSize + wire[b].len
    BY <1>3, <2>1 DEF Consume
  <2>4. /\ f'.mstart = f.mstart /\ f'.body_total = f.body_total
        /\ f'.buf_len = f.buf_len /\ f'.after_resync = f.after_resync
        /\ f'.call_pos = f.call_pos /\ f'.call_total = f.call_total
    BY <2>2 DEF Passed, Closed
  <2>5. SyncAt(f', pos', due')
    <3>1. /\ Boundary(b) /\ ~wire[b].flips /\ wire[b].cont /\ skip \in Nat /\ due' = due
          /\ f'.mstart = wire[b].first /\ f'.body_total = wire[b].upto
          /\ f'.buf_len <= wire[wire[b].first].len /\ (~f'.after_resync => f'.mstart = due')
      BY <1>2, <1>3, <1>5, <1>6, <1>8, <2>1, <2>4
    <3> QED
      BY <1>7, <2>2, <2>3, <3>1, ClosedSync
  <2>6. LoopStep
    BY <1>1, <1>3, <2>1 DEF LoopStep
  <2> QED
    BY <1>1, <1>4, <2>1, <2>4, <2>5, <2>6, LoopS, EmittedSame DEF Follows
<1>9. CASE ~f.msg_cont
  <2>1. /\ f' = ThenSkip(Emitted(f), skip) /\ ConsumeUnlessBlind(take)
        /\ Emit(f, f.buf_len) /\ due' = NextDue(f)
    BY <1>9 DEF BodyHole, rem, take, skip
  <2>2. Passed(f', f, skip) /\ Done(f')
    BY <1>2, <1>3, <2>1, EmitFields
  <2>3. /\ EmittedTrue' /\ due' = wire[b].end /\ ~blind'
        /\ out'.at = f.mstart /\ out'.resync = f.after_resync
    <3>1. f.buf_len \in Nat
      BY <1>2
    <3> QED
      BY ZenonT(30), <1>1, <1>2, <1>3, <1>4, <1>5, <1>6, <1>9, <2>1, <3>1, EmitTrue
  <2>4. pos' = pos + take
    BY <1>4, <2>1, <2>3 DEF ConsumeUnlessBlind, Consume
  <2>5. SyncAt(f', pos', due')
    BY <1>2, <1>3, <1>5, <1>6, <1>7, <1>9, <2>2, <2>3, <2>4, DoneSync
  <2>6. LoopStep
    BY <1>1, <1>3, <2>1, ConsumeT DEF LoopStep
  <2>7. f'.call_pos = f.call_pos /\ f'.call_total = f.call_total
    BY <2>2 DEF Passed
  <2>8. SInv'
    BY <1>1, <2>3, <2>5, <2>6, <2>7, LoopS
  <2> QED
    BY <1>6, <2>3, <2>8 DEF Follows
<1> QED
  BY <1>8, <1>9

LEMMA BodyBytesS == TInv /\ TInv' /\ SInv /\ BodyBytes => SInv' /\ Follows
<1> SUFFICES ASSUME TInv, TInv', SInv, BodyBytes PROVE SInv' /\ Follows
  OBVIOUS
<1> DEFINE rem == IF f.prefix_closed THEN 0 ELSE BodyTarget(f) - f.buf_len
           take == Least(rem, left)
           target == f.buf_len + take
           skip == f.body_len - (IF f.prefix_closed THEN 0 ELSE target)
           b == pos - HdrSize - (IF f.prefix_closed THEN 0 ELSE f.buf_len)
<1>1. /\ pc = "bytes" /\ left > 0 /\ f.st = "BODY"
      /\ UNCHANGED <<wire, call, gap, pc, ev, entry>>
  BY DEF BodyBytes
<1>2. /\ f \in Frame /\ AtBody(f, b, due) /\ Boundary(b)
      /\ b \in 0 .. MaxPos /\ pos \in 0 .. MaxPos /\ left \in Nat
      /\ MaxPos \in Nat /\ HdrSize \in Nat \ {0} /\ BodyMax \in Nat \ {0}
      /\ f.buf_len \in 0 .. BodyMax /\ f.body_len \in Nat /\ f.body_len > 0
      /\ ~f.prefix_closed => f.buf_len < BodyTarget(f)
      /\ ~f.prefix_closed => wire[b].first = b /\ f.body_len = wire[wire[b].first].len
      /\ f.body_len = wire[b].len /\ wire[wire[b].first].len \in Nat
      /\ f.prefix_closed => f.buf_len <= wire[wire[b].first].len
  BY <1>1, BodyFacts
<1>3. /\ take \in 0 .. left /\ target \in 0 .. BodyMax /\ skip \in Nat
      /\ pos + take + skip = b + HdrSize + wire[b].len
      /\ target <= wire[wire[b].first].len /\ f.buf_len <= wire[wire[b].first].len
      /\ ~f.prefix_closed => target > 0
  <2>1. /\ left \in Nat /\ left > 0 /\ pos \in Nat /\ HdrSize \in Nat
        /\ BodyMax \in Nat /\ f.buf_len \in Nat /\ f.buf_len <= BodyMax /\ f.body_len \in Nat
    <3> HIDE DEF rem, take, target, skip, b
    <3> QED BY <1>1, <1>2
  <2>2. /\ f.body_len = wire[b].len
        /\ f.prefix_closed => f.buf_len <= wire[wire[b].first].len
        /\ ~f.prefix_closed => f.body_len = wire[wire[b].first].len
        /\ ~f.prefix_closed => f.buf_len < Least(f.body_len, BodyMax)
    <3> HIDE DEF rem, take, target, skip, b
    <3> QED BY <1>2 DEF BodyTarget
  <2>3. CASE f.prefix_closed
    <3>1. rem = 0 /\ skip = f.body_len - 0 /\ b = (pos - HdrSize) - 0
      BY <2>3
    <3>2. take = Least(0, left)
      BY <3>1
    <3>3. take = 0
      <4> HIDE DEF take, rem
      <4> QED BY <2>1, <3>2 DEF Least
    <3>4. target = f.buf_len + take
      OBVIOUS
    <3> HIDE DEF rem, take, target, skip, b
    <3> QED
      BY <2>1, <2>2, <2>3, <3>1, <3>3, <3>4
  <2>4. CASE ~f.prefix_closed
    <3>1. /\ take = Least(Least(f.body_len, BodyMax) - f.buf_len, left)
          /\ target = f.buf_len + take /\ skip = f.body_len - target
          /\ b = (pos - HdrSize) - f.buf_len
      BY <2>4 DEF BodyTarget
    <3> HIDE DEF rem, take, target, skip, b
    <3> DEFINE total == f.body_len
               have == f.buf_len
    <3>2. /\ total \in Nat /\ BodyMax \in Nat /\ have \in Nat /\ left \in Nat /\ left > 0
          /\ have < Least(total, BodyMax) /\ pos \in Nat /\ HdrSize \in Nat
          /\ take = Least(Least(total, BodyMax) - have, left)
      BY <2>1, <2>2, <2>4, <3>1
    <3>3. /\ target = have + take /\ skip = total - target /\ b = (pos - HdrSize) - have
          /\ total = wire[b].len /\ total = wire[wire[b].first].len
      BY <2>2, <2>4, <3>1
    <3> HIDE DEF total
    <3>4. f.buf_len = have
      OBVIOUS
    <3> HIDE DEF have
    <3>5. /\ take \in 1 .. left /\ have + take \in 1 .. BodyMax
          /\ have + take <= total /\ total - (have + take) \in Nat /\ have <= total
          /\ (pos + take) + (total - (have + take)) = (((pos - HdrSize) - have) + HdrSize) + total
      <4> DEFINE goal == Least(total, BodyMax)
      <4>1. goal \in Nat /\ goal <= total /\ goal <= BodyMax
        BY <3>2 DEF Least
      <4>2. take = Least(goal - have, left) /\ have < goal
        BY <3>2
      <4> HIDE DEF goal
      <4>3. take \in Nat /\ take > 0 /\ take <= left /\ take <= goal - have
        BY <3>2, <4>1, <4>2 DEF Least
      <4> QED
        BY <3>2, <4>1, <4>3
    <3>6. pos + take + skip = b + HdrSize + wire[b].len
      BY <3>3, <3>5
    <3>7. take \in 0 .. left
      BY <3>2, <3>5
    <3>8. target = have + take /\ skip = total - (have + take)
      BY <3>3
    <3>9. target \in 0 .. BodyMax /\ target > 0 /\ skip \in Nat /\ target <= total
      BY <3>2, <3>5, <3>8
    <3>10. target <= wire[wire[b].first].len /\ f.buf_len <= wire[wire[b].first].len
      BY <3>3, <3>4, <3>5, <3>9
    <3> QED
      BY <3>6, <3>7, <3>9, <3>10, Zenon
  <2> QED
    BY <2>3, <2>4
<1>4. ~gap /\ ~blind /\ ~entry
  BY <1>1, Live
<1> HIDE DEF rem, b
<1>6. /\ f.mstart = wire[b].first /\ f.body_total = wire[b].upto
      /\ f.msg_cont <=> wire[b].cont
      /\ f.prefix_closed <=> wire[b].first # b
      /\ ~f.after_resync => f.mstart = due
  BY <1>2 DEF AtBody
<1>7. pos' \in 0 .. MaxPos
  BY DEF TInv, FramerTypeOK
<1>8. CASE f.msg_cont
  <2>1. PICK stored \in {take > 0, take > 0 /\ f.buf} :
           f' = ThenSkip(CloseFragment(
                  [f EXCEPT !.buf = @ \/ stored,
                            !.buf_len = IF stored THEN target ELSE @]), skip)
    BY <1>8 DEF BodyBytes, rem
  <2>2. Consume(take) /\ UNCHANGED <<blind, due, out>>
    BY <1>8 DEF BodyBytes, rem
  <2> DEFINE c == f.buf \/ stored
             n == IF stored THEN target ELSE f.buf_len
             g == [f EXCEPT !.buf = c, !.buf_len = n]
  <2>3. f' = ThenSkip(CloseFragment(g), skip)
    BY <1>2, <2>1 DEF Frame
  <2>4. c \in BOOLEAN /\ n \in Nat /\ n <= wire[wire[b].first].len
    BY <1>2, <1>3, <2>1 DEF Frame
  <2> HIDE DEF take, target, skip, c, n
  <2>5. /\ g \in Frame /\ g.buf_len = n /\ g.msg_cont
        /\ g.mstart = f.mstart /\ g.body_total = f.body_total
        /\ g.after_resync = f.after_resync
        /\ g.call_pos = f.call_pos /\ g.call_total = f.call_total
    <3>1. f \in Frame
      BY <1>2
    <3> QED BY <1>8, <2>4, <3>1, Zenon DEF Frame
  <2> HIDE DEF g
  <2>6. Passed(f', g, skip) /\ Closed(f', g)
    BY <1>3, <2>3, <2>5, CloseFields
  <2>7. pos' + skip = b + HdrSize + wire[b].len
    BY <1>3, <2>2 DEF Consume
  <2>8. /\ f'.mstart = f.mstart /\ f'.body_total = f.body_total
        /\ f'.buf_len = n /\ f'.after_resync = f.after_resync
        /\ f'.call_pos = f.call_pos /\ f'.call_total = f.call_total
    BY <2>5, <2>6 DEF Passed, Closed
  <2>9. ~wire[b].flips
    BY <1>2, <1>6, <1>8, FragmentFacts
  <2>10. SyncAt(f', pos', due')
    BY <1>2, <1>3, <1>6, <1>7, <1>8, <2>2, <2>4, <2>6, <2>7, <2>8, <2>9, ClosedSync
  <2>11. LoopStep
    BY <1>1, <1>3, <2>2 DEF LoopStep
  <2> QED
    BY <1>1, <1>4, <2>2, <2>8, <2>10, <2>11, LoopS, EmittedSame DEF Follows
<1>9. CASE ~f.msg_cont
  <2>1. /\ f' = ThenSkip(Emitted(f), skip) /\ ConsumeUnlessBlind(take)
        /\ Emit(f, target) /\ due' = NextDue(f)
    BY <1>9 DEF BodyBytes, rem
  <2> HIDE DEF take, target, skip
  <2>2. Passed(f', f, skip) /\ Done(f')
    BY <1>2, <1>3, <2>1, EmitFields
  <2>3. /\ EmittedTrue' /\ due' = wire[b].end
        /\ blind' <=> blind \/ (wire[wire[b].first].flips /\ target > 0)
        /\ out'.at = f.mstart /\ out'.resync = f.after_resync
    <3>1. target \in Nat
      BY <1>3
    <3> QED
      BY <1>1, <1>2, <1>3, <1>6, <1>9, <2>1, <3>1, EmitTrue
  <2>4. ~blind' => SyncAt(f', pos', due')
    <3> SUFFICES ASSUME ~blind' PROVE SyncAt(f', pos', due')
      OBVIOUS
    <3>1. pos' = pos + take
      BY <2>1 DEF ConsumeUnlessBlind, Consume
    <3>2. ~wire[b].flips
      BY <1>2, <1>3, <1>6, <2>3, FragmentFacts
    <3> QED
      BY ZenonT(30), <1>2, <1>3, <1>6, <1>7, <1>9, <2>2, <2>3, <3>1, <3>2, DoneSync
  <2>5. blind' => left' = 0
    <3>1. left \in Nat
      BY <1>2
    <3>2. ConsumeUnlessBlind(take)
      BY <2>1
    <3>3. blind' => left' = left - left
      BY <1>4, <3>2 DEF ConsumeUnlessBlind, DropRest, Consume
    <3> QED
      BY <3>1, <3>3
  <2>6. LoopStep
    BY <1>1, <1>3, <2>1, ConsumeT DEF LoopStep
  <2>7. f'.call_pos = f.call_pos /\ f'.call_total = f.call_total
    BY <2>2 DEF Passed
  <2>8. SInv'
    BY <1>1, <2>3, <2>4, <2>5, <2>6, <2>7, LoopS
  <2> QED
    BY <1>6, <2>3, <2>8 DEF Follows
<1> QED
  BY <1>8, <1>9

LEMMA HeaderBytesS == TInv /\ TInv' /\ SInv /\ HeaderBytes => SInv' /\ Follows
<1> SUFFICES ASSUME TInv, TInv', SInv, HeaderBytes PROVE SInv' /\ Follows
  OBVIOUS
<1> DEFINE b == pos - f.hdr_len
<1>1. /\ pc = "bytes" /\ left > 0 /\ f.st = "HEADER"
      /\ UNCHANGED <<wire, call, gap, pc, ev, entry>>
  BY HeaderCases
<1>2. ~gap /\ ~blind /\ ~entry /\ AtHeader(f, b, due)
  BY <1>1, Live DEF SyncAt
<1>3. /\ f \in Frame /\ left \in Nat /\ pos \in Nat /\ f.hdr_len \in Nat /\ HdrSize \in Nat \ {0}
      /\ HdrTake \in 1 .. left /\ HdrTake \in 0 .. left /\ f.hdr_len + HdrTake <= HdrSize
      /\ f.buf_len \in 0 .. BodyMax /\ Gathered(HdrSoFar, HdrTake)
  BY HeaderFacts, SizeAssumption
<1>4. /\ f.prefix_closed <=> f.msg_cont
      /\ ~f.msg_cont => f.buf_len = 0
  BY <1>1 DEF TInv, Shape, ShapeOf
<1>5. b + f.hdr_len = pos
  BY <1>3
<1> HIDE DEF b
<1>6. Boundary(b) /\ b \in 0 .. MaxPos /\ wire[b].upto \in Nat /\ wire[b].len \in Nat
      /\ wire[wire[b].first].len \in Nat
  BY <1>2, FragmentFacts DEF AtHeader
<1>7. pos' \in 0 .. MaxPos
  BY DEF TInv, FramerTypeOK
<1>8. CASE HdrPart
  <2>1. /\ f' = HdrSoFar /\ pos' = pos + HdrTake /\ UNCHANGED <<blind, due, out>>
    BY <1>8 DEF HdrPart, Consume
  <2>2. f'.st = "HEADER" /\ pos' - f'.hdr_len = b
    BY <1>1, <1>3, <1>5, <1>6, <2>1 DEF Gathered
  <2>3. AtHeader(f', b, due')
    <3>1. /\ f'.mstart = IF f.hdr_len = 0 /\ ~f.msg_cont THEN pos ELSE f.mstart
          /\ f'.msg_cont = f.msg_cont /\ f'.body_total = f.body_total
          /\ f'.buf_len = f.buf_len /\ f'.after_resync = f.after_resync
      BY <1>3, <2>1 DEF Gathered
    <3>2. f.hdr_len = 0 => pos = b
      BY <1>3, <1>5, <1>6
    <3>3. CASE f.msg_cont
      BY <1>2, <2>1, <3>1, <3>3 DEF AtHeader
    <3>4. CASE ~f.msg_cont
      <4>1. f'.mstart = b
        BY <1>2, <1>3, <3>1, <3>2, <3>4 DEF AtHeader
      <4> QED
        BY <1>2, <2>1, <3>1, <3>4, <4>1 DEF AtHeader
    <3> QED
      BY <3>3, <3>4
  <2>4. SyncAt(f', pos', due')
    BY <2>2, <2>3 DEF SyncAt
  <2>5. LoopStep
    BY <1>1, <1>3, <1>8 DEF HdrPart, LoopStep
  <2>6. f'.call_pos = f.call_pos /\ f'.call_total = f.call_total
    BY <1>3, <2>1 DEF Gathered
  <2> QED
    BY <1>1, <1>2, <2>1, <2>4, <2>5, <2>6, LoopS, EmittedSame DEF Follows
<1>9. CASE HdrBad
  <2>1. HdrSoFar \in Frame /\ f' = GoDirty(HdrSoFar) /\ UNCHANGED <<blind, due, out>>
    BY <1>3, <1>9 DEF HdrBad, Gathered
  <2>2. f'.st = "DIRTY" /\ f'.call_pos = f.call_pos /\ f'.call_total = f.call_total
    BY <1>3, <2>1, ResetFields DEF Blank, Gathered
  <2>3. SyncAt(f', pos', due')
    BY <2>2 DEF SyncAt
  <2>4. left \in 0 .. left
    BY <1>3
  <2>5. LoopStep
    BY <1>1, <1>9, <2>4 DEF HdrBad, DropRest, LoopStep
  <2> QED
    BY <1>1, <1>2, <2>1, <2>2, <2>3, <2>5, LoopS, EmittedSame DEF Follows
<1>10. ASSUME NEW h \in Parses(pos + HdrTake), HdrSoFar.hdr_len = HdrSize
       PROVE  /\ h.len = wire[b].len /\ h.cont = wire[b].cont
              /\ pos + HdrTake = b + HdrSize
              /\ HdrSays(h) \in Frame /\ HdrSays(h).mstart = wire[b].first
              /\ HdrSays(h).body_total = wire[b].upto
              /\ HdrSays(h).body_len = wire[b].len /\ HdrSays(h).msg_cont = wire[b].cont
              /\ HdrSays(h).buf_len = f.buf_len /\ HdrSays(h).buf_len <= wire[wire[b].first].len
              /\ (HdrSays(h).prefix_closed <=> wire[b].first # b)
              /\ (f.msg_cont \/ HdrSays(h).buf_len = 0)
              /\ (HdrSays(h).prefix_closed \/ HdrSays(h).buf_len = 0)
              /\ (~HdrSays(h).after_resync => wire[b].first = due)
              /\ HdrSays(h).call_pos = f.call_pos /\ HdrSays(h).call_total = f.call_total
  <2>1. f.hdr_len + HdrTake = HdrSize
    BY <1>3, <1>10 DEF Gathered
  <2>2. pos + HdrTake = b + HdrSize /\ (pos + HdrTake) - HdrSize = b
    BY <1>3, <1>5, <1>6, <2>1
  <2>3. h = [len |-> wire[b].len, cont |-> wire[b].cont]
    <3> DEFINE q == pos + HdrTake
               e == q - HdrSize
    <3>0. h \in Parses(q)
      OBVIOUS
    <3>1. e = b
      BY <2>2
    <3>2. Parses(q) = IF Boundary(e) THEN {[len |-> wire[e].len, cont |-> wire[e].cont]}
                      ELSE [len: 0 .. MaxPos, cont: BOOLEAN]
      BY DEF Parses
    <3> HIDE DEF q, e
    <3> QED
      BY <1>6, <3>0, <3>1, <3>2, Zenon
  <2>4. h.len = wire[b].len /\ h.cont = wire[b].cont
    BY <2>3
  <2>5. h.len \in Nat /\ h.cont \in BOOLEAN
    BY <1>6, <2>4, FragmentFacts
  <2> DEFINE p == HdrSays(h)
  <2>6. Announced(p, HdrSoFar, h)
    BY <2>5, HeaderFacts
  <2> HIDE DEF p
  <2>7. /\ p \in Frame
        /\ p.mstart = IF f.hdr_len = 0 /\ ~f.msg_cont THEN pos ELSE f.mstart
        /\ p.body_len = h.len /\ p.msg_cont = h.cont
        /\ p.body_total = (IF f.msg_cont THEN f.body_total ELSE 0) + h.len
        /\ p.buf_len = f.buf_len /\ p.prefix_closed = f.prefix_closed
        /\ p.after_resync = f.after_resync
        /\ p.call_pos = f.call_pos /\ p.call_total = f.call_total
    BY <1>3, <2>6 DEF Announced, Gathered
  <2>8. /\ p.mstart = wire[b].first /\ p.body_total = wire[b].upto
        /\ p.buf_len <= wire[wire[b].first].len
        /\ (p.prefix_closed <=> wire[b].first # b)
        /\ (f.msg_cont \/ p.buf_len = 0)
        /\ (p.prefix_closed \/ p.buf_len = 0)
        /\ (~p.after_resync => wire[b].first = due)
    <3>1. CASE f.msg_cont
      <4>1. /\ wire[b].first = f.mstart /\ f.mstart < b
            /\ f.body_total = wire[b].upto - wire[b].len
            /\ f.buf_len <= wire[f.mstart].len
            /\ ~f.after_resync => f.mstart = due
        BY <1>2, <3>1 DEF AtHeader
      <4>2. p.body_total = wire[b].upto
        BY <1>6, <2>4, <2>7, <3>1, <4>1
      <4>3. wire[b].first # b
        BY <1>6, <4>1, FragmentFacts
      <4> QED
        BY <1>4, <2>7, <3>1, <4>1, <4>2, <4>3
    <3>2. CASE ~f.msg_cont
      <4>1. /\ wire[b].first = b
            /\ f.hdr_len > 0 => f.mstart = b
            /\ ~f.after_resync => b = due
        BY <1>2, <3>2 DEF AtHeader
      <4>2. p.mstart = b
        BY <1>3, <1>5, <1>6, <2>7, <3>2, <4>1
      <4>3. p.body_total = wire[b].upto
        BY <1>6, <2>4, <2>7, <3>2, <4>1, FragmentFacts
      <4> QED
        BY <1>4, <1>6, <2>7, <3>2, <4>1, <4>2, <4>3
    <3> QED
      BY <3>1, <3>2
  <2> QED
    BY <2>2, <2>4, <2>7, <2>8 DEF p
<1>11. ASSUME NEW h \in Parses(pos + HdrTake), HdrEmpty(h)
       PROVE  SInv' /\ Follows
  <2> DEFINE p == HdrSays(h)
  <2>1. /\ h.len = wire[b].len /\ wire[b].len = 0 /\ pos + HdrTake = b + HdrSize
        /\ p \in Frame /\ p.mstart = wire[b].first /\ p.body_total = wire[b].upto
        /\ p.buf_len \in Nat /\ p.buf_len <= wire[wire[b].first].len
        /\ (~p.after_resync => wire[b].first = due)
        /\ p.call_pos = f.call_pos /\ p.call_total = f.call_total
    BY <1>3, <1>10, <1>11 DEF HdrEmpty
  <2>2. /\ Emit(p, p.buf_len) /\ due' = NextDue(p) /\ ConsumeUnlessBlind(HdrTake)
        /\ f' = ThenSkip(Emitted(p), 0)
    BY <1>11, ThenSkipZero DEF HdrEmpty
  <2> HIDE DEF p
  <2>3. ~wire[b].cont /\ ~wire[b].flips
    BY <1>6, <2>1, FragmentFacts
  <2>4. Passed(f', p, 0) /\ Done(f')
    BY <2>1, <2>2, EmitFields
  <2>5. /\ EmittedTrue' /\ due' = wire[b].end
        /\ out'.at = p.mstart /\ out'.resync = p.after_resync
    BY <1>1, <1>6, <2>1, <2>2, <2>3, EmitTrue
  <2>6. ~blind' => SyncAt(f', pos', due')
    <3> SUFFICES ASSUME ~blind' PROVE SyncAt(f', pos', due')
      OBVIOUS
    <3>1. pos' + 0 = b + HdrSize + wire[b].len
      BY <1>3, <1>6, <2>1, <2>2 DEF ConsumeUnlessBlind, Consume
    <3> QED
      BY <1>6, <1>7, <2>3, <2>4, <2>5, <3>1, DoneSync
  <2>7. blind' => left' = 0
    BY <1>2, <1>3, <2>2 DEF ConsumeUnlessBlind, DropRest, Consume
  <2>8. LoopStep
    BY <1>1, <1>3, <2>2, ConsumeT DEF LoopStep
  <2>9. f'.call_pos = f.call_pos /\ f'.call_total = f.call_total
    BY <2>1, <2>4 DEF Passed
  <2>10. SInv'
    BY <1>1, <2>5, <2>6, <2>7, <2>8, <2>9, LoopS
  <2> QED
    BY <2>1, <2>5, <2>10 DEF Follows
<1>12. ASSUME NEW h \in Parses(pos + HdrTake), HdrBody(h)
       PROVE  SInv' /\ Follows
  <2> DEFINE p == HdrSays(h)
  <2>1. /\ pos + HdrTake = b + HdrSize
        /\ p \in Frame /\ p.mstart = wire[b].first /\ p.body_total = wire[b].upto
        /\ p.body_len = wire[b].len /\ p.msg_cont = wire[b].cont
        /\ p.buf_len <= wire[wire[b].first].len
        /\ (p.prefix_closed <=> wire[b].first # b)
        /\ (p.prefix_closed \/ p.buf_len = 0)
        /\ (~p.after_resync => wire[b].first = due)
        /\ p.call_pos = f.call_pos /\ p.call_total = f.call_total
    BY <1>10, <1>12 DEF HdrBody
  <2>2. /\ f' = [p EXCEPT !.st = "BODY"] /\ Consume(HdrTake) /\ UNCHANGED <<blind, due, out>>
    BY <1>12 DEF HdrBody
  <2> HIDE DEF p
  <2>3. InBody(f', p)
    BY <2>1, <2>2, BodyFields
  <2>4. pos' = b + HdrSize
    BY <2>1, <2>2 DEF Consume
  <2>5. pos' - HdrSize - (IF f'.prefix_closed THEN 0 ELSE f'.buf_len) = b
    BY <1>3, <1>6, <2>1, <2>3, <2>4 DEF InBody
  <2>6. AtBody(f', b, due')
    BY <1>6, <2>1, <2>2, <2>3 DEF AtBody, InBody
  <2>7. SyncAt(f', pos', due')
    BY <2>3, <2>5, <2>6 DEF SyncAt, InBody
  <2>8. LoopStep
    BY <1>1, <1>3, <2>2 DEF LoopStep
  <2>9. f'.call_pos = f.call_pos /\ f'.call_total = f.call_total
    BY <2>1, <2>3 DEF InBody
  <2> QED
    BY <1>1, <1>2, <2>2, <2>7, <2>8, <2>9, LoopS, EmittedSame DEF Follows
<1> QED
  BY <1>8, <1>9, <1>11, <1>12, HeaderCases

LEMMA FeedS == Healthy /\ TInv /\ TInv' /\ SInv /\ Feed => SInv'
<1> SUFFICES ASSUME Healthy, TInv, TInv', SInv, Feed PROVE SInv'
  OBVIOUS
<1>1. /\ pc = "hole" /\ left = 0 /\ pc' = "bytes" /\ left' = ev.cap /\ entry' = blind
      /\ UNCHANGED <<wire, call, gap, blind, ev, pos, due, out>>
      /\ f \in Frame /\ pos \in Nat
  BY SizeAssumption DEF Feed, TInv, FramerTypeOK
<1>2. ~gap /\ ~blind /\ SyncAt(f, pos, due)
  BY <1>1, Live
<1>3. SyncAt(f', pos', due')
  <2>1. CASE UNCHANGED f
    BY <1>1, <1>2, <2>1
  <2>2. CASE f' = DoResync(f) /\ Anchor("call", pos)
    <3>1. MessageStart(pos)
      BY <2>2 DEF Anchor, Healthy
    <3> QED
      BY <1>1, <2>2, <3>1, ResyncSync
  <2> QED
    BY <2>1, <2>2 DEF Feed
<1>4. Placed'
  <2>1. pos = ev.at /\ call.done = ev.off + ev.cap
    BY <1>1, SizeAssumption DEF TInv, FramerTypeOK, CallOK, SInv, Placed
  <2> QED
    BY <1>1, <1>2, <2>1 DEF Placed
<1>5. Unflipped'
  BY <1>1, <1>2 DEF SInv, Unflipped, OverFlip
<1>6. Synced' /\ EmittedTrue'
  BY <1>1, <1>3, SyncedPrime, EmittedSame
<1> QED
  BY <1>4, <1>5, <1>6 DEF SInv

LEMMA FinishS == TInv /\ TInv' /\ SInv /\ Finish => SInv'
<1> SUFFICES ASSUME TInv, TInv', SInv, Finish PROVE SInv'
  OBVIOUS
<1> DEFINE n == ev.off + ev.cap
           x == IF n >= f.call_total THEN 0 ELSE n
           y == IF n >= f.call_total THEN 0 ELSE f.call_total
<1>1. /\ pc = "bytes" /\ left = 0 /\ pc' = "idle" /\ entry' = FALSE
      /\ UNCHANGED <<wire, call, gap, blind, left, pos, due, out>> /\ f \in Frame
  BY DEF Finish, TInv, FramerTypeOK
<1>2. /\ n \in Nat /\ f.call_total \in Nat /\ ev.at \in Nat /\ ev.cap \in Nat /\ ev.off \in Nat
      /\ call.base \in Nat /\ call.size \in Nat /\ pos \in Nat
      /\ f.call_total = call.size /\ n <= call.size /\ ev.at = call.base + ev.off
      /\ call.done = n /\ pos = ev.at + ev.cap
  BY <1>1, SizeAssumption DEF TInv, FramerTypeOK, Frame, CallOK, SInv, Placed
<1>3. f' = WithCall(f, y, x)
  BY ZenonT(30), <1>1 DEF Finish, Frame, WithCall
<1>4. x \in Nat /\ y \in Nat
  BY <1>2
<1>5. Called(f', f, y, x)
  <2> HIDE DEF x, y
  <2> QED
    BY <1>1, <1>3, <1>4, CallFields
<1>6. f'.call_total = y /\ f'.call_pos = x /\ SameMsg(f', f)
  BY <1>5 DEF Called
<1>7. Placed'
  BY <1>1, <1>2, <1>6 DEF Placed
<1>8. Unflipped'
  BY <1>1 DEF SInv, Unflipped, OverFlip
<1>9. ~gap' /\ ~blind' => SyncAt(f', pos', due')
  BY <1>1, <1>6, SameSync DEF SInv, Synced
<1> QED
  BY <1>1, <1>7, <1>8, <1>9, SyncedPrime, EmittedSame DEF SInv

(* The bytes of a call that was not captured whole hold nothing that flips. *)
LEMMA NoFlipWithin ==
    ASSUME TInv, NEW a \in Nat, NEW e \in Nat, ~OverFlip(a, e),
           NEW i \in Nat, NEW j \in Nat, a <= i, j <= e
    PROVE  ~OverFlip(i, j)
<1>1. ASSUME NEW p \in DOMAIN wire, wire[p].flips, p < j, i < Successor(wire, p)
      PROVE  FALSE
  <2>1. Successor(wire, p) \in Nat /\ p \in Nat
    BY FragmentFacts, SizeAssumption DEF Boundary, Successor
  <2>2. p < e /\ a < Successor(wire, p)
    BY <1>1, <2>1
  <2> QED
    BY <1>1, <2>2 DEF OverFlip
<1> QED
  BY <1>1 DEF OverFlip

(* The kernel captures a call whole when it holds a message that flips.     *)
LEMMA CallUnflipped ==
    ASSUME Healthy, TInv, NEW k, ChunkOK(k), UNCHANGED wire, call' = CallAfter(k)
    PROVE  call'.done < call'.size => ~OverFlip(call.base, call.base + call.size)'
<1>1. call'.base = k.base /\ call'.size = k.size /\ call'.done = k.off + k.cap
  BY CallAfterT
<1>2. k.size \in Nat /\ k.cap \in Nat /\ k.off \in Nat
  BY SizeAssumption DEF ChunkOK
<1>3. call'.done < call'.size => ~OverFlip(k.base, k.base + k.size)
  BY <1>1, <1>2 DEF ChunkOK, Healthy
<1> QED
  BY <1>1, <1>3 DEF OverFlip

LEMMA LoseS == Healthy /\ TInv /\ TInv' /\ SInv /\ Lose => SInv'
<1> SUFFICES ASSUME Healthy, TInv, TInv', SInv, Lose PROVE SInv'
  OBVIOUS
<1>1. /\ pc = "idle" /\ gap' = TRUE
      /\ UNCHANGED <<wire, f, blind, pc, ev, left, entry, pos, due, out>>
  BY DEF Lose
<1>2. PICK k \in Chunks : call' \in {CallAfter(k), call}
  BY DEF Lose
<1>3. call'.done < call'.size => ~OverFlip(call.base, call.base + call.size)'
  <2>1. CASE call' = call
    BY <1>1, <2>1 DEF SInv, Unflipped, OverFlip
  <2>2. CASE call' = CallAfter(k)
    BY <1>1, <2>2, ChunkT, CallUnflipped
  <2> QED
    BY <1>2, <2>1, <2>2
<1>4. Placed'
  BY <1>1 DEF Placed
<1>5. Unflipped'
  BY <1>1, <1>3 DEF SInv, Unflipped
<1>6. Synced'
  BY <1>1 DEF Synced
<1> QED
  BY <1>1, <1>4, <1>5, <1>6, EmittedSame DEF SInv

LEMMA DeliverS == Healthy /\ TInv /\ TInv' /\ SInv /\ Deliver => SInv'
<1> SUFFICES ASSUME Healthy, TInv, TInv', SInv, Deliver PROVE SInv'
  OBVIOUS
<1>1. PICK k \in Chunks :
          /\ ReasmData([off |-> k.off, cap |-> k.cap, total |-> k.size, at |-> k.base + k.off])
          /\ call' = CallAfter(k)
  BY DEF Deliver
<1> DEFINE r == [off |-> k.off, cap |-> k.cap, total |-> k.size, at |-> k.base + k.off]
<1>2. ChunkOK(k)
  BY ChunkT
<1>3. /\ r.off = k.off /\ r.cap = k.cap /\ r.total = k.size /\ r.at = k.base + k.off
      /\ ReasmData(r)
  BY <1>1
<1> HIDE DEF r
<1>4. call'.base = k.base /\ call'.size = k.size /\ call'.done = k.off + k.cap
  BY <1>1, <1>2, CallAfterT
<1>5. /\ k.base \in Nat /\ k.size \in Nat /\ k.off \in Nat /\ k.cap \in Nat
      /\ call.base \in Nat /\ call.size \in Nat /\ call.done \in Nat /\ call.done <= call.size
      /\ pos \in Nat
  BY <1>2, SizeAssumption DEF ChunkOK, TInv, FramerTypeOK
<1>6. gap' = FALSE /\ UNCHANGED <<wire, blind, due, out>> /\ pc = "idle"
  BY ZenonT(30), <1>3, ReasmCases
<1>7. call'.done < call'.size => ~OverFlip(call.base, call.base + call.size)'
  BY <1>1, <1>2, <1>6, CallUnflipped
<1>8. CASE blind
  <2>1. UNCHANGED <<pc, ev, left, entry, pos>>
    BY ZenonT(30), <1>3, <1>8, ReasmCases
  <2>2. Placed' /\ Unflipped' /\ Synced'
    BY <1>6, <1>7, <1>8, <2>1 DEF SInv, Placed, Unflipped, Synced
  <2> QED
    BY <1>6, <2>2, EmittedSame DEF SInv
<1>9. CASE ~blind
  <2>1. /\ ev' = r /\ pc' = "hole" /\ entry' = blind
        /\ f' = WithCall(Judged(r), r.total, r.off)
        /\ left' = HoleBefore(r) /\ pos' = r.at - HoleBefore(r)
    BY ZenonT(30), <1>3, <1>9, ReasmCases DEF WithCall
  <2>2. r.off \in Nat /\ r.total \in Nat
    BY <1>3, <1>5
  <2>3. Judged(r) \in Frame /\ SameMsg(Adopted(r), Marked)
    BY <2>2, AdoptedT
  <2>4. SameMsg(f', Judged(r))
    <3>1. Called(f', Judged(r), r.total, r.off)
      BY <2>1, <2>2, <2>3, CallFields
    <3> QED
      BY <3>1 DEF Called
  <2>5. Placed'
    BY <1>3, <1>4, <1>6, <2>1 DEF Placed
  <2>6. f'.st # "DIRTY" => ~gap /\ ~Anomaly(r)
    <3>1. f'.st = Judged(r).st /\ Adopted(r).st = Marked.st
      BY <2>3, <2>4 DEF SameMsg
    <3>2. gap => Marked.st = "DIRTY"
      BY DEF Marked, MarkDirty, TInv, FramerTypeOK, Frame
    <3>3. GoDirty(Adopted(r)).st = "DIRTY"
      BY <2>2, AdoptedT, ResetFields
    <3> QED
      BY <3>1, <3>2, <3>3 DEF Judged
  <2>7. ASSUME ~gap, ~Anomaly(r)
        PROVE  /\ pos' = pos /\ SameMsg(f', f)
               /\ left' > 0 => /\ call.done < call.size
                               /\ pos >= call.base /\ pos + left' <= call.base + call.size
    <3>1. /\ pos = call.base + call.done
          /\ f.call_total = 0 => call.done = call.size
          /\ f.call_total > 0 => f.call_total = call.size /\ f.call_pos = call.done
      BY <1>6, <1>9, <2>7 DEF SInv, Placed
    <3>2. Marked = f
      BY <2>7 DEF Marked
    <3>3. SameMsg(f', f)
      <4>1. Judged(r) = Adopted(r)
        BY <2>2, <2>7, AdoptedT
      <4> QED
        BY <2>3, <2>4, <3>2, <4>1 DEF SameMsg
    <3>4. f.call_total \in Nat /\ f.call_pos \in Nat /\ f.call_pos <= f.call_total
      BY MarkedT
    <3>5. CASE r.off = 0
      <4>1. HoleBefore(r) = f.call_total - f.call_pos
        BY <3>2, <3>5 DEF HoleBefore
      <4>2. r.at = call.base + call.size
        BY <1>2, <1>3, <1>5, <3>5 DEF ChunkOK
      <4>3. HoleBefore(r) = call.size - call.done
        BY <1>5, <3>1, <3>4, <4>1
      <4> QED
        BY <1>5, <2>1, <3>1, <3>3, <4>2, <4>3
    <3>6. CASE r.off # 0
      <4>1. k.base = call.base /\ k.size = call.size /\ k.off >= call.done /\ k.off < k.size
        BY <1>2, <1>3, <1>5, <3>6 DEF ChunkOK
      <4>2. f.call_total # 0 /\ f.call_pos = call.done
        BY <1>5, <3>1, <3>4, <4>1
      <4>3. Adopted(r).call_pos = call.done
        BY <2>2, <3>6, <4>2, AdoptedT
      <4>4. HoleBefore(r) = k.off - call.done
        BY <1>3, <2>7, <3>6, <4>3 DEF HoleBefore
      <4> QED
        BY <1>3, <1>5, <2>1, <3>1, <3>3, <4>1, <4>4
    <3> QED
      BY <3>5, <3>6
  <2>8. Unflipped'
    <3>1. ASSUME f'.st # "DIRTY", left' > 0
          PROVE  ~OverFlip(pos', pos' + left')
      <4>1. /\ pos' = pos /\ call.done < call.size
            /\ pos >= call.base /\ pos + left' <= call.base + call.size
        BY <2>6, <2>7, <3>1
      <4>2. ~OverFlip(call.base, call.base + call.size)
        BY <4>1 DEF SInv, Unflipped
      <4>0. left' \in Nat
        BY DEF TInv, FramerTypeOK
      <4>3. call.base + call.size \in Nat
        BY <1>5
      <4>4. pos + left' \in Nat
        <5>1. pos \in Nat
          BY <1>5
        <5>2. \A i, j \in Nat : i + j \in Nat
          OBVIOUS
        <5> QED
          BY <4>0, <5>1, <5>2, Zenon
      <4> QED
        BY <1>5, <4>1, <4>2, <4>3, <4>4, NoFlipWithin
    <3> QED
      BY <1>6, <1>7, <1>9, <2>1, <3>1 DEF Unflipped, OverFlip
  <2>9. SyncAt(f', pos', due')
    <3>1. CASE f'.st = "DIRTY"
      BY <3>1 DEF SyncAt
    <3>2. CASE f'.st # "DIRTY"
      <4>1. ~gap /\ pos' = pos /\ SameMsg(f', f)
        BY <2>6, <2>7, <3>2
      <4>2. SyncAt(f, pos, due)
        BY <1>9, <4>1 DEF SInv, Synced
      <4> QED
        BY <1>6, <4>1, <4>2, SameSync
    <3> QED
      BY <3>1, <3>2
  <2> QED
    BY <1>6, <2>5, <2>8, <2>9, SyncedPrime, EmittedSame DEF SInv
<1> QED
  BY <1>8, <1>9

LEMMA InitS == Init => SInv
<1> SUFFICES ASSUME Init PROVE SInv
  OBVIOUS
<1>0. TInv
  BY InitT
<1>1. PICK p \in 0 .. MaxPos, st \in {"HEADER", "DIRTY"} :
          /\ st = "HEADER" => p = 0
          /\ f = NewFrame(st)
          /\ call = [base |-> p, size |-> 0, done |-> 0]
          /\ pos = p
  BY DEF Init
<1>2. Placed /\ Unflipped
  BY <1>1, SizeAssumption DEF Init, Placed, Unflipped, NewFrame
<1>3. Boundary(0) /\ wire[0].first = 0
  BY <1>0, WireFacts DEF WellFormed, Boundary
<1>4. SyncAt(f, pos, due)
  <2>1. f.st = st /\ f.hdr_len = 0 /\ f.msg_cont = FALSE
    BY <1>1 DEF NewFrame
  <2>2. CASE st = "HEADER"
    <3>1. pos - f.hdr_len = 0 /\ due = 0
      BY <1>1, <2>1, <2>2 DEF Init
    <3>2. AtHeader(f, 0, due)
      BY <1>3, <2>1, <3>1 DEF AtHeader
    <3> QED
      BY <2>1, <2>2, <3>1, <3>2 DEF SyncAt
  <2>3. CASE st = "DIRTY"
    BY <2>1, <2>3 DEF SyncAt
  <2> QED
    BY <2>2, <2>3
<1> QED
  BY <1>2, <1>4 DEF Init, SInv, Synced, EmittedTrue

(* Only these steps emit.                                                   *)
Quiet == Deliver \/ Lose \/ SpillBytes \/ Skip \/ DirtyBytes \/ DirtyHole \/ HeaderHole \/ Feed \/ Finish

LEMMA QuietOut == Quiet => UNCHANGED out
<1>1. Deliver => UNCHANGED out
  BY ZenonT(30), ReasmCases DEF Deliver
<1> QED
  BY <1>1 DEF Quiet, Lose, SpillBytes, Skip, DirtyBytes, DirtyHole, HeaderHole, Feed, Finish

LEMMA NextS ==
    ASSUME Healthy, TInv, TInv', SInv, [Next]_vars
    PROVE  SInv' /\ Follows /\ (blind => out' = out)
<1>1. CASE Quiet
  <2>1. SInv'
    BY <1>1, DeliverS, LoseS, SpillBytesS, SkipS, DirtyBytesS, DirtyHoleS, HeaderHoleS, FeedS,
       FinishS DEF Quiet
  <2> QED
    BY <1>1, <2>1, QuietOut DEF Follows
<1>2. CASE HeaderBytes
  BY <1>2, HeaderBytesS, HeaderCases, Live
<1>3. CASE BodyBytes
  <2>1. ~blind
    BY <1>3, Live DEF BodyBytes
  <2> QED
    BY <1>3, <2>1, BodyBytesS
<1>4. CASE BodyHole
  <2>1. ~blind
    BY <1>4, Live DEF BodyHole
  <2> QED
    BY <1>4, <2>1, BodyHoleS
<1>5. CASE UNCHANGED vars
  <2>1. Placed'
    BY <1>5 DEF vars, SInv, Placed
  <2>2. Unflipped'
    BY <1>5 DEF vars, SInv, Unflipped, OverFlip
  <2>3. Synced'
    BY <1>5 DEF vars, SInv, Synced, SyncAt, AtHeader, AtBody, Boundary
  <2>4. EmittedTrue'
    BY <1>5 DEF vars, SInv, EmittedTrue
  <2> QED
    BY <1>5, <2>1, <2>2, <2>3, <2>4 DEF vars, SInv, Follows
<1> QED
  BY <1>1, <1>2, <1>3, <1>4, <1>5 DEF Next, Handler, Quiet

LEMMA SyncedInSync == TInv /\ SInv => InSync
<1> SUFFICES ASSUME TInv, SInv, Clean, ~(HeaderAt > MaxPos) PROVE InSync
  BY DEF InSync
<1>1. SyncAt(f, pos, due) /\ f.st # "DIRTY" /\ f \in Frame
  BY DEF Clean, SInv, Synced, TInv, FramerTypeOK
<1>2. CASE f.st = "BODY"
  <2>1. HeaderAt = pos - HdrSize - (IF f.prefix_closed THEN 0 ELSE f.buf_len)
    BY <1>2 DEF HeaderAt
  <2>2. AtBody(f, HeaderAt, due)
    BY <1>1, <1>2, <2>1 DEF SyncAt
  <2>3. f.msg_cont = wire[HeaderAt].cont
    <3>1. f.msg_cont \in BOOLEAN
      BY <1>1 DEF Frame
    <3>2. wire[HeaderAt].cont \in BOOLEAN
      BY <2>2, FragmentFacts DEF AtBody
    <3> QED
      BY <2>2, <3>1, <3>2 DEF AtBody
  <2> QED
    BY <1>2, <2>2, <2>3 DEF InSync, AtBody
<1>3. CASE f.st # "BODY"
  <2>1. AtHeader(f, HeaderAt, due)
    <3>1. CASE f.st = "HEADER"
      BY <1>1, <3>1 DEF SyncAt, HeaderAt
    <3>2. CASE f.st = "SKIP"
      BY <1>1, <3>2 DEF SyncAt, HeaderAt
    <3> QED
      BY <1>1, <1>3, <3>1, <3>2 DEF Frame
  <2> QED
    BY <1>3, <2>1 DEF InSync, AtHeader
<1> QED
  BY <1>2, <1>3

LEMMA AlwaysS ==
    ASSUME Healthy
    PROVE  Spec => [](TInv /\ SInv) /\ NoSilentSkip /\ BlindStops
<1>1. Init => TInv /\ SInv
  BY InitT, InitS
<1>2. (TInv /\ SInv) /\ [Next]_vars => (TInv /\ SInv)'
  BY NextT, NextS
<1>3. (TInv /\ SInv) /\ [Next]_vars
        => /\ [out' # out /\ ~out'.resync => out'.at = due]_vars
           /\ [blind => out' = out]_vars
  BY NextT, NextS DEF Follows
<1> QED
  BY <1>1, <1>2, <1>3, PTL DEF Spec, NoSilentSkip, BlindStops

(* Where anchors are not imitated and calls are captured whole around a     *)
(* message that flips, framing never slips: on a clean direction the framer *)
(* is at a header of the stream and its memory of the message is true,      *)
(* however the calls were cut and whatever was not captured.                *)
THEOREM FramerStaysInSync ==
    ASSUME Healthy
    PROVE  Spec => []InSync
  BY AlwaysS, SyncedInSync, PTL

(* Under the same conditions every message handed to the protocol is one of *)
(* the stream: its start, its length over all its fragments, its truncation *)
(* flag.                                                                    *)
THEOREM FramerEmitsTruth ==
    ASSUME Healthy
    PROVE  Spec => []EmittedTrue
<1>1. SInv => EmittedTrue
  BY DEF SInv
<1> QED
  BY <1>1, AlwaysS, PTL

(* Under the same conditions a message not marked AFTER_RESYNC begins where *)
(* the one emitted before it ended.                                         *)
THEOREM FramerSkipsNothing ==
    ASSUME Healthy
    PROVE  Spec => NoSilentSkip
  BY AlwaysS, PTL

(* Under the same conditions nothing is emitted once the connection has     *)
(* left plaintext framing.                                                  *)
THEOREM FramerStopsBlind ==
    ASSUME Healthy
    PROVE  Spec => BlindStops
  BY AlwaysS, PTL
=============================================================================

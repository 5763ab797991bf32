--------------------------- MODULE TransferIteratorZ ---------------------------
(***************************************************************************)
(* TransferIteratorZIndexSpace<N,T> of                                    *)
(* src/runtime/realm/transfer/transfer.cc: walks the requested fields    *)
(* over the rectangles of a (possibly sparse) index space, handing out   *)
(* on each step the largest sub-rectangle from cur_point that fits in    *)
(* max_bytes and is contiguous in the instance's affine layout piece.   *)
(*                                                                         *)
(* The index space is a sequence of disjoint rectangles, visited in order *)
(* by the ZIndexSpaceIterator (iter.rect is Rects[rectIdx]).  The         *)
(* instance has one affine piece over the bounding box, SOA: each field  *)
(* is a Fortran-ordered array (strides FieldSize, FieldSize * width, ...) *)
(* at its own rel_offset.  size_t arithmetic is modulo SizeMod.           *)
(***************************************************************************)
EXTENDS Integers, Sequences, SequencesExt, FiniteSets

CONSTANTS
  Rects,       \* the space's rectangles, in iteration order: [lo, hi]
  BoxLo, BoxHi,\* bounds of the layout piece (the space's bounding box)
  NumFields,   \* fields.size()
  FieldSize,   \* size_in_bytes of every requested field
  MaxBytes,    \* max_bytes values a caller may pass to step
  SizeMod      \* 2^width of size_t in the model

N == Len(BoxLo)
Dims == 1 .. N
Coords == UNION {BoxLo[d] .. BoxHi[d] : d \in Dims}
Box == {q \in [Dims -> Coords] : \A d \in Dims : BoxLo[d] <= q[d] /\ q[d] <= BoxHi[d]}
InRect(q, lo, hi) == \A d \in Dims : lo[d] <= q[d] /\ q[d] <= hi[d]
RectPts(lo, hi) == {q \in Box : InRect(q, lo, hi)}
SizeT(x) == x % SizeMod

(* The affine layout piece (InstanceLayout is not under src/): Fortran  *)
(* strides over the bounding box, each field in its own array.           *)
RECURSIVE Extent(_)
Extent(d) == IF d = 0 THEN 1 ELSE Extent(d - 1) * (BoxHi[d] - BoxLo[d] + 1)
Strides == [d \in Dims |-> FieldSize * Extent(d - 1)]
Dot(s, q) == FoldFunction(+, 0, [d \in Dims |-> s[d] * q[d]])
PieceOffset == 0 - Dot(Strides, BoxLo)
RelOffset(f) == f * FieldSize * Extent(N)
ByteAddrs(f, q) ==
  LET a == PieceOffset + Dot(Strides, q) + RelOffset(f)
  IN a .. a + FieldSize - 1

(* Fortran order of points, used to say which points of a rectangle come *)
(* before cur_point.                                                       *)
Lin(q) == Dot([d \in Dims |-> Extent(d - 1)], q)

VARIABLES
  rectIdx,         \* iter: the index of iter.rect in Rects
  curPoint,        \* cur_point
  nextPoint,       \* next_point
  carry,           \* carry
  fieldIdx,        \* field_idx
  tentativeValid,  \* tentative_valid
  info,            \* AddressInfo of the last step and the points it covers
  covered,         \* <<field, point>> pairs handed out so far (history)
  emitted          \* total number of elements handed out (history)

vars == <<rectIdx, curPoint, nextPoint, carry, fieldIdx, tentativeValid, info,
          covered, emitted>>

NoInfo == [ret |-> 0, base |-> 0, bytes |-> 0, field |-> 0, pts |-> {}]
IterRect == Rects[rectIdx]

-----------------------------------------------------------------------------
(* Mutant: growth that ignores the piece strides.                         *)
RECURSIVE GrowZNoStride(_, _, _, _, _, _)
GrowZNoStride(d, hi, grow, expStride, curBytes, maxBytes) ==
  IF d > N THEN <<hi, curBytes>>
  ELSE IF grow
  THEN LET len0 == SizeT(IterRect.hi[d] - curPoint[d] + 1)
           pieceLimit == SizeT(BoxHi[d] - curPoint[d] + 1)
           byteLimit == maxBytes \div curBytes
           len1 == IF pieceLimit < len0 THEN pieceLimit ELSE len0
           len == IF byteLimit < len1 THEN byteLimit ELSE len1
       IN GrowZNoStride(d + 1, [hi EXCEPT ![d] = curPoint[d] + len - 1],
                pieceLimit >= len0 /\ byteLimit >= len1,
                SizeT(expStride * len0), SizeT(curBytes * len), maxBytes)
  ELSE GrowZNoStride(d + 1, [hi EXCEPT ![d] = curPoint[d]], FALSE, expStride,
             curBytes, maxBytes)

(* The growth loop of step over the affine piece.  A dimension grows only *)
(* while its stride is the bytes covered so far; its length is what is   *)
(* left of iter.rect, cut to the piece bounds and to max_bytes; a cut    *)
(* stops growth.  Result: <<target_subrect.hi, cur_bytes>>.               *)
RECURSIVE GrowZ(_, _, _, _, _, _)
GrowZ(d, hi, grow, expStride, curBytes, maxBytes) ==
  IF d > N THEN <<hi, curBytes>>
  ELSE IF grow /\ Strides[d] = expStride
  THEN LET len0 == SizeT(IterRect.hi[d] - curPoint[d] + 1)
           pieceLimit == SizeT(BoxHi[d] - curPoint[d] + 1)
           byteLimit == maxBytes \div curBytes
           len1 == IF pieceLimit < len0 THEN pieceLimit ELSE len0
           len == IF byteLimit < len1 THEN byteLimit ELSE len1
       IN GrowZ(d + 1, [hi EXCEPT ![d] = curPoint[d] + len - 1],
                pieceLimit >= len0 /\ byteLimit >= len1,
                SizeT(expStride * len0), SizeT(curBytes * len), maxBytes)
  ELSE GrowZ(d + 1, [hi EXCEPT ![d] = curPoint[d]], FALSE, expStride,
             curBytes, maxBytes)

(* Mutant: a finished dimension is not wrapped back to iter.rect.lo.     *)
RECURSIVE CarryZNoWrap(_, _, _, _)
CarryZNoWrap(d, np, c, hi) ==
  IF d > N THEN <<np, c>>
  ELSE IF c /\ hi[d] = IterRect.hi[d]
       THEN CarryZNoWrap(d + 1, [np EXCEPT ![d] = hi[d] + 1], TRUE, hi)
  ELSE IF c THEN CarryZNoWrap(d + 1, [np EXCEPT ![d] = hi[d] + 1], FALSE, hi)
  ELSE CarryZNoWrap(d + 1, [np EXCEPT ![d] = curPoint[d]], FALSE, hi)

(* next_point, from iter.rect only: carry through finished dimensions.   *)
(* Result: <<next_point, carry>>.                                          *)
RECURSIVE CarryZ(_, _, _, _)
CarryZ(d, np, c, hi) ==
  IF d > N THEN <<np, c>>
  ELSE IF c /\ hi[d] = IterRect.hi[d]
       THEN CarryZ(d + 1, [np EXCEPT ![d] = IterRect.lo[d]], TRUE, hi)
  ELSE IF c THEN CarryZ(d + 1, [np EXCEPT ![d] = hi[d] + 1], FALSE, hi)
  ELSE CarryZ(d + 1, [np EXCEPT ![d] = curPoint[d]], FALSE, hi)

(* Mutant: moving to the next rectangle without setting cur_point.       *)
AdvanceNoLo(c, np) ==
  IF c
  THEN IF rectIdx < Len(Rects)
       THEN /\ rectIdx' = rectIdx + 1
            /\ UNCHANGED <<curPoint, fieldIdx>>
       ELSE /\ fieldIdx' = fieldIdx + 1
            /\ rectIdx' = 1
            /\ UNCHANGED curPoint
  ELSE /\ curPoint' = np
       /\ UNCHANGED <<rectIdx, fieldIdx>>

(* Moving past a step: a carry out of the last dimension advances iter  *)
(* to its next rectangle (cur_point = its lo) or, at the end, goes to the *)
(* next field and resets iter; cur_point is not reset there.  Otherwise  *)
(* cur_point = next_point.                                                 *)
Advance(c, np) ==
  IF c
  THEN IF rectIdx < Len(Rects)
       THEN /\ rectIdx' = rectIdx + 1
            /\ curPoint' = Rects[rectIdx + 1].lo
            /\ UNCHANGED fieldIdx
       ELSE /\ fieldIdx' = fieldIdx + 1
            /\ rectIdx' = 1
            /\ UNCHANGED curPoint
  ELSE /\ curPoint' = np
       /\ UNCHANGED <<rectIdx, fieldIdx>>

(* done(): every requested field has been walked.                          *)
Done == fieldIdx = NumFields

(* step(max_bytes, tentative).  find_piece(cur_point) must find the      *)
(* piece (the assertion at line 995): a cur_point outside it stops here.  *)
Step(maxBytes, tentative) ==
  /\ ~Done
  /\ ~tentativeValid
  /\ curPoint \in Box
  /\ IF maxBytes \div FieldSize = 0
     THEN /\ info' = NoInfo
          /\ UNCHANGED <<rectIdx, curPoint, nextPoint, carry, fieldIdx,
                         tentativeValid, covered, emitted>>
     ELSE LET g == GrowZ(1, curPoint, TRUE, FieldSize, FieldSize, maxBytes)
              c == CarryZ(1, curPoint, TRUE, g[1])
              pts == RectPts(curPoint, g[1])
          IN /\ info' = [ret |-> g[2],
                         base |-> PieceOffset + Dot(Strides, curPoint)
                                    + RelOffset(fieldIdx),
                         bytes |-> g[2], field |-> fieldIdx, pts |-> pts]
             /\ nextPoint' = c[1]
             /\ carry' = c[2]
             /\ IF tentative
                THEN /\ tentativeValid' = TRUE
                     /\ UNCHANGED <<rectIdx, curPoint, fieldIdx, covered, emitted>>
                ELSE /\ Advance(c[2], c[1])
                     /\ covered' = covered \cup {<<fieldIdx, q>> : q \in pts}
                     /\ emitted' = emitted + Cardinality(pts)
                     /\ UNCHANGED tentativeValid

(* confirm_step(): move past the tentative step, as step would have.     *)
ConfirmStep ==
  /\ tentativeValid
  /\ Advance(carry, nextPoint)
  /\ tentativeValid' = FALSE
  /\ covered' = covered \cup {<<fieldIdx, q>> : q \in info.pts}
  /\ emitted' = emitted + Cardinality(info.pts)
  /\ UNCHANGED <<nextPoint, carry, info>>

(* cancel_step(): forget the tentative step.                              *)
CancelStep ==
  /\ tentativeValid
  /\ tentativeValid' = FALSE
  /\ UNCHANGED <<rectIdx, curPoint, nextPoint, carry, fieldIdx, info, covered,
                 emitted>>

(* reset(): first field, iter reset, cur_point = iter.rect.lo.  Unlike  *)
(* the Rect iterator's reset it leaves tentative_valid alone, so a later *)
(* confirm_step would apply a stale step; callers reset only between     *)
(* whole transfers, with no tentative step pending.                       *)
Reset ==
  /\ ~tentativeValid
  /\ fieldIdx' = 0
  /\ rectIdx' = 1
  /\ curPoint' = Rects[1].lo
  /\ covered' = {}
  /\ emitted' = 0
  /\ UNCHANGED <<nextPoint, carry, tentativeValid, info>>

(* The constructor, for a non-empty space.                                *)
Init ==
  /\ rectIdx = 1
  /\ curPoint = Rects[1].lo
  /\ nextPoint = Rects[1].lo
  /\ carry = FALSE
  /\ fieldIdx = 0
  /\ tentativeValid = FALSE
  /\ info = NoInfo
  /\ covered = {}
  /\ emitted = 0

Next ==
  \/ \E mb \in MaxBytes, t \in BOOLEAN : Step(mb, t)
  \/ ConfirmStep
  \/ CancelStep
  \/ Reset

Spec == Init /\ [][Next]_vars

-----------------------------------------------------------------------------
TypeOK ==
  /\ rectIdx \in 1 .. Len(Rects)
  /\ curPoint \in Box
  /\ fieldIdx \in 0 .. NumFields
  /\ tentativeValid \in BOOLEAN /\ carry \in BOOLEAN
  /\ covered \subseteq (0 .. NumFields - 1) \X Box

(* Every element of every field over the space is handed out exactly    *)
(* once, in order: the steps so far covered exactly the earlier fields, *)
(* the earlier rectangles of the current field and the points of         *)
(* iter.rect before cur_point, each once.                                 *)
ExactlyOnce ==
  LET Space == UNION {RectPts(Rects[i].lo, Rects[i].hi) : i \in 1 .. Len(Rects)}
      Before(q) ==
        \/ \E i \in 1 .. rectIdx - 1 : InRect(q, Rects[i].lo, Rects[i].hi)
        \/ InRect(q, IterRect.lo, IterRect.hi) /\ Lin(q) < Lin(curPoint)
  IN /\ covered = {<<f, q>> \in (0 .. NumFields - 1) \X Space :
                     f < fieldIdx \/ (f = fieldIdx /\ Before(q))}
     /\ Cardinality(covered) = emitted

(* The AddressInfo of a step is one contiguous run of bytes holding     *)
(* exactly the elements of the sub-rectangle handed out.                  *)
ChunkIsContiguous ==
  info.ret > 0 =>
    UNION {ByteAddrs(info.field, q) : q \in info.pts}
      = info.base .. info.base + info.bytes - 1

=============================================================================

------------------------- MODULE TransferIteratorRect -------------------------
(***************************************************************************)
(* TransferIteratorRect<DIM> of src/runtime/realm/transfer/transfer.cc:   *)
(* walks the fields of an instance over a dense rectangle r and, on each  *)
(* step, hands out the largest sub-rectangle of the current field that    *)
(* starts at the current point p, fits in max_bytes and is one            *)
(* contiguous run of bytes in the instance's (SOA, AOS or hybrid)         *)
(* blocked layout.  A step may be tentative and is then confirmed or      *)
(* cancelled.                                                              *)
(*                                                                         *)
(* Points are DIM-tuples; field_idx is 0-based as in the code.  The       *)
(* instance's linearization is the Fortran-order affine mapping of r      *)
(* itself, so image_dense_subrect returns the target rectangle unchanged  *)
(* (the assertion left commented out at transfer.cc:586).                  *)
(***************************************************************************)
EXTENDS Integers, Sequences, SequencesExt, FiniteSets

CONSTANTS
  Lo, Hi,          \* r.lo and r.hi, DIM-tuples with Lo[d] <= Hi[d]
  InstFieldSizes,  \* metadata.field_sizes of the instance, in order
  FieldIds,        \* the requested fields (a field id is its byte offset)
  BlockSizes,      \* metadata.block_size values to try (>= volume: SOA)
  AllocOffset,     \* metadata.alloc_offset
  MaxBytes         \* max_bytes values a caller may pass to step

DIM == Len(Lo)
Dims == 1 .. DIM
Extent(d) == Hi[d] - Lo[d] + 1
Volume == FoldFunction(LAMBDA a, b : a * b, 1, [d \in Dims |-> Extent(d)])
Coords == UNION {Lo[d] .. Hi[d] : d \in Dims}
Points == {q \in [Dims -> Coords] : \A d \in Dims : Lo[d] <= q[d] /\ q[d] <= Hi[d]}
NumFields == Len(FieldIds)
ElmtSize == FoldSeq(+, 0, InstFieldSizes)

(* The byte offset of the k-th field of the instance.                     *)
InstFieldOffset(k) == FoldSeq(+, 0, SubSeq(InstFieldSizes, 1, k - 1))

(* The constructor: look up the size of each requested field by walking  *)
(* the instance's field sizes until the running offset equals the id.    *)
FieldSizes ==
  [i \in 1 .. NumFields |->
     LET k == CHOOSE k \in DOMAIN InstFieldSizes :
                InstFieldOffset(k) = FieldIds[i]
     IN InstFieldSizes[k]]

(* Fortran-order linear index of a point of r: the image of the          *)
(* instance's affine mapping.                                              *)
RECURSIVE Stride(_)
Stride(d) == IF d = 1 THEN 1 ELSE Stride(d - 1) * Extent(d - 1)
Lin(q) == FoldFunction(+, 0, [d \in Dims |-> (q[d] - Lo[d]) * Stride(d)])

RectPoints(lo, hi) == {q \in Points : \A d \in Dims : lo[d] <= q[d] /\ q[d] <= hi[d]}

(* Byte address of element q of the i-th requested field under the       *)
(* blocked layout: block, field within the block, element within field.  *)
ByteAddrs(blockSize, i, q) ==
  LET b == Lin(q) \div blockSize
      o == Lin(q) % blockSize
      a == AllocOffset + b * blockSize * ElmtSize + FieldIds[i] * blockSize
             + o * FieldSizes[i]
  IN a .. a + FieldSizes[i] - 1

VARIABLES
  bs,              \* metadata.block_size of the instance
  p, fieldIdx,     \* p, field_idx
  nextP, nextIdx,  \* next_p, next_idx
  tentativeValid,  \* tentative_valid
  info,            \* AddressInfo of the last step and the points it covers
  covered,         \* <<field, point>> pairs handed out so far (history)
  emitted          \* total number of elements handed out (history)

vars == <<bs, p, fieldIdx, nextP, nextIdx, tentativeValid, info, covered,
          emitted>>

NoInfo == [ret |-> 0, base |-> 0, bytes |-> 0, field |-> 1, pts |-> {}]

-----------------------------------------------------------------------------
(* The growth loop of step: from p, take whole dimensions while they fit  *)
(* in max_elems and p is at the start of every dimension grown so far;    *)
(* the first dimension that does not fit gets max_elems / count.          *)
(* Result: <<target_subrect.hi, count>>.                                   *)
RECURSIVE GrowFrom(_, _, _, _, _)
GrowFrom(d, hi, count, grow, maxElems) ==
  IF d > DIM THEN <<hi, count>>
  ELSE IF ~grow THEN GrowFrom(d + 1, [hi EXCEPT ![d] = p[d]], count, FALSE, maxElems)
  ELSE LET len == Hi[d] - p[d] + 1 IN
       IF count * len <= maxElems
       THEN GrowFrom(d + 1, [hi EXCEPT ![d] = Hi[d]], count * len,
                     p[d] = Lo[d], maxElems)
       ELSE LET actlen == maxElems \div count IN
            GrowFrom(d + 1, [hi EXCEPT ![d] = p[d] + actlen - 1],
                     count * actlen, FALSE, maxElems)

(* Mutant: a block split that ignores where the image starts in its block. *)
AosMaxLenWhole(imageLo) == bs

(* Elements left in the block holding the first element.                 *)
AosMaxLen(imageLo) == bs - (imageLo % bs)

(* AOS/hybrid shrink when the first dimension fits in the block: keep    *)
(* whole higher dimensions while they fit, shorten the first that does   *)
(* not and collapse the rest.  Result: <<act_subrect.hi, new_count>>.    *)
RECURSIVE ShrinkDims(_, _, _, _)
ShrinkDims(d, hi, newCount, maxLen) ==
  IF d > DIM THEN <<hi, newCount>>
  ELSE IF p[d] = hi[d] THEN ShrinkDims(d + 1, hi, newCount, maxLen)
  ELSE LET dimLen == hi[d] - p[d] + 1 IN
       IF newCount * dimLen <= maxLen
       THEN ShrinkDims(d + 1, hi, newCount * dimLen, maxLen)
       ELSE LET newLen == maxLen \div newCount IN
            << [k \in Dims |-> IF k < d THEN hi[k]
                               ELSE IF k = d THEN p[d] + newLen - 1
                               ELSE p[k]],
               newCount * newLen >>

(* The layout split: SOA is one block; otherwise, if the image spans two *)
(* blocks, shrink the rectangle to stay inside the first one.  Result:   *)
(* [hi, count, firstBlock, blockOfs].                                      *)
LayoutSplit(hi, count) ==
  LET imageLo == Lin(p)
      imageHi == Lin(hi)
  IN IF bs > imageHi
     THEN [hi |-> hi, count |-> count, firstBlock |-> 0, blockOfs |-> imageLo]
     ELSE LET firstBlock == imageLo \div bs
              blockOfs == imageLo - firstBlock * bs
              lastBlock == imageHi \div bs
              maxLen == AosMaxLen(imageLo)
          IN IF firstBlock = lastBlock
             THEN [hi |-> hi, count |-> count, firstBlock |-> firstBlock,
                   blockOfs |-> blockOfs]
             ELSE IF maxLen < hi[1] - p[1] + 1
             THEN [hi |-> [p EXCEPT ![1] = p[1] + maxLen - 1], count |-> maxLen,
                   firstBlock |-> firstBlock, blockOfs |-> blockOfs]
             ELSE LET s == ShrinkDims(2, hi, hi[1] - p[1] + 1, maxLen) IN
                  [hi |-> s[1], count |-> s[2], firstBlock |-> firstBlock,
                   blockOfs |-> blockOfs]

(* Mutant: the carry writes the last covered coordinate, not the next.   *)
RECURSIVE CarryFromStay(_, _, _, _)
CarryFromStay(d, np, carry, hi) ==
  IF d > DIM THEN <<np, carry>>
  ELSE IF carry /\ hi[d] = Hi[d] THEN CarryFromStay(d + 1, [np EXCEPT ![d] = Lo[d]], TRUE, hi)
  ELSE IF carry THEN CarryFromStay(d + 1, [np EXCEPT ![d] = hi[d]], FALSE, hi)
  ELSE CarryFromStay(d + 1, [np EXCEPT ![d] = p[d]], FALSE, hi)

(* Mutant: the carry never wraps a finished dimension back to r.lo.     *)
RECURSIVE CarryFromNoWrap(_, _, _, _)
CarryFromNoWrap(d, np, carry, hi) ==
  IF d > DIM THEN <<np, carry>>
  ELSE IF carry /\ hi[d] = Hi[d] /\ d < DIM
       THEN CarryFromNoWrap(d + 1, np, TRUE, hi)
  ELSE IF carry /\ hi[d] = Hi[d]
       THEN CarryFromNoWrap(d + 1, [np EXCEPT ![d] = hi[d] + 1], TRUE, hi)
  ELSE IF carry THEN CarryFromNoWrap(d + 1, [np EXCEPT ![d] = hi[d] + 1], FALSE, hi)
  ELSE CarryFromNoWrap(d + 1, [np EXCEPT ![d] = p[d]], FALSE, hi)

(* next_p: carry through every dimension the step finished; the first   *)
(* unfinished one moves past the step, later ones stay at p.  Result:    *)
(* <<next_p, carry>>; a carry out of the last dimension ends the field.  *)
RECURSIVE CarryFrom(_, _, _, _)
CarryFrom(d, np, carry, hi) ==
  IF d > DIM THEN <<np, carry>>
  ELSE IF carry /\ hi[d] = Hi[d] THEN CarryFrom(d + 1, [np EXCEPT ![d] = Lo[d]], TRUE, hi)
  ELSE IF carry THEN CarryFrom(d + 1, [np EXCEPT ![d] = hi[d] + 1], FALSE, hi)
  ELSE CarryFrom(d + 1, [np EXCEPT ![d] = p[d]], FALSE, hi)

(* Everything step computes from p and field_idx for a given max_bytes.  *)
StepResult(maxBytes) ==
  LET fs == FieldSizes[fieldIdx + 1]
      g == GrowFrom(1, p, 1, TRUE, maxBytes \div fs)
      a == LayoutSplit(g[1], g[2])
      c == CarryFrom(1, p, TRUE, a.hi)
  IN [ret |-> a.count * fs,
      base |-> AllocOffset + a.firstBlock * bs * ElmtSize
                 + FieldIds[fieldIdx + 1] * bs + a.blockOfs * fs,
      bytes |-> a.count * fs,
      field |-> fieldIdx + 1,
      pts |-> RectPoints(p, a.hi),
      nextP |-> c[1],
      nextIdx |-> fieldIdx + (IF c[2] THEN 1 ELSE 0)]

-----------------------------------------------------------------------------
(* done(): every requested field has been walked.                          *)
Done == fieldIdx = NumFields

(* step(max_bytes, tentative).  Less than one element: return 0 and      *)
(* change nothing.  Otherwise fill in the AddressInfo and set next_p and  *)
(* next_idx; a non-tentative step moves to them at once.                   *)
Step(maxBytes, tentative) ==
  /\ ~Done
  /\ ~tentativeValid
  /\ IF maxBytes \div FieldSizes[fieldIdx + 1] = 0
     THEN /\ info' = NoInfo
          /\ UNCHANGED <<bs, p, fieldIdx, nextP, nextIdx, tentativeValid,
                         covered, emitted>>
     ELSE LET r == StepResult(maxBytes) IN
          /\ info' = [ret |-> r.ret, base |-> r.base, bytes |-> r.bytes,
                      field |-> r.field, pts |-> r.pts]
          /\ nextP' = r.nextP
          /\ nextIdx' = r.nextIdx
          /\ IF tentative
             THEN /\ tentativeValid' = TRUE
                  /\ UNCHANGED <<p, fieldIdx, covered, emitted>>
             ELSE /\ p' = r.nextP
                  /\ fieldIdx' = r.nextIdx
                  /\ covered' = covered \cup {<<fieldIdx, q>> : q \in r.pts}
                  /\ emitted' = emitted + Cardinality(r.pts)
                  /\ UNCHANGED tentativeValid
          /\ UNCHANGED bs

(* confirm_step(): the caller used the tentative step; move past it.     *)
ConfirmStep ==
  /\ tentativeValid
  /\ p' = nextP
  /\ fieldIdx' = nextIdx
  /\ tentativeValid' = FALSE
  /\ covered' = covered \cup {<<fieldIdx, q>> : q \in info.pts}
  /\ emitted' = emitted + Cardinality(info.pts)
  /\ UNCHANGED <<bs, nextP, nextIdx, info>>

(* cancel_step(): forget the tentative step.                              *)
CancelStep ==
  /\ tentativeValid
  /\ tentativeValid' = FALSE
  /\ UNCHANGED <<bs, p, fieldIdx, nextP, nextIdx, info, covered, emitted>>

(* reset(): back to the first point of the first field.                   *)
Reset ==
  /\ fieldIdx' = 0
  /\ p' = Lo
  /\ tentativeValid' = FALSE
  /\ covered' = {}
  /\ emitted' = 0
  /\ UNCHANGED <<bs, nextP, nextIdx, info>>

(* The constructor: p = r.lo, field_idx = 0, no tentative step.          *)
Init ==
  /\ bs \in BlockSizes
  /\ p = Lo
  /\ fieldIdx = 0
  /\ nextP = Lo
  /\ nextIdx = 0
  /\ tentativeValid = FALSE
  /\ info = NoInfo
  /\ covered = {}
  /\ emitted = 0

Next ==
  \/ \E mb \in MaxBytes, t \in BOOLEAN : Step(mb, t)
  \/ ConfirmStep
  \/ CancelStep
  \/ Reset

Spec == Init /\ [][Next]_vars

-----------------------------------------------------------------------------
TypeOK ==
  /\ p \in Points /\ nextP \in Points
  /\ fieldIdx \in 0 .. NumFields /\ nextIdx \in 0 .. NumFields
  /\ tentativeValid \in BOOLEAN
  /\ covered \subseteq (0 .. NumFields - 1) \X Points

(* The walk order: every requested field in turn, and within it the      *)
(* points of r in the instance's Fortran order.                          *)
PointOrder ==
  [i \in 1 .. Cardinality(Points) |-> CHOOSE q \in Points : Lin(q) = i - 1]
UnitOrder ==
  FlattenSeq([f \in 1 .. NumFields |->
                [i \in 1 .. Len(PointOrder) |-> <<f - 1, PointOrder[i]>>]])

Contract == INSTANCE TransferIteratorContract
              WITH Unit <- (0 .. NumFields - 1) \X Points,
                   units <- UnitOrder,
                   handed <- covered,
                   open <- tentativeValid,
                   pending <- IF tentativeValid
                              THEN {<<fieldIdx, q>> : q \in info.pts}
                              ELSE {}

(* The Rect iterator keeps the iterator contract: each final or         *)
(* confirmed step hands out the next units of the fields x rectangle     *)
(* product in walk order, each once; a tentative step hands out nothing  *)
(* until confirmed, a cancel nothing at all, and reset starts over.  A   *)
(* wrong growth, block split or carry in step breaks it.                 *)
ImplementsContract == Contract!Spec

(* Every element of every requested field is handed out exactly once,   *)
(* in order: what the confirmed steps covered is exactly the fields      *)
(* before field_idx plus the points of the current field before p, and  *)
(* no element was counted twice.  A wrong growth, block split or carry  *)
(* in step skips or repeats elements.                                     *)
ExactlyOnce ==
  /\ covered = {<<f, q>> \in (0 .. NumFields - 1) \X Points :
                  f < fieldIdx \/ (f = fieldIdx /\ Lin(q) < Lin(p))}
  /\ Cardinality(covered) = emitted

(* The AddressInfo of a step describes its elements exactly: the bytes  *)
(* of the sub-rectangle handed out, in the instance's blocked layout, are *)
(* the single contiguous range [base_offset, base_offset + bytes).       *)
ChunkIsContiguous ==
  info.ret > 0 =>
    UNION {ByteAddrs(bs, info.field, q) : q \in info.pts}
      = info.base .. info.base + info.bytes - 1

=============================================================================

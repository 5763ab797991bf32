------------------------- MODULE TransferIteratorHDF5 -------------------------
(***************************************************************************)
(* TransferIteratorHDF5<DIM> of src/runtime/realm/transfer/transfer.cc     *)
(* (built with USE_HDF): walks the fields of an HDF5 instance over a      *)
(* rectangle r.  Each field is a dataset; a step hands out the largest     *)
(* sub-rectangle from the current point p that fits in max_bytes, grown   *)
(* dimension by dimension as in the Rect iterator (no layout split: HDF5  *)
(* reads a hyperslab), as an AddressInfoHDF5 whose offset and extent are  *)
(* in the dataset's C (row-major) order, the reverse of Realm's.          *)
(*                                                                         *)
(* covered records the <<field, point>> pairs the confirmed hyperslabs     *)
(* denote, read back from the offset and extent a caller would pass to    *)
(* H5Sselect_hyperslab.                                                    *)
(***************************************************************************)
EXTENDS Integers, Sequences, SequencesExt, FiniteSets

CONSTANTS
  Lo, Hi,       \* r.lo and r.hi, DIM-tuples with Lo[d] <= Hi[d]
  ElmtSizes,    \* H5Tget_size of each requested field's datatype, in order
  DsetLo,       \* hdf_metadata->lo: the dataset's first point
  DsetDims,     \* hdf_metadata->dims: the dataset's extent per dimension
  MaxBytes      \* max_bytes values a caller may pass to step

DIM == Len(Lo)
Dims == 1 .. DIM
NumFields == Len(ElmtSizes)
Coords == UNION {Lo[d] .. Hi[d] : d \in Dims}
Points == {q \in [Dims -> Coords] : \A d \in Dims : Lo[d] <= q[d] /\ q[d] <= Hi[d]}

(* The instance lies inside its dataset (HDF5Memory attaches it so).      *)
ASSUME \A d \in Dims : DsetLo[d] <= Lo[d] /\ Hi[d] < DsetLo[d] + DsetDims[d]

(* Realm dimension d is dataset dimension DIM + 1 - d.                     *)
Rev(d) == DIM + 1 - d

VARIABLES
  p, fieldIdx,     \* p, field_idx
  nextP, nextIdx,  \* next_p, next_idx
  tentativeValid,  \* tentative_valid
  info,            \* the AddressInfoHDF5 of the last step
  covered          \* <<field, point>> pairs handed out so far (history)

vars == <<p, fieldIdx, nextP, nextIdx, tentativeValid, info, covered>>

NoInfo == [ret |-> 0, field |-> 0, offset |-> <<>>, extent |-> <<>>,
           bounds |-> <<>>]

(* The points of r a hyperslab of field f selects.                         *)
SlabPoints(i) ==
  {q \in Points : \A d \in Dims :
      /\ DsetLo[d] + i.offset[Rev(d)] <= q[d]
      /\ q[d] < DsetLo[d] + i.offset[Rev(d)] + i.extent[Rev(d)]}

-----------------------------------------------------------------------------
(* The growth loop of step (HDF5 handles dimensions in order): take whole *)
(* dimensions while they fit in max_elems and p is at the start of each   *)
(* dimension grown; the first one that does not fit gets max_elems /      *)
(* count.  Result: <<target_subrect.hi, count>>.                           *)
RECURSIVE GrowFrom(_, _, _, _, _)
GrowFrom(d, hi, count, grow, maxElems) ==
  IF d > DIM THEN <<hi, count>>
  ELSE IF ~grow THEN GrowFrom(d + 1, [hi EXCEPT ![d] = p[d]], count, FALSE, maxElems)
  ELSE LET len == Hi[d] - p[d] + 1 IN
       IF count * len <= maxElems
       THEN GrowFrom(d + 1, [hi EXCEPT ![d] = Hi[d]], count * len,
                     p[d] = Lo[d], maxElems)
       ELSE LET actlen == maxElems \div count IN
            GrowFrom(d + 1, [hi EXCEPT ![d] = p[d] + actlen - 1],
                     count * actlen, FALSE, maxElems)

(* next_p: carry through every finished dimension; the first unfinished  *)
(* one moves past the step, later ones stay.  Result: <<next_p, carry>>.  *)
RECURSIVE CarryFrom(_, _, _, _)
CarryFrom(d, np, carry, hi) ==
  IF d > DIM THEN <<np, carry>>
  ELSE IF carry /\ hi[d] = Hi[d] THEN CarryFrom(d + 1, [np EXCEPT ![d] = Lo[d]], TRUE, hi)
  ELSE IF carry THEN CarryFrom(d + 1, [np EXCEPT ![d] = hi[d] + 1], FALSE, hi)
  ELSE CarryFrom(d + 1, [np EXCEPT ![d] = p[d]], FALSE, hi)

(* Mutant: the hyperslab in Realm's dimension order, not reversed.        *)
HyperslabUnreversed(lo, hi) ==
  [offset |-> [k \in Dims |-> lo[k] - DsetLo[k]],
   extent |-> [k \in Dims |-> hi[k] - lo[k] + 1],
   bounds |-> [k \in Dims |-> DsetDims[k]]]

(* The translation of target_subrect into the dataset's C-order           *)
(* coordinates: offset, extent and dset_bounds, index DIM - 1 - d.         *)
Hyperslab(lo, hi) ==
  [offset |-> [k \in Dims |-> lo[Rev(k)] - DsetLo[Rev(k)]],
   extent |-> [k \in Dims |-> hi[Rev(k)] - lo[Rev(k)] + 1],
   bounds |-> [k \in Dims |-> DsetDims[Rev(k)]]]

-----------------------------------------------------------------------------
(* done(): every requested field has been walked.                          *)
Done == fieldIdx = NumFields

(* step(max_bytes, AddressInfoHDF5&, tentative): less than one element    *)
(* returns 0 and changes nothing; otherwise the hyperslab of the grown     *)
(* sub-rectangle, next_p and next_idx, and a non-tentative step moves on. *)
Step(maxBytes, tentative) ==
  /\ ~Done
  /\ ~tentativeValid
  /\ LET es == ElmtSizes[fieldIdx + 1] IN
     IF maxBytes \div es = 0
     THEN /\ info' = [info EXCEPT !.ret = 0, !.field = fieldIdx + 1]
          /\ UNCHANGED <<p, fieldIdx, nextP, nextIdx, tentativeValid, covered>>
     ELSE LET g == GrowFrom(1, p, 1, TRUE, maxBytes \div es)
              c == CarryFrom(1, p, TRUE, g[1])
              i == Hyperslab(p, g[1])
              slab == [ret |-> g[2] * es, field |-> fieldIdx + 1,
                       offset |-> i.offset, extent |-> i.extent,
                       bounds |-> i.bounds]
          IN /\ info' = slab
             /\ nextP' = c[1]
             /\ nextIdx' = fieldIdx + (IF c[2] THEN 1 ELSE 0)
             /\ IF tentative
                THEN /\ tentativeValid' = TRUE
                     /\ UNCHANGED <<p, fieldIdx, covered>>
                ELSE /\ p' = c[1]
                     /\ fieldIdx' = fieldIdx + (IF c[2] THEN 1 ELSE 0)
                     /\ covered' = covered \cup {<<fieldIdx, q>> : q \in SlabPoints(slab)}
                     /\ UNCHANGED tentativeValid

(* confirm_step(): move past the tentative step.                          *)
ConfirmStep ==
  /\ tentativeValid
  /\ p' = nextP
  /\ fieldIdx' = nextIdx
  /\ tentativeValid' = FALSE
  /\ covered' = covered \cup {<<fieldIdx, q>> : q \in SlabPoints(info)}
  /\ UNCHANGED <<nextP, nextIdx, info>>

(* cancel_step(): forget the tentative step.                              *)
CancelStep ==
  /\ tentativeValid
  /\ tentativeValid' = FALSE
  /\ UNCHANGED <<p, fieldIdx, nextP, nextIdx, info, covered>>

(* reset(): back to r.lo and the first field.  It leaves tentative_valid *)
(* as it is, so a caller resets only with no tentative step open.         *)
Reset ==
  /\ ~tentativeValid
  /\ p' = Lo
  /\ fieldIdx' = 0
  /\ covered' = {}
  /\ UNCHANGED <<nextP, nextIdx, tentativeValid, info>>

(* The constructor: p = r.lo, field_idx = 0, no tentative step.          *)
Init ==
  /\ p = Lo
  /\ fieldIdx = 0
  /\ nextP = Lo
  /\ nextIdx = 0
  /\ tentativeValid = FALSE
  /\ info = NoInfo
  /\ covered = {}

Next ==
  \/ \E mb \in MaxBytes, t \in BOOLEAN : Step(mb, t)
  \/ ConfirmStep
  \/ CancelStep
  \/ Reset

Spec == Init /\ [][Next]_vars

-----------------------------------------------------------------------------
(* The walk order: every field in turn, and within it the points of r in  *)
(* Realm's order (dimension 1 fastest): unit i is field (i-1) div |r| at  *)
(* the point whose Fortran-order index in r is (i-1) mod |r|.             *)
Extent(d) == Hi[d] - Lo[d] + 1
RECURSIVE Stride(_)
Stride(d) == IF d = 1 THEN 1 ELSE Stride(d - 1) * Extent(d - 1)
NumPoints == Stride(DIM) * Extent(DIM)
Unlin(n) == [d \in Dims |-> Lo[d] + ((n \div Stride(d)) % Extent(d))]
UnitOrder ==
  [i \in 1 .. NumFields * NumPoints |->
     <<(i - 1) \div NumPoints, Unlin((i - 1) % NumPoints)>>]

Contract == INSTANCE TransferIteratorContract
              WITH Unit <- (0 .. NumFields - 1) \X Points,
                   units <- UnitOrder,
                   handed <- covered,
                   open <- tentativeValid,
                   pending <- IF tentativeValid
                              THEN {<<fieldIdx, q>> : q \in SlabPoints(info)}
                              ELSE {}

(* The HDF5 iterator keeps the iterator contract: read back through the   *)
(* hyperslabs a caller passes to HDF5, its steps hand out the fields x    *)
(* rectangle product in walk order, each unit once; a tentative step is  *)
(* handed out only when confirmed.  A wrong growth, carry or C-order      *)
(* translation of the hyperslab breaks it.                                 *)
ImplementsContract == Contract!Spec
=============================================================================

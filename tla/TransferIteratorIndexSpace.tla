---------------------- MODULE TransferIteratorIndexSpace ----------------------
(***************************************************************************)
(* TransferIteratorIndexSpace of src/runtime/realm/transfer/transfer.cc    *)
(* (63-399): walks the fields of a 1-D instance over an unstructured      *)
(* index space, whose valid mask (an ElementMask over the elements        *)
(* 0 .. N-1 of the parent space) says which elements exist.  Each step    *)
(* takes the next run of enabled elements from the mask's enumerator,    *)
(* cut to max_bytes, perhaps merged with the following runs when the gap *)
(* is at most extra_elems, and cut again at an AOS/hybrid block border.  *)
(*                                                                         *)
(* The ElementMask enumerator is not under src/ and is modelled from its *)
(* interface: get_next returns the maximal run of enabled elements at or *)
(* after the enumerator's position and moves past it, peek_next returns   *)
(* the same without moving, set_pos moves the position.  The instance's  *)
(* 1-D linearization maps element i to offset i (image_dense_subrect     *)
(* returns the target; the code asserts this).                             *)
(***************************************************************************)
EXTENDS Integers, Sequences, SequencesExt, FiniteSets, FiniteSetsExt, TLC

CONSTANTS
  N,               \* elements 0 .. N-1 of the parent index space
  Masks,           \* valid masks to try: subsets of 0 .. N-1
  ReadyModes,      \* whether request_valid_mask() has triggered at construction
  InstFieldSizes,  \* metadata.field_sizes of the instance, in order
  FieldIds,        \* the requested fields (a field id is its byte offset)
  BlockSizes,      \* metadata.block_size values to try (>= N: SOA)
  AllocOffset,     \* metadata.alloc_offset
  ExtraElems,      \* extra_elems
  MaxBytes         \* max_bytes values a caller may pass to step

Elems == 0 .. N - 1
NumFields == Len(FieldIds)
ElmtSize == FoldSeq(+, 0, InstFieldSizes)
NoEnum == -1     \* enumerator == 0

(* The constructor's lookup of each requested field's size: walk the     *)
(* instance's field sizes until the running offset equals the id.        *)
InstFieldOffset(k) == FoldSeq(+, 0, SubSeq(InstFieldSizes, 1, k - 1))
FieldSizes ==
  [i \in 1 .. NumFields |->
     InstFieldSizes[CHOOSE k \in DOMAIN InstFieldSizes : InstFieldOffset(k) = FieldIds[i]]]

(* Byte addresses of element e of the i-th requested field in the        *)
(* blocked layout: block, field within the block, element within field.  *)
ByteAddrs(blockSize, i, e) ==
  LET a == AllocOffset + (e \div blockSize) * blockSize * ElmtSize
             + FieldIds[i] * blockSize + (e % blockSize) * FieldSizes[i]
  IN a .. a + FieldSizes[i] - 1

VARIABLES
  bs,              \* metadata.block_size of the instance
  mask,            \* the index space's valid mask, once computed
  validMask,       \* valid_mask != 0
  firstEnabled,    \* first_enabled
  nFields,         \* field_offsets.size() (0 once cleared)
  fieldIdx,        \* field_idx
  nextIdx,         \* next_idx
  enumPos,         \* the enumerator's position (NoEnum: no enumerator)
  rewindPos,       \* rewind_pos
  tentativeValid,  \* tentative_valid
  info,            \* AddressInfo of the last step and the elements it covers
  covered,         \* <<field, element>> pairs handed out so far (history)
  emitted          \* enabled elements handed out so far (history)

vars == <<bs, mask, validMask, firstEnabled, nFields, fieldIdx, nextIdx,
          enumPos, rewindPos, tentativeValid, info, covered, emitted>>

NoInfo == [ret |-> 0, base |-> 0, bytes |-> 0, field |-> 1, span |-> {}]

-----------------------------------------------------------------------------
(* ElementMask: find_enabled(), and the run get_next/peek_next return    *)
(* from position pos (ok = FALSE past the last enabled element).         *)
FindEnabled(m) == IF m = {} THEN -1 ELSE Min(m)

RunFrom(m, pos) ==
  IF \E e \in m : e >= pos
  THEN LET s == Min({e \in m : e >= pos})
       IN [ok |-> TRUE, start |-> s,
           len |-> CHOOSE l \in 1 .. N : s .. s + l - 1 \subseteq m /\ s + l \notin m]
  ELSE [ok |-> FALSE, start |-> 0, len |-> 0]

(* The peek loop of step: merge the following run while the gap to it,  *)
(* an unsigned difference, is at most extra_elems and the merged span   *)
(* fits in max_elems.  peek_next does not move the enumerator.  A       *)
(* negative gap converts to a huge size_t and never merges.  Result:     *)
(* [len, last] (last_span: no run follows).                              *)
RECURSIVE MergeRuns(_, _, _, _)
MergeRuns(pos, start, len, maxElems) ==
  LET pk == RunFrom(mask, pos)
      gap == pk.start - (start + len)
  IN IF ~pk.ok THEN [len |-> len, last |-> TRUE]
     ELSE IF gap >= 0 /\ gap <= ExtraElems /\ pk.start + pk.len - start <= maxElems
          THEN MergeRuns(pos, start, (pk.start - start) + pk.len, maxElems)
          ELSE [len |-> len, last |-> FALSE]

(* Mutant: after a whole run the enumerator is left one element past    *)
(* the run's end.                                                          *)
TakeSpanPastRun(pos, maxElems) ==
  LET g == RunFrom(mask, pos)
      mr == MergeRuns(g.start + g.len, g.start, g.len, maxElems)
  IN IF g.len > maxElems
     THEN [start |-> g.start, len |-> maxElems, last |-> FALSE,
           pos |-> g.start + maxElems]
     ELSE [start |-> g.start, len |-> mr.len, last |-> mr.last,
           pos |-> g.start + g.len + 1]

(* The span of one step from enumerator position pos: take the next run, *)
(* cut it to max_elems (set_pos past the part taken) or merge what       *)
(* follows.  Result: [start, len, last, pos] with pos the enumerator's  *)
(* position afterwards.                                                   *)
TakeSpan(pos, maxElems) ==
  LET g == RunFrom(mask, pos)
      after == g.start + g.len
  IN IF g.len > maxElems
     THEN [start |-> g.start, len |-> maxElems, last |-> FALSE,
           pos |-> g.start + maxElems]
     ELSE LET mr == MergeRuns(after, g.start, g.len, maxElems)
          IN [start |-> g.start, len |-> mr.len, last |-> mr.last, pos |-> after]

(* Mutant: the span is never cut at a block border.                     *)
BlockCutNoSplit(sp) ==
  LET lo == sp.start
  IN IF bs > sp.start + sp.len - 1
     THEN sp @@ [firstBlock |-> 0, blockOfs |-> lo]
     ELSE sp @@ [firstBlock |-> lo \div bs, blockOfs |-> lo - (lo \div bs) * bs]

(* The layout cut: SOA (block_size beyond the span's last element) is a  *)
(* single block; otherwise a span crossing a block border is shortened  *)
(* to the end of its first block and the enumerator set past it.        *)
BlockCut(sp) ==
  LET lo == sp.start
      hi == sp.start + sp.len - 1
  IN IF bs > hi
     THEN sp @@ [firstBlock |-> 0, blockOfs |-> lo]
     ELSE IF lo \div bs # hi \div bs
          THEN [start |-> lo, len |-> bs - (lo % bs), last |-> FALSE,
                pos |-> lo + (bs - (lo % bs)),
                firstBlock |-> lo \div bs, blockOfs |-> lo - (lo \div bs) * bs]
          ELSE sp @@ [firstBlock |-> lo \div bs, blockOfs |-> lo - (lo \div bs) * bs]

-----------------------------------------------------------------------------
(* done(): every field left in field_offsets has been walked.             *)
Done == fieldIdx = nFields

(* The position the next step starts from: the enumerator's, or, with no *)
(* enumerator, first_enabled (enumerate_enabled(first_enabled)).         *)
CurPos == IF enumPos = NoEnum THEN firstEnabled ELSE enumPos

(* The elements of the span of a step, and the enabled ones among them.   *)
SpanElems(sp) == sp.start .. sp.start + sp.len - 1

(* step(max_bytes, tentative).  Without the valid mask, fetch it now (it *)
(* must be ready) and, if it is empty, clear the fields and return 0.     *)
(* Less than one element: return 0.  Otherwise build the enumerator if   *)
(* there is none, take the span, remember rewind_pos, fill in the        *)
(* AddressInfo; a tentative step records next_idx, a final one moves to  *)
(* the next field after the last span.                                    *)
Step(maxBytes, tentative) ==
  /\ ~Done
  /\ ~tentativeValid
  /\ LET fe == IF validMask THEN firstEnabled ELSE FindEnabled(mask)
         fs == FieldSizes[fieldIdx + 1]
     IN IF ~validMask /\ fe = -1
        THEN /\ validMask' = TRUE
             /\ firstEnabled' = -1
             /\ fieldIdx' = 0
             /\ nFields' = 0
             /\ info' = NoInfo
             /\ UNCHANGED <<bs, mask, nextIdx, enumPos, rewindPos,
                            tentativeValid, covered, emitted>>
        ELSE /\ validMask' = TRUE
             /\ firstEnabled' = fe
             /\ IF maxBytes \div fs = 0
                THEN /\ info' = NoInfo
                     /\ UNCHANGED <<bs, mask, nFields, fieldIdx, nextIdx,
                                    enumPos, rewindPos, tentativeValid,
                                    covered, emitted>>
                ELSE LET sp == BlockCut(TakeSpan(IF enumPos = NoEnum THEN fe ELSE enumPos,
                                                 maxBytes \div fs))
                         got == {<<fieldIdx, e>> : e \in SpanElems(sp) \cap mask}
                     IN /\ rewindPos' = sp.start
                        /\ info' = [ret |-> sp.len * fs,
                                    base |-> AllocOffset + sp.firstBlock * bs * ElmtSize
                                               + FieldIds[fieldIdx + 1] * bs
                                               + sp.blockOfs * fs,
                                    bytes |-> sp.len * fs,
                                    field |-> fieldIdx + 1,
                                    span |-> SpanElems(sp)]
                        /\ IF tentative
                           THEN /\ tentativeValid' = TRUE
                                /\ nextIdx' = fieldIdx + (IF sp.last THEN 1 ELSE 0)
                                /\ enumPos' = sp.pos
                                /\ UNCHANGED <<fieldIdx, covered, emitted>>
                           ELSE /\ enumPos' = IF sp.last THEN NoEnum ELSE sp.pos
                                /\ fieldIdx' = fieldIdx + (IF sp.last THEN 1 ELSE 0)
                                /\ covered' = covered \cup got
                                /\ emitted' = emitted + Cardinality(got)
                                /\ UNCHANGED <<tentativeValid, nextIdx>>
                        /\ UNCHANGED <<bs, mask, nFields>>

(* confirm_step(): the caller used the tentative step; after the last     *)
(* span of a field drop the enumerator and move to the next field.       *)
ConfirmStep ==
  /\ tentativeValid
  /\ IF nextIdx # fieldIdx
     THEN /\ enumPos' = NoEnum
          /\ fieldIdx' = nextIdx
     ELSE UNCHANGED <<enumPos, fieldIdx>>
  /\ tentativeValid' = FALSE
  /\ LET got == {<<fieldIdx, e>> : e \in info.span \cap mask}
     IN /\ covered' = covered \cup got
        /\ emitted' = emitted + Cardinality(got)
  /\ UNCHANGED <<bs, mask, validMask, firstEnabled, nFields, nextIdx,
                 rewindPos, info>>

(* Mutant: cancel_step forgets to rewind the enumerator.                 *)
CancelStepNoRewind ==
  /\ tentativeValid
  /\ enumPos # NoEnum
  /\ tentativeValid' = FALSE
  /\ UNCHANGED <<bs, mask, validMask, firstEnabled, nFields, fieldIdx, enumPos,
                 nextIdx, rewindPos, info, covered, emitted>>

(* cancel_step(): move the enumerator back to the start of the span.      *)
CancelStep ==
  /\ tentativeValid
  /\ enumPos # NoEnum
  /\ enumPos' = rewindPos
  /\ tentativeValid' = FALSE
  /\ UNCHANGED <<bs, mask, validMask, firstEnabled, nFields, fieldIdx,
                 nextIdx, rewindPos, info, covered, emitted>>

(* Mutant: reset keeps the enumerator and its position.                  *)
ResetKeepEnum ==
  /\ ~tentativeValid
  /\ fieldIdx' = 0
  /\ covered' = {}
  /\ emitted' = 0
  /\ UNCHANGED <<bs, mask, validMask, firstEnabled, nFields, nextIdx,
                 enumPos, rewindPos, tentativeValid, info>>

(* reset(): back to the first field, dropping the enumerator.  It leaves *)
(* tentative_valid alone; callers reset only between steps.               *)
Reset ==
  /\ ~tentativeValid
  /\ fieldIdx' = 0
  /\ enumPos' = NoEnum
  /\ covered' = {}
  /\ emitted' = 0
  /\ UNCHANGED <<bs, mask, validMask, firstEnabled, nFields, nextIdx,
                 rewindPos, tentativeValid, info>>

(* The constructor (and deserialize_new): if the valid mask is ready,    *)
(* note first_enabled and, for an empty space, leave the fields empty;   *)
(* otherwise valid_mask = 0 and first_enabled = 0.                        *)
Init ==
  /\ bs \in BlockSizes
  /\ mask \in Masks
  /\ \E ready \in ReadyModes :
       /\ validMask = ready
       /\ firstEnabled = IF ready THEN FindEnabled(mask) ELSE 0
       /\ nFields = IF NumFields = 0 \/ (ready /\ FindEnabled(mask) = -1)
                    THEN 0 ELSE NumFields
  /\ fieldIdx = 0
  /\ nextIdx = 0
  /\ enumPos = NoEnum
  /\ rewindPos = 0
  /\ tentativeValid = FALSE
  /\ info = NoInfo
  /\ covered = {}
  /\ emitted = 0

Next ==
  \/ \E mb \in MaxBytes, t \in BOOLEAN : Step(mb, t)
  \/ ConfirmStep
  \/ CancelStep
  \/ Reset

Spec == Init /\ [][Next]_vars

-----------------------------------------------------------------------------
(* The order in which the iterator walks the product: field by field,    *)
(* the enabled elements of each in increasing order.                       *)
UnitOrder ==
  LET es == [i \in 1 .. Cardinality(mask) |->
               CHOOSE e \in mask : Cardinality({x \in mask : x < e}) = i - 1]
  IN FlattenSeq([f \in 1 .. NumFields |-> [i \in 1 .. Len(es) |-> <<f - 1, es[i]>>]])

Contract == INSTANCE TransferIteratorContract
              WITH Unit <- (0 .. NumFields - 1) \X Elems,
                   units <- UnitOrder,
                   handed <- covered,
                   open <- tentativeValid,
                   pending <- IF tentativeValid
                              THEN {<<fieldIdx, e>> : e \in info.span \cap mask}
                              ELSE {}

TypeOK ==
  /\ bs \in BlockSizes /\ mask \in Masks /\ validMask \in BOOLEAN
  /\ firstEnabled \in -1 .. N - 1
  /\ nFields \in {0, NumFields}
  /\ fieldIdx \in 0 .. nFields /\ nextIdx \in 0 .. NumFields
  /\ enumPos \in {NoEnum} \cup 0 .. N /\ rewindPos \in 0 .. N - 1
  /\ tentativeValid \in BOOLEAN
  /\ covered \subseteq (0 .. NumFields - 1) \X Elems

(* Every enabled element of every field is handed out exactly once, in  *)
(* order: the confirmed steps covered exactly the enabled elements of    *)
(* the fields before field_idx and those of the current field before the *)
(* iterator's position (rewind_pos while a tentative step is pending),   *)
(* nothing was handed out twice, and while a field is not finished an    *)
(* enabled element is left for get_next (whose result is asserted).  A   *)
(* wrong span cut, rewind or last-span decision skips or repeats         *)
(* elements.                                                              *)
ExactlyOnce ==
  LET at == IF tentativeValid THEN rewindPos ELSE CurPos
  IN /\ covered = {<<f, e>> \in (0 .. NumFields - 1) \X mask :
                     f < fieldIdx \/ (f = fieldIdx /\ e < at)}
     /\ Cardinality(covered) = emitted
     /\ (validMask /\ ~Done) => \E e \in mask : e >= at

(* The AddressInfo of a step describes its span exactly: the bytes of the *)
(* elements from span_start on, in the instance's blocked layout, are the *)
(* single contiguous range [base_offset, base_offset + bytes).  A span    *)
(* that crosses a block border without being cut breaks this.             *)
ChunkIsContiguous ==
  info.ret > 0 =>
    UNION {ByteAddrs(bs, info.field, e) : e \in info.span}
      = info.base .. info.base + info.bytes - 1

(* The iterator implements the iterator contract of spec.md: its final   *)
(* and confirmed steps hand out the next units of the product in order,  *)
(* a tentative step the next ones without advancing, a cancelled step    *)
(* nothing, and reset starts over.  A reset or cancel that leaves the    *)
(* enumerator elsewhere, or a step that starts from a stale position,    *)
(* hands out units out of order.                                          *)
ImplementsContract == Contract!Spec
=============================================================================

------------------------ MODULE MC_TransferIteratorZ ------------------------
(* Instances of TransferIteratorZ: a dense 3x2 space, and a sparse space  *)
(* of three rectangles inside a 4x4 box.                                   *)
EXTENDS TransferIteratorZ

MCDense == << [lo |-> <<0, 0>>, hi |-> <<2, 1>>] >>
MCSparse == << [lo |-> <<0, 0>>, hi |-> <<2, 0>>],
               [lo |-> <<0, 1>>, hi |-> <<3, 2>>],
               [lo |-> <<1, 3>>, hi |-> <<2, 3>>] >>
MCBoxLo == <<0, 0>>
MCBoxHi2 == <<2, 1>>
MCBoxHi3 == <<3, 3>>
=============================================================================

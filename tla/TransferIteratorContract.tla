----------------------- MODULE TransferIteratorContract -----------------------
(***************************************************************************)
(* What every transfer iterator promises (spec.md, "Transfer iteration"   *)
(* and the iterator laws): the chunks it yields, in order, cover the      *)
(* (domain x fields) product exactly once; a tentative step yields a      *)
(* chunk without advancing, and confirm_step then advances past it while  *)
(* cancel_step leaves the iterator where it was; a step too small for one *)
(* element yields nothing (a stuttering step); reset starts over.          *)
(*                                                                         *)
(* The product is the sequence units, without repetitions, in the order  *)
(* the iterator walks it.  handed is the set of units confirmed so far;   *)
(* while a tentative step is open, pending is its chunk (else empty).     *)
(***************************************************************************)
EXTENDS Integers, Sequences, FiniteSets, Functions

CONSTANT Unit         \* the values a unit of the product can take

VARIABLES units, handed, open, pending

cvars == <<units, handed, open, pending>>

(* The next k units after those handed out.                               *)
NextUnits(k) ==
  {units[i] : i \in Cardinality(handed) + 1 .. Cardinality(handed) + k}

(* A final step yields the next k >= 1 units.                              *)
FinalStep(k) ==
  /\ ~open
  /\ Cardinality(handed) + k <= Len(units)
  /\ handed' = handed \cup NextUnits(k)
  /\ UNCHANGED <<units, open, pending>>

(* A tentative step yields the next k >= 1 units and does not advance.    *)
TentativeStep(k) ==
  /\ ~open
  /\ Cardinality(handed) + k <= Len(units)
  /\ open' = TRUE
  /\ pending' = NextUnits(k)
  /\ UNCHANGED <<units, handed>>

Confirm ==
  /\ open
  /\ handed' = handed \cup pending
  /\ open' = FALSE
  /\ pending' = {}
  /\ UNCHANGED units

Cancel ==
  /\ open
  /\ open' = FALSE
  /\ pending' = {}
  /\ UNCHANGED <<units, handed>>

(* reset starts over and drops a tentative step still open.              *)
Restart ==
  /\ handed' = {}
  /\ open' = FALSE
  /\ pending' = {}
  /\ UNCHANGED units

Init ==
  /\ units \in Seq(Unit)
  /\ IsInjective(units)
  /\ handed = {}
  /\ ~open
  /\ pending = {}

Next ==
  \/ \E k \in 1 .. Len(units) : FinalStep(k) \/ TentativeStep(k)
  \/ Confirm
  \/ Cancel
  \/ Restart

Spec == Init /\ [][Next]_cvars
=============================================================================

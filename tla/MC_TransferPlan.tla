-------------------------- MODULE MC_TransferPlan --------------------------
(***************************************************************************)
(* Instances for TransferPlan.  Two nodes; the caller is n0.  Memory m0   *)
(* is n0's system memory holding iA and iB (two instances in one memory,  *)
(* so one memory pair carries two instance pairs), m1 is n1's memory      *)
(* holding iC, and g is an RDMA-global memory owned by n1 holding iG.     *)
(***************************************************************************)
EXTENDS TransferPlan

CONSTANTS iA, iB, iC, iG, m0, m1, g, n0, n1

MCInsts == {iA, iB, iC, iG}
MCMems == {m0, m1, g}
MCNodes == {n0, n1}
MCInstMem == (iA :> m0) @@ (iB :> m0) @@ (iC :> m1) @@ (iG :> g)
MCMemNode == (m0 :> n0) @@ (m1 :> n1) @@ (g :> n1)
MCGlobalMems == {g}

F(i, o, s, z) == [inst |-> i, offset |-> o, size |-> s, serdez |-> z]

\* Fields of sizes 1..3 at distinct offsets, one with a serdez id.
MCFields == {F(iA, 0, 2, 0), F(iA, 2, 1, 0), F(iB, 0, 3, 0),
             F(iC, 0, 2, 1), F(iG, 0, 1, 0)}

\* The same, with a zero-size field.
MCFieldsZero == {F(iA, 0, 2, 0), F(iB, 0, 2, 0), F(iC, 4, 0, 0)}
=============================================================================

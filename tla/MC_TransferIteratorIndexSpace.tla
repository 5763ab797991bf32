------------------- MODULE MC_TransferIteratorIndexSpace -------------------
(* An instance of TransferIteratorIndexSpace: six elements, valid masks  *)
(* that are empty, a single run, and runs with gaps crossing the block   *)
(* borders, fields of sizes 2 and 1, in SOA and hybrid layouts.          *)
EXTENDS TransferIteratorIndexSpace

MCMasks == {{}, {0, 1, 2, 3, 4, 5}, {0, 1, 3, 4}, {1, 2, 3, 5}}
MCInstFieldSizes == <<2, 1>>
MCFieldIds == <<2, 0>>
=============================================================================

---------------------- MODULE MC_TransferIteratorRect ----------------------
(* Instances of TransferIteratorRect and TransferIteratorHDF5 over one     *)
(* 3x2x2 box and fields of sizes 2 and 1: the Rect iterator in SOA and     *)
(* hybrid layouts, the HDF5 one over a 3x2x3 dataset.  A behaviour walks   *)
(* one of the two (walker), the other stays in its initial state, so one   *)
(* run checks both against the iterator contract.                          *)
EXTENDS TransferIteratorRect

MCLo3 == <<0, 0, 0>>
MCHi3 == <<2, 1, 1>>
MCInstFieldSizes == <<2, 1>>
MCFieldIds == <<2, 0>>

VARIABLES hp, hfieldIdx, hnextP, hnextIdx, htentative, hinfo, hcovered, walker

hvars == <<hp, hfieldIdx, hnextP, hnextIdx, htentative, hinfo, hcovered>>

H == INSTANCE TransferIteratorHDF5
       WITH ElmtSizes <- <<2, 1>>,
            DsetLo <- <<0, 0, 0>>,
            DsetDims <- <<3, 2, 3>>,
            p <- hp, fieldIdx <- hfieldIdx, nextP <- hnextP,
            nextIdx <- hnextIdx, tentativeValid <- htentative,
            info <- hinfo, covered <- hcovered

MCInit == walker \in {"rect", "hdf5"} /\ Init /\ H!Init

MCNext ==
  \/ walker = "rect" /\ Next /\ UNCHANGED <<hvars, walker>>
  \/ walker = "hdf5" /\ H!Next /\ UNCHANGED <<vars, walker>>

MCSpec == MCInit /\ [][MCNext]_<<vars, hvars, walker>>

(* The HDF5 iterator keeps the iterator contract (see ImplementsContract *)
(* of TransferIteratorHDF5): its hyperslabs, read back in Realm's        *)
(* dimension order, hand out the product in walk order, each unit once.  *)
HDF5ImplementsContract == H!ImplementsContract
=============================================================================

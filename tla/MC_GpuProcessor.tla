-------------------------- MODULE MC_GpuProcessor --------------------------
(* Instances of GpuProcessor for TLC: two tasks, up to two copies on two  *)
(* DMA streams, two task streams and a pool of two GPUThreads.            *)
EXTENDS GpuProcessor

CONSTANTS t1, t2, kill, c1, c2, h2d, d2h, th1, th2

MCTasks == {t1, t2}
MCOneTask == {t1}
MCThreads == {th1, th2}
MCKinds == {h2d, d2h}
MCCopiesOne == {c1}
MCCopiesTwo == {c1, c2}
MCCopyKindOne == [c \in MCCopiesOne |-> h2d]
MCCopyKindTwo == (c1 :> h2d) @@ (c2 :> d2h)
MCNoCopies == {}
MCNoCopyKind == [c \in {} |-> h2d]
=============================================================================

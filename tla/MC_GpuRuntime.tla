--------------------------- MODULE MC_GpuRuntime ---------------------------
(* GpuRuntime for TLC: the GPU processor of MC_GpuProcessor with one      *)
(* start-up binary and one binary a task loads, one kernel and one       *)
(* device variable each.                                                    *)
(* Copies are used with a GPUWorker only.                                 *)
EXTENDS GpuRuntime

CONSTANTS t1, t2, kill, c1, c2, h2d, d2h, th1, th2, b0, b1, f0, f1, v0, v1

MCTasks == {t1, t2}
MCThreads == {th1, th2}
MCKinds == {h2d, d2h}
MCCopiesTwo == {c1, c2}
MCCopyKindTwo == (c1 :> h2d) @@ (c2 :> d2h)
MCNoCopies == {}
MCNoCopyKind == [c \in {} |-> h2d]
MCBinFuncs == (b0 :> {f0}) @@ (b1 :> {f1})
MCBinVars == (b0 :> {v0}) @@ (b1 :> {v1})
=============================================================================

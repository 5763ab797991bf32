---------------------------- MODULE PennantDeppart ----------------------------
(***************************************************************************)
(* The pennant test of src/test/realm/deppart.cc (PennantTest, 1075-1551,  *)
(* with top_level_task, 1553-1625).                                        *)
(*                                                                         *)
(* The mesh has NZX x NZY zones cut into NumPcX x NumPcY pieces at         *)
(* zxbound/zybound.  Zones, sides and points are numbered piece by piece   *)
(* through weighted subspaces; a point on a shared edge belongs to the    *)
(* lower-numbered piece (global_point_pointer).  One init task per piece  *)
(* writes the zone colors and the sides' mapsz, mapsp1 and ok fields      *)
(* (mapss3 is written but never read, and is left out).  A field entry not *)
(* written yet holds Unwritten.  The top-level task waits for the init    *)
(* tasks, issues the six-operation chain of perform_partitioning (with    *)
(* -wait, blocking after each), waits on e6 and runs check_partitioning.  *)
(***************************************************************************)
EXTENDS Integers, FiniteSets, TLC, DeppartOps

CONSTANTS
    NZX, NZY,          \* nzx, nzy: zones in x and y
    NumPcX, NumPcY,    \* numpcx, numpcy: pieces in x and y
    WaitModes,         \* values of the -wait flag to consider
    Unwritten          \* a field entry no init task has written yet

NPX == NZX + 1
NPY == NZY + 1
NumPc == NumPcX * NumPcY
Pieces == 0..NumPc - 1
Ops == 1..6

\* The PennantTest constructor: split points and per-piece counts.
ZXBound(i) == (i * NZX) \div NumPcX
ZYBound(i) == (i * NZY) \div NumPcY
PcX(pc) == pc % NumPcX
PcY(pc) == pc \div NumPcX
LX(pc) == ZXBound(PcX(pc) + 1) - ZXBound(PcX(pc))
LY(pc) == ZYBound(PcY(pc) + 1) - ZYBound(PcY(pc))
LZ == [pc \in Pieces |-> LX(pc) * LY(pc)]
LS == [pc \in Pieces |-> 4 * LZ[pc]]
LP == [pc \in Pieces |->
         (IF PcX(pc) = 0 THEN LX(pc) + 1 ELSE LX(pc)) * (IF PcY(pc) = 0 THEN LY(pc) + 1 ELSE LY(pc))]

NZ == WeightPrefix(LZ, NumPc)
NS == WeightPrefix(LS, NumPc)
NP == WeightPrefix(LP, NumPc)
Zones  == 0..NZ - 1
Sides  == 0..NS - 1
Points == 0..NP - 1

\* initialize_data: the weighted subspaces each init task's instances cover.
ZonesW == WeightedSubspaces(0, LZ, NumPc)
SidesW == WeightedSubspaces(0, LS, NumPc)

\* The while loops of global_point_pointer: the first chunk (from i on)
\* whose upper bound reaches v.
RECURSIVE SlabOf(_, _)
SlabOf(i, v) == IF v > ZYBound(i + 1) THEN SlabOf(i + 1, v) ELSE i
RECURSIVE StripOf(_, _)
StripOf(i, v) == IF v > ZXBound(i + 1) THEN StripOf(i + 1, v) ELSE i

\* Mutant: the strips to the left of chunk pcx miss the shared column.
GlobalPointPointerNoPlus(py, px) ==
    LET ybig   == py > ZYBound(1)
        pcy    == SlabOf(1, py)
        slabs  == ZYBound(pcy) + 1
        dy     == IF ybig THEN ZYBound(pcy + 1) - ZYBound(pcy) ELSE ZYBound(1) + 1
        ly     == IF ybig THEN py - slabs ELSE py
        xbig   == px > ZXBound(1)
        pcx    == StripOf(1, px)
        strips == ZXBound(pcx)
        dx     == IF xbig THEN ZXBound(pcx + 1) - ZXBound(pcx) ELSE ZXBound(1) + 1
        lx     == IF xbig THEN px - strips ELSE px
    IN (IF ybig THEN NPX * slabs ELSE 0) + (IF xbig THEN dy * strips ELSE 0) + ly * dx + lx

\* global_point_pointer: the number of mesh point (py, px).  Whole slabs
\* of rows below its piece row come first, then the strips of its row of
\* pieces to its left, then its place inside its own piece.
GlobalPointPointer(py, px) ==
    LET ybig   == py > ZYBound(1)
        pcy    == SlabOf(1, py)
        slabs  == ZYBound(pcy) + 1
        dy     == IF ybig THEN ZYBound(pcy + 1) - ZYBound(pcy) ELSE ZYBound(1) + 1
        ly     == IF ybig THEN py - slabs ELSE py
        xbig   == px > ZXBound(1)
        pcx    == StripOf(1, px)
        strips == ZXBound(pcx) + 1
        dx     == IF xbig THEN ZXBound(pcx + 1) - ZXBound(pcx) ELSE ZXBound(1) + 1
        lx     == IF xbig THEN px - strips ELSE px
    IN (IF ybig THEN NPX * slabs ELSE 0) + (IF xbig THEN dy * strips ELSE 0) + ly * dx + lx

\* Mutant: the third corner skips a column.
CornersSkew(zy, zx) ==
    <<GlobalPointPointer(zy, zx), GlobalPointPointer(zy + 1, zx),
      GlobalPointPointer(zy + 1, zx + 2), GlobalPointPointer(zy, zx + 1)>>

\* The four corner points of zone (zy, zx), counter-clockwise.
Corners(zy, zx) ==
    <<GlobalPointPointer(zy, zx), GlobalPointPointer(zy + 1, zx),
      GlobalPointPointer(zy + 1, zx + 1), GlobalPointPointer(zy, zx + 1)>>

VARIABLES
    waitOnEvents,                   \* the -wait flag
    zoneColor,                      \* zone color field
    sideZone, sidePoint, sideOk,    \* side mapsz, mapsp1 and ok fields
    written,                        \* pieces whose init task has run
    phase, issued, triggered,       \* as in CircuitDeppart
    badSides, badZones, goodZones, pZones, pSides, pPoints,
    errors

fields  == <<zoneColor, sideZone, sidePoint, sideOk>>
outputs == <<badSides, badZones, goodZones, pZones, pSides, pPoints>>
vars    == <<waitOnEvents, fields, written, phase, issued, triggered, outputs, errors>>

NoPieces == [p \in Pieces |-> {}]

Init ==
    /\ waitOnEvents \in WaitModes
    /\ zoneColor = [z \in Zones |-> Unwritten]
    /\ sideZone = [s \in Sides |-> Unwritten]
    /\ sidePoint = [s \in Sides |-> Unwritten]
    /\ sideOk = [s \in Sides |-> Unwritten]
    /\ written = {}
    /\ phase = "init" /\ issued = 0 /\ triggered = {}
    /\ badSides = {} /\ badZones = {} /\ goodZones = {}
    /\ pZones = NoPieces /\ pSides = NoPieces /\ pPoints = NoPieces
    /\ errors = 0

\* The zone (zy, zx) a piece-local zone number stands for: the loops of
\* init_data_task go row by row from (zylo, zxlo).
LocalZone(pc, l) ==
    <<ZYBound(PcY(pc)) + (l \div LX(pc)), ZXBound(PcX(pc)) + (l % LX(pc))>>

\* init_data_task(i): for each zone of piece i in order, color it i, and
\* give its four sides (ps0..ps3) the zone, the CCW corner point and
\* ok = true.  pz and ps walk the instance's subspaces from bounds.lo.
InitDataTask(i) ==
    /\ phase = "init" /\ i \notin written
    /\ LET zlo == WeightPrefix(LZ, i)
           slo == WeightPrefix(LS, i)
           Mine(s) == s \in SidesW[i]
           Zone(s) == zlo + (s - slo) \div 4
           Cell(s) == LocalZone(i, (s - slo) \div 4)
       IN /\ zoneColor' = [z \in Zones |-> IF z \in ZonesW[i] THEN i ELSE zoneColor[z]]
          /\ sideZone' = [s \in Sides |-> IF Mine(s) THEN Zone(s) ELSE sideZone[s]]
          /\ sidePoint' = [s \in Sides |->
                IF Mine(s) THEN Corners(Cell(s)[1], Cell(s)[2])[((s - slo) % 4) + 1]
                ELSE sidePoint[s]]
          /\ sideOk' = [s \in Sides |-> IF Mine(s) THEN TRUE ELSE sideOk[s]]
    /\ written' = written \cup {i}
    /\ UNCHANGED <<waitOnEvents, phase, issued, triggered, outputs, errors>>

\* Mutant: top_level_task does not wait on the merged init event.
InitWaitNoWait ==
    /\ phase = "init"
    /\ phase' = "partition"
    /\ UNCHANGED <<waitOnEvents, fields, written, issued, triggered, outputs, errors>>

\* top_level_task: e.wait() on the merge of the init task events.
InitWait ==
    /\ phase = "init" /\ written = Pieces
    /\ phase' = "partition"
    /\ UNCHANGED <<waitOnEvents, fields, written, issued, triggered, outputs, errors>>

\* Mutant: the preimage of zones (e5) waits on e3 instead of e4.
PreSidesEarly == [k \in Ops |-> IF k = 5 THEN 3 ELSE k - 1]

\* The event each operation of perform_partitioning waits on (0: none):
\* every one waits on the one before.
Pre == [k \in Ops |-> k - 1]

\* Mutant: "if(wait_on_events) ek.wait()" before issuing operation k.
IssueWaitFirst(k) ==
    /\ phase = "partition" /\ issued = k - 1
    /\ waitOnEvents => k \in triggered
    /\ issued' = k
    /\ UNCHANGED <<waitOnEvents, fields, written, phase, triggered, outputs, errors>>

\* perform_partitioning issues operation k; with -wait it has first
\* blocked on the event of operation k-1.
Issue(k) ==
    /\ phase = "partition" /\ issued = k - 1
    /\ (k > 1 /\ waitOnEvents) => k - 1 \in triggered
    /\ issued' = k
    /\ UNCHANGED <<waitOnEvents, fields, written, phase, triggered, outputs, errors>>

\* The engine runs issued operation k once its precondition has
\* triggered; the outputs are those of the calls at deppart.cc 1407-1461.
Run(k) ==
    /\ phase \in {"partition", "check"}
    /\ k <= issued /\ k \notin triggered
    /\ Pre[k] = 0 \/ Pre[k] \in triggered
    /\ triggered' = triggered \cup {k}
    /\ CASE k = 1 -> badSides' = {s \in Sides : sideOk[s] = FALSE}
                     /\ UNCHANGED <<badZones, goodZones, pZones, pSides, pPoints>>
         [] k = 2 -> badZones' = {sideZone[s] : s \in badSides} \cap Zones
                     /\ UNCHANGED <<badSides, goodZones, pZones, pSides, pPoints>>
         [] k = 3 -> goodZones' = Zones \ badZones
                     /\ UNCHANGED <<badSides, badZones, pZones, pSides, pPoints>>
         [] k = 4 -> pZones' = ByField(zoneColor, goodZones, Pieces)
                     /\ UNCHANGED <<badSides, badZones, goodZones, pSides, pPoints>>
         [] k = 5 -> pSides' = ByPreimage(sideZone, Sides, pZones)
                     /\ UNCHANGED <<badSides, badZones, goodZones, pZones, pPoints>>
         [] k = 6 -> pPoints' = ByImage(sidePoint, Points, pSides)
                     /\ UNCHANGED <<badSides, badZones, goodZones, pZones, pSides>>
    /\ UNCHANGED <<waitOnEvents, fields, written, phase, issued, errors>>

\* top_level_task waits on e6, the event perform_partitioning returns.
PartitionWait ==
    /\ phase = "partition" /\ issued = 6 /\ 6 \in triggered
    /\ phase' = "check"
    /\ UNCHANGED <<waitOnEvents, fields, written, issued, triggered, outputs, errors>>

\* check_partitioning, points: a mesh point is expected in every piece
\* whose zone bounds contain it, edges included (ghost points).
InPiece(py, px, pc) ==
    /\ ZYBound(PcY(pc)) <= py /\ py <= ZYBound(PcY(pc) + 1)
    /\ ZXBound(PcX(pc)) <= px /\ px <= ZXBound(PcX(pc) + 1)

\* Every (expected, actual) disagreement check_partitioning logs: three
\* counts per piece, one per zone and piece, one per side and piece, and
\* one per mesh point and piece.
Mismatches ==
    {t \in {"zones"} \X Pieces : LZ[t[2]] # Cardinality(pZones[t[2]])}
    \cup {t \in {"sides"} \X Pieces : 4 * LZ[t[2]] # Cardinality(pSides[t[2]])}
    \cup {t \in {"points"} \X Pieces :
            (LX(t[2]) + 1) * (LY(t[2]) + 1) # Cardinality(pPoints[t[2]])}
    \cup {t \in {"zone"} \X Zones \X Pieces :
            (t[2] \in ZonesW[t[3]]) # (t[2] \in pZones[t[3]])}
    \cup {t \in {"side"} \X Sides \X Pieces :
            (t[2] \in SidesW[t[3]]) # (t[2] \in pSides[t[3]])}
    \cup {t \in {"point"} \X (0..NZY) \X (0..NZX) \X Pieces :
            InPiece(t[2], t[3], t[4]) # (GlobalPointPointer(t[2], t[3]) \in pPoints[t[4]])}

\* top_level_task runs check_partitioning and exits (exit(1) on errors,
\* shutdown otherwise).
CheckPartitioning ==
    /\ phase = "check"
    /\ errors' = Cardinality(Mismatches)
    /\ phase' = "exited"
    /\ UNCHANGED <<waitOnEvents, fields, written, issued, triggered, outputs>>

Next ==
    \/ \E i \in Pieces : InitDataTask(i)
    \/ InitWait
    \/ \E k \in Ops : Issue(k) \/ Run(k)
    \/ PartitionWait
    \/ CheckPartitioning

\* The runtime runs spawned tasks, the top-level task and ready
\* partitioning operations.
Fairness ==
    /\ \A i \in Pieces : WF_vars(InitDataTask(i))
    /\ WF_vars(InitWait)
    /\ \A k \in Ops : WF_vars(Issue(k)) /\ WF_vars(Run(k))
    /\ WF_vars(PartitionWait)
    /\ WF_vars(CheckPartitioning)

Spec == Init /\ [][Next]_vars /\ Fairness

-----------------------------------------------------------------------------
TypeOK ==
    /\ waitOnEvents \in BOOLEAN
    /\ zoneColor \in [Zones -> Pieces \cup {Unwritten}]
    /\ sideZone \in [Sides -> Zones \cup {Unwritten}]
    /\ sidePoint \in [Sides -> Points \cup {Unwritten}]
    /\ sideOk \in [Sides -> BOOLEAN \cup {Unwritten}]
    /\ written \subseteq Pieces
    /\ phase \in {"init", "partition", "check", "exited"}
    /\ issued \in 0..6 /\ triggered \subseteq 1..issued
    /\ errors \in Nat

\* The points' weighted subspaces, and the piece a mesh point belongs to:
\* the lowest-numbered one whose (inclusive) bounds contain it.
PointsW == WeightedSubspaces(0, LP, NumPc)
OwnerY(py) == CHOOSE c \in 0..NumPcY - 1 :
                py <= ZYBound(c + 1) /\ \A d \in 0..c - 1 : py > ZYBound(d + 1)
OwnerX(px) == CHOOSE c \in 0..NumPcX - 1 :
                px <= ZXBound(c + 1) /\ \A d \in 0..c - 1 : px > ZXBound(d + 1)

\* The mesh point (py, px) a side's mapsp1 entry was meant to name: corner
\* k (CCW from (zy, zx)) of its zone, found from the sides' numbering.
CornerOffset == <<<<0, 0>>, <<1, 0>>, <<1, 1>>, <<0, 1>>>>
SideCorner(s) ==
    LET pc   == CHOOSE c \in Pieces : s \in SidesW[c]
        l    == s - WeightPrefix(LS, pc)
        cell == LocalZone(pc, l \div 4)
        off  == CornerOffset[(l % 4) + 1]
    IN <<cell[1] + off[1], cell[2] + off[2]>>

\* The point numbers init_data_task writes through global_point_pointer
\* name mesh points one to one, and each lies in the weighted subspace of
\* the piece that owns the point ("shared edges go to the lower numbered
\* piece").  check_partitioning only looks through the same function, so
\* two mesh points sharing a number would go unnoticed there.
PointNumberingBijective ==
    LET done == {s \in Sides : sidePoint[s] # Unwritten}
    IN /\ \A s1, s2 \in done :
            (sidePoint[s1] = sidePoint[s2]) = (SideCorner(s1) = SideCorner(s2))
       /\ \A s \in done :
            sidePoint[s] \in PointsW[OwnerY(SideCorner(s)[1]) * NumPcX
                                     + OwnerX(SideCorner(s)[2])]

\* The event each operation reads from: the subspace made by the one
\* before; every operation but compute_difference (3) reads field data.
Reads == [k \in Ops |-> IF k = 1 THEN {} ELSE {k - 1}]

\* No partitioning operation runs before the subspace it reads is valid
\* or, if it reads field data, before every init task has written it.
ReadsValid ==
    [][\A k \in Ops :
         k \in triggered' \ triggered =>
             /\ Reads[k] \subseteq triggered
             /\ k # 3 => written = Pieces]_vars

\* check_partitioning reports no error: the zones, sides and (ghosted)
\* points the asynchronous chain computes are those of the mesh.
CheckPasses == phase = "exited" => errors = 0

\* The test always reaches its verdict: no wait of top_level_task or of
\* perform_partitioning blocks forever.
Terminates == <>(phase = "exited")
=============================================================================

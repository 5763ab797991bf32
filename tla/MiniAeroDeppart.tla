--------------------------- MODULE MiniAeroDeppart ---------------------------
(***************************************************************************)
(* The mini-aero test of src/test/realm/deppart.cc (MiniAeroTest, 89-692,  *)
(* with split_evenly/find_split, 70-88, and top_level_task, 1553-1625).    *)
(*                                                                         *)
(* A GX x GY x GZ box of cells is cut into BlocksX x BlocksY x BlocksZ blocks.  Cells and  *)
(* faces are numbered block by block through weighted subspaces; one init *)
(* task per block writes its cells' blockid and its faces' left, right and *)
(* type fields (a field entry not yet written holds Unwritten).  The      *)
(* chain of perform_partitioning is: p_cells by field (e1), p_faces by    *)
(* preimage through left (e2), one by-field split of each block's faces   *)
(* by type, merged into e3, and the ghost cells as the image of the      *)
(* block-border faces through right (e4).                                  *)
(***************************************************************************)
EXTENDS Integers, FiniteSets, TLC, DeppartOps

CONSTANTS
    GX, GY, GZ,        \* global_x, global_y, global_z: cells per axis
    BlocksX, BlocksY, BlocksZ, \* blocks_x, blocks_y, blocks_z
    ProblemTypes,      \* values of -type to consider (subset of 0..2)
    WaitModes,         \* values of the -wait flag to consider
    Unwritten          \* a field entry no init task has written yet

\* FaceType
BC_INTERIOR == 0
BC_TANGENT == 1
BC_EXTRAPOLATE == 2
BC_INFLOW == 3
BC_NOSLIP == 4
BC_BLOCK_BORDER == 5
BC_TOTAL == 6
FaceTypes == 0..BC_TOTAL - 1

\* split_evenly: cuts[i] = (total * i) / pieces.
SplitEvenly(total, pieces) == [i \in 0..pieces |-> (total * i) \div pieces]

G == <<GX, GY, GZ>>
B == <<BlocksX, BlocksY, BlocksZ>>
Split == <<SplitEvenly(GX, BlocksX), SplitEvenly(GY, BlocksY), SplitEvenly(GZ, BlocksZ)>>

\* find_split: the linear search for the first cut above v (-1 stands for
\* the assert(false) when there is none).
RECURSIVE FindFrom(_, _, _, _)
FindFrom(cuts, n, v, i) ==
    IF i > n THEN -1 ELSE IF v < cuts[i] THEN i - 1 ELSE FindFrom(cuts, n, v, i + 1)
FindSplit(cuts, n, v) == FindFrom(cuts, n, v, 1)

\* Block numbering and the per-block extents of the constructor.
NBlocks == BlocksX * BlocksY * BlocksZ
Blocks == 0..NBlocks - 1
BlockCoord(b) == <<b % BlocksX, (b \div BlocksX) % BlocksY, (b \div BlocksX) \div BlocksY>>
Lo(b)  == [d \in 1..3 |-> Split[d][BlockCoord(b)[d]]]
Ext(b) == [d \in 1..3 |-> Split[d][BlockCoord(b)[d] + 1] - Lo(b)[d]]
CellsPerBlock == [b \in Blocks |-> Ext(b)[1] * Ext(b)[2] * Ext(b)[3]]
\* The two other axes of a face direction, in the (outer, inner) order of
\* the init task's loops.
Others == <<<<3, 2>>, <<3, 1>>, <<2, 1>>>>
DirFaces(b, d) == (Ext(b)[d] + 1) * Ext(b)[Others[d][1]] * Ext(b)[Others[d][2]]
FacesPerBlock == [b \in Blocks |-> DirFaces(b, 1) + DirFaces(b, 2) + DirFaces(b, 3)]

NCells == WeightPrefix(CellsPerBlock, NBlocks)
NFaces == WeightPrefix(FacesPerBlock, NBlocks)
Cells == 0..NCells - 1
Faces == 0..NFaces - 1
CellsW == WeightedSubspaces(0, CellsPerBlock, NBlocks)
FacesW == WeightedSubspaces(0, FacesPerBlock, NBlocks)

\* Mutant: the x chunks skip local_z slabs of one row instead of
\* local_y * local_z.
GlobalCellPointerNoLocalY(c) ==
    IF \E d \in 1..3 : c[d] < 0 \/ c[d] >= G[d] THEN -1
    ELSE LET i  == [d \in 1..3 |-> FindSplit(Split[d], B[d], c[d])]
             l  == [d \in 1..3 |-> Split[d][i[d] + 1] - Split[d][i[d]]]
             lc == [d \in 1..3 |-> c[d] - Split[d][i[d]]]
         IN GX * GY * Split[3][i[3]] + GX * Split[2][i[2]] * l[3] + Split[1][i[1]] * l[3]
              + lc[1] + lc[2] * l[1] + lc[3] * l[1] * l[2]

\* global_cell_pointer(cx, cy, cz) of the cell c = <<cx, cy, cz>>: -1 out
\* of range; else whole z chunks, then y chunks of this z chunk, then x
\* chunks of this y and z chunk, then x-fastest inside the block.
GlobalCellPointer(c) ==
    IF \E d \in 1..3 : c[d] < 0 \/ c[d] >= G[d] THEN -1
    ELSE LET i  == [d \in 1..3 |-> FindSplit(Split[d], B[d], c[d])]
             l  == [d \in 1..3 |-> Split[d][i[d] + 1] - Split[d][i[d]]]
             lc == [d \in 1..3 |-> c[d] - Split[d][i[d]]]
         IN GX * GY * Split[3][i[3]] + GX * Split[2][i[2]] * l[3] + Split[1][i[1]] * l[2] * l[3]
              + lc[1] + lc[2] * l[1] + lc[3] * l[1] * l[2]

\* The cells of block b, as the init task's three loops visit them.
BlockCells(b) ==
    {<<x, y, z>> : x \in Lo(b)[1]..Lo(b)[1] + Ext(b)[1] - 1,
                   y \in Lo(b)[2]..Lo(b)[2] + Ext(b)[2] - 1,
                   z \in Lo(b)[3]..Lo(b)[3] + Ext(b)[3] - 1}

\* The boundary conditions of the init task's switches, by axis (x, y, z)
\* and problem type: low faces and high faces of the box.
LowType  == <<<<BC_EXTRAPOLATE, BC_INFLOW, BC_INFLOW>>,
              <<BC_TANGENT, BC_NOSLIP, BC_TANGENT>>,
              <<BC_TANGENT, BC_TANGENT, BC_TANGENT>>>>
HighType == <<<<BC_EXTRAPOLATE, BC_EXTRAPOLATE, BC_EXTRAPOLATE>>,
              <<BC_TANGENT, BC_EXTRAPOLATE, BC_TANGENT>>,
              <<BC_TANGENT, BC_TANGENT, BC_TANGENT>>>>

\* The direction of a block's local face i and its index within it: the
\* init task writes the left/right faces, then down/up, then back/front.
FaceDir(b, i) ==
    IF i < DirFaces(b, 1) THEN <<1, i>>
    ELSE IF i < DirFaces(b, 1) + DirFaces(b, 2) THEN <<2, i - DirFaces(b, 1)>>
    ELSE <<3, i - DirFaces(b, 1) - DirFaces(b, 2)>>

\* Mutant: the high-boundary branch is lost, so a block's high faces are
\* written as interior faces.
FaceTypeNoHigh(b, d, f, pt) ==
    IF f = Lo(b)[d] THEN (IF f = 0 THEN LowType[d][pt + 1] ELSE BC_BLOCK_BORDER)
    ELSE BC_INTERIOR

\* ftype of the init task's face loops for the face at coordinate f on
\* axis d of block b: the box's boundary condition or BC_BLOCK_BORDER on
\* the block's low and high faces, BC_INTERIOR in between.
FaceTypeOf(b, d, f, pt) ==
    IF f = Lo(b)[d] THEN (IF f = 0 THEN LowType[d][pt + 1] ELSE BC_BLOCK_BORDER)
    ELSE IF f = Lo(b)[d] + Ext(b)[d]
         THEN (IF f = G[d] THEN HighType[d][pt + 1] ELSE BC_BLOCK_BORDER)
    ELSE BC_INTERIOR

\* Mutant: "reversed" is ignored, so a low face's left cell is outside.
FaceRecordNoReverse(b, i, pt) ==
    LET d  == FaceDir(b, i)[1]
        j  == FaceDir(b, i)[2]
        o  == Others[d]
        n2 == Ext(b)[o[1]] * Ext(b)[o[2]]
        f  == Lo(b)[d] + (j \div n2)
        Cell(k) == [e \in 1..3 |->
                      IF e = d THEN f - k
                      ELSE IF e = o[1] THEN Lo(b)[o[1]] + ((j % n2) \div Ext(b)[o[2]])
                      ELSE Lo(b)[o[2]] + ((j % n2) % Ext(b)[o[2]])]
    IN [left |-> GlobalCellPointer(Cell(1)), right |-> GlobalCellPointer(Cell(0)),
        type |-> FaceTypeOf(b, d, f, pt)]

\* What the init task of block b writes to its local face i (pf walks the
\* faces from bounds.lo): the cells on both sides, left inside the block
\* ("reversed" on the low face), and the face type.
FaceRecord(b, i, pt) ==
    LET d  == FaceDir(b, i)[1]
        j  == FaceDir(b, i)[2]
        o  == Others[d]
        n2 == Ext(b)[o[1]] * Ext(b)[o[2]]
        f  == Lo(b)[d] + (j \div n2)
        reversed == f = Lo(b)[d]
        Cell(k) == [e \in 1..3 |->
                      IF e = d THEN f - k
                      ELSE IF e = o[1] THEN Lo(b)[o[1]] + ((j % n2) \div Ext(b)[o[2]])
                      ELSE Lo(b)[o[2]] + ((j % n2) % Ext(b)[o[2]])]
    IN [left  |-> GlobalCellPointer(Cell(IF reversed THEN 0 ELSE 1)),
        right |-> GlobalCellPointer(Cell(IF reversed THEN 1 ELSE 0)),
        type  |-> FaceTypeOf(b, d, f, pt)]

\* The values above as constant tables, so that TLC computes them once.
FaceRecords ==
    [b \in Blocks |-> [i \in 0..FacesPerBlock[b] - 1 |->
        [pt \in ProblemTypes |-> FaceRecord(b, i, pt)]]]
BlockCellNums == [b \in Blocks |-> {GlobalCellPointer(c) : c \in BlockCells(b)}]

VARIABLES
    problemType, waitOnEvents,          \* -type and -wait
    cellBlock,                          \* cell blockid field
    faceLeft, faceRight, faceType,      \* face left, right and type fields
    written,                            \* blocks whose init task has run
    phase, issued, triggered,           \* as in CircuitDeppart
    pCells, pFaces, pFaceTypes, pGhost,
    errors

flags   == <<problemType, waitOnEvents>>
fields  == <<cellBlock, faceLeft, faceRight, faceType>>
outputs == <<pCells, pFaces, pFaceTypes, pGhost>>
vars    == <<flags, fields, written, phase, issued, triggered, outputs, errors>>

NoBlocks == [b \in Blocks |-> {}]

Init ==
    /\ problemType \in ProblemTypes /\ waitOnEvents \in WaitModes
    /\ cellBlock = [c \in Cells |-> Unwritten]
    /\ faceLeft = [f \in Faces |-> Unwritten]
    /\ faceRight = [f \in Faces |-> Unwritten]
    /\ faceType = [f \in Faces |-> Unwritten]
    /\ written = {}
    /\ phase = "init" /\ issued = 0 /\ triggered = {}
    /\ pCells = NoBlocks /\ pFaces = NoBlocks /\ pGhost = NoBlocks
    /\ pFaceTypes = [b \in Blocks |-> [t \in FaceTypes |-> {}]]
    /\ errors = 0

\* init_data_task(i): every cell of the block gets blockid i at the
\* number global_cell_pointer gives it (asserted to lie in the block's
\* instance; a failing assert aborts the program), then the block's faces
\* are written in order.
InitDataTask(i) ==
    /\ phase = "init" /\ i \notin written
    /\ LET mine == BlockCellNums[i]
           flo  == WeightPrefix(FacesPerBlock, i)
           Rec(f) == FaceRecords[i][f - flo][problemType]
       IN /\ cellBlock' = [c \in Cells |-> IF c \in mine THEN i ELSE cellBlock[c]]
          /\ faceLeft' = [f \in Faces |-> IF f \in FacesW[i] THEN Rec(f).left ELSE faceLeft[f]]
          /\ faceRight' = [f \in Faces |-> IF f \in FacesW[i] THEN Rec(f).right ELSE faceRight[f]]
          /\ faceType' = [f \in Faces |-> IF f \in FacesW[i] THEN Rec(f).type ELSE faceType[f]]
          /\ phase' = IF mine \subseteq CellsW[i] THEN phase ELSE "aborted"
    /\ written' = written \cup {i}
    /\ UNCHANGED <<flags, issued, triggered, outputs, errors>>

\* top_level_task: e.wait() on the merge of the init task events.
InitWait ==
    /\ phase = "init" /\ written = Blocks
    /\ phase' = "partition"
    /\ UNCHANGED <<flags, fields, written, issued, triggered, outputs, errors>>

\* The operations of perform_partitioning in issue order: e1 (p_cells),
\* e2 (p_faces), one face-type split per block, and e4 (p_ghost).
SplitOp(idx) == 3 + idx
GhostOp == 3 + NBlocks
Ops == 1..GhostOp

\* Mutant: the ghost image is given the last block's event e instead of
\* the merged e3.
PreGhostLastOnly(k) ==
    IF k = 1 THEN {} ELSE IF k = 2 THEN {1}
    ELSE IF k < GhostOp THEN {2} ELSE {SplitOp(NBlocks - 1)}

\* The events operation k is given: none, e1, e2 for every split, and
\* e3 = merge_events of all the splits for the ghost image.
Pre(k) ==
    IF k = 1 THEN {} ELSE IF k = 2 THEN {1}
    ELSE IF k < GhostOp THEN {2} ELSE {SplitOp(idx) : idx \in Blocks}

\* Mutant: "if(wait_on_events) e.wait()" before issuing operation k.
IssueWaitFirst(k) ==
    /\ phase = "partition" /\ issued = k - 1
    /\ waitOnEvents => k \in triggered
    /\ issued' = k
    /\ UNCHANGED <<flags, fields, written, phase, triggered, outputs, errors>>

\* perform_partitioning issues operation k; with -wait it has first
\* blocked on the event of the operation issued before.
Issue(k) ==
    /\ phase = "partition" /\ issued = k - 1
    /\ (k > 1 /\ waitOnEvents) => k - 1 \in triggered
    /\ issued' = k
    /\ UNCHANGED <<flags, fields, written, phase, triggered, outputs, errors>>

\* The engine runs issued operation k once its events have triggered.
\* The ghost image reads p_border_faces, the BC_BLOCK_BORDER subspace
\* handle of each block's split.
Run(k) ==
    /\ phase \in {"partition", "check"}
    /\ k <= issued /\ k \notin triggered
    /\ Pre(k) \subseteq triggered
    /\ triggered' = triggered \cup {k}
    /\ CASE k = 1 -> pCells' = ByField(cellBlock, Cells, Blocks)
                     /\ UNCHANGED <<pFaces, pFaceTypes, pGhost>>
         [] k = 2 -> pFaces' = ByPreimage(faceLeft, Faces, pCells)
                     /\ UNCHANGED <<pCells, pFaceTypes, pGhost>>
         [] k = GhostOp ->
                     pGhost' = ByImage(faceRight, Cells,
                                       [b \in Blocks |-> pFaceTypes[b][BC_BLOCK_BORDER]])
                     /\ UNCHANGED <<pCells, pFaces, pFaceTypes>>
         [] OTHER -> pFaceTypes' = [pFaceTypes EXCEPT ![k - 3] =
                                      ByField(faceType, pFaces[k - 3], FaceTypes)]
                     /\ UNCHANGED <<pCells, pFaces, pGhost>>
    /\ UNCHANGED <<flags, fields, written, phase, issued, errors>>

\* top_level_task waits on e4, the event perform_partitioning returns.
PartitionWait ==
    /\ phase = "partition" /\ issued = GhostOp /\ GhostOp \in triggered
    /\ phase' = "check"
    /\ UNCHANGED <<flags, fields, written, issued, triggered, outputs, errors>>

\* check_partitioning: the blocks whose p_ghost must hold local cell i of
\* block b, its neighbours across each face of the block it touches.
Stride == <<1, BlocksX, BlocksX * BlocksY>>
ExpGhosts(b, i) ==
    LET n  == Ext(b)
        lc == <<i % n[1], (i \div n[1]) % n[2], (i \div n[1]) \div n[2]>>
    IN {b - Stride[d] : d \in {e \in 1..3 : lc[e] = 0 /\ BlockCoord(b)[e] > 0}}
       \cup {b + Stride[d] : d \in {e \in 1..3 : lc[e] = n[e] - 1 /\ BlockCoord(b)[e] < B[e] - 1}}

\* check_partitioning: the type expected of local face i of block b, from
\* its chunk (lr, du or bf) and its plane inside the chunk.
ExpType(b, i, pt) ==
    LET d == FaceDir(b, i)[1]
        x == FaceDir(b, i)[2] \div (Ext(b)[Others[d][1]] * Ext(b)[Others[d][2]])
    IN IF x = 0 THEN (IF BlockCoord(b)[d] = 0 THEN LowType[d][pt + 1] ELSE BC_BLOCK_BORDER)
       ELSE IF x = Ext(b)[d]
            THEN (IF BlockCoord(b)[d] = B[d] - 1 THEN HighType[d][pt + 1] ELSE BC_BLOCK_BORDER)
       ELSE BC_INTERIOR

Owner(x, W) == CHOOSE b \in Blocks : x \in W[b]
CellOwner == [c \in Cells |-> Owner(c, CellsW)]
FaceOwner == [f \in Faces |-> Owner(f, FacesW)]
ExpGhostsOf == [c \in Cells |->
                  ExpGhosts(CellOwner[c], c - WeightPrefix(CellsPerBlock, CellOwner[c]))]
ExpTypeOf == [f \in Faces |-> [pt \in ProblemTypes |->
                ExpType(FaceOwner[f], f - WeightPrefix(FacesPerBlock, FaceOwner[f]), pt)]]

\* Every (expected, actual) disagreement check_partitioning logs: per cell
\* and block for p_cells and p_ghost, per face and block for p_faces, and
\* per face, block and type for p_facetypes.
Mismatches ==
    {t \in {"cell"} \X Cells \X Blocks : (t[2] \in CellsW[t[3]]) # (t[2] \in pCells[t[3]])}
    \cup {t \in {"ghost"} \X Cells \X Blocks :
            (t[3] \in ExpGhostsOf[t[2]]) # (t[2] \in pGhost[t[3]])}
    \cup {t \in {"face"} \X Faces \X Blocks : (t[2] \in FacesW[t[3]]) # (t[2] \in pFaces[t[3]])}
    \cup {t \in {"facetype"} \X Faces \X Blocks \X FaceTypes :
            (t[3] = FaceOwner[t[2]] /\ t[4] = ExpTypeOf[t[2]][problemType])
              # (t[2] \in pFaceTypes[t[3]][t[4]])}

\* top_level_task runs check_partitioning and exits (exit(1) on errors,
\* shutdown otherwise).
CheckPartitioning ==
    /\ phase = "check"
    /\ errors' = Cardinality(Mismatches)
    /\ phase' = "exited"
    /\ UNCHANGED <<flags, fields, written, issued, triggered, outputs>>

Next ==
    \/ \E i \in Blocks : InitDataTask(i)
    \/ InitWait
    \/ \E k \in Ops : Issue(k) \/ Run(k)
    \/ PartitionWait
    \/ CheckPartitioning

\* The runtime runs spawned tasks, the top-level task and ready
\* partitioning operations.
Fairness ==
    /\ \A i \in Blocks : WF_vars(InitDataTask(i))
    /\ WF_vars(InitWait)
    /\ \A k \in Ops : WF_vars(Issue(k)) /\ WF_vars(Run(k))
    /\ WF_vars(PartitionWait)
    /\ WF_vars(CheckPartitioning)

Spec == Init /\ [][Next]_vars /\ Fairness

-----------------------------------------------------------------------------
TypeOK ==
    /\ problemType \in 0..2 /\ waitOnEvents \in BOOLEAN
    /\ cellBlock \in [Cells -> Blocks \cup {Unwritten}]
    /\ faceLeft \in [Faces -> Cells \cup {Unwritten}]
    /\ faceRight \in [Faces -> Cells \cup {-1, Unwritten}]
    /\ faceType \in [Faces -> FaceTypes \cup {Unwritten}]
    /\ written \subseteq Blocks
    /\ phase \in {"init", "partition", "check", "exited", "aborted"}
    /\ issued \in 0..GhostOp /\ triggered \subseteq 1..issued
    /\ errors \in Nat

\* global_cell_pointer numbers the cells one to one, each inside its own
\* block's weighted subspace: the init tasks' asserts never fire, and once
\* every block is written no cell is left without a blockid (two cells
\* sharing a number would leave one unwritten).
CellNumbering ==
    /\ phase # "aborted"
    /\ \A c \in Cells : cellBlock[c] # Unwritten => c \in CellsW[cellBlock[c]]
    /\ written = Blocks => \A c \in Cells : cellBlock[c] # Unwritten

\* The subspaces each operation reads: its input partition, and for the
\* ghost image every block's border-face split.
Reads(k) ==
    IF k = 1 THEN {} ELSE IF k = 2 THEN {1}
    ELSE IF k < GhostOp THEN {2} ELSE {SplitOp(idx) : idx \in Blocks}

\* No partitioning operation runs before the subspaces it reads are valid
\* or before every init task has written the field data it reads: the
\* ghost image in particular must wait on the merge of all the per-block
\* splits, not on the last one issued.
ReadsValid ==
    [][\A k \in Ops :
         k \in triggered' \ triggered =>
             /\ Reads(k) \subseteq triggered
             /\ written = Blocks]_vars

\* check_partitioning reports no error: the cells, faces, face types and
\* ghost cells of each block are those of the box decomposition.
CheckPasses == phase = "exited" => errors = 0

\* The test always reaches its verdict.
Terminates == <>(phase = "exited")
=============================================================================

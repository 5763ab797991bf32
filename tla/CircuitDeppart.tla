---------------------------- MODULE CircuitDeppart ----------------------------
(***************************************************************************)
(* The circuit test of src/test/realm/deppart.cc (CircuitTest, 693-1071,   *)
(* and top_level_task, 1553-1625).                                         *)
(*                                                                         *)
(* The generator gives every node a subcircuit and every edge an in and   *)
(* an out node.  The Philox draws are any value of their range, and       *)
(* -random is either setting.  One init task per piece writes the         *)
(* fields.  The top-level task waits for the init tasks, then issues the  *)
(* eight partitioning operations of perform_partitioning, each waiting on *)
(* the event of an earlier one (and, with -wait, blocking after each).    *)
(* It then waits for e7 and e8 and runs check_partitioning.  The engine   *)
(* runs an operation at any time after its precondition has triggered.    *)
(* An output read before its operation ran is seen as empty (spec 4.3: a  *)
(* sparsity map is observed as empty until its validity event triggers).  *)
(***************************************************************************)
EXTENDS Integers, FiniteSets, TLC, DeppartOps

CONSTANTS
    NumNodes, NumEdges, NumPieces,  \* num_nodes, num_edges, num_pieces
    PctWireInPiece,                 \* pct_wire_in_piece
    RandomModes,                    \* values of the -random flag to consider
    WaitModes                       \* values of the -wait flag to consider

Nodes  == 0..NumNodes - 1
Edges  == 0..NumEdges - 1
Pieces == 0..NumPieces - 1
Ops    == 1..8

VARIABLES
    randomColors, waitOnEvents,     \* the command-line flags
    subckt, inNode, outNode,        \* what the generator produces
    written,                        \* pieces whose init task has run
    phase,                          \* where top_level_task is
    issued,                         \* operations perform_partitioning has issued
    triggered,                      \* operations whose event has triggered
    pNodes, pEdges, pExtra, pGhost, isShared, isPrivate, pShr, pPvt,
    errors                          \* check_partitioning's result

flags   == <<randomColors, waitOnEvents>>
data    == <<subckt, inNode, outNode>>
outputs == <<pNodes, pEdges, pExtra, pGhost, isShared, isPrivate, pShr, pPvt>>
vars    == <<flags, data, written, phase, issued, triggered, outputs, errors>>

\* Mutant: the non-random subcircuit divides by num_nodes - 1.
RandomNodeDataOff(rnd, idx) ==
    IF rnd THEN Pieces ELSE {(idx * NumPieces) \div (NumNodes - 1)}

\* random_node_data: the subcircuits a node may get.
RandomNodeData(rnd, idx) ==
    IF rnd THEN Pieces ELSE {(idx * NumPieces) \div NumNodes}

\* random_edge_data: the nodes of the edge's own piece.
EdgePieceNodes(idx) ==
    LET sc == (idx * NumPieces) \div NumEdges
    IN ((sc * NumNodes) \div NumPieces)..(((sc + 1) * NumNodes) \div NumPieces - 1)

InNodeChoices(rnd, idx) == IF rnd THEN Nodes ELSE EdgePieceNodes(idx)

OutNodeChoices(rnd, idx) ==
    IF rnd THEN Nodes
    ELSE (IF PctWireInPiece > 0 THEN EdgePieceNodes(idx) ELSE {})
           \cup (IF PctWireInPiece < 100 THEN Nodes ELSE {})

NoPieces == [p \in Pieces |-> {}]

\* main, initialize_data and the generator (deppart.cc 735-767, 834-917).
Init ==
    /\ randomColors \in RandomModes
    /\ waitOnEvents \in WaitModes
    /\ subckt \in {f \in [Nodes -> 0..NumPieces] : \A i \in Nodes : f[i] \in RandomNodeData(randomColors, i)}
    /\ inNode \in {f \in [Edges -> Nodes] : \A e \in Edges : f[e] \in InNodeChoices(randomColors, e)}
    /\ outNode \in {f \in [Edges -> Nodes] : \A e \in Edges : f[e] \in OutNodeChoices(randomColors, e)}
    /\ written = {}
    /\ phase = "init"
    /\ issued = 0
    /\ triggered = {}
    /\ pNodes = NoPieces /\ pEdges = NoPieces /\ pExtra = NoPieces
    /\ pGhost = NoPieces /\ pShr = NoPieces /\ pPvt = NoPieces
    /\ isShared = {} /\ isPrivate = {}
    /\ errors = 0

\* init_data_task for piece i: writes subckt_id for the nodes, and in_node
\* and out_node for the edges, of the i-th equal subspace.
InitDataTask(i) ==
    /\ phase = "init" /\ i \notin written
    /\ written' = written \cup {i}
    /\ UNCHANGED <<flags, data, phase, issued, triggered, outputs, errors>>

\* Mutant: top_level_task does not wait on the init event.
InitWaitNoWait ==
    /\ phase = "init"
    /\ phase' = "partition"
    /\ UNCHANGED <<flags, data, written, issued, triggered, outputs, errors>>

\* top_level_task: e.wait() on the merged init events.
InitWait ==
    /\ phase = "init" /\ written = Pieces
    /\ phase' = "partition"
    /\ UNCHANGED <<flags, data, written, issued, triggered, outputs, errors>>

\* Mutant: e7 (p_shr) waits on e4 instead of e5.
PreShrEarly == (1 :> 0) @@ (2 :> 1) @@ (3 :> 2) @@ (4 :> 3) @@ (5 :> 4)
                 @@ (6 :> 5) @@ (7 :> 4) @@ (8 :> 6)

\* The event each operation of perform_partitioning waits on (0: none).
Pre == (1 :> 0) @@ (2 :> 1) @@ (3 :> 2) @@ (4 :> 3) @@ (5 :> 4)
         @@ (6 :> 5) @@ (7 :> 5) @@ (8 :> 6)

\* Mutant: "if(wait_on_events) ek.wait()" before issuing operation k.
IssueWaitFirst(k) ==
    /\ phase = "partition" /\ issued = k - 1
    /\ waitOnEvents => k \in triggered
    /\ issued' = k
    /\ UNCHANGED <<flags, data, written, phase, triggered, outputs, errors>>

\* perform_partitioning issues operation k; with -wait it first blocks on
\* the event of operation k-1.
Issue(k) ==
    /\ phase = "partition" /\ issued = k - 1
    /\ (k > 1 /\ waitOnEvents) => k - 1 \in triggered
    /\ issued' = k
    /\ UNCHANGED <<flags, data, written, phase, triggered, outputs, errors>>

\* The engine runs operation k once it is issued and its precondition has
\* triggered; the outputs are those of the call at deppart.cc 920-990.
Run(k) ==
    /\ phase \in {"partition", "check"}
    /\ k <= issued /\ k \notin triggered
    /\ Pre[k] = 0 \/ Pre[k] \in triggered
    /\ triggered' = triggered \cup {k}
    /\ CASE k = 1 -> pNodes' = ByField(subckt, Nodes, Pieces)
                     /\ UNCHANGED <<pEdges, pExtra, pGhost, isShared, isPrivate, pShr, pPvt>>
         [] k = 2 -> pEdges' = ByPreimage(inNode, Edges, pNodes)
                     /\ UNCHANGED <<pNodes, pExtra, pGhost, isShared, isPrivate, pShr, pPvt>>
         [] k = 3 -> pExtra' = ByImage(outNode, Nodes, pEdges)
                     /\ UNCHANGED <<pNodes, pEdges, pGhost, isShared, isPrivate, pShr, pPvt>>
         [] k = 4 -> pGhost' = Differences(pExtra, pNodes)
                     /\ UNCHANGED <<pNodes, pEdges, pExtra, isShared, isPrivate, pShr, pPvt>>
         [] k = 5 -> isShared' = UnionOf(pGhost)
                     /\ UNCHANGED <<pNodes, pEdges, pExtra, pGhost, isPrivate, pShr, pPvt>>
         [] k = 6 -> isPrivate' = Nodes \ isShared
                     /\ UNCHANGED <<pNodes, pEdges, pExtra, pGhost, isShared, pShr, pPvt>>
         [] k = 7 -> pShr' = Intersections(pNodes, isShared)
                     /\ UNCHANGED <<pNodes, pEdges, pExtra, pGhost, isShared, isPrivate, pPvt>>
         [] k = 8 -> pPvt' = Intersections(pNodes, isPrivate)
                     /\ UNCHANGED <<pNodes, pEdges, pExtra, pGhost, isShared, isPrivate, pShr>>
    /\ UNCHANGED <<flags, data, written, phase, issued, errors>>

\* top_level_task: perform_partitioning returned merge_events(e7, e8) and
\* the task waits on it.
PartitionWait ==
    /\ phase = "partition" /\ issued = 8 /\ {7, 8} \subseteq triggered
    /\ phase' = "check"
    /\ UNCHANGED <<flags, data, written, issued, triggered, outputs, errors>>
\* check_partitioning: ghost_nodes[n] is the set of in-subcircuits of the
\* edges that leave another subcircuit for n.
GhostNodes(n) ==
    {subckt[inNode[e]] : e \in {x \in Edges : outNode[x] = n /\ subckt[inNode[x]] # subckt[n]}}

\* Every (expected, actual) disagreement check_partitioning logs: one per
\* edge and piece, one per node for is_private and is_shared, one per node
\* and piece for p_pvt, p_shr and p_ghost.
Mismatches ==
    {t \in {"p_edges"} \X Edges \X Pieces :
        (t[3] = subckt[inNode[t[2]]]) # (t[2] \in pEdges[t[3]])}
    \cup {t \in {"is_private"} \X Nodes : (GhostNodes(t[2]) = {}) # (t[2] \in isPrivate)}
    \cup {t \in {"is_shared"} \X Nodes : (GhostNodes(t[2]) # {}) # (t[2] \in isShared)}
    \cup {t \in {"p_pvt"} \X Nodes \X Pieces :
        (subckt[t[2]] = t[3] /\ GhostNodes(t[2]) = {}) # (t[2] \in pPvt[t[3]])}
    \cup {t \in {"p_shr"} \X Nodes \X Pieces :
        (subckt[t[2]] = t[3] /\ GhostNodes(t[2]) # {}) # (t[2] \in pShr[t[3]])}
    \cup {t \in {"p_ghost"} \X Nodes \X Pieces :
        (subckt[t[2]] # t[3] /\ t[3] \in GhostNodes(t[2])) # (t[2] \in pGhost[t[3]])}

\* top_level_task runs check_partitioning and exits (exit(1) on errors,
\* shutdown otherwise).
CheckPartitioning ==
    /\ phase = "check"
    /\ errors' = Cardinality(Mismatches)
    /\ phase' = "exited"
    /\ UNCHANGED <<flags, data, written, issued, triggered, outputs>>

Next ==
    \/ \E i \in Pieces : InitDataTask(i)
    \/ InitWait
    \/ \E k \in Ops : Issue(k) \/ Run(k)
    \/ PartitionWait
    \/ CheckPartitioning

\* The runtime runs spawned tasks, the top-level task and ready
\* partitioning operations.
Fairness ==
    /\ \A i \in Pieces : WF_vars(InitDataTask(i))
    /\ WF_vars(InitWait)
    /\ \A k \in Ops : WF_vars(Issue(k)) /\ WF_vars(Run(k))
    /\ WF_vars(PartitionWait)
    /\ WF_vars(CheckPartitioning)

Spec == Init /\ [][Next]_vars /\ Fairness

-----------------------------------------------------------------------------
TypeOK ==
    /\ randomColors \in BOOLEAN /\ waitOnEvents \in BOOLEAN
    /\ subckt \in [Nodes -> Pieces]
    /\ inNode \in [Edges -> Nodes] /\ outNode \in [Edges -> Nodes]
    /\ written \subseteq Pieces
    /\ phase \in {"init", "partition", "check", "exited"}
    /\ issued \in 0..8 /\ triggered \subseteq 1..issued
    /\ errors \in Nat

\* The sets each operation reads: its input subspaces (by the spec's
\* meaning of the call) and, for by_field, preimage and image, the field
\* data written by the init tasks.
Reads == (1 :> {}) @@ (2 :> {1}) @@ (3 :> {2}) @@ (4 :> {1, 3}) @@ (5 :> {4})
           @@ (6 :> {5}) @@ (7 :> {1, 5}) @@ (8 :> {1, 6})

\* No partitioning operation runs before every subspace it reads is valid
\* and, if it reads field data, before every init task has written it.
\* The event arguments of perform_partitioning and the init wait of
\* top_level_task must together guarantee this, with or without -wait.
ReadsValid ==
    [][\A k \in Ops :
         k \in triggered' \ triggered =>
             /\ Reads[k] \subseteq triggered
             /\ k \in 1..3 => written = Pieces]_vars

\* check_partitioning reports no error: the subspaces computed by the
\* asynchronous chain are those the test derives from the generator.
CheckPasses == phase = "exited" => errors = 0

\* The test always gets to its verdict: the event chain never waits on
\* an event that cannot trigger.
Terminates == <>(phase = "exited")
=============================================================================

---------------------------- MODULE TransferPlan ----------------------------
(***************************************************************************)
(* Transfer planning and plan execution of Realm's DMA layer               *)
(* (src/runtime/realm/transfer/transfer.cc 1494-1929).                     *)
(*                                                                         *)
(* One call of Domain::copy or Domain::fill: TransferPlan::plan_copy or    *)
(* plan_fill turns the field lists into plans, then every plan is          *)
(* executed (execute_plan) on the node it selects.  The loops of           *)
(* plan_copy and plan_fill take one step per iteration so that the         *)
(* invariants also hold of every intermediate state.                       *)
(*                                                                         *)
(* A field (CopySrcDstField) is a record [inst, offset, size, serdez].     *)
(* An OffsetsAndSize entry is [srcOfs, dstOfs, size, serdez].  A plan is   *)
(* [kind, ip, oas]: for a copy plan ip is its one (src, dst) instance      *)
(* pair; a reduce plan keeps the first source instance and the            *)
(* destination; a fill plan has ip = <<inst, inst>> and one entry whose   *)
(* srcOfs is the offset into the fill value.                               *)
(***************************************************************************)
EXTENDS Integers, Sequences, SequencesExt, FiniteSets

CONSTANTS
    Insts,           \* region instances
    Mems,            \* memories
    Nodes,           \* gasnet nodes
    InstMem,         \* memory of each instance (get_instance_impl()->memory)
    MemNode,         \* owner node of each memory
    GlobalMems,      \* memories of kind MKIND_GLOBAL (RDMA-global)
    MyNode,          \* gasnet_mynode() of the calling node
    Fields,          \* the CopySrcDstField values callers may pass
    MaxFields,       \* bound on the length of a field list
    Redops,          \* reduction op ids (0: plain copy)
    FillValueSizes   \* fill_value_size values of Domain::fill calls

VARIABLES
    op, srcs, dsts, redop, fillSize,   \* the call's arguments
    pc,                                \* where plan_* / Domain::* is
    si, di, srcSub, dstSub,            \* src_it, dst_it, *_suboffset; si is it in plan_fill
    pending,                           \* oas_by_mem as a sequence of [ip, oas]
    fillOfs,                           \* fill_ofs
    plans,                             \* the plans vector
    ei,                                \* the execution loop's iterator
    executed                           \* [plan, node] of each execute_plan call

inputs == <<op, srcs, dsts, redop, fillSize>>
vars == <<inputs, pc, si, di, srcSub, dstSub, pending, fillOfs, plans, ei, executed>>

OAS == [srcOfs : Nat, dstOfs : Nat, size : Nat, serdez : Nat]
Plan == [kind : {"copy", "reduce", "fill"}, ip : Insts \X Insts, oas : Seq(OAS)]

\* ID(inst).instance.owner_node: an instance is owned by its memory's node.
Owner(i) == MemNode[InstMem[i]]

\* The sum of the sizes of a field list.
Total(fs) == FoldLeft(LAMBDA acc, f : acc + f.size, 0, fs)

\* The calls the runtime makes: the field lists carry the same number of
\* bytes, and a reduction has sources on one node and one destination
\* (the sanity asserts of 1819-1822).
CopyCall(s, d, r) ==
    /\ r = 0 => Total(s) = Total(d)
    /\ r # 0 => /\ Len(d) = 1
                /\ \A k \in DOMAIN s : Owner(s[k].inst) = Owner(s[1].inst)

Init ==
    /\ \E s, d \in BoundedSeq(Fields, MaxFields) \ {<<>>}, r \in Redops,
          fv \in FillValueSizes :
          \/ /\ CopyCall(s, d, r)
             /\ op = "copy" /\ srcs = s /\ dsts = d /\ redop = r /\ fillSize = 0
          \/ /\ op = "fill" /\ srcs = <<>> /\ dsts = d /\ redop = 0 /\ fillSize = fv
    /\ pc = IF op = "copy" THEN "plan_copy" ELSE "plan_fill"
    /\ si = 1 /\ di = 1 /\ srcSub = 0 /\ dstSub = 0
    /\ pending = <<>> /\ fillOfs = 0 /\ plans = <<>>
    /\ ei = 1 /\ executed = <<>>

CopyPlan(ip, entries) == [kind |-> "copy", ip |-> ip, oas |-> entries]

MemPairOf(ip) == <<InstMem[ip[1]], InstMem[ip[2]]>>

\* A serdez entry becomes a plan of its own at once; any other goes into
\* oas_by_mem under its memory pair and instance pair.
RecordOAS(ip, oas) ==
    IF oas.serdez # 0
    THEN /\ plans' = Append(plans, CopyPlan(ip, <<oas>>))
         /\ UNCHANGED pending
    ELSE /\ pending' = Append(pending, [ip |-> ip, oas |-> oas])
         /\ UNCHANGED plans

\* Mutant: the suboffset is not reset when the iterator moves on.
AdvanceIterNoReset(idx, sub, amount, size) ==
    IF sub + amount = size THEN <<idx + 1, sub + amount>> ELSE <<idx, sub + amount>>

\* suboffset += size; at the end of the field, move to the next one.
AdvanceIter(idx, sub, amount, size) ==
    IF sub + amount = size THEN <<idx + 1, 0>> ELSE <<idx, sub + amount>>

\* Mutant: the entry takes the rest of the source field only.
OasSizeSrc(s, d) == s.size - srcSub

\* oas.size: what is left of both current fields.
OasSize(s, d) == Min({s.size - srcSub, d.size - dstSub})

\* One iteration of the while loop of plan_copy.
CopyIter ==
    /\ pc = "plan_copy" /\ redop = 0
    /\ si <= Len(srcs) /\ di <= Len(dsts)
    /\ LET s   == srcs[si]
           d   == dsts[di]
           ip  == <<s.inst, d.inst>>
           oas == [srcOfs |-> s.offset + srcSub, dstOfs |-> d.offset + dstSub,
                   size   |-> OasSize(s, d),
                   serdez |-> s.serdez]
           ns  == AdvanceIter(si, srcSub, oas.size, s.size)
           nd  == AdvanceIter(di, dstSub, oas.size, d.size)
       IN /\ RecordOAS(ip, oas)
          /\ IF srcSub + oas.size > s.size \/ dstSub + oas.size > d.size
             THEN /\ pc' = "assert_failed"
                  /\ UNCHANGED <<si, di, srcSub, dstSub>>
             ELSE /\ si' = ns[1] /\ srcSub' = ns[2]
                  /\ di' = nd[1] /\ dstSub' = nd[2]
                  /\ UNCHANGED pc
    /\ UNCHANGED <<inputs, fillOfs, ei, executed>>

\* The loop has ended: "make sure we used up both".
LoopExit ==
    /\ pc = "plan_copy" /\ redop = 0
    /\ si > Len(srcs) \/ di > Len(dsts)
    /\ pc' = IF si > Len(srcs) /\ di > Len(dsts) THEN "group" ELSE "assert_failed"
    /\ UNCHANGED <<inputs, si, di, srcSub, dstSub, pending, fillOfs, plans, ei, executed>>

\* Mutant: only the first instance pair of a memory pair gets a plan.
GroupFirstPairOnly ==
    /\ pc = "group"
    /\ IF pending = <<>>
       THEN /\ pc' = "execute"
            /\ UNCHANGED <<pending, plans>>
       ELSE \E mp \in {MemPairOf(e.ip) : e \in ToSet(pending)} :
              LET ip  == CHOOSE x \in {e.ip : e \in ToSet(pending)} : MemPairOf(x) = mp
                  sel == SelectSeq(pending, LAMBDA e : e.ip = ip)
              IN /\ plans' = Append(plans, CopyPlan(ip, [j \in DOMAIN sel |-> sel[j].oas]))
                 /\ pending' = SelectSeq(pending, LAMBDA e : MemPairOf(e.ip) # mp)
                 /\ UNCHANGED pc
    /\ UNCHANGED <<inputs, si, di, srcSub, dstSub, fillOfs, ei, executed>>

\* One iteration of the loop over oas_by_mem: every instance pair of the
\* memory pair becomes a plan of its own.  std::map orders memory pairs by
\* their ids, which model values do not have, so any order is allowed.
Group ==
    /\ pc = "group"
    /\ IF pending = <<>>
       THEN /\ pc' = "execute"
            /\ UNCHANGED <<pending, plans>>
       ELSE \E mp \in {MemPairOf(e.ip) : e \in ToSet(pending)} :
              LET ips   == SetToSeq({e.ip : e \in {x \in ToSet(pending) : MemPairOf(x.ip) = mp}})
                  Of(ip) == LET sel == SelectSeq(pending, LAMBDA e : e.ip = ip)
                            IN [j \in DOMAIN sel |-> sel[j].oas]
              IN /\ plans' = plans \o [k \in DOMAIN ips |-> CopyPlan(ips[k], Of(ips[k]))]
                 /\ pending' = SelectSeq(pending, LAMBDA e : MemPairOf(e.ip) # mp)
                 /\ UNCHANGED pc
    /\ UNCHANGED <<inputs, si, di, srcSub, dstSub, fillOfs, ei, executed>>

\* The reduction branch of plan_copy: one TransferPlanReduce.
ReducePlan ==
    /\ pc = "plan_copy" /\ redop # 0
    /\ plans' = <<[kind |-> "reduce", ip |-> <<srcs[1].inst, dsts[1].inst>>,
                   oas  |-> [k \in DOMAIN srcs |->
                               [srcOfs |-> srcs[k].offset, dstOfs |-> dsts[1].offset,
                                size |-> srcs[k].size, serdez |-> 0]]]>>
    /\ pc' = "execute"
    /\ UNCHANGED <<inputs, si, di, srcSub, dstSub, pending, fillOfs, ei, executed>>

\* Mutant: the size check forgets the data already used.
InsufficientNoOfs(ofs, size) == size > fillSize

\* "insufficient data for fill": the field does not fit in what is left.
Insufficient(ofs, size) == ofs + size > fillSize

\* One iteration of plan_fill's loop over dsts.
FillIter ==
    /\ pc = "plan_fill" /\ si <= Len(dsts)
    /\ LET d == dsts[si] IN
         IF Insufficient(fillOfs, d.size)
         THEN /\ pc' = "fill_fatal"
              /\ UNCHANGED <<si, fillOfs, plans>>
         ELSE /\ plans' = Append(plans,
                    [kind |-> "fill", ip |-> <<d.inst, d.inst>>,
                     oas  |-> <<[srcOfs |-> fillOfs, dstOfs |-> d.offset,
                                 size |-> d.size, serdez |-> 0]>>])
              /\ fillOfs' = IF fillOfs > 0 \/ d.size # fillSize
                            THEN fillOfs + d.size ELSE fillOfs
              /\ si' = si + 1
              /\ UNCHANGED pc
    /\ UNCHANGED <<inputs, di, srcSub, dstSub, pending, ei, executed>>

FillEnd ==
    /\ pc = "plan_fill" /\ si > Len(dsts)
    /\ pc' = "execute"
    /\ UNCHANGED <<inputs, si, di, srcSub, dstSub, pending, fillOfs, plans, ei, executed>>

\* Mutant: a copy between local memories runs on the receiver.
SelectDmaNodeDst(srcMem, dstMem) ==
    IF srcMem \in GlobalMems
    THEN IF dstMem \in GlobalMems THEN MyNode ELSE MemNode[dstMem]
    ELSE IF dstMem \in GlobalMems THEN MemNode[srcMem] ELSE MemNode[dstMem]

\* select_dma_node: a GASNet->GASNet copy runs here, a gather from
\* GASNet memory by the receiver, anything else by the sender.
SelectDmaNode(srcMem, dstMem) ==
    IF srcMem \in GlobalMems
    THEN IF dstMem \in GlobalMems THEN MyNode ELSE MemNode[dstMem]
    ELSE MemNode[srcMem]

\* TransferPlanCopy::execute_plan asks select_dma_node about the memories
\* of its (first and only) instance pair.
CopyPlanNode(p) == SelectDmaNode(InstMem[p.ip[1]], InstMem[p.ip[2]])

\* TransferPlanReduce::execute_plan runs on the owner of srcs[0].
ReducePlanNode(p) == Owner(p.ip[1])

\* TransferPlanFill::execute_plan runs on the owner of the target.
FillPlanNode(p) == Owner(p.ip[2])

PlanNode(p) ==
    CASE p.kind = "copy"   -> CopyPlanNode(p)
      [] p.kind = "reduce" -> ReducePlanNode(p)
      [] p.kind = "fill"   -> FillPlanNode(p)

\* One iteration of Domain::copy's (or fill's) loop over the plans: the
\* plan is executed, locally (add_local_operation) or by forwarding it
\* (forward_request) to its node.
Execute ==
    /\ pc = "execute" /\ ei <= Len(plans)
    /\ executed' = Append(executed, [plan |-> plans[ei], node |-> PlanNode(plans[ei])])
    /\ ei' = ei + 1
    /\ UNCHANGED <<inputs, pc, si, di, srcSub, dstSub, pending, fillOfs, plans>>

\* merge_events over the finish events: the call returns.
Merge ==
    /\ pc = "execute" /\ ei > Len(plans)
    /\ pc' = "done"
    /\ UNCHANGED <<inputs, si, di, srcSub, dstSub, pending, fillOfs, plans, ei, executed>>

Next ==
    \/ CopyIter \/ LoopExit \/ Group \/ ReducePlan
    \/ FillIter \/ FillEnd \/ Execute \/ Merge

Spec == Init /\ [][Next]_vars

-----------------------------------------------------------------------------
TypeOK ==
    /\ op \in {"copy", "fill"}
    /\ pc \in {"plan_copy", "group", "plan_fill", "execute", "done",
               "assert_failed", "fill_fatal"}
    /\ si \in 1..MaxFields + 1 /\ di \in 1..MaxFields + 1
    /\ srcSub \in Nat /\ dstSub \in Nat /\ fillOfs \in Nat
    /\ pending \in Seq([ip : Insts \X Insts, oas : OAS])
    /\ plans \in Seq(Plan)
    /\ ei \in 1..Len(plans) + 1
    /\ executed \in Seq([plan : Plan, node : Nodes])

\* Every byte position of a field list, in order: the stream plan_copy
\* walks with src_it/src_suboffset (and dst_it/dst_suboffset).
ByteSeq(fs) ==
    FlattenSeq([k \in DOMAIN fs |->
                  [j \in 1..fs[k].size |-> <<fs[k].inst, fs[k].offset + j - 1>>]])

\* The [ip, oas] entries produced so far: in copy plans and in oas_by_mem.
CopyEntries ==
    FlattenSeq([k \in DOMAIN plans |->
                  IF plans[k].kind = "copy"
                  THEN [j \in DOMAIN plans[k].oas |-> [ip |-> plans[k].ip, oas |-> plans[k].oas[j]]]
                  ELSE <<>>]) \o pending

EntryBytes(e) ==
    {<< <<e.ip[1], e.oas.srcOfs + j>>, <<e.ip[2], e.oas.dstOfs + j>> >> :
       j \in 0..e.oas.size - 1}

Consumed == Total(SubSeq(srcs, 1, si - 1)) + srcSub

\* plan_copy pairs the bytes of the two field lists in order: the entries
\* produced so far (in plans or still in oas_by_mem, serdez or not) copy
\* exactly the k-th source byte to the k-th destination byte for every k
\* up to where src_it/src_suboffset has got, each byte once.  This is what
\* the suboffset arithmetic of the loop, the serdez shortcut and the
\* regrouping by memory and instance pair must preserve together.
CopyPairsBytes ==
    (op = "copy" /\ redop = 0 /\ pc # "assert_failed") =>
        LET S == ByteSeq(srcs)  D == ByteSeq(dsts)
        IN /\ UNION {EntryBytes(CopyEntries[k]) : k \in DOMAIN CopyEntries}
                = {<<S[k], D[k]>> : k \in 1..Consumed}
           /\ FoldLeft(LAMBDA acc, e : acc + e.oas.size, 0, CopyEntries) = Consumed

\* A copy between field lists of equal total size never trips the
\* asserts of plan_copy (1782, 1788: a suboffset past its field; 1795,
\* 1796: a list not used up when the loop ends).
NoAssertFailure == pc # "assert_failed"

\* The node-selection table of spec 4.3 for copies (rows: source is
\* RDMA-global; columns: destination is), and the rule that reductions run
\* on the source node and fills where the target lives.
NodeTable ==
    (<<TRUE, TRUE>> :> "local") @@ (<<TRUE, FALSE>> :> "receiver")
      @@ (<<FALSE, TRUE>> :> "sender") @@ (<<FALSE, FALSE>> :> "sender")

SpecNode(p) ==
    LET sm == InstMem[p.ip[1]]  dm == InstMem[p.ip[2]]
        role == NodeTable[<<sm \in GlobalMems, dm \in GlobalMems>>]
    IN CASE p.kind = "fill"   -> Owner(p.ip[2])
         [] p.kind = "reduce" -> Owner(p.ip[1])
         [] role = "local"    -> MyNode
         [] role = "receiver" -> MemNode[dm]
         [] role = "sender"   -> MemNode[sm]

\* Every plan execute_plan ran was run on the node spec 4.3 assigns it.
PlansRunWhereSpecSays ==
    \A k \in DOMAIN executed : executed[k].node = SpecNode(executed[k].plan)

\* plan_fill makes one fill plan per destination field, in order, and each
\* reads its fill bytes from inside the caller's fill value.
FillPlansMatchFields ==
    op = "fill" =>
        /\ Len(plans) = (IF pc = "plan_fill" \/ pc = "fill_fatal" THEN si - 1 ELSE Len(dsts))
        /\ \A k \in DOMAIN plans :
              LET e == plans[k].oas[1] IN
              /\ plans[k].ip[2] = dsts[k].inst
              /\ e.dstOfs = dsts[k].offset /\ e.size = dsts[k].size
              /\ e.srcOfs + e.size <= fillSize
=============================================================================

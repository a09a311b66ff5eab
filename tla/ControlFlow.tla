----------------------------- MODULE ControlFlow -----------------------------
(***************************************************************************)
(* The control-flow analysis the PTX loader runs on every function         *)
(* (ptx_ir.cc, called from function_info::ptx_assemble): basic blocks, the *)
(* edges between them, post-dominators, immediate post-dominators and the  *)
(* reconvergence point of every branch.  Beside it stands the definition   *)
(* of an immediate post-dominator by paths, at the level of instructions,  *)
(* that the analysis is compared with.                                     *)
(*                                                                         *)
(* A program is a record: code is a sequence of instructions, which are    *)
(* addressed by their place (one unit each, where PTX has 8 bytes), and    *)
(* starts holds the first place of each function.  Labels are places.      *)
(***************************************************************************)
EXTENDS Naturals, Integers, Sequences, SequencesExt, FiniteSetsExt, Graphs

ExitBlock == 0      \* the block without instructions that ends a function
ReturnPC  == -2     \* RECONVERGE_RETURN_PC
NoPC      == -1     \* NO_BRANCH_DIVERGENCE, and the pc of an empty entry

(* What the code of the function that holds pc spans.                      *)
First(p, pc) == Max({s \in p.starts : s <= pc})
LastOf(p, pc)  == Min({s \in p.starts : s > pc} \cup {Len(p.code) + 1}) - 1
Body(p, pc)  == First(p, pc) .. LastOf(p, pc)

EndsBlock(i) == i.op \in {"bra", "ret", "exit"}

(* The leaders of the function, each of which names its block.             *)
Blocks(p, f) ==
  {First(p, f)}
  \cup {p.code[i].to : i \in {j \in Body(p, f) : p.code[j].op = "bra"}}
  \cup {i + 1 : i \in {j \in Body(p, f) : EndsBlock(p.code[j]) /\ j < LastOf(p, f)}}

BlockOf(p, pc) == Max({b \in Blocks(p, pc) : b <= pc})

(* ptx_end                                                                 *)
BlockEnd(p, b) == Max({i \in Body(p, b) : BlockOf(p, i) = b})

(* successor_ids.  The edge of a predicated return or exit to the block    *)
(* behind it is looked for one byte further, where there is never an       *)
(* instruction (they are 4 or 8 bytes long), and so is never drawn.        *)
SuccessorIds(p, b) ==
  LET i == p.code[BlockEnd(p, b)]
  IN IF i.op \in {"ret", "exit"} THEN {ExitBlock}
     ELSE (IF i.op = "bra" THEN {i.to} ELSE {})
          \cup (IF i.op = "bra" /\ ~i.pred THEN {} ELSE {BlockEnd(p, b) + 1})

(* One pass of find_postdominators over the blocks, from the last to the   *)
(* first, each of which sees what the pass has found so far.               *)
Sweep(p, f, pdom) ==
  LET blocks == Blocks(p, f)
      Meet(d, b) == {b} \cup {x \in blocks \cup {ExitBlock} :
                                \A s \in SuccessorIds(p, b) : x \in d[s]}
  IN FoldRight(LAMBDA b, d : [d EXCEPT ![b] = Meet(d, b)],
               SetToSortSeq(blocks, LAMBDA x, y : x < y), pdom)

(* mutant: a single pass *)
SettleM(p, f, pdom) == Sweep(p, f, pdom)

(* Passes until one changes nothing.                                       *)
RECURSIVE Settle(_, _, _)
Settle(p, f, pdom) ==
  LET next == Sweep(p, f, pdom)
  IN IF next = pdom THEN pdom ELSE Settle(p, f, next)

(* find_postdominators: every block but the exit starts with all of them.  *)
PostDominators(p, f) ==
  LET all == Blocks(p, f) \cup {ExitBlock}
  IN Settle(p, f, [b \in all |-> IF b = ExitBlock THEN {b} ELSE all])

(* find_ipostdominators: of the other post-dominators of a block, the one  *)
(* that post-dominates none of them.                                       *)
ImmediatePostDominators(p, b) ==
  LET pdom == PostDominators(p, b)
      tmp  == pdom[b] \ {b}
  IN {s \in tmp : \A t \in tmp \ {s} : s \notin pdom[t]}

(* get_reconvergence_pairs: where a branch reconverges, after the return   *)
(* if its immediate post-dominator is the exit.                            *)
ReconvergenceTarget(p, pc) ==
  LET ipdom == CHOOSE b \in ImmediatePostDominators(p, BlockOf(p, pc)) : TRUE
  IN IF ipdom = ExitBlock THEN ReturnPC ELSE ipdom

(* get_converge_point, which every instruction is decoded with.            *)
ConvergePoint(p, pc) ==
  IF p.code[pc].op = "bra" THEN ReconvergenceTarget(p, pc) ELSE NoPC

(***************************************************************************)
(* The reference: paths of instructions.                                   *)
(***************************************************************************)
After(p, pc) ==
  LET i == p.code[pc]
  IN (IF i.op \in {"ret", "exit"} THEN {ExitBlock} ELSE {})
     \cup (IF i.op = "bra" THEN {i.to} ELSE {})
     \cup (IF i.op \in {"op", "call"} \/ i.pred THEN {pc + 1} ELSE {})

Paths(p, f, without) ==
  LET body == (Body(p, f) \cup {ExitBlock}) \ {without}
  IN [node |-> body,
      edge |-> {<<x, y>> \in (body \ {ExitBlock}) \X body : y \in After(p, x)}]

(* Every way from each instruction of the function to its end meets x.     *)
Ends(p, f) ==
  LET c == ConnectionsIn(Paths(p, f, NoPC))
  IN \A i \in Body(p, f) : c[i, ExitBlock]

StrictlyPostDominates(p, x, pc) ==
  /\ x # pc
  /\ x = ExitBlock \/ ~ConnectionsIn(Paths(p, pc, x))[pc, ExitBlock]

NearestPostDominator(p, pc) ==
  LET sure == {x \in Body(p, pc) \cup {ExitBlock} : StrictlyPostDominates(p, x, pc)}
  IN CHOOSE x \in sure :
       \A y \in sure \ {x, ExitBlock} : x # ExitBlock /\ StrictlyPostDominates(p, y, x)
=============================================================================

------------------------------ MODULE SimtStack ------------------------------
(***************************************************************************)
(* One warp on its SIMT stack (simt_stack in abstract_hardware_model.cc)   *)
(* with the threads it drives (ptx_thread_info): each step takes the top   *)
(* entry of the stack, lets its threads execute the instruction at its pc  *)
(* and sets the stack by where each of them goes next.  What a predicate   *)
(* is for a thread is data, and so any choice.  The points of              *)
(* reconvergence are those the analysis of ControlFlow finds.              *)
(***************************************************************************)
EXTENDS ControlFlow

CONSTANTS WarpSize,   \* threads of the warp
          Programs    \* the programs it may run; each starts at 1 with the kernel

(* Only the first function loaded starts at PC 0.  The rest is what the    *)
(* assertions of the loader and of the stack ask of a program:             *)
(* every instruction has a way to the end of its function (ptx_ir.cc:679), *)
(* and neither a call nor the return of a function is predicated.          *)
ProgramsAssumption ==
  \A p \in Programs :
    /\ p.zero \in {0} \cup p.starts
    /\ \A f \in p.starts : Ends(p, f)
    /\ \A i \in DOMAIN p.code :
         p.code[i].pred => \/ p.code[i].op \in {"bra", "exit"}
                           \/ p.code[i].op = "ret" /\ First(p, i) = 1
ASSUME ProgramsAssumption

Threads == 1..WarpSize

VARIABLES program,        \* the kernel and the functions it calls
          reconvergence,  \* reconvergence_pc of each instruction, set as it is decoded
          stack,          \* m_stack, the top last
          pc,             \* m_PC of each thread
          callstack,      \* m_callstack of each thread: where its calls return to
          done,           \* threads that have finished
          split           \* history: for each branch the warp split at, the
                          \* instruction its threads must meet at again
vars == <<program, reconvergence, stack, pc, callstack, done, split>>

Top  == Last(stack)
Live == Threads \ done
Inst == program.code[Top.pc]

Entry(at, mask, recvg, type) ==
  [pc |-> at, mask |-> mask, recvg |-> recvg, type |-> type]

(* launch(), by a full warp.  A kernel's own frame returns nowhere and     *)
(* keeps the m_PC of 0 it was made with; program.zero is the place loaded  *)
(* there, or 0 when the loader put none of this program at PC 0.           *)
Init ==
  /\ program \in Programs
  /\ reconvergence = [i \in DOMAIN program.code |-> ConvergePoint(program, i)]
  /\ stack = <<Entry(1, Threads, NoPC, "normal")>>
  /\ pc = [t \in Threads |-> 1]
  /\ callstack = [t \in Threads |-> <<program.zero>>]
  /\ done = {}
  /\ split = {}
-----------------------------------------------------------------------------
(* updateSIMTStack: the pc to reconverge at.  A branch whose threads meet  *)
(* only after the return takes the return pc of the first thread of the    *)
(* warp that is not done.                                                  *)
RecvgPC(i, frames, gone) ==
  IF reconvergence[i] = ReturnPC /\ Threads # gone
  THEN Last(frames[Min(Threads \ gone)])
  ELSE reconvergence[i]

(* The order the groups of threads are taken in: those that go on at the   *)
(* next instruction first, then by pc.                                     *)
PathOrder(groups, notTaken) ==
  SetToSortSeq(groups, LAMBDA x, y : \/ x = notTaken /\ y # notTaken
                                     \/ x < y /\ y # notTaken)

(* mutant: the top entry keeps the pc of the branch *)
DivergeM(order, mask, recvg) ==
  LET kept  == SelectSeq(order, LAMBDA p : p # Top.recvg \/ Top.type = "call")
      apart == Len(order) > 1 /\ kept # <<>>
      new   == IF apart THEN recvg ELSE Top.recvg
      keeps == apart /\ new # Top.recvg
      base  == IF keeps THEN Append(Front(stack), Top)
                        ELSE Front(stack)
      paths == SelectSeq(kept, LAMBDA p : ~(apart /\ p = new))
  IN base \o [k \in DOMAIN paths |->
                Entry(paths[k], mask[paths[k]], new,
                      IF k = 1 /\ ~keeps THEN Top.type ELSE "normal")]

(* simt_stack::update after an instruction that neither calls nor returns  *)
(* from a called function.  A group already at the point the top entry     *)
(* reconverges at needs no entry; where the groups part, the top becomes   *)
(* the entry they reconverge in, unless the one below is that already.     *)
Diverge(order, mask, recvg) ==
  LET kept  == SelectSeq(order, LAMBDA p : p # Top.recvg \/ Top.type = "call")
      apart == Len(order) > 1 /\ kept # <<>>
      new   == IF apart THEN recvg ELSE Top.recvg
      keeps == apart /\ new # Top.recvg
      base  == IF keeps THEN Append(Front(stack), [Top EXCEPT !.pc = new])
                        ELSE Front(stack)
      paths == SelectSeq(kept, LAMBDA p : ~(apart /\ p = new))
  IN base \o [k \in DOMAIN paths |->
                Entry(paths[k], mask[paths[k]], new,
                      IF k = 1 /\ ~keeps THEN Top.type ELSE "normal")]

(* ... after a call, which has one group.  The entry of the caller keeps   *)
(* the pc of the call.                                                     *)
EnterCall(order, mask) ==
  Append(stack, Entry(order[1], mask[order[1]], NoPC, "call"))

(* mutant: the caller stays at the call *)
LeaveCallStays(order) == Front(stack)

(* mutant: a caller that reconverges at the return pc is kept *)
LeaveCallKeeps(order) ==
  LET back == Front(stack)
  IN Append(Front(back), [Last(back) EXCEPT !.pc = order[1]])

(* ... after the return that ends a call: the caller goes on where the     *)
(* call returned to, or reconverges there.                                 *)
LeaveCall(order) ==
  LET back   == Front(stack)
      caller == [Last(back) EXCEPT !.pc = order[1]]
  IN IF caller.pc = caller.recvg /\ caller.type # "call"
     THEN Front(back)
     ELSE Append(Front(back), caller)

(* simt_stack::update                                                      *)
Update(i, next, gone, recvg) ==
  LET going  == Top.mask \ gone
      groups == {next[t] : t \in going}
      order  == PathOrder(groups, i + 1)
      mask   == [p \in groups |-> {t \in going : next[t] = p}]
  IN IF Inst.op = "call" /\ groups # {} THEN EnterCall(order, mask)
     ELSE IF Inst.op = "ret" /\ Top.type = "call" /\ groups # {} THEN LeaveCall(order)
     ELSE Diverge(order, mask, recvg)
-----------------------------------------------------------------------------
(* ptx_exec_inst: where a thread goes and what it leaves on its call       *)
(* stack, for each outcome of the predicate.                               *)
Executes(t, holds) == t \in Top.mask /\ holds[t]

NextPC(t, i, holds) ==
  IF t \notin Top.mask THEN pc[t]
  ELSE IF ~holds[t] THEN i + 1
  ELSE CASE Inst.op \in {"bra", "call"} -> Inst.to
         [] Inst.op = "ret"             -> Last(callstack[t])
         [] OTHER                       -> i + 1

NextFrames(t, i, holds) ==
  IF ~Executes(t, holds) THEN callstack[t]
  ELSE CASE Inst.op = "call" -> Append(callstack[t], i + 1)
         [] Inst.op = "ret"  -> Front(callstack[t])
         [] OTHER            -> callstack[t]

(* exit, and a return from the kernel itself.                              *)
Finishes(t, holds) ==
  /\ Executes(t, holds)
  /\ \/ Inst.op = "exit"
     \/ Inst.op = "ret" /\ Len(callstack[t]) = 1

(* History: the threads a branch at i parts, and where they must meet; in  *)
(* the kernel itself that may be nowhere.                                  *)
Parted(i, next, gone) ==
  LET going  == Top.mask \ gone
      at     == NearestPostDominator(program, i)
      frames == callstack[Min(going)]
  IN IF \/ Cardinality({next[t] : t \in going}) < 2
        \/ at = ExitBlock /\ Len(frames) = 1
     THEN {}
     ELSE {[who |-> going, at |-> IF at = ExitBlock THEN Last(frames) ELSE at]}

(* What ptx_exec_inst asserts of every thread it is called for.            *)
InStep == \A t \in Top.mask : t \notin done /\ pc[t] = Top.pc

(* getExecuteWarp, execute_warp_inst_t and updateSIMTStack for one         *)
(* instruction with opcode op.                                             *)
Issue(op) ==
  /\ Live # {}
  /\ InStep
  /\ Inst.op = op
  /\ \E holds \in [Threads -> BOOLEAN] :
       LET i    == Top.pc
           next == [t \in Threads |-> NextPC(t, i, holds)]
           gone == done \cup {t \in Threads : Finishes(t, holds)}
           frames == [t \in Threads |-> NextFrames(t, i, holds)]
       IN /\ \A t \in Threads : ~holds[t] => t \in Top.mask /\ Inst.pred
          /\ pc' = next
          /\ callstack' = frames
          /\ done' = gone
          /\ stack' = Update(i, next, gone, RecvgPC(i, frames, gone))
          /\ split' = {s \in split : ~(s.at = i /\ s.who \cap Top.mask # {})}
                      \cup Parted(i, next, gone)
  /\ UNCHANGED <<program, reconvergence>>

Plain  == Issue("op")
Branch == Issue("bra")
Call   == Issue("call")
Return == Issue("ret")
Exit   == Issue("exit")

(* Every thread has finished: the warp is not issued again.                *)
Finished == Live = {} /\ UNCHANGED vars

(* An assertion of ptx_exec_inst fails, and the program stops there.       *)
Aborted == Live # {} /\ ~InStep /\ UNCHANGED vars

Next == Plain \/ Branch \/ Call \/ Return \/ Exit \/ Finished \/ Aborted

Spec == Init /\ [][Next]_vars
-----------------------------------------------------------------------------
TypeOK ==
  /\ pc \in [Threads -> 0 .. Len(program.code) + 1]
  /\ done \subseteq Threads
  /\ \A k \in DOMAIN stack :
       /\ stack[k].mask \in SUBSET Threads \ {{}}
       /\ stack[k].pc \in 0 .. Len(program.code)
       /\ stack[k].recvg \in {NoPC} \cup 0 .. Len(program.code)
       /\ stack[k].type \in {"normal", "call"}

(* The threads the warp is about to execute an instruction for are at that *)
(* instruction, and none of them has finished (the assertions at           *)
(* cuda-sim.cc:1196 and 1205: "make sure timing model and functional model *)
(* are in sync").  The code breaks it where a kernel loops back to PC 0.   *)
InSync == Live # {} => stack # <<>> /\ InStep

(* Some branch goes back to PC 0, and threads that part at another have    *)
(* the PC 0 of the kernel's frame to meet at.                              *)
LoopsToZero ==
  /\ \E i \in DOMAIN program.code :
       program.code[i].op = "bra" /\ program.code[i].to = program.zero
  /\ \E i \in DOMAIN program.code : reconvergence[i] = ReturnPC

(* In all other programs, those with an instruction at PC 0 included, the  *)
(* stack and the threads stay in step over divergence, calls, returns and  *)
(* early exits (the same assertions).                                      *)
InSyncElsewhere == LoopsToZero \/ InSync

(* No thread is lost or found in two places: a live thread waits where the *)
(* highest entry that holds it says, entries hold sets that are nested or  *)
(* disjoint, and under each entry lies one that all its threads came from. *)
StackMirrorsThreads ==
  /\ \A t \in Live :
       LET held == {k \in DOMAIN stack : t \in stack[k].mask}
       IN held # {} /\ stack[Max(held)].pc = pc[t]
  /\ \A j, k \in DOMAIN stack : j < k =>
       stack[k].mask \subseteq stack[j].mask \/ stack[k].mask \cap stack[j].mask = {}

(* Types, and a stack that mirrors where the threads are.                  *)
StackSound == TypeOK /\ StackMirrorsThreads

(* Threads that part at a branch execute its nearest common instruction    *)
(* together, all of them that have not finished: none runs ahead alone     *)
(* (simt_stack::update "that automatically reconverges the entry").        *)
ReconvergeTogether ==
  Live # {} => \A s \in split :
    s.at = Top.pc /\ s.who \cap Top.mask # {} => s.who \ done \subseteq Top.mask

(* The analysis by blocks finds for every branch the nearest instruction   *)
(* that lies on all ways from it to the end of the function, and none only *)
(* when there is none (ptx_ir.cc:677: "if the above assert fails we have   *)
(* an error in either postdominator computation ...").                     *)
PostDominatorsRight ==
  stack = <<Entry(1, Threads, NoPC, "normal")>> =>
    \A i \in DOMAIN program.code : program.code[i].op = "bra" =>
      LET found == ImmediatePostDominators(program, BlockOf(program, i))
      IN found = {NearestPostDominator(program, i)}
=============================================================================

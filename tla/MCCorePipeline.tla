---------------------------- MODULE MCCorePipeline ----------------------------
EXTENDS CorePipeline

\* Instructions: arithmetic, special function, load, store and control.
Ins(op, out, src, lat, ii) ==
  [op |-> op, out |-> out, src |-> src, lat |-> lat, ii |-> ii, space |-> "none", n |-> 0, target |-> 0]
Mem(op, space, out, src, n) == [Ins(op, out, src, 1, 1) EXCEPT !.space = space, !.n = n]
Bra(target) == [Ins("bra", <<>>, <<2>>, 1, 1) EXCEPT !.target = target]
Exit == Ins("exit", <<>>, <<>>, 1, 1)

\* A loop behind a load, with a barrier after it.
Loop == << Mem("load", "global", <<1>>, <<3>>, 1),
           Ins("alu", <<2>>, <<1, 3>>, 2, 1),
           Bra(2),
           Ins("bar", <<>>, <<>>, 1, 1),
           Exit >>
\* A load of two accesses into two registers, its two readers, of SP and SFU, which
\* finish together, a memory barrier and a store.
Accesses == << Mem("load", "local", <<1, 2>>, <<3>>, 2),
               Ins("alu", <<4>>, <<1, 3>>, 2, 1),
               Ins("sfu", <<3>>, <<2>>, 2, 2),
               Ins("membar", <<>>, <<>>, 1, 1),
               Mem("store", "global", <<>>, <<3, 4>>, 1),
               Exit >>
\* Shared memory and a load of no thread beside arithmetic of different latencies.
OnChip == << Mem("load", "shared", <<1>>, <<3>>, 1),
             Mem("load", "global", <<2>>, <<3>>, 0),
             Ins("sfu", <<4>>, <<3, 3>>, 3, 1),
             Ins("alu", <<5>>, <<3>>, 2, 1),
             Ins("alu", <<3>>, <<1, 2>>, 1, 1),
             Exit >>

Setup(p, n, k) ==  \* warp 1 was launched first
  [policy |-> p, scheds |-> n, kernel |-> k, dyn |-> [w \in Warps |-> NumWarps - 1 - w]]
MCSetups == {Setup(p, 1, Loop) : p \in {"lrr", "gto", "two_level", "swl", "gcaws"}}
            \cup {Setup("swl", 1, Accesses), Setup("caws", 2, OnChip)}
MCDepth == [sp |-> 2, sfu |-> 3]
===============================================================================

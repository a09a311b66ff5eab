----------------------------- MODULE MCSimtStack -----------------------------
(* Programs for SimtStack: those of the shapes a compiler makes and all    *)
(* small flow graphs.                                                      *)
EXTENDS SimtStack

Op        == [op |-> "op", pred |-> FALSE, to |-> 0]
Bra(to)   == [op |-> "bra", pred |-> FALSE, to |-> to]
BraIf(to) == [op |-> "bra", pred |-> TRUE, to |-> to]
CallTo(f) == [op |-> "call", pred |-> FALSE, to |-> f]
Ret       == [op |-> "ret", pred |-> FALSE, to |-> 0]
RetIf     == [Ret EXCEPT !.pred = TRUE]
Quit      == [op |-> "exit", pred |-> FALSE, to |-> 0]
QuitIf    == [Quit EXCEPT !.pred = TRUE]

(* A program loaded after another one, so that it has nothing at PC 0.    *)
Code(starts, code) == [code |-> code, starts |-> starts, zero |-> 0]

Shapes ==
  { (* a conditional in a loop with a break *)
    Code({1}, <<BraIf(6), BraIf(5), BraIf(7), Op, Bra(1), Op, Quit>>),
    (* nested loops *)
    Code({1}, <<Op, Op, BraIf(2), BraIf(1), Ret>>),
    (* a nested conditional, one arm of which leaves the kernel *)
    Code({1}, <<BraIf(6), BraIf(4), Ret, Op, Bra(7), QuitIf, Quit>>),
    (* arms that share code, as a shortcut condition makes them *)
    Code({1}, <<BraIf(4), BraIf(4), Bra(5), Op, RetIf, BraIf(1), Ret>>),
    (* calls on one side of a branch and in a loop, one call within another *)
    Code({1, 6, 10}, <<BraIf(3), CallTo(6), CallTo(10), BraIf(1), Quit,
                       BraIf(8), CallTo(10), Op, Ret, BraIf(12), Op, Ret>>),
    (* the call is the last thing before the arms meet *)
    Code({1, 5}, <<BraIf(4), BraIf(4), CallTo(5), Ret, BraIf(5), Ret>>),
    (* a function that returns from two places, called by all together *)
    Code({1, 5}, <<CallTo(5), BraIf(4), Op, Quit, BraIf(7), Ret, Op, Ret>>) }

(* All graphs of four instructions that end in an exit and that every     *)
(* instruction has a way out of.                                          *)
Small ==
  LET mid == {Op, Quit, QuitIf} \cup {Bra(i) : i \in 1..4} \cup {BraIf(i) : i \in 1..4}
      all == {Code({1}, c \o <<Quit>>) : c \in [1..3 -> mid]}
  IN {p \in all : Ends(p, 1)}

(* ... with each of its functions loaded first in turn, or none of them.  *)
Placed(p) == {[p EXCEPT !.zero = z] : z \in {0} \cup p.starts}

Kernels == UNION {Placed(p) : p \in Shapes \cup Small}

(* A kernel loaded first, with a loop to its start and two ways out.      *)
LoadedFirst == {[Code({1}, <<BraIf(4), BraIf(1), Quit, Quit>>) EXCEPT !.zero = 1]}

(* A function that returns from two places, called where threads have     *)
(* parted.                                                                *)
ReturnsApart == {Code({1, 4}, <<BraIf(3), CallTo(4), Quit, BraIf(6), Ret, Ret>>)}
=============================================================================

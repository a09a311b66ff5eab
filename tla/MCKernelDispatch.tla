-------------------------- MODULE MCKernelDispatch --------------------------
(* Instances of KernelDispatch for TLC.                                    *)
EXTENDS KernelDispatch

\* A kernel that puts two CTAs on a core and leaves the other cores short of
\* one, beside one whose CTA fills a core with a warp and a half.
TwoGrids   == <<5, 1>>
TwoBlocks  == <<1, 3>>
TwoLimits  == <<2, 2>>
=============================================================================

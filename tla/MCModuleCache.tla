--------------------------- MODULE MCModuleCache ---------------------------
(* A small instance of ModuleCache: one tag, which names the first commit. *)
EXTENDS ModuleCache, TLC

CONSTANTS p1, p2, f1, f2, t1

MCProc == {p1, p2}
MCFile == {f1}
MCTwoFiles == {f1, f2}
MCTag == {t1}
MCTagCommit == [t \in MCTag |-> 1]
MCSymmetry == Permutations(MCProc)
============================================================================

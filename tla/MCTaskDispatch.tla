--------------------------- MODULE MCTaskDispatch ---------------------------
(* TLC instances of TaskDispatch. *)
EXTENDS TaskDispatch, TLC
CONSTANTS m, w, c1, c2

MCNodes == {m, w}
MCOneNode == {m}
MCCalls == {c1, c2}
MCOneCall == {c1}

\* The handlers of the server are interchangeable.
CallSymmetry == Permutations(MCCalls)
=============================================================================

-------------------------- MODULE MCToolOwnership --------------------------
(***************************************************************************)
(* Instances of ToolOwnership: one ordinary tool, and the name for missing *)
(* capabilities, which a real tool may take.                               *)
(***************************************************************************)
EXTENDS ToolOwnership, TLC

CONSTANTS t, more

\* Both tools on one page; and a page without the name for missing capabilities,
\* on which the virtual tool is injected though the server may have a real one.
OnePage  == { {more, t} }
TwoPages == { {more, t}, {t} }

Plain == [input |-> {}, inputSafe |-> TRUE, outputSafe |-> TRUE]
Owned == [input |-> {"context"}, inputSafe |-> TRUE, outputSafe |-> FALSE]
Unsafe == [input |-> {"conversation_id"}, inputSafe |-> FALSE, outputSafe |-> FALSE]

AllKinds == {Plain, Owned, Unsafe}
TwoKinds == {Plain, Owned}

Symmetry == Permutations(Listings) \cup Permutations(Calls)
=============================================================================

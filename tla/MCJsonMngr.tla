----------------------------- MODULE MCJsonMngr -----------------------------
(* Constants of the model-checking runs of JsonMngr.                       *)
EXTENDS JsonMngr, TLC

\* Allocations are interchangeable.  (Member names are numbers in the .cfg:
\* TLC has to compare them with the positions that index array items.)
Interchangeable == Permutations(Value)

=============================================================================

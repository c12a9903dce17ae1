------------------------- MODULE MCCprSessionCache -------------------------
(* Model-checking instances of CprSessionCache. *)
EXTENDS CprSessionCache, TLC

\* Curl handles are interchangeable addresses, worker threads run one program.
Symmetry == Permutations(CurlHandle) \cup Permutations(Worker)
=============================================================================

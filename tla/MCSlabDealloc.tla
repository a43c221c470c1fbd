--------------------------- MODULE MCSlabDealloc ---------------------------
(* Instances of SlabDealloc for TLC. *)
EXTENDS SlabDealloc, TLC

\* The workers are interchangeable; used where no liveness property is checked.
WorkerSymmetry == Permutations(Workers)
=============================================================================

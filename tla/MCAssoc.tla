------------------------------ MODULE MCAssoc ------------------------------
(* Instances of Assoc for TLC: a table of four buckets and two item locks. *)
EXTENDS Assoc

\* Keys are named by their hash values: 0 and 4 share a bucket of the small table,
\* 1 has another item lock.
MCHash == [k \in Keys |-> k]
=============================================================================

----------------------------- MODULE LowerBound -----------------------------
(***************************************************************************)
(* The binary search of memcached-dyn/slabs.c (my_lower_bound) with which  *)
(* set_slab_active finds the page of an item in the sorted page list of    *)
(* its slab class.  Addresses are naturals.  Indices are those of C: they  *)
(* start at 0, and first[index] of the code is first[index + 1] here.      *)
(***************************************************************************)
EXTENDS Integers, Sequences

\* A hit moves base onto index and not past it, while count leaves index out.
MyLowerBound(value, first) ==
  LET num == Len(first)
      search[count \in 0..num] == [base \in 0..num |->
        LET step  == count \div 2
            index == base + step
        IN  IF count = 0 THEN base
            ELSE IF first[index + 1] = value THEN index
            ELSE IF first[index + 1] < value
                 THEN search[count - (step + 1)][index]
                 ELSE search[step][base]]
  IN  search[num][0]
=============================================================================

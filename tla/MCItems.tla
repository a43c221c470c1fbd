------------------------------ MODULE MCItems ------------------------------
(* Instances of Items for TLC: workers and chunks are interchangeable, and so are keys. *)
EXTENDS Items, TLC

Values == {1, Empty}

Setting(maintainer, crawler) == [lru_maintainer_thread |-> maintainer, lru_crawler |-> crawler]

Alternatives == {Setting(TRUE, FALSE), Setting(FALSE, TRUE)}

Symmetry == Permutations(Workers) \cup Permutations(Chunks) \cup Permutations(Keys)
=============================================================================

----------------------------- MODULE ItemTable -----------------------------
(***************************************************************************)
(* What the hash table of memcached-dyn promises to the threads that use   *)
(* it: requests for one key exclude each other, a find answers whether the *)
(* item is linked at that moment, an item is inserted only if it is not    *)
(* there, and deleted only if it is.  Buckets, expansion and the pause of  *)
(* the threads do not show.                                                *)
(***************************************************************************)
CONSTANTS
  Threads,   \* threads that use the table
  Keys,      \* keys of items
  NoKey,     \* the key of a thread that asks for none
  Resident   \* keys linked at the start

VARIABLES
  items,     \* the keys of the linked items
  key,       \* the key a thread works on
  answer     \* what the last find of a thread told it

tableVars == <<items, key, answer>>

Init ==
  /\ items = Resident
  /\ key = [t \in Threads |-> NoKey]
  /\ answer = [t \in Threads |-> "none"]

Begin(t, k) ==
  /\ key[t] = NoKey
  /\ \A u \in Threads : key[u] # k
  /\ key' = [key EXCEPT ![t] = k]
  /\ UNCHANGED <<items, answer>>

Find(t) ==
  /\ key[t] # NoKey
  /\ answer' = [answer EXCEPT ![t] = IF key[t] \in items THEN "hit" ELSE "miss"]
  /\ UNCHANGED <<items, key>>

Insert(t) ==
  /\ key[t] # NoKey /\ key[t] \notin items
  /\ items' = items \cup {key[t]}
  /\ UNCHANGED <<key, answer>>

Delete(t) ==
  /\ key[t] # NoKey /\ key[t] \in items
  /\ items' = items \ {key[t]}
  /\ UNCHANGED <<key, answer>>

End(t) ==
  /\ key[t] # NoKey
  /\ key' = [key EXCEPT ![t] = NoKey]
  /\ answer' = [answer EXCEPT ![t] = "none"]
  /\ UNCHANGED items

Next ==
  \E t \in Threads :
    (\E k \in Keys : Begin(t, k)) \/ Find(t) \/ Insert(t) \/ Delete(t) \/ End(t)

Spec == Init /\ [][Next]_tableVars
=============================================================================

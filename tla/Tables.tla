------------------------------- MODULE Tables -------------------------------
(***************************************************************************)
(* The maps and trees in which the realms keep what they store by key:     *)
(* functions whose domain grows.                                           *)
(***************************************************************************)

\* A table with one entry.
Single(key, value) == [k \in {key} |-> value]

\* The entry is added, or replaced.
Put(table, key, value) ==
    [k \in DOMAIN table \cup {key} |-> IF k = key THEN value ELSE table[k]]

=============================================================================

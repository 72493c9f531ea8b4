--------------------------- MODULE MCCoreHandshake ---------------------------
(* Instances of CoreHandshake for TLC. *)
EXTENDS CoreHandshake

\* Client 1 exists on both chains.
OneClient == [c \in {A, B} |-> {1}]

\* One application on each chain, under different ports.
OneApp == [c \in {A, B} |-> IF c = A THEN {"p"} ELSE {"q"}]

\* One channel end on each chain.
OneEach == [c \in {A, B} |-> 1]

\* One end on A and two on B: any number of ends may answer one Init.
TwoTries == [c \in {A, B} |-> IF c = A THEN 1 ELSE 2]

=============================================================================

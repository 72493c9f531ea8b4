--------------------------- MODULE MCZkgmForward ----------------------------
EXTENDS ZkgmForward, TLC

End2(chain, id) == [chain |-> chain, id |-> id, open |-> TRUE, ours |-> TRUE]

\* A line of four chains.  The third channel of M is not open, that of N is
\* another application's.
Line ==
    [A |-> <<End2("M", 1)>>,
     M |-> <<End2("A", 1), End2("N", 1), [End2("N", 3) EXCEPT !.open = FALSE]>>,
     N |-> <<End2("M", 2), End2("C", 1), [End2("M", 3) EXCEPT !.ours = FALSE]>>,
     C |-> <<End2("N", 2)>>]

Registered == [c \in {"A", "M", "N", "C"} |-> {"app"}]

Call(receiver) == [op |-> "call", receiver |-> receiver]

Forward(path, instruction) ==
    [op |-> "forward", path |-> Digits(path), timeout |-> 9, instruction |-> instruction]

\* To the end of the line, to its middle and back; ways that end early: in a
\* channel that is closed, or not ours, in half a hop, in a gap, from a channel
\* the packet did not come through, and back along it.
Ways == {<<1, 2, 1, 2>>, <<1, 2>>, <<1, 1>>,
         <<1, 3>>, <<1, 2, 1, 3>>, <<1, 2, 1>>, <<1, 2, 0, 2>>, <<2, 1>>, <<1, 2, 1, 1>>}

MCInstructions ==
    {Forward(way, Call("app")) : way \in Ways}
    \cup {Forward(<<1, 2>>, [op |-> "batch", calls |-> <<Call("app"), Call("ghost")>>]),
          Call("ghost")}

=============================================================================

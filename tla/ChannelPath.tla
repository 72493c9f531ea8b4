---------------------------- MODULE ChannelPath -----------------------------
(***************************************************************************)
(* Channel paths (zkgm/path.gno): a number whose digits, from the lowest   *)
(* on, are the channels a packet went through.  SlotBase is 2^32 and       *)
(* MaxHops 8 in the code.                                                  *)
(***************************************************************************)
EXTENDS Integers, Sequences

CONSTANTS SlotBase, MaxHops

ASSUME PathAssumption == SlotBase \in Nat /\ SlotBase >= 2 /\ MaxHops \in Nat \ {0}

\* The result when a path is full or has a gap.
NoPath == -1

\* What a channel is shifted by into slot n.
Power[n \in Nat] == IF n = 0 THEN 1 ELSE Power[n - 1] * SlotBase

\* Mutant: a last slot that is not filled to its highest digit does not count.
HopCountOfFullSlots(path) ==
    CHOOSE n \in 0..MaxHops : /\ path < Power[n + 1]
                              /\ n = 0 \/ path >= Power[n]

\* The slots below the highest one that is occupied, and this one.
HopCount(path) ==
    CHOOSE n \in 0..MaxHops : /\ path < Power[n]
                              /\ n = 0 \/ path >= Power[n - 1]

GetChannelFromPath(path, index) == (path \div Power[index]) % SlotBase

MakePathFromChannel(channel, index) == channel * Power[index]

\* The lowest slot, 0 if there is none, and the path above it.
DequeueChannelFromPath(path) == [path |-> path \div SlotBase, channel |-> path % SlotBase]

\* The highest slot, 0 if there is none, and the path below it.
PopChannelFromPath(path) ==
    IF path = 0 THEN [path |-> 0, channel |-> 0]
    ELSE LET top == HopCount(path) - 1
         IN [path |-> path % Power[top], channel |-> GetChannelFromPath(path, top)]

UpdateChannelPath(path, channel) ==
    IF path = 0 THEN channel
    ELSE IF HopCount(path) >= MaxHops THEN NoPath
    ELSE path + MakePathFromChannel(channel, HopCount(path))

IsCanonicalPath(path) ==
    \A i \in 0..(HopCount(path) - 1) : GetChannelFromPath(path, i) # 0

ReverseChannelPath(path) ==
    LET step[n \in 0..MaxHops] ==
          IF n = 0 THEN [rest |-> path, reversed |-> 0]
          ELSE LET s == step[n - 1]
                   popped == PopChannelFromPath(s.rest)
               IN [rest |-> popped.path,
                   reversed |-> IF popped.channel = 0 THEN s.reversed
                                ELSE UpdateChannelPath(s.reversed, popped.channel)]
    IN IF ~IsCanonicalPath(path) THEN NoPath ELSE step[MaxHops].reversed

=============================================================================

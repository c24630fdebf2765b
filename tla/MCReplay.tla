------------------------------ MODULE MCReplay ------------------------------
(* Finite values for the constants of Replay.                              *)
EXTENDS Replay

Shape(o, h, l, c) == [stamp |-> 0, open |-> o, high |-> h, low |-> l, close |-> c]

\* Nothing moves; a fall that stays, one that was there at the open already, and a bar
\* that touches stops and targets both.
MCShapes == { Shape(100, 100, 100, 100), Shape(100, 100, 80, 80),
              Shape(80, 80, 80, 80), Shape(100, 130, 80, 100) }

\* Fifteen bars without a gap, then one after it: two windows that can be replayed
\* and one with too few bars.
MCStamps == (1..15) \cup {20}

MCSignals == { Signal("enter_long", 500), Signal("enter_short", 500),
               Signal("scale_in", 300), Signal("reduce", 200), Signal("exit", 0) }

Ladder == <<[price |-> 120, half |-> TRUE], [price |-> 130, half |-> FALSE]>>
Long  == OpenAction("LONG", 4, 90, Ladder)
Short == OpenAction("SHORT", 2, 120, <<[price |-> 80, half |-> FALSE]>>)
Bare  == OpenAction("LONG", 2, 85, <<>>)

MCPlainLists ==
  { <<>>, <<Long>>, <<Short, Bare>>, <<Long, Long>>, <<OnPosition("scale", 1, 2)>>,
    <<OnPosition("reduce", 1, 3), OnPosition("close", 2, 0)>> }
=============================================================================

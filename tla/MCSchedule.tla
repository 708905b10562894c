----------------------------- MODULE MCSchedule -----------------------------
(***************************************************************************)
(* Instances of Schedule for TLC.  Rounds are at even times.               *)
(***************************************************************************)
EXTENDS Schedule, TLC

CONSTANTS t1, s1, p1, p2

OnceOff(time, duration) ==
    [first |-> time, period |-> 0, duration |-> duration,
     exdates |-> {}, rdates |-> {}]
Periodic(time, period, duration) ==
    [first |-> time, period |-> period, duration |-> duration,
     exdates |-> {}, rdates |-> {}]

\* No start falls on a round.
OddDefs == {OnceOff(5, 0), OnceOff(3, 3), Periodic(3, 6, 0), Periodic(3, 6, 2)}

\* A start may fall on a round.
EvenDefs == {OnceOff(4, 0)}

StarterSymmetry == Permutations(Starter)
=============================================================================

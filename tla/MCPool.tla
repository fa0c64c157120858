------------------------------- MODULE MCPool -------------------------------
(* Instances of Pool.                                                      *)
EXTENDS Pool

EqualSizes == [n \in 1..NImages |-> 1]

\* Bound: a format that takes temporary files for pictures is followed to its end, and a
\* third format, which begins when there is none, up to the first that stays.
Followed ==
    /\ stray => run.kind = "format"
    /\ Len(pools) = 3 => \A x \in Present : x[2] = 0 \/ (Writing /\ x = Temp(Target))
=============================================================================

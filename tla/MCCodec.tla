------------------------------ MODULE MCCodec ------------------------------
(* Pictures of eight slots, bytes of two bits and headers of two bytes: a   *)
(* PNG of two pixels, and a JPEG of two blocks whose first coefficients may *)
(* be usable or not.                                                        *)
EXTENDS Codec

Reversed == [n \in 0..NSlots |-> [k \in 0..n - 1 |-> n - 1 - k]]
Rotated  == [n \in 0..NSlots |-> [k \in 0..n - 1 |-> (k + 1) % n]]
TwoOrders == [key \in Keys |-> IF key = "k1" THEN Reversed ELSE Rotated]

Png  == [kind |-> "png", image |-> [s \in Slots |-> (5 * s + 2) % 8]]
Jpegs == {[kind  |-> "jpeg",
           image |-> [s \in Slots |-> CASE s = 1 -> a [] s = 2 -> b [] s = 5 -> c
                                        [] s = 6 -> -4 [] s % 4 = 0 -> 6 [] OTHER -> 3]] :
              a, b, c \in {-3, 1}}

AllPictures == {Png} \cup Jpegs
=============================================================================

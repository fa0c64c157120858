---------------------------- MODULE MCDirectory ----------------------------
(* Instances of Directory.  Lengths are those of names of 1 to 8 bytes:    *)
(* 12 bytes of header and the name, in units of 4 bytes.                   *)
EXTENDS Directory

MixedNames == {"a", "b", "long"}
MixedNeed  == [n \in MixedNames \cup {".", ".."} |-> IF n = "long" THEN 5 ELSE 4]

EqualNames == {"a", "b", "c", "d"}
EqualNeed  == [n \in EqualNames \cup {".", ".."} |-> 4]
=============================================================================

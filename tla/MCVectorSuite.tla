--------------------------- MODULE MCVectorSuite ---------------------------
(* The vector suite for TLC: bytes at the limits of the ranges the header   *)
(* is checked for, and in a payload those that lengths, flags and           *)
(* enumerations react to.  The last byte of a number of four bytes stays    *)
(* below 128, since TLC's integers end at 2^31 - 1.                         *)
EXTENDS VectorSuite

MCProbes == ({1, 2, 3, 5, 6, 7, 8} \X {0, 1, 2, 9, 15, 17, 18, 47, 48, 128, 255})
            \cup (({4} \cup 9..18) \X {0, 1, 4, 5, 127})

==============================================================================

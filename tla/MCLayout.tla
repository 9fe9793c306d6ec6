-------------------------------- MODULE MCLayout --------------------------------
(* Layout with 3-bit integers: i32 is -4..3, u32 is 0..7. *)
EXTENDS Layout

\* A real screen, one as wide as i32 is negative, and one without a pixel.
MCScreens == {[width |-> 2, height |-> 3], [width |-> 4, height |-> 1],
              [width |-> 1, height |-> 0]}
MCOffsets == {-4, 1}
===============================================================================

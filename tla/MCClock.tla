------------------------------- MODULE MCClock -------------------------------
(* Moments before something turns over.                                     *)
EXTENDS Clock

H24(b) == [binary |-> b, hours24 |-> TRUE]
H12(b) == [binary |-> b, hours24 |-> FALSE]

MCStarts ==
    {<<2023, 12, 31, 23, 59, 58>>, <<2024, 2, 28, 23, 59, 58>>, <<2024, 2, 29, 23, 59, 58>>,
     <<2025, 2, 28, 23, 59, 58>>, <<2029, 9, 9, 9, 59, 58>>, <<2099, 12, 31, 23, 59, 58>>}
        \X {H24(TRUE), H24(FALSE)}
    \cup {<<2024, 6, 30, 10, 59, 58>>, <<2024, 6, 30, 12 + 9, 59, 58>>}
        \X {H12(TRUE), H12(FALSE)}
=============================================================================

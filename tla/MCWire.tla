------------------------------- MODULE MCWire -------------------------------
(* Lengths of two binary digits: names of up to three characters fit.  Of   *)
(* the files one fits and one is empty; one name has a character of two     *)
(* bytes, one a double space, and one is too long.                          *)
EXTENDS Wire

File(chars, bytes, content) ==
    [chars |-> chars, bytes |-> bytes, content |-> content]

MCFiles == {File(3, 3, 3), File(1, 1, 0), File(2, 3, 2), File(3, 2, 2), File(4, 4, 2)}

=============================================================================

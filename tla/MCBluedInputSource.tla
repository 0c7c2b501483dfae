------------------------- MODULE MCBluedInputSource --------------------------
(***************************************************************************)
(* Instances of BluedInputSource for TLC: all locations of up to two files *)
(* of up to MaxLines lines.                                                *)
(***************************************************************************)
EXTENDS BluedInputSource

CONSTANT MaxLines

FileWith(lines, newline, continues) ==
  [lines |-> lines, header |-> TRUE, newline |-> newline,
   continues |-> continues]

Unreadable ==
  [lines |-> 0, header |-> FALSE, newline |-> TRUE, continues |-> TRUE]

Files ==
  {FileWith(lines, newline, continues) :
     lines \in 0..MaxLines, newline \in BOOLEAN, continues \in BOOLEAN}
  \union {Unreadable}

Locations == UNION {[1..n -> Files] : n \in 0..2}
==============================================================================

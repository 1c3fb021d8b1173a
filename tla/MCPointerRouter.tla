--------------------------- MODULE MCPointerRouter ---------------------------
(* PointerRouter with integers -5 .. 4, so that the router's pointer meets
   saturation, on two screens, one with a negative origin.  The left and
   bottom edges are bound (bottom twice: the first binding counts), right and
   top are not.  MCOneScreen keeps a layout change out of a run. *)
EXTENDS PointerRouter

CONSTANTS p1, p2

MCIntMin == -5
MCIntMax == 4

MCBindings ==
    <<[edge |-> "Left", peer |-> p1, remoteEdge |-> "Right"],
      [edge |-> "Bottom", peer |-> p2, remoteEdge |-> "Top"],
      [edge |-> "Bottom", peer |-> p1, remoteEdge |-> "Left"]>>

MCScreens ==
    {[left |-> 0, top |-> 0, width |-> 3, height |-> 2],
     [left |-> -1, top |-> 0, width |-> 2, height |-> 2]}

MCOneScreen == {[left |-> 0, top |-> 0, width |-> 3, height |-> 2]}

MCDeltas == {-5, -4, -1, 0, 1, 4}

=============================================================================

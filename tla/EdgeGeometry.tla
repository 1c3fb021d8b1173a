---------------------------- MODULE EdgeGeometry ----------------------------
(***************************************************************************)
(* The screen-edge geometry of akraz-core: rectangles in saturating i32    *)
(* arithmetic and detect_edge_crossing.  Widths of integers are constants, *)
(* so that TLC meets saturation on a small grid.                           *)
(***************************************************************************)
EXTENDS Integers, Sequences, FiniteSetsExt

CONSTANTS IntMin, IntMax,   \* the bounds of i32
          NoEdge            \* None: no edge, binding, crossing, or peer of a crossing

ASSUME IntAssumption ==
    /\ IntMin \in Int
    /\ IntMax \in Int
    /\ IntMin < 0 /\ 0 < IntMax

I32 == IntMin .. IntMax

(* saturating_add and saturating_sub of the exact sum or difference v *)
Saturate(v) == IF v > IntMax THEN IntMax ELSE IF v < IntMin THEN IntMin ELSE v

LogicalPoint == [x : I32, y : I32]
LogicalRect  == [left : I32, top : I32, width : I32, height : I32]

Right(b)  == Saturate(b.left + b.width)
Bottom(b) == Saturate(b.top + b.height)

IsValid(b) == b.width > 0 /\ b.height > 0

Inside(b, p) ==
    /\ IsValid(b)
    /\ b.left <= p.x /\ p.x < Right(b)
    /\ b.top <= p.y /\ p.y < Bottom(b)

(* i32::clamp, which panics unless lo <= hi *)
Clamp(v, lo, hi) == IF v < lo THEN lo ELSE IF v > hi THEN hi ELSE v

ClampX(b, x) == IF IsValid(b) THEN Clamp(x, b.left, Saturate(Right(b) - 1)) ELSE b.left
ClampY(b, y) == IF IsValid(b) THEN Clamp(y, b.top, Saturate(Bottom(b) - 1)) ELSE b.top

----
ScreenEdge == {"Left", "Right", "Top", "Bottom"}

ASSUME EdgeAssumption == NoEdge \notin ScreenEdge

(* crossed_edge looks at the edges in this order, and keeps the earlier of
   two equal overshoots. *)
EdgeRank == [Left |-> 1, Right |-> 2, Top |-> 3, Bottom |-> 4]

Crossed(prev, next, b) ==
    {e \in ScreenEdge :
        CASE e = "Left"   -> prev.x >= b.left /\ next.x < b.left
          [] e = "Right"  -> prev.x < Right(b) /\ next.x >= Right(b)
          [] e = "Top"    -> prev.y >= b.top /\ next.y < b.top
          [] e = "Bottom" -> prev.y < Bottom(b) /\ next.y >= Bottom(b)}

(* Mutant: the overshoot past the exclusive right edge is measured from it. *)
OvershootExclusive(e, next, b) ==
    CASE e = "Left"   -> Saturate(b.left - next.x)
      [] e = "Right"  -> Saturate(next.x - Right(b))
      [] e = "Top"    -> Saturate(b.top - next.y)
      [] e = "Bottom" -> Saturate(next.y - Bottom(b))

Overshoot(e, next, b) ==
    CASE e = "Left"   -> Saturate(b.left - next.x)
      [] e = "Right"  -> Saturate(next.x - Saturate(Right(b) - 1))
      [] e = "Top"    -> Saturate(b.top - next.y)
      [] e = "Bottom" -> Saturate(next.y - Saturate(Bottom(b) - 1))

(* e is selected over f. *)
Preferred(e, f, next, b) ==
    \/ Overshoot(e, next, b) > Overshoot(f, next, b)
    \/ Overshoot(e, next, b) = Overshoot(f, next, b) /\ EdgeRank[e] <= EdgeRank[f]

CrossedEdge(prev, next, b) ==
    LET crossed == Crossed(prev, next, b)
    IN  IF crossed = {} THEN NoEdge
        ELSE CHOOSE e \in crossed : \A f \in crossed : Preferred(e, f, next, b)

(* A ScreenEdgeBinding is [edge, peer, remoteEdge]; the first one for an edge
   counts. *)
BindingFor(bindings, e) ==
    LET bound == {i \in DOMAIN bindings : bindings[i].edge = e}
    IN  IF bound = {} THEN NoEdge ELSE bindings[Min(bound)]

EdgeOffset(e, next, b) == IF e \in {"Left", "Right"} THEN ClampY(b, next.y) ELSE ClampX(b, next.x)

DetectEdgeCrossing(prev, next, b, bindings) ==
    LET e == CrossedEdge(prev, next, b)
    IN  IF \/ ~Inside(b, prev)
           \/ Inside(b, next)
           \/ e = NoEdge
           \/ BindingFor(bindings, e) = NoEdge
        THEN NoEdge
        ELSE [peer       |-> BindingFor(bindings, e).peer,
              edge       |-> e,
              remoteEdge |-> BindingFor(bindings, e).remoteEdge,
              exit       |-> next,
              offset     |-> EdgeOffset(e, next, b)]

=============================================================================

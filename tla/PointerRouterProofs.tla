------------------------- MODULE PointerRouterProofs -------------------------
(***************************************************************************)
(* The captured input router and the geometry it stands on, for every      *)
(* width of integers, every set of screens and bindings and every          *)
(* movement: its pointer keeps its type and never turns back, and it asks  *)
(* for a peer exactly when it leaves the screen through a bound edge.      *)
(***************************************************************************)
EXTENDS PointerRouter, WellFoundedInduction, TLAPS

----
(***************************************************************************)
(* The screen-edge geometry, for every rectangle and every two points:     *)
(* saturation never loses a crossing, makes one up, or hands i32::clamp an *)
(* empty range.                                                            *)
(***************************************************************************)
(* Saturating arithmetic stays in i32 and is exact there. *)
LEMMA SaturateProps ==
    ASSUME NEW v \in Int
    PROVE  /\ Saturate(v) \in I32
           /\ v \in I32 => Saturate(v) = v
           /\ v > IntMax => Saturate(v) = IntMax
           /\ v < IntMin => Saturate(v) = IntMin
  BY IntAssumption DEF Saturate, I32

(* A rectangle that contains a point has columns and rows: its last column is
   right of its first, and no computation of them saturates away. *)
LEMMA InsideProps ==
    ASSUME NEW b \in LogicalRect, NEW p \in LogicalPoint, Inside(b, p)
    PROVE  /\ b.left \in I32 /\ b.top \in I32
           /\ Right(b) \in I32 /\ Bottom(b) \in I32
           /\ b.left <= p.x /\ p.x <= Right(b) - 1
           /\ b.top <= p.y /\ p.y <= Bottom(b) - 1
           /\ Saturate(Right(b) - 1) = Right(b) - 1
           /\ Saturate(Bottom(b) - 1) = Bottom(b) - 1
  <1>1. /\ b.left \in I32 /\ b.top \in I32 /\ b.width \in I32 /\ b.height \in I32
        /\ p.x \in I32 /\ p.y \in I32
    BY DEF LogicalRect, LogicalPoint
  <1>2. Right(b) \in I32 /\ Bottom(b) \in I32
    <2>1. b.left + b.width \in Int /\ b.top + b.height \in Int
      BY <1>1, IntAssumption DEF I32
    <2> QED
      BY <2>1, SaturateProps DEF Right, Bottom
  <1>3. /\ b.left <= p.x /\ p.x <= Right(b) - 1
        /\ b.top <= p.y /\ p.y <= Bottom(b) - 1
    BY <1>1, <1>2, IntAssumption DEF Inside, I32
  <1>4. Right(b) - 1 \in I32 /\ Bottom(b) - 1 \in I32
    BY <1>1, <1>2, <1>3, IntAssumption DEF I32
  <1> QED
    BY <1>1, <1>2, <1>3, <1>4, SaturateProps, IntAssumption DEF I32

LEMMA OvershootInt ==
    ASSUME NEW b \in LogicalRect, NEW q \in LogicalPoint, NEW e \in ScreenEdge
    PROVE  Overshoot(e, q, b) \in Int
  <1>1. \A v \in Int : Saturate(v) \in Int
    BY IntAssumption DEF Saturate
  <1>2. /\ b.left \in Int /\ b.top \in Int /\ b.width \in Int /\ b.height \in Int
        /\ q.x \in Int /\ q.y \in Int
    BY IntAssumption DEF LogicalRect, LogicalPoint, I32
  <1>3. Right(b) \in Int /\ Bottom(b) \in Int
    BY <1>1, <1>2 DEF Right, Bottom
  <1>4. Saturate(Right(b) - 1) \in Int /\ Saturate(Bottom(b) - 1) \in Int
    BY <1>1, <1>3
  <1>5. /\ Saturate(b.left - q.x) \in Int /\ Saturate(b.top - q.y) \in Int
        /\ Saturate(q.x - Saturate(Right(b) - 1)) \in Int
        /\ Saturate(q.y - Saturate(Bottom(b) - 1)) \in Int
    BY <1>1, <1>2, <1>4
  <1> QED
    BY <1>5 DEF Overshoot, ScreenEdge

(* Of any crossed edges one is preferred to all of them. *)
LEMMA PreferredExists ==
    ASSUME NEW b \in LogicalRect, NEW q \in LogicalPoint,
           NEW crossed \in SUBSET ScreenEdge, crossed # {}
    PROVE  \E e \in crossed : \A f \in crossed : Preferred(e, f, q, b)
  <1>1. \A e \in ScreenEdge : Overshoot(e, q, b) \in Int
    BY OvershootInt
  <1>2. /\ EdgeRank["Left"] = 1 /\ EdgeRank["Right"] = 2
        /\ EdgeRank["Top"] = 3 /\ EdgeRank["Bottom"] = 4
    BY DEF EdgeRank
  <1>3. \A e \in ScreenEdge : EdgeRank[e] \in Int
    BY <1>2 DEF ScreenEdge
  <1>4. /\ \A e, f \in ScreenEdge : Preferred(e, f, q, b) \/ Preferred(f, e, q, b)
        /\ \A e, f, g \in ScreenEdge :
              Preferred(e, f, q, b) /\ Preferred(f, g, q, b) => Preferred(e, g, q, b)
    BY <1>1, <1>3 DEF Preferred
  <1> DEFINE P(e, f) == Preferred(e, f, q, b)
             Best(S) == \E e \in S : \A f \in S : P(e, f)
  <1> HIDE DEF P
  <1>5. /\ \A e, f \in ScreenEdge : P(e, f) \/ P(f, e)
        /\ \A e, f, g \in ScreenEdge : P(e, f) /\ P(f, g) => P(e, g)
    BY <1>4 DEF P
  <1> DEFINE sides == crossed \cap {"Left", "Right"}
             ends  == crossed \cap {"Top", "Bottom"}
  <1>6. (sides # {} => Best(sides)) /\ (ends # {} => Best(ends))
    BY <1>5 DEF ScreenEdge
  <1>7. crossed = sides \cup ends
    BY DEF ScreenEdge
  <1>8. Best(crossed)
    <2>1. CASE sides = {} \/ ends = {}
      BY <1>6, <1>7, <2>1
    <2>2. CASE sides # {} /\ ends # {}
      <3>1. PICK e \in sides : \A f \in sides : P(e, f)
        BY <1>6, <2>2
      <3>2. PICK g \in ends : \A f \in ends : P(g, f)
        BY <1>6, <2>2
      <3>3. e \in ScreenEdge /\ g \in ScreenEdge /\ e \in crossed /\ g \in crossed
        BY <3>1, <3>2
      <3>4. \A f \in crossed : f \in ScreenEdge /\ (f \in sides \/ f \in ends)
        BY <1>7
      <3>5. CASE P(e, g)
        <4>1. \A f \in crossed : P(e, f)
          BY <1>5, <3>1, <3>2, <3>3, <3>4, <3>5
        <4> QED
          BY <3>3, <4>1
      <3>6. CASE P(g, e)
        <4>1. \A f \in crossed : P(g, f)
          BY <1>5, <3>1, <3>2, <3>3, <3>4, <3>6
        <4> QED
          BY <3>3, <4>1
      <3> QED
        BY <1>5, <3>3, <3>5, <3>6
    <2> QED
      BY <2>1, <2>2
  <1> QED
    BY <1>8 DEF P

(* A movement off the screen always has an edge, one it really crossed. *)
THEOREM LeavingHasAnEdge ==
    ASSUME NEW b \in LogicalRect, NEW p \in LogicalPoint, NEW q \in LogicalPoint,
           Inside(b, p), ~Inside(b, q)
    PROVE  CrossedEdge(p, q, b) \in Crossed(p, q, b)
  <1>1. Crossed(p, q, b) # {}
    <2>1. /\ p.x \in Int /\ p.y \in Int /\ q.x \in Int /\ q.y \in Int
          /\ b.left \in Int /\ b.top \in Int /\ Right(b) \in Int /\ Bottom(b) \in Int
      BY InsideProps, IntAssumption DEF LogicalPoint, LogicalRect, I32
    <2>2. q.x < b.left \/ q.x >= Right(b) \/ q.y < b.top \/ q.y >= Bottom(b)
      BY <2>1 DEF Inside
    <2>3. "Left" \in Crossed(p, q, b) \/ "Right" \in Crossed(p, q, b)
            \/ "Top" \in Crossed(p, q, b) \/ "Bottom" \in Crossed(p, q, b)
      BY <2>1, <2>2 DEF Inside, Crossed, ScreenEdge
    <2> QED
      BY <2>3
  <1>2. Crossed(p, q, b) \in SUBSET ScreenEdge
    BY DEF Crossed
  <1>3. \E e \in Crossed(p, q, b) : \A f \in Crossed(p, q, b) : Preferred(e, f, q, b)
    BY <1>1, <1>2, PreferredExists
  <1> QED
    BY <1>1, <1>3 DEF CrossedEdge

(* Whatever detect_edge_crossing reports has happened: the pointer was on the
   screen, is past the edge named and past no other edge by more, and the
   offset is a row or column of the screen, so that i32::clamp had a range. *)
THEOREM CrossingIsSound ==
    ASSUME NEW b \in LogicalRect, NEW p \in LogicalPoint, NEW q \in LogicalPoint,
           NEW bindings, DetectEdgeCrossing(p, q, b, bindings) # NoEdge
    PROVE  LET c == DetectEdgeCrossing(p, q, b, bindings)
           IN  /\ Inside(b, p) /\ ~Inside(b, q)
               /\ c.exit = q
               /\ c.edge \in Crossed(p, q, b)
               /\ \A f \in Crossed(p, q, b) : Preferred(c.edge, f, q, b)
               /\ c.edge \in {"Left", "Right"} => b.top <= c.offset /\ c.offset < Bottom(b)
               /\ c.edge \in {"Top", "Bottom"} => b.left <= c.offset /\ c.offset < Right(b)
  <1> DEFINE c == DetectEdgeCrossing(p, q, b, bindings)
             e == CrossedEdge(p, q, b)
  <1>1. Inside(b, p) /\ ~Inside(b, q) /\ e # NoEdge
    BY DEF DetectEdgeCrossing
  <1>2. c.exit = q /\ c.edge = e /\ c.offset = EdgeOffset(e, q, b)
    BY DEF DetectEdgeCrossing
  <1>3. e \in Crossed(p, q, b) /\ e \in ScreenEdge
    BY <1>1, LeavingHasAnEdge DEF Crossed
  <1>4. \A f \in Crossed(p, q, b) : Preferred(e, f, q, b)
    <2>1. Crossed(p, q, b) \in SUBSET ScreenEdge
      BY DEF Crossed
    <2>2. \E d \in Crossed(p, q, b) : \A f \in Crossed(p, q, b) : Preferred(d, f, q, b)
      BY <1>3, <2>1, PreferredExists
    <2> QED
      BY <1>3, <2>2 DEF CrossedEdge
  <1>5. /\ b.left \in Int /\ b.top \in Int /\ Right(b) \in Int /\ Bottom(b) \in Int
        /\ q.x \in Int /\ q.y \in Int
        /\ b.left <= Right(b) - 1 /\ b.top <= Bottom(b) - 1
        /\ Saturate(Right(b) - 1) = Right(b) - 1
        /\ Saturate(Bottom(b) - 1) = Bottom(b) - 1
    BY <1>1, InsideProps, IntAssumption DEF LogicalPoint, I32
  <1>6. b.top <= ClampY(b, q.y) /\ ClampY(b, q.y) < Bottom(b)
    BY <1>1, <1>5 DEF ClampY, Clamp, Inside
  <1>7. b.left <= ClampX(b, q.x) /\ ClampX(b, q.x) < Right(b)
    BY <1>1, <1>5 DEF ClampX, Clamp, Inside
  <1>8. e \in {"Left", "Right"} => EdgeOffset(e, q, b) = ClampY(b, q.y)
    BY DEF EdgeOffset
  <1>9. e \in {"Top", "Bottom"} => EdgeOffset(e, q, b) = ClampX(b, q.x)
    BY DEF EdgeOffset
  <1> QED
    BY <1>1, <1>2, <1>3, <1>4, <1>6, <1>7, <1>8, <1>9


----
(***************************************************************************)
(* What the router computes from it.                                       *)
(***************************************************************************)
LEMMA I32IsInt == /\ I32 \subseteq Int /\ IntMin \in I32 /\ IntMax \in I32
                  /\ \A v \in I32 : IntMin <= v /\ v <= IntMax
  BY IntAssumption DEF I32

LEMMA ScreenProps ==
    ASSUME NEW b \in Screens
    PROVE  /\ b \in LogicalRect
           /\ b.left \in Int /\ b.top \in Int /\ b.width \in Int /\ b.height \in Int
           /\ b.width > 0 /\ b.height > 0
           /\ Right(b) = b.left + b.width /\ Bottom(b) = b.top + b.height
           /\ Saturate(Right(b) - 1) = b.left + b.width - 1
           /\ Saturate(Bottom(b) - 1) = b.top + b.height - 1
           /\ b.left \in I32 /\ b.top \in I32
           /\ b.left + b.width - 1 \in I32 /\ b.top + b.height - 1 \in I32
<1>1. b \in LogicalRect /\ b.width > 0 /\ b.height > 0
  BY RouterAssumption DEF IsValid
<1>2. b.left \in I32 /\ b.top \in I32 /\ b.width \in I32 /\ b.height \in I32
  BY <1>1 DEF LogicalRect
<1>3. b.left + b.width <= IntMax /\ b.top + b.height <= IntMax
  BY RouterAssumption
<1>4. /\ b.left \in Int /\ b.top \in Int /\ b.width \in Int /\ b.height \in Int
      /\ IntMin <= b.left /\ IntMin <= b.top
  BY <1>2, I32IsInt
<1>5. /\ b.left + b.width \in I32 /\ b.top + b.height \in I32
      /\ b.left + b.width - 1 \in I32 /\ b.top + b.height - 1 \in I32
  BY <1>1, <1>3, <1>4, IntAssumption DEF I32
<1>6. \A v \in I32 : Saturate(v) = v
  BY SaturateProps, I32IsInt
<1> QED BY <1>1, <1>2, <1>4, <1>5, <1>6 DEF Right, Bottom

LEMMA ClampProps ==
    ASSUME NEW v \in Int, NEW lo \in Int, NEW hi \in Int, lo <= hi
    PROVE  Clamp(v, lo, hi) \in lo .. hi
  BY DEF Clamp

LEMMA OnScreenProps ==
    ASSUME NEW b \in Screens, NEW p \in LogicalPoint
    PROVE  /\ OnScreen(b, p) \in LogicalPoint
           /\ OnScreen(b, p).x = ClampX(b, p.x) /\ OnScreen(b, p).y = ClampY(b, p.y)
           /\ ClampX(b, p.x) \in b.left .. b.left + b.width - 1
           /\ ClampY(b, p.y) \in b.top .. b.top + b.height - 1
<1>1. p.x \in Int /\ p.y \in Int
  BY I32IsInt DEF LogicalPoint
<1>2. IsValid(b)
  BY ScreenProps DEF IsValid
<1>3. /\ ClampX(b, p.x) = Clamp(p.x, b.left, b.left + b.width - 1)
      /\ ClampY(b, p.y) = Clamp(p.y, b.top, b.top + b.height - 1)
  BY <1>2, ScreenProps DEF ClampX, ClampY
<1>4. ClampX(b, p.x) \in b.left .. b.left + b.width - 1
  <2>1. b.left <= b.left + b.width - 1 /\ b.left \in Int /\ b.left + b.width - 1 \in Int
    BY ScreenProps
  <2> QED BY <1>1, <1>3, <2>1, ClampProps
<1>5. ClampY(b, p.y) \in b.top .. b.top + b.height - 1
  <2>1. b.top <= b.top + b.height - 1 /\ b.top \in Int /\ b.top + b.height - 1 \in Int
    BY ScreenProps
  <2> QED BY <1>1, <1>3, <2>1, ClampProps
<1>6. /\ b.left .. b.left + b.width - 1 \subseteq I32
      /\ b.top .. b.top + b.height - 1 \subseteq I32
  <2>1. /\ IntMin <= b.left /\ b.left + b.width - 1 <= IntMax
        /\ IntMin <= b.top /\ b.top + b.height - 1 <= IntMax
    BY ScreenProps, I32IsInt
  <2> QED BY <2>1, ScreenProps, IntAssumption DEF I32
<1> QED BY <1>4, <1>5, <1>6 DEF OnScreen, LogicalPoint

LEMMA MovedProps ==
    ASSUME NEW p \in LogicalPoint, NEW dx \in Deltas, NEW dy \in Deltas
    PROVE  /\ Moved(p, dx, dy) \in LogicalPoint
           /\ dx >= 0 => Moved(p, dx, dy).x >= p.x
           /\ dx <= 0 => Moved(p, dx, dy).x <= p.x
           /\ dy >= 0 => Moved(p, dx, dy).y >= p.y
           /\ dy <= 0 => Moved(p, dx, dy).y <= p.y
<1>1. p.x \in I32 /\ p.y \in I32 /\ dx \in Int /\ dy \in Int
  BY RouterAssumption, I32IsInt DEF LogicalPoint
<1>2. ASSUME NEW v \in I32, NEW d \in Int
      PROVE  /\ Saturate(v + d) \in I32
             /\ d >= 0 => Saturate(v + d) >= v
             /\ d <= 0 => Saturate(v + d) <= v
  BY IntAssumption DEF Saturate, I32
<1> QED BY <1>1, <1>2 DEF Moved, LogicalPoint

(* The first binding of an edge, if it has one. *)
LEMMA BindingProps ==
    ASSUME NEW e \in ScreenEdge
    PROVE  /\ BindingFor(Bindings, e) # NoEdge <=> \E i \in DOMAIN Bindings : Bindings[i].edge = e
           /\ BindingFor(Bindings, e) # NoEdge =>
                 /\ BindingFor(Bindings, e) \in ScreenEdgeBinding
                 /\ BindingFor(Bindings, e).edge = e
<1> DEFINE bound == {i \in DOMAIN Bindings : Bindings[i].edge = e}
<1>1. \A i \in DOMAIN Bindings : i \in Nat /\ Bindings[i] \in ScreenEdgeBinding /\ Bindings[i] # NoEdge
  BY RouterAssumption
<1>2. CASE bound = {}
  BY <1>2 DEF BindingFor
<1>3. CASE bound # {}
  <2>1. bound \in SUBSET Nat
    BY <1>1
  <2>2. \E n \in bound : \A k \in bound : n <= k
    <3> HIDE DEF bound
    <3>1. PICK n \in bound : \A k \in bound : <<k, n>> \notin OpToRel(<, Nat)
      BY <1>3, <2>1, NatLessThanWellFounded, WFMin
    <3>2. \A k \in bound : k \in Nat /\ n \in Nat /\ ~(k < n)
      BY <2>1, <3>1 DEF OpToRel
    <3> QED BY <3>2
  <2>3. Min(bound) \in bound
    <3> HIDE DEF bound
    <3> QED BY <2>2 DEF Min
  <2>4. BindingFor(Bindings, e) = Bindings[Min(bound)]
    BY <1>3 DEF BindingFor
  <2> HIDE DEF bound
  <2>5. \E i \in DOMAIN Bindings : i = Min(bound) /\ Bindings[i].edge = e
    BY <2>3 DEF bound
  <2> QED BY <1>1, <2>4, <2>5
<1> QED BY <1>2, <1>3

(* What a detected crossing carries. *)
LEMMA DetectedProps ==
    ASSUME NEW b \in Screens, NEW p \in LogicalPoint, NEW q \in LogicalPoint
    PROVE  LET c == DetectEdgeCrossing(p, q, b, Bindings)
               e == CrossedEdge(p, q, b)
           IN  /\ c # NoEdge <=> /\ Inside(b, p) /\ ~Inside(b, q)
                               /\ \E i \in DOMAIN Bindings : Bindings[i].edge = e
               /\ c # NoEdge => /\ c \in EdgeCrossing /\ c.edge = e
                              /\ c.offset = EdgeOffset(e, q, b)
<1> DEFINE c == DetectEdgeCrossing(p, q, b, Bindings)
           e == CrossedEdge(p, q, b)
           found == BindingFor(Bindings, e)
           made == [peer |-> found.peer, edge |-> e, remoteEdge |-> found.remoteEdge,
                    exit |-> q, offset |-> EdgeOffset(e, q, b)]
<1>1. CASE ~Inside(b, p) \/ Inside(b, q)
  BY <1>1 DEF DetectEdgeCrossing
<1>2. CASE Inside(b, p) /\ ~Inside(b, q)
  <2>1. e \in ScreenEdge /\ e # NoEdge
    <3>1. b \in LogicalRect
      BY ScreenProps
    <3>2. e \in Crossed(p, q, b)
      BY <1>2, <3>1, LeavingHasAnEdge
    <3>3. Crossed(p, q, b) \subseteq ScreenEdge
      BY DEF Crossed
    <3> QED BY <3>2, <3>3, EdgeAssumption
  <2>2. c = IF found = NoEdge THEN NoEdge ELSE made
    BY <1>2, <2>1 DEF DetectEdgeCrossing
  <2>3. EdgeOffset(e, q, b) \in I32
    BY OnScreenProps DEF EdgeOffset, LogicalPoint
  <2> HIDE DEF c, e
  <2>4. found # NoEdge => found \in ScreenEdgeBinding
    BY <2>1, BindingProps
  <2>6. found # NoEdge <=> \E i \in DOMAIN Bindings : Bindings[i].edge = e
    BY <2>1, BindingProps
  <2> HIDE DEF found
  <2>5. ASSUME found # NoEdge PROVE made \in EdgeCrossing /\ made # NoEdge
    <3>1. found.peer \in BoundPeers /\ found.remoteEdge \in ScreenEdge
      BY <2>4, <2>5 DEF ScreenEdgeBinding
    <3>2. made \in EdgeCrossing
      BY <2>1, <2>3, <3>1 DEF EdgeCrossing
    <3> HIDE DEF made
    <3> QED BY <3>2, RouterAssumption
  <2>7. made.edge = e /\ made.offset = EdgeOffset(e, q, b)
    OBVIOUS
  <2> HIDE DEF made
  <2>8. c # NoEdge <=> \E i \in DOMAIN Bindings : Bindings[i].edge = e
    BY <2>2, <2>5, <2>6
  <2>9. c # NoEdge => /\ c \in EdgeCrossing /\ c.edge = e
                    /\ c.offset = EdgeOffset(e, q, b)
    BY <2>2, <2>5, <2>7
  <2> QED BY <1>2, <2>8, <2>9 DEF c, e
<1> QED BY <1>1, <1>2

(* On a screen that fits in i32 the saturating test is the exact one. *)
LEMMA InsideIsExact ==
    ASSUME NEW b \in Screens, NEW p \in LogicalPoint
    PROVE  Inside(b, p) <=> Beside(b, p) = 0 /\ Above(b, p) = 0
<1>1. /\ p.x \in Int /\ p.y \in Int /\ IsValid(b)
  BY ScreenProps, I32IsInt DEF LogicalPoint, IsValid
<1> QED BY <1>1, ScreenProps DEF Inside, Beside, Above, Beyond

(* While no distance saturates, the edge crossed_edge picks is the exact one. *)
LEMMA EdgeIsExact ==
    ASSUME NEW b \in Screens, NEW p \in LogicalPoint, NEW q \in LogicalPoint,
           Inside(b, p), ~Inside(b, q),
           Beside(b, q) <= IntMax, Above(b, q) <= IntMax
    PROVE  CrossedEdge(p, q, b) = ExitEdge(b, q)
<1> DEFINE e == CrossedEdge(p, q, b)
           last == b.left + b.width - 1
           end == b.top + b.height - 1
<1>1. /\ p.x \in Int /\ p.y \in Int /\ q.x \in Int /\ q.y \in Int
      /\ b.left \in Int /\ b.top \in Int /\ last \in Int /\ end \in Int
      /\ Right(b) = last + 1 /\ Bottom(b) = end + 1
      /\ Saturate(Right(b) - 1) = last /\ Saturate(Bottom(b) - 1) = end
  <2>1. p.x \in I32 /\ p.y \in I32 /\ q.x \in I32 /\ q.y \in I32
    BY DEF LogicalPoint
  <2>2. p.x \in Int /\ p.y \in Int /\ q.x \in Int /\ q.y \in Int
    BY <2>1, I32IsInt
  <2>3. /\ b.left \in Int /\ b.top \in Int /\ b.width \in Int /\ b.height \in Int
        /\ Right(b) = b.left + b.width /\ Bottom(b) = b.top + b.height
        /\ Saturate(Right(b) - 1) = last /\ Saturate(Bottom(b) - 1) = end
    BY ScreenProps
  <2> QED BY <2>2, <2>3
<1>2. /\ Beside(b, q) = IF q.x < b.left THEN b.left - q.x ELSE IF q.x > last THEN q.x - last ELSE 0
      /\ Above(b, q) = IF q.y < b.top THEN b.top - q.y ELSE IF q.y > end THEN q.y - end ELSE 0
  BY DEF Beside, Above, Beyond
<1>3. /\ b.left <= p.x /\ p.x <= last /\ b.top <= p.y /\ p.y <= end
  BY <1>1 DEF Inside
<1>4. /\ "Left" \in Crossed(p, q, b) <=> q.x < b.left
      /\ "Right" \in Crossed(p, q, b) <=> q.x > last
      /\ "Top" \in Crossed(p, q, b) <=> q.y < b.top
      /\ "Bottom" \in Crossed(p, q, b) <=> q.y > end
  <2>1. /\ "Left" \in Crossed(p, q, b) <=> (p.x >= b.left /\ q.x < b.left)
        /\ "Right" \in Crossed(p, q, b) <=> (p.x < Right(b) /\ q.x >= Right(b))
        /\ "Top" \in Crossed(p, q, b) <=> (p.y >= b.top /\ q.y < b.top)
        /\ "Bottom" \in Crossed(p, q, b) <=> (p.y < Bottom(b) /\ q.y >= Bottom(b))
    BY DEF Crossed, ScreenEdge
  <2> HIDE DEF last, end
  <2> QED BY <1>1, <1>3, <2>1
<1>5. \A v \in Int : v >= 0 /\ v <= IntMax => Saturate(v) = v
  BY IntAssumption DEF Saturate
<1>6. /\ q.x < b.left => Overshoot("Left", q, b) = Beside(b, q) /\ b.left - q.x > 0
      /\ q.x > last => Overshoot("Right", q, b) = Beside(b, q)
      /\ q.y < b.top => Overshoot("Top", q, b) = Above(b, q)
      /\ q.y > end => Overshoot("Bottom", q, b) = Above(b, q)
  BY <1>1, <1>2, <1>3, <1>5 DEF Overshoot
<1>7. /\ e \in Crossed(p, q, b) /\ e \in ScreenEdge
      /\ \A f \in Crossed(p, q, b) : Preferred(e, f, q, b)
  <2>1. e \in Crossed(p, q, b) /\ e \in ScreenEdge
    BY ScreenProps, LeavingHasAnEdge DEF Crossed
  <2>2. Crossed(p, q, b) \in SUBSET ScreenEdge
    BY DEF Crossed
  <2>3. \E d \in Crossed(p, q, b) : \A f \in Crossed(p, q, b) : Preferred(d, f, q, b)
    BY <2>1, <2>2, ScreenProps, PreferredExists
  <2> QED BY <2>1, <2>3 DEF CrossedEdge
<1>8. /\ EdgeRank["Left"] = 1 /\ EdgeRank["Right"] = 2
      /\ EdgeRank["Top"] = 3 /\ EdgeRank["Bottom"] = 4
  BY DEF EdgeRank
<1> HIDE DEF e, last, end
<1>9. Beside(b, q) \in Int /\ Above(b, q) \in Int
  BY <1>1, <1>2
<1>10. \A side \in {"Left", "Right"}, top \in {"Top", "Bottom"} :
          /\ side \in Crossed(p, q, b) /\ top \in Crossed(p, q, b)
          => /\ Preferred(side, top, q, b) => Beside(b, q) >= Above(b, q)
             /\ Preferred(top, side, q, b) => Above(b, q) > Beside(b, q)
  BY <1>4, <1>6, <1>8, <1>9 DEF Preferred
<1>11. CASE e \in {"Left", "Right"}
  <2>1. Beside(b, q) >= Above(b, q)
    <3>1. CASE \E top \in {"Top", "Bottom"} : top \in Crossed(p, q, b)
      BY <1>7, <1>10, <1>11, <3>1
    <3>2. CASE ~\E top \in {"Top", "Bottom"} : top \in Crossed(p, q, b)
      BY <1>1, <1>2, <1>4, <3>2
    <3> QED BY <3>1, <3>2
  <2>2. e = IF q.x < b.left THEN "Left" ELSE "Right"
    BY <1>1, <1>3, <1>4, <1>7, <1>11
  <2> QED BY <2>1, <2>2 DEF ExitEdge, e
<1>12. CASE e \in {"Top", "Bottom"}
  <2>1. ~(Beside(b, q) >= Above(b, q))
    <3>1. CASE \E side \in {"Left", "Right"} : side \in Crossed(p, q, b)
      BY <1>7, <1>9, <1>10, <1>12, <3>1
    <3>2. CASE ~\E side \in {"Left", "Right"} : side \in Crossed(p, q, b)
      BY <1>1, <1>2, <1>4, <1>7, <1>12, <3>2
    <3> QED BY <3>1, <3>2
  <2>2. e = IF q.y < b.top THEN "Top" ELSE "Bottom"
    BY <1>1, <1>3, <1>4, <1>7, <1>12
  <2> QED BY <2>1, <2>2 DEF ExitEdge, e
<1> QED BY <1>7, <1>11, <1>12 DEF ScreenEdge

----
(***************************************************************************)
(* The core's part of a step.                                              *)
(***************************************************************************)
LEMMA PanicOutcome ==
    ASSUME NEW s \in Core!RuntimeInputState
    PROVE  /\ Core!HandlePanicHotkey(s).state \in Core!RuntimeInputState
           /\ Core!HandlePanicHotkey(s).state.mode = "Local"
<1>1. Core!HandlePanicHotkey(s).state = Core!Detached(s, "Local")
  BY DEF Core!HandlePanicHotkey, Core!Outcome
<1> QED
  BY <1>1 DEF Core!Detached, Core!ClearInput, Core!RuntimeInputState, Core!ControlMode

LEMMA MotionOutcome ==
    ASSUME NEW s \in Core!RuntimeInputState
    PROVE  Core!ApplyInput(s, Core!Motion).state \in Core!RuntimeInputState
<1>1. Core!Motion.kind = "motion"
  BY DEF Core!Motion
<1>2. Core!RecordInput(s, Core!Motion) \in Core!RuntimeInputState
  BY <1>1 DEF Core!RecordInput, Core!RuntimeInputState
<1>3. Core!ApplyInput(s, Core!Motion).state = Core!RecordInput(s, Core!Motion)
  BY <1>1 DEF Core!ApplyInput, Core!IsPanicHotkeyPress, Core!Outcome
<1> QED BY <1>2, <1>3

(* The core enters the peer it is given, and none if it is given none. *)
LEMMA MoveOutcome ==
    ASSUME NEW s \in Core!RuntimeInputState, NEW next \in LogicalPoint, NEW p \in BoundPeers \cup {NoEdge}
    PROVE  /\ Core!ApplyLocalPointerMove(s, next, p).state \in Core!RuntimeInputState
           /\ p = NoEdge => Core!ApplyLocalPointerMove(s, next, p).state.mode = s.mode
           /\ p # NoEdge => /\ Core!ApplyLocalPointerMove(s, next, p).state.mode = "EnteringRemote"
                          /\ Core!ApplyLocalPointerMove(s, next, p).state.pendingPeer = p
<1> DEFINE moved == [s EXCEPT !.lastPointer = next]
           after == Core!ApplyLocalPointerMove(s, next, p).state
<1>1. moved \in Core!RuntimeInputState /\ moved.mode = s.mode
  BY DEF Core!RuntimeInputState
<1>2. p = NoEdge => after = moved
  BY DEF Core!ApplyLocalPointerMove, Core!Outcome
<1>3. p # NoEdge => after = [moved EXCEPT !.mode = "EnteringRemote", !.pendingPeer = p]
  BY DEF Core!ApplyLocalPointerMove, Core!RequestRemoteEntry, Core!Outcome
<1> HIDE DEF moved, after
<1>4. p # NoEdge => /\ after \in Core!RuntimeInputState
                  /\ after.mode = "EnteringRemote" /\ after.pendingPeer = p
  BY <1>1, <1>3, ZenonT(60) DEF Core!RuntimeInputState, Core!ControlMode
<1> QED BY <1>1, <1>2, <1>4 DEF after

----
(***************************************************************************)
(* Types.                                                                  *)
(***************************************************************************)
LEMMA DesktopTyped ==
    ASSUME RouterTypeOK, NEW dx \in Deltas, NEW dy \in Deltas, DesktopFollows(dx, dy)
    PROVE  desktop' \in [bounds : Screens, pointer : LogicalPoint]
<1>1. desktop.bounds \in Screens /\ desktop.pointer \in LogicalPoint
  BY DEF RouterTypeOK
<1>2. OnScreen(desktop.bounds, Moved(desktop.pointer, dx, dy)) \in LogicalPoint
  BY <1>1, MovedProps, OnScreenProps
<1> QED BY <1>1, <1>2 DEF DesktopFollows, RouterTypeOK

LEMMA InitTyped == RouterInit => RouterTypeOK
<1> SUFFICES ASSUME RouterInit PROVE RouterTypeOK
  OBVIOUS
<1>1. Core!InitialState \in Core!RuntimeInputState
  BY DEF Core!InitialState, Core!RuntimeInputState, Core!ControlMode
<1> QED BY <1>1 DEF RouterInit, RouterTypeOK

LEMMA StepTyped == RouterTypeOK /\ [RouterNext]_routerVars => RouterTypeOK'
<1> SUFFICES ASSUME RouterTypeOK, [RouterNext]_routerVars PROVE RouterTypeOK'
  OBVIOUS
<1>0. state \in Core!RuntimeInputState
  BY DEF RouterTypeOK
<1>1. ASSUME NEW dx \in Deltas, NEW dy \in Deltas, PointerMovedLocally(dx, dy)
      PROVE  RouterTypeOK'
  <2> DEFINE next == Moved(current, dx, dy)
             detected == DetectEdgeCrossing(current, next, bounds, Bindings)
             peer == IF detected = NoEdge THEN NoEdge ELSE detected.peer
  <2>1. next \in LogicalPoint
    BY MovedProps DEF RouterTypeOK
  <2>2. detected \in EdgeCrossing \cup {NoEdge}
    BY <2>1, DetectedProps DEF RouterTypeOK
  <2>3. /\ current' = next /\ crossing' = detected /\ UNCHANGED bounds
        /\ state' = Core!ApplyLocalPointerMove(state, next, peer).state
        /\ DesktopFollows(dx, dy)
    BY <1>1 DEF PointerMovedLocally
  <2> HIDE DEF next, detected
  <2>4. peer \in BoundPeers \cup {NoEdge}
    BY <2>2 DEF EdgeCrossing
  <2> HIDE DEF peer
  <2>5. state' \in Core!RuntimeInputState
    BY <1>0, <2>1, <2>3, <2>4, MoveOutcome
  <2> QED BY <2>1, <2>2, <2>3, <2>5, DesktopTyped DEF RouterTypeOK
<1>2. ASSUME NEW dx \in Deltas, NEW dy \in Deltas, OtherPointerMoved(dx, dy)
      PROVE  RouterTypeOK'
  <2>1. state' \in Core!RuntimeInputState
    BY <1>0, <1>2, MotionOutcome DEF OtherPointerMoved
  <2> QED BY <1>2, <2>1, DesktopTyped DEF RouterTypeOK, OtherPointerMoved
<1>3. CASE Recover
  BY <1>0, <1>3, PanicOutcome DEF Recover, RouterTypeOK
<1>4. CASE LayoutChanged
  BY <1>0, <1>4, PanicOutcome DEF LayoutChanged, RouterTypeOK
<1>5. ASSUME NEW b \in Screens, ScreenChanges(b)
      PROVE  RouterTypeOK'
  <2>1. OnScreen(b, desktop.pointer) \in LogicalPoint
    BY OnScreenProps DEF RouterTypeOK
  <2> QED BY <1>5, <2>1 DEF ScreenChanges, RouterTypeOK
<1>6. CASE UNCHANGED routerVars
  BY <1>6 DEF routerVars, RouterTypeOK
<1> QED BY <1>1, <1>2, <1>3, <1>4, <1>5, <1>6 DEF RouterNext

(* Type correctness: whatever is moved by, no pointer leaves i32, and what is
   crossed is a crossing to a bound peer. *)
THEOREM RouterTypes == RouterSpec => []RouterTypeOK
  BY InitTyped, StepTyped, PTL DEF RouterSpec

(* The router's pointer never moves against a movement. *)
THEOREM PointerNeverTurnsBack == RouterSpec => NeverTurnsBack
<1> DEFINE Forward ==
      \A dx, dy \in Deltas :
          PointerMovedLocally(dx, dy) =>
            /\ dx >= 0 => current'.x >= current.x
            /\ dx <= 0 => current'.x <= current.x
            /\ dy >= 0 => current'.y >= current.y
            /\ dy <= 0 => current'.y <= current.y
<1>1. RouterTypeOK => Forward
  BY MovedProps DEF RouterTypeOK, PointerMovedLocally
<1>2. RouterTypeOK /\ [RouterNext]_routerVars => [Forward]_routerVars
  BY <1>1
<1> QED BY <1>2, RouterTypes, PTL DEF RouterSpec, NeverTurnsBack

----
(***************************************************************************)
(* Crossings.                                                              *)
(***************************************************************************)
Exact ==
    /\ state.mode = "Local" /\ bounds' = bounds
    /\ Beside(bounds, current') <= IntMax /\ Above(bounds, current') <= IntMax
    => LET edge  == ExitEdge(bounds, current')
           exits == Leaves(bounds, current, current')
           near  == OnScreen(bounds, current')
       IN  /\ state'.mode = "EnteringRemote" <=>
                exits /\ \E i \in DOMAIN Bindings : Bindings[i].edge = edge
           /\ state'.mode = "EnteringRemote" =>
                /\ crossing'.edge = edge
                /\ crossing'.offset = IF edge \in {"Left", "Right"} THEN near.y ELSE near.x
                /\ crossing'.offset \in IF edge \in {"Left", "Right"}
                                        THEN bounds.top .. bounds.top + bounds.height - 1
                                        ELSE bounds.left .. bounds.left + bounds.width - 1
                /\ state'.pendingPeer = crossing'.peer

(* Leaving the screen is being inside before and outside after. *)
LEMMA LeavesIsExact ==
    ASSUME NEW b \in Screens, NEW p \in LogicalPoint, NEW q \in LogicalPoint
    PROVE  Leaves(b, p, q) <=> Inside(b, p) /\ ~Inside(b, q)
<1>1. /\ Inside(b, p) <=> Beside(b, p) = 0 /\ Above(b, p) = 0
      /\ Inside(b, q) <=> Beside(b, q) = 0 /\ Above(b, q) = 0
  BY InsideIsExact
<1>2. q.x \in Int /\ q.y \in Int
  BY I32IsInt DEF LogicalPoint
<1>3. Beside(b, q) \in Nat /\ Above(b, q) \in Nat
  BY <1>2, ScreenProps DEF Beside, Above, Beyond
<1> QED BY <1>1, <1>3 DEF Leaves

LEMMA MovementIsExact ==
    ASSUME RouterTypeOK, NEW dx \in Deltas, NEW dy \in Deltas, PointerMovedLocally(dx, dy)
    PROVE  Exact
<1> DEFINE next == Moved(current, dx, dy)
           detected == DetectEdgeCrossing(current, next, bounds, Bindings)
           peer == IF detected = NoEdge THEN NoEdge ELSE detected.peer
           e == CrossedEdge(current, next, bounds)
           edge == ExitEdge(bounds, next)
<1>1. /\ bounds \in Screens /\ current \in LogicalPoint /\ next \in LogicalPoint
      /\ state \in Core!RuntimeInputState
  BY MovedProps DEF RouterTypeOK
<1>2. /\ state.mode = "Local" /\ current' = next /\ crossing' = detected
      /\ state' = Core!ApplyLocalPointerMove(state, next, peer).state
  BY DEF PointerMovedLocally
<1>3. /\ detected # NoEdge <=> /\ Inside(bounds, current) /\ ~Inside(bounds, next)
                             /\ \E i \in DOMAIN Bindings : Bindings[i].edge = e
      /\ detected # NoEdge => /\ detected \in EdgeCrossing /\ detected.edge = e
                            /\ detected.offset = EdgeOffset(e, next, bounds)
  BY <1>1, DetectedProps
<1>4. Leaves(bounds, current, next) <=> Inside(bounds, current) /\ ~Inside(bounds, next)
  BY <1>1, LeavesIsExact
<1> SUFFICES ASSUME Beside(bounds, next) <= IntMax, Above(bounds, next) <= IntMax
             PROVE  Exact
  BY <1>2 DEF Exact
<1>5. Leaves(bounds, current, next) => e = edge
  BY <1>1, <1>4, EdgeIsExact
<1>6. /\ edge \in {"Left", "Right"} => EdgeOffset(edge, next, bounds) = OnScreen(bounds, next).y
      /\ edge \notin {"Left", "Right"} => EdgeOffset(edge, next, bounds) = OnScreen(bounds, next).x
  BY DEF EdgeOffset, OnScreen
<1>7. /\ OnScreen(bounds, next).x \in bounds.left .. bounds.left + bounds.width - 1
      /\ OnScreen(bounds, next).y \in bounds.top .. bounds.top + bounds.height - 1
  BY <1>1, OnScreenProps
<1> HIDE DEF next, detected, e, edge
<1>8. peer \in BoundPeers \cup {NoEdge} /\ (peer # NoEdge <=> detected # NoEdge)
  BY <1>3, RouterAssumption DEF EdgeCrossing
<1>9. detected # NoEdge => peer = detected.peer
  OBVIOUS
<1> HIDE DEF peer
<1>10. /\ peer # NoEdge => state'.mode = "EnteringRemote" /\ state'.pendingPeer = peer
       /\ peer = NoEdge => state'.mode = "Local"
  BY <1>1, <1>2, <1>8, MoveOutcome
<1>11. state'.mode = "EnteringRemote" <=> detected # NoEdge
  BY <1>8, <1>10
<1>12. state'.mode = "EnteringRemote" <=>
          /\ Leaves(bounds, current, next)
          /\ \E i \in DOMAIN Bindings : Bindings[i].edge = edge
  BY <1>3, <1>4, <1>5, <1>11
<1>13. state'.mode = "EnteringRemote" =>
          /\ detected.edge = edge
          /\ detected.offset = EdgeOffset(edge, next, bounds)
          /\ state'.pendingPeer = detected.peer
  BY <1>3, <1>5, <1>8, <1>9, <1>10, <1>11, <1>12
<1> QED BY <1>2, <1>6, <1>7, <1>12, <1>13 DEF Exact, edge

(* A step that leaves the pointer where it is enters nobody. *)
LEMMA RestIsExact ==
    ASSUME RouterTypeOK, current' = current, state.mode = "Local" => state'.mode = "Local"
    PROVE  Exact
<1>1. ~Leaves(bounds, current, current)
  BY LeavesIsExact DEF RouterTypeOK
<1> QED BY <1>1 DEF Exact

(* The daemon starts entering a peer exactly when its pointer leaves the
   screen, in exact arithmetic, through a bound edge: the one it is farthest
   beyond, with the nearest row or column of the screen as offset. *)
THEOREM CrossingsAreExact == RouterSpec => CrossingIsExact
<1>1. ASSUME RouterTypeOK, [RouterNext]_routerVars PROVE [Exact]_routerVars
  <2>0. state \in Core!RuntimeInputState
    BY <1>1 DEF RouterTypeOK
  <2>1. ASSUME NEW dx \in Deltas, NEW dy \in Deltas, PointerMovedLocally(dx, dy)
        PROVE  Exact
    BY <1>1, <2>1, MovementIsExact
  <2>2. ASSUME NEW dx \in Deltas, NEW dy \in Deltas, OtherPointerMoved(dx, dy)
        PROVE  Exact
    BY <2>2 DEF OtherPointerMoved, Exact
  <2>3. CASE Recover
    BY <1>1, <2>0, <2>3, PanicOutcome, RestIsExact DEF Recover
  <2>4. CASE LayoutChanged
    BY <2>4 DEF LayoutChanged, Exact
  <2>5. ASSUME NEW b \in Screens, ScreenChanges(b)
        PROVE  Exact
    BY <1>1, <2>5, RestIsExact DEF ScreenChanges
  <2> QED BY <1>1, <2>1, <2>2, <2>3, <2>4, <2>5 DEF RouterNext
<1> QED BY <1>1, RouterTypes, PTL DEF RouterSpec, CrossingIsExact, Exact
=============================================================================

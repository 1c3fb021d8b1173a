---------------------------- MODULE PointerRouter ----------------------------
(***************************************************************************)
(* CapturedInputRouter: the capture worker integrates raw pointer deltas   *)
(* into a pointer of its own, and asks the core for a peer when that       *)
(* pointer leaves the configured screen through a bound edge.              *)
(*                                                                         *)
(* The desktop is external: its own pointer follows the same deltas but    *)
(* stops at the screen's border, and its bounds may change at any time.    *)
(* The daemon reads it only at start and when the environment watchdog     *)
(* finds the bounds changed.  Mode is Local or EnteringRemote here, since  *)
(* nothing in the daemon confirms an entry.                                *)
(***************************************************************************)
EXTENDS EdgeGeometry

CONSTANTS
    BoundPeers,   \* the peers that edges may be bound to
    Bindings,     \* sequence of ScreenEdgeBindings
    Screens,      \* the bounds the desktop can have
    Deltas        \* the components of a raw pointer movement

ScreenEdgeBinding == [edge : ScreenEdge, peer : BoundPeers, remoteEdge : ScreenEdge]

EdgeCrossing ==
    [peer : BoundPeers, edge : ScreenEdge, remoteEdge : ScreenEdge, exit : LogicalPoint, offset : I32]

(* The bounds a probe reports are valid, and what a union of monitors spans
   ends within i32; a raw movement is two i32s. *)
ASSUME RouterAssumption ==
    /\ Bindings \in Seq(ScreenEdgeBinding)
    /\ NoEdge \notin BoundPeers \cup ScreenEdgeBinding \cup EdgeCrossing
    /\ \A b \in Screens : /\ b \in LogicalRect /\ IsValid(b)
                          /\ b.left + b.width <= IntMax /\ b.top + b.height <= IntMax
    /\ Deltas \subseteq I32

Core == INSTANCE ControlTransitions
    WITH Keys <- {"PanicKey"}, PanicKey <- "PanicKey", ModifierKeys <- {}, ControlKeys <- {},
         AltKeys <- {}, Buttons <- {}, Sessions <- {}, Points <- LogicalPoint,
         Peers <- BoundPeers, NONE <- NoEdge

VARIABLES
    state,        \* RuntimeInputState
    current,      \* router.current_pointer
    bounds,       \* router.screen_layout.local_bounds
    crossing,     \* the EdgeCrossing of the remote entry under way
    desktop       \* external: [bounds, pointer] of the real desktop

routerVars == <<state, current, bounds, crossing, desktop>>

OnScreen(b, p) == [x |-> ClampX(b, p.x), y |-> ClampY(b, p.y)]

RouterInit ==
    \E b \in Screens : \E p \in {q \in LogicalPoint : Inside(b, q)} :
        /\ desktop = [bounds |-> b, pointer |-> p]
        /\ state = Core!InitialState
        /\ current = p
        /\ bounds = b
        /\ crossing = NoEdge

----
Wrap(v) ==
    IF v > IntMax THEN v - (IntMax - IntMin + 1)
    ELSE IF v < IntMin THEN v + (IntMax - IntMin + 1)
    ELSE v

(* Mutant: i32 addition that wraps. *)
MovedWrapping(p, dx, dy) == [x |-> Wrap(p.x + dx), y |-> Wrap(p.y + dy)]

(* Mutant: the horizontal sum is not kept in i32. *)
MovedUnbounded(p, dx, dy) == [x |-> p.x + dx, y |-> Saturate(p.y + dy)]

(* current_pointer after a raw movement *)
Moved(p, dx, dy) == [x |-> Saturate(p.x + dx), y |-> Saturate(p.y + dy)]

DesktopFollows(dx, dy) ==
    desktop' = [desktop EXCEPT !.pointer = OnScreen(desktop.bounds, Moved(@, dx, dy))]

(* PointerMoved while local: the router's pointer moves, wherever it is. *)
PointerMovedLocally(dx, dy) ==
    LET next     == Moved(current, dx, dy)
        detected == DetectEdgeCrossing(current, next, bounds, Bindings)
    IN  /\ state.mode = "Local"
        /\ current' = next
        /\ crossing' = detected
        /\ state' = Core!ApplyLocalPointerMove(
                        state, next, IF detected = NoEdge THEN NoEdge ELSE detected.peer).state
        /\ DesktopFollows(dx, dy)
        /\ UNCHANGED bounds

(* PointerMoved in any other mode is an Input event and the router's pointer
   stays; input passes through, so the desktop's does not. *)
OtherPointerMoved(dx, dy) ==
    /\ state.mode # "Local"
    /\ state' = Core!ApplyInput(state, Core!Motion).state
    /\ DesktopFollows(dx, dy)
    /\ UNCHANGED <<current, bounds, crossing>>

(* The panic hotkey, or an IPC, power or permission recovery. *)
Recover ==
    /\ state' = Core!HandlePanicHotkey(state).state
    /\ crossing' = NoEdge
    /\ UNCHANGED <<current, bounds, desktop>>

(* inspect_runtime_environment_and_recover finds other bounds. *)
LayoutChanged ==
    /\ desktop.bounds # bounds
    /\ state' = Core!HandlePanicHotkey(state).state
    /\ crossing' = NoEdge
    /\ current' = desktop.pointer
    /\ bounds' = desktop.bounds
    /\ UNCHANGED desktop

(* External: a monitor is added, removed or resized. *)
ScreenChanges(b) ==
    /\ desktop' = [bounds |-> b, pointer |-> OnScreen(b, desktop.pointer)]
    /\ UNCHANGED <<state, current, bounds, crossing>>

RouterNext ==
    \/ \E dx, dy \in Deltas : PointerMovedLocally(dx, dy)
    \/ \E dx, dy \in Deltas : OtherPointerMoved(dx, dy)
    \/ Recover
    \/ LayoutChanged
    \/ \E b \in Screens : ScreenChanges(b)

RouterSpec == RouterInit /\ [][RouterNext]_routerVars

----
(* Every variable has its type: no movement takes a pointer out of i32. *)
RouterTypeOK ==
    /\ state \in Core!RuntimeInputState
    /\ current \in LogicalPoint
    /\ bounds \in Screens
    /\ crossing \in EdgeCrossing \cup {NoEdge}
    /\ desktop \in [bounds : Screens, pointer : LogicalPoint]

(* A movement never takes the router's pointer the other way, however far
   the pointer has already wandered off the screen. *)
NeverTurnsBack ==
    [][\A dx, dy \in Deltas :
          PointerMovedLocally(dx, dy) =>
            /\ dx >= 0 => current'.x >= current.x
            /\ dx <= 0 => current'.x <= current.x
            /\ dy >= 0 => current'.y >= current.y
            /\ dy <= 0 => current'.y <= current.y]_routerVars

----
(***************************************************************************)
(* Reference geometry, in exact integers: how far a point lies beside and  *)
(* above or below the screen.                                              *)
(***************************************************************************)
Beyond(v, first, size) ==
    IF v < first THEN first - v
    ELSE IF v > first + size - 1 THEN v - (first + size - 1)
    ELSE 0

Beside(b, p) == Beyond(p.x, b.left, b.width)
Above(b, p)  == Beyond(p.y, b.top, b.height)

ExitEdge(b, p) ==
    IF Beside(b, p) >= Above(b, p)
    THEN IF p.x < b.left THEN "Left" ELSE "Right"
    ELSE IF p.y < b.top THEN "Top" ELSE "Bottom"

(* From a point of the screen to one off it. *)
Leaves(b, p, q) ==
    /\ Beside(b, p) = 0 /\ Above(b, p) = 0
    /\ Beside(b, q) > 0 \/ Above(b, q) > 0

(* The daemon starts entering a peer exactly when its pointer leaves the
   screen, in exact arithmetic, through an edge that is bound, the one the
   pointer is farthest beyond, a side edge when it is as far beyond both; the
   offset it sends is the nearest row or column of the local screen.  (A
   distance that does not fit in an i32 saturates, and says nothing.) *)
CrossingIsExact ==
    [][/\ state.mode = "Local" /\ bounds' = bounds
       /\ Beside(bounds, current') <= IntMax /\ Above(bounds, current') <= IntMax
       => LET edge  == ExitEdge(bounds, current')
              exits == Leaves(bounds, current, current')
              near  == OnScreen(bounds, current')
          IN  /\ state'.mode = "EnteringRemote" <=>
                   exits /\ \E i \in DOMAIN Bindings : Bindings[i].edge = edge
              /\ state'.mode = "EnteringRemote" =>
                   /\ crossing'.edge = edge
                   /\ crossing'.offset = IF edge \in {"Left", "Right"} THEN near.y ELSE near.x
                   /\ crossing'.offset \in IF edge \in {"Left", "Right"}
                                           THEN bounds.top .. bounds.top + bounds.height - 1
                                           ELSE bounds.left .. bounds.left + bounds.width - 1
                   /\ state'.pendingPeer = crossing'.peer]_routerVars

(* An edge crossing is a crossing of the local screen's edge: the desktop's
   own pointer is at the edge the daemon leaves by. *)
CrossesAtTheEdge ==
    [][state.mode = "Local" /\ state'.mode = "EnteringRemote" /\ desktop.bounds = bounds =>
         CASE crossing'.edge = "Left"   -> desktop'.pointer.x = bounds.left
           [] crossing'.edge = "Right"  -> desktop'.pointer.x = Right(bounds) - 1
           [] crossing'.edge = "Top"    -> desktop'.pointer.y = bounds.top
           [] crossing'.edge = "Bottom" -> desktop'.pointer.y = Bottom(bounds) - 1]_routerVars

=============================================================================

------------------------- MODULE ControlTransitions -------------------------
(***************************************************************************)
(* The input-routing state machine of akraz-core (RuntimeInputState) as    *)
(* pure operators: the state is one record, and every event has an outcome *)
(* [state, actions], the new state and the sequence of CoreActions the     *)
(* imperative shell must perform.  An event the code refuses with          *)
(* InvalidTransition is refused by its guard operator (Can...).            *)
(*                                                                         *)
(* Keys and buttons are opaque codes.  Of a pointer movement the core      *)
(* keeps only whether it crossed a bound edge (module EdgeGeometry) and    *)
(* where the pointer ended.                                                *)
(***************************************************************************)
EXTENDS Integers, Sequences

CONSTANTS
    Keys,           \* physical keys
    ModifierKeys,   \* the keys ModifierState mirrors (shift, control, alt, meta)
    ControlKeys,    \* left and right control
    AltKeys,        \* left and right alt
    PanicKey,       \* DEFAULT_PANIC_HOTKEY_KEY
    Buttons,        \* mouse buttons
    Peers,
    Sessions,
    Points,         \* pointer positions
    NONE            \* Option::None

ASSUME KeysAssumption ==
    /\ ModifierKeys \subseteq Keys
    /\ ControlKeys \subseteq ModifierKeys
    /\ AltKeys \subseteq ModifierKeys
    /\ PanicKey \in Keys \ ModifierKeys
    /\ Keys \cap Buttons = {}

ASSUME NoneAssumption == NONE \notin Peers \cup Sessions \cup Points

Codes == Keys \cup Buttons

ControlMode == {"Local", "EnteringRemote", "Remote", "LeavingRemote", "Suspended"}

RuntimeInputState ==
    [mode           : ControlMode,
     pendingPeer    : Peers \cup {NONE},
     activePeer     : Peers \cup {NONE},
     activeSession  : Sessions \cup {NONE},
     lastPointer    : Points \cup {NONE},
     pressedKeys    : SUBSET Keys,
     pressedButtons : SUBSET Buttons,
     modifiers      : SUBSET ModifierKeys]

InitialState ==
    [mode |-> "Local", pendingPeer |-> NONE, activePeer |-> NONE, activeSession |-> NONE,
     lastPointer |-> NONE, pressedKeys |-> {}, pressedButtons |-> {}, modifiers |-> {}]

(***************************************************************************)
(* Captured inputs: a key or a button going down or up, or a motion (a     *)
(* pointer movement or a scroll, which the core treats alike).             *)
(***************************************************************************)
KeyInput    == [kind : {"key"}, code : Keys, press : BOOLEAN]
ButtonInput == [kind : {"button"}, code : Buttons, press : BOOLEAN]
Motion      == [kind |-> "motion", code |-> NONE, press |-> FALSE]
CapturedInput == KeyInput \cup ButtonInput \cup {Motion}

(***************************************************************************)
(* CoreActions.                                                            *)
(***************************************************************************)
StartRemoteSession(p) == [name |-> "StartRemoteSession", peer |-> p]
ForwardInput(in)      == [name |-> "ForwardInput", input |-> in]
ReleaseLocalInputs    == [name |-> "ReleaseLocalInputs"]
ReleaseAllInputs      == [name |-> "ReleaseAllInputs"]
StopRemoteSession(s)  == [name |-> "StopRemoteSession", session |-> s]

Outcome(s, acts) == [state |-> s, actions |-> acts]

----
(***************************************************************************)
(* Input bookkeeping.                                                      *)
(***************************************************************************)
Track(held, in) == IF in.press THEN held \cup {in.code} ELSE held \ {in.code}

(* Mutant: buttons are recorded among the keys. *)
RecordInputAsKey(s, in) ==
    [s EXCEPT !.pressedKeys = IF in.kind = "motion" THEN @ ELSE Track(@, in)]

RecordInput(s, in) ==
    [s EXCEPT
        !.pressedKeys    = IF in.kind = "key" THEN Track(@, in) ELSE @,
        !.modifiers      = IF in.kind = "key" /\ in.code \in ModifierKeys THEN Track(@, in) ELSE @,
        !.pressedButtons = IF in.kind = "button" THEN Track(@, in) ELSE @]

(* Mutant: ModifierState is not reset with the keys. *)
ClearInputKeepingModifiers(s) == [s EXCEPT !.pressedKeys = {}, !.pressedButtons = {}]

ClearInput(s) == [s EXCEPT !.pressedKeys = {}, !.pressedButtons = {}, !.modifiers = {}]

HasPressedInput(s) == s.pressedKeys # {} \/ s.pressedButtons # {}

IsPanicHotkeyPress(s, in) ==
    /\ in.kind = "key" /\ in.code = PanicKey /\ in.press
    /\ s.modifiers \cap ControlKeys # {}
    /\ s.modifiers \cap AltKeys # {}

----
(***************************************************************************)
(* Transitions, one operator per handler.                                  *)
(***************************************************************************)

(* A session the peer may still know of. *)
ShouldReleaseRemote(s) ==
    \/ s.mode \in {"Remote", "EnteringRemote", "LeavingRemote"}
    \/ s.pendingPeer # NONE
    \/ s.activePeer # NONE
    \/ s.activeSession # NONE

Detached(s, mode) ==
    [ClearInput(s) EXCEPT !.mode = mode, !.pendingPeer = NONE, !.activePeer = NONE,
                          !.activeSession = NONE]

(* Mutant: the session is stopped before what is down at the peer is released. *)
HandlePanicHotkeyStopFirst(s) ==
    Outcome(Detached(s, "Local"),
            IF ShouldReleaseRemote(s)
            THEN <<ReleaseLocalInputs, StopRemoteSession(s.activeSession), ReleaseAllInputs>>
            ELSE <<ReleaseLocalInputs>>)

HandlePanicHotkey(s) ==
    Outcome(Detached(s, "Local"),
            IF ShouldReleaseRemote(s)
            THEN <<ReleaseLocalInputs, ReleaseAllInputs, StopRemoteSession(s.activeSession)>>
            ELSE <<ReleaseLocalInputs>>)

(* Mutant: input is forwarded as soon as a crossing asks for the peer. *)
ApplyInputEarly(s, in) ==
    LET recorded == RecordInput(s, in)
    IN  IF IsPanicHotkeyPress(recorded, in) THEN HandlePanicHotkey(recorded)
        ELSE Outcome(recorded,
                     IF s.mode \in {"Remote", "EnteringRemote"} THEN <<ForwardInput(in)>> ELSE << >>)

ApplyInput(s, in) ==
    LET recorded == RecordInput(s, in)
    IN  IF IsPanicHotkeyPress(recorded, in) THEN HandlePanicHotkey(recorded)
        ELSE Outcome(recorded, IF s.mode = "Remote" THEN <<ForwardInput(in)>> ELSE << >>)

CanRequestRemoteEntry(s) == s.mode = "Local"

RequestRemoteEntry(s, p) ==
    Outcome([s EXCEPT !.mode = "EnteringRemote", !.pendingPeer = p], <<StartRemoteSession(p)>>)

(* LocalPointerMoved: p is the peer of the crossed edge, NONE without a crossing. *)
ApplyLocalPointerMove(s, next, p) ==
    LET moved == [s EXCEPT !.lastPointer = next]
    IN  IF p = NONE THEN Outcome(moved, << >>) ELSE RequestRemoteEntry(moved, p)

CanConfirmRemoteEntry(s) == s.mode = "EnteringRemote" /\ s.pendingPeer # NONE

ConfirmRemoteEntry(s, sid) ==
    Outcome([s EXCEPT !.mode = "Remote", !.pendingPeer = NONE, !.activePeer = s.pendingPeer,
                      !.activeSession = sid],
            << >>)

CanRequestRemoteLeave(s) == s.mode \in {"Remote", "EnteringRemote"}

(* Mutant: leaving before the entry was confirmed keeps the pending peer. *)
RequestRemoteLeaveKeepingPending(s) ==
    Outcome([Detached(s, "LeavingRemote") EXCEPT !.pendingPeer = s.pendingPeer],
            <<ReleaseAllInputs, StopRemoteSession(s.activeSession)>>)

RequestRemoteLeave(s) ==
    Outcome(Detached(s, "LeavingRemote"),
            (IF HasPressedInput(s) \/ s.activePeer # NONE THEN <<ReleaseAllInputs>> ELSE << >>)
            \o <<StopRemoteSession(s.activeSession)>>)

CanConfirmLocalControl(s) == s.mode = "LeavingRemote"

ConfirmLocalControl(s) == Outcome([s EXCEPT !.mode = "Local"], << >>)

(* Mutant: whether to release is decided after the state was cleared. *)
HandleTransportLostLate(s) == Outcome(Detached(s, "Suspended"), << >>)

HandleTransportLost(s) ==
    Outcome(Detached(s, "Suspended"),
            IF \/ HasPressedInput(s)
               \/ s.pendingPeer # NONE
               \/ s.activePeer # NONE
               \/ s.activeSession # NONE
            THEN <<ReleaseAllInputs>>
            ELSE << >>)

CanCompleteRecovery(s) == s.mode = "Suspended"

CompleteRecovery(s) == Outcome([s EXCEPT !.mode = "Local"], << >>)

=============================================================================

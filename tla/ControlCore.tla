----------------------------- MODULE ControlCore -----------------------------
(***************************************************************************)
(* RuntimeInputState driven by every RuntimeEvent in any order, as         *)
(* apply_event accepts them, together with what the stream of emitted      *)
(* CoreActions tells the peer.  An event the core refuses changes nothing  *)
(* and is a stuttering step.                                               *)
(***************************************************************************)
EXTENDS ControlTransitions

VARIABLES
    core,         \* RuntimeInputState
    emitted,      \* the CoreActions of the last event
    leasedPeer,   \* history: the peer of the last StartRemoteSession not ended since
    remoteHeld    \* history: inputs forwarded as pressed and not released since

vars == <<core, emitted, leasedPeer, remoteHeld>>

Init ==
    /\ core = InitialState
    /\ emitted = << >>
    /\ leasedPeer = NONE
    /\ remoteHeld = {}

(***************************************************************************)
(* The history variables read a batch of actions the way a peer does.      *)
(* The core never forwards and releases in one batch.                      *)
(***************************************************************************)
Emits(acts, name) == \E i \in DOMAIN acts : acts[i].name = name

PeerAfter(acts) ==
    IF Emits(acts, "StopRemoteSession") THEN NONE
    ELSE IF Emits(acts, "StartRemoteSession") THEN acts[1].peer
    ELSE leasedPeer

HeldAfter(acts) ==
    IF Emits(acts, "ReleaseAllInputs") THEN {}
    ELSE IF Emits(acts, "ForwardInput") /\ acts[1].input.kind # "motion"
         THEN Track(remoteHeld, acts[1].input)
    ELSE remoteHeld

Apply(outcome) ==
    /\ core' = outcome.state
    /\ emitted' = outcome.actions
    /\ leasedPeer' = PeerAfter(outcome.actions)
    /\ remoteHeld' = HeldAfter(outcome.actions)

----
(* RuntimeEvent::Input *)
Input(in) == Apply(ApplyInput(core, in))

(* RuntimeEvent::LocalPointerMoved *)
LocalPointerMoved(next, p) ==
    /\ CanRequestRemoteEntry(core)
    /\ Apply(ApplyLocalPointerMove(core, next, p))

(* RuntimeEvent::RemoteEntryRequested *)
RemoteEntryRequested(p) ==
    /\ CanRequestRemoteEntry(core)
    /\ Apply(RequestRemoteEntry(core, p))

RemoteEntryConfirmed(s) ==
    /\ CanConfirmRemoteEntry(core)
    /\ Apply(ConfirmRemoteEntry(core, s))

RemoteLeaveRequested ==
    /\ CanRequestRemoteLeave(core)
    /\ Apply(RequestRemoteLeave(core))

LocalControlConfirmed ==
    /\ CanConfirmLocalControl(core)
    /\ Apply(ConfirmLocalControl(core))

(* EmergencyRecoveryRequested, ScreenLayoutChanged, PermissionLost and
   SystemResumed are one handler. *)
RecoveryInterrupt == Apply(HandlePanicHotkey(core))

(* The session is gone with its transport, without a StopRemoteSession. *)
TransportLost ==
    LET lost == HandleTransportLost(core)
    IN  /\ core' = lost.state
        /\ emitted' = lost.actions
        /\ leasedPeer' = NONE
        /\ remoteHeld' = HeldAfter(lost.actions)

RecoveryCompleted ==
    /\ CanCompleteRecovery(core)
    /\ Apply(CompleteRecovery(core))

Next ==
    \/ \E in \in CapturedInput : Input(in)
    \/ \E next \in Points, p \in Peers \cup {NONE} : LocalPointerMoved(next, p)
    \/ \E p \in Peers : RemoteEntryRequested(p)
    \/ \E s \in Sessions : RemoteEntryConfirmed(s)
    \/ RemoteLeaveRequested
    \/ LocalControlConfirmed
    \/ RecoveryInterrupt
    \/ TransportLost
    \/ RecoveryCompleted

Spec == Init /\ [][Next]_vars

----
CoreAction ==
    [name : {"StartRemoteSession"}, peer : Peers]
    \cup [name : {"ForwardInput"}, input : CapturedInput]
    \cup [name : {"ReleaseLocalInputs", "ReleaseAllInputs"}]
    \cup [name : {"StopRemoteSession"}, session : Sessions \cup {NONE}]

(* Every variable has its type. *)
TypeOK ==
    /\ core \in RuntimeInputState
    /\ emitted \in Seq(CoreAction)
    /\ leasedPeer \in Peers \cup {NONE}
    /\ remoteHeld \subseteq Codes

(* The peer and session fields say exactly what the mode says, and the peer
   the actions have opened is the one the core believes it is entering or
   controlling: no handler forgets a field another one will trust. *)
LeaseMatchesMode ==
    /\ (core.pendingPeer # NONE) <=> (core.mode = "EnteringRemote")
    /\ (core.activePeer # NONE) <=> (core.mode = "Remote")
    /\ (core.activeSession # NONE) <=> (core.mode = "Remote")
    /\ leasedPeer = IF core.mode = "EnteringRemote" THEN core.pendingPeer ELSE core.activePeer

(* Whatever was pressed at the peer and not released there is still recorded
   as pressed, and only while control is remote: no path out of Remote (leave,
   panic, interrupt, transport loss) leaves a key stuck at the peer. *)
NothingStuckAtPeer ==
    /\ remoteHeld \subseteq core.pressedKeys \cup core.pressedButtons
    /\ core.mode # "Remote" => remoteHeld = {}

(* ModifierState, which the panic hotkey is recognised by, is a second copy of
   pressed_keys and never drifts from it. *)
ModifiersMirrorKeys == core.modifiers = core.pressedKeys \cap ModifierKeys

StopAfterRelease ==
    \A j \in DOMAIN emitted' :
        emitted'[j].name = "StopRemoteSession" =>
            /\ emitted'[j].session = core.activeSession
            /\ remoteHeld = {} \/ \E i \in 1 .. (j - 1) : emitted'[i].name = "ReleaseAllInputs"

(* A StopRemoteSession names the session the core held, and comes after the
   ReleaseAllInputs that lifts what is down at the peer: the session manager
   detaches on Stop, so a release sent after it would reach nobody. *)
ReleaseBeforeStop == [][StopAfterRelease]_vars

(* The action stream implements the lease. *)
Lease == INSTANCE RemoteLease
    WITH peer <- leasedPeer, session <- core.activeSession, held <- remoteHeld

LeaseSpec == Lease!Spec

=============================================================================

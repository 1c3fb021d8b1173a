-------------------------- MODULE ControlCoreProofs --------------------------
(***************************************************************************)
(* Proofs about ControlCore for every set of keys, buttons, peers,         *)
(* sessions and points.  The four state properties are one inductive       *)
(* invariant: that the modes and the peer fields agree needs no other, but *)
(* that nothing is stuck at the peer needs the mode, and the types are     *)
(* needed by all of them.                                                  *)
(***************************************************************************)
EXTENDS ControlCore, TLAPS

----
(* Lemmas about the operators of ControlTransitions. *)

(* Recording an input keeps a state a state, leaves mode, peers and session
   alone, and keeps ModifierState in step with the pressed keys. *)
LEMMA RecordInputProps ==
    ASSUME NEW s \in RuntimeInputState, NEW in \in CapturedInput,
           s.modifiers = s.pressedKeys \cap ModifierKeys
    PROVE  LET r == RecordInput(s, in)
           IN  /\ r \in RuntimeInputState
               /\ r.modifiers = r.pressedKeys \cap ModifierKeys
               /\ r.mode = s.mode
               /\ r.pendingPeer = s.pendingPeer
               /\ r.activePeer = s.activePeer
               /\ r.activeSession = s.activeSession
               /\ r.pressedKeys \cup r.pressedButtons =
                    IF in.kind = "motion" THEN s.pressedKeys \cup s.pressedButtons
                    ELSE Track(s.pressedKeys \cup s.pressedButtons, in)
  <1> DEFINE r == RecordInput(s, in)
  <1>1. /\ s.pressedKeys \subseteq Keys
        /\ s.pressedButtons \subseteq Buttons
        /\ s.modifiers \subseteq ModifierKeys
    BY DEF RuntimeInputState
  <1>2. /\ r.mode = s.mode
        /\ r.pendingPeer = s.pendingPeer
        /\ r.activePeer = s.activePeer
        /\ r.activeSession = s.activeSession
        /\ r.pressedKeys = IF in.kind = "key" THEN Track(s.pressedKeys, in) ELSE s.pressedKeys
        /\ r.modifiers = IF in.kind = "key" /\ in.code \in ModifierKeys
                         THEN Track(s.modifiers, in) ELSE s.modifiers
        /\ r.pressedButtons = IF in.kind = "button"
                              THEN Track(s.pressedButtons, in) ELSE s.pressedButtons
    BY DEF RecordInput, RuntimeInputState
  <1>3. ASSUME r.pressedKeys \subseteq Keys, r.pressedButtons \subseteq Buttons,
               r.modifiers \subseteq ModifierKeys
        PROVE  r \in RuntimeInputState
    BY <1>3 DEF RecordInput, RuntimeInputState
  <1> HIDE DEF r
  <1>4. CASE in \in KeyInput
    <2>1. in.kind = "key" /\ in.code \in Keys
      BY <1>4 DEF KeyInput
    <2>2. r.modifiers = r.pressedKeys \cap ModifierKeys
      BY <1>1, <1>2, <2>1 DEF Track
    <2>3. r.pressedKeys \subseteq Keys /\ r.pressedButtons = s.pressedButtons
      BY <1>1, <1>2, <2>1 DEF Track
    <2>4. r.pressedKeys \cup r.pressedButtons = Track(s.pressedKeys \cup s.pressedButtons, in)
      BY <1>1, <1>2, <2>1, KeysAssumption DEF Track
    <2> QED
      BY <1>1, <1>2, <1>3, <2>1, <2>2, <2>3, <2>4 DEF r
  <1>5. CASE in \in ButtonInput
    <2>1. in.kind = "button" /\ in.code \in Buttons
      BY <1>5 DEF ButtonInput
    <2>2. r.modifiers = s.modifiers /\ r.pressedKeys = s.pressedKeys
      BY <1>2, <2>1
    <2>3. r.pressedButtons \subseteq Buttons
      BY <1>1, <1>2, <2>1 DEF Track
    <2>4. r.pressedKeys \cup r.pressedButtons = Track(s.pressedKeys \cup s.pressedButtons, in)
      BY <1>1, <1>2, <2>1, KeysAssumption DEF Track
    <2> QED
      BY <1>1, <1>2, <1>3, <2>1, <2>2, <2>3, <2>4 DEF r
  <1>6. CASE in = Motion
    <2>1. in.kind = "motion"
      BY <1>6 DEF Motion
    <2> QED
      BY <1>1, <1>2, <1>3, <2>1 DEF r
  <1> QED
    BY <1>4, <1>5, <1>6 DEF CapturedInput

(* Every way out of a session forgets the peer, the session and all input. *)
LEMMA DetachedProps ==
    ASSUME NEW s \in RuntimeInputState, NEW mode \in ControlMode
    PROVE  LET d == Detached(s, mode)
           IN  /\ d \in RuntimeInputState
               /\ d.mode = mode
               /\ d.pendingPeer = NONE
               /\ d.activePeer = NONE
               /\ d.activeSession = NONE
               /\ d.pressedKeys = {}
               /\ d.pressedButtons = {}
               /\ d.modifiers = {}
  BY DEF Detached, ClearInput, RuntimeInputState

(* What the peer makes of the batches a way out of a session can emit. *)
LEMMA PartingBatches ==
    ASSUME NEW sid \in Sessions \cup {NONE}
    PROVE  /\ LET acts == <<ReleaseLocalInputs, ReleaseAllInputs, StopRemoteSession(sid)>>
              IN  acts \in Seq(CoreAction) /\ PeerAfter(acts) = NONE /\ HeldAfter(acts) = {}
           /\ LET acts == <<ReleaseAllInputs, StopRemoteSession(sid)>>
              IN  acts \in Seq(CoreAction) /\ PeerAfter(acts) = NONE /\ HeldAfter(acts) = {}
           /\ LET acts == <<StopRemoteSession(sid)>>
              IN  acts \in Seq(CoreAction) /\ PeerAfter(acts) = NONE /\ HeldAfter(acts) = remoteHeld
           /\ LET acts == <<ReleaseLocalInputs>>
              IN  /\ acts \in Seq(CoreAction)
                  /\ PeerAfter(acts) = leasedPeer
                  /\ HeldAfter(acts) = remoteHeld
           /\ LET acts == <<ReleaseAllInputs>>
              IN  acts \in Seq(CoreAction) /\ HeldAfter(acts) = {}
           /\ LET acts == << >>
              IN  /\ acts \in Seq(CoreAction)
                  /\ PeerAfter(acts) = leasedPeer
                  /\ HeldAfter(acts) = remoteHeld
  <1>1. /\ ReleaseLocalInputs \in CoreAction
        /\ ReleaseAllInputs \in CoreAction
        /\ StopRemoteSession(sid) \in CoreAction
    BY DEF CoreAction, ReleaseLocalInputs, ReleaseAllInputs, StopRemoteSession
  <1>2. /\ ReleaseLocalInputs.name = "ReleaseLocalInputs"
        /\ ReleaseAllInputs.name = "ReleaseAllInputs"
        /\ StopRemoteSession(sid).name = "StopRemoteSession"
    BY DEF ReleaseLocalInputs, ReleaseAllInputs, StopRemoteSession
  <1> QED
    BY <1>1, <1>2 DEF PeerAfter, HeldAfter, Emits

----
(* The inductive invariant. *)
IInv ==
    /\ TypeOK
    /\ LeaseMatchesMode
    /\ NothingStuckAtPeer
    /\ ModifiersMirrorKeys

(* c is the core's state but for its mode and pointer. *)
SameSessionAndInput(c) ==
    /\ c.pendingPeer = core.pendingPeer
    /\ c.activePeer = core.activePeer
    /\ c.activeSession = core.activeSession
    /\ c.pressedKeys = core.pressedKeys
    /\ c.pressedButtons = core.pressedButtons
    /\ c.modifiers = core.modifiers

(* A step that ends without a session re-establishes the whole invariant. *)
LEMMA DetachStep ==
    ASSUME NEW s \in RuntimeInputState,
           NEW mode \in {"Local", "LeavingRemote", "Suspended"},
           core' = Detached(s, mode),
           emitted' \in Seq(CoreAction), leasedPeer' = NONE, remoteHeld' = {}
    PROVE  IInv'
  <1>1. mode \in ControlMode
    BY DEF ControlMode
  <1> QED
    BY <1>1, DetachedProps
       DEF IInv, TypeOK, LeaseMatchesMode, NothingStuckAtPeer, ModifiersMirrorKeys

(* handle_panic_hotkey, for the panic hotkey and for every recovery interrupt. *)
LEMMA PanicStep ==
    ASSUME IInv,
           NEW s \in RuntimeInputState,
           s.mode = core.mode, s.pendingPeer = core.pendingPeer,
           s.activePeer = core.activePeer, s.activeSession = core.activeSession,
           Apply(HandlePanicHotkey(s))
    PROVE  IInv'
  <1> DEFINE acts == HandlePanicHotkey(s).actions
  <1>1. /\ core' = Detached(s, "Local")
        /\ emitted' = acts
        /\ leasedPeer' = PeerAfter(acts)
        /\ remoteHeld' = HeldAfter(acts)
    BY DEF Apply, HandlePanicHotkey, Outcome
  <1>2. s.activeSession \in Sessions \cup {NONE}
    BY DEF RuntimeInputState
  <1>3. CASE ShouldReleaseRemote(s)
    <2>1. acts = <<ReleaseLocalInputs, ReleaseAllInputs, StopRemoteSession(s.activeSession)>>
      BY <1>3 DEF HandlePanicHotkey, Outcome
    <2> QED
      BY <1>1, <1>2, <2>1, PartingBatches, DetachStep
  <1>4. CASE ~ShouldReleaseRemote(s)
    <2>1. acts = <<ReleaseLocalInputs>>
      BY <1>4 DEF HandlePanicHotkey, Outcome
    <2>2. leasedPeer = NONE /\ remoteHeld = {}
      BY <1>4 DEF ShouldReleaseRemote, IInv, LeaseMatchesMode, NothingStuckAtPeer
    <2> QED
      BY <1>1, <1>2, <2>1, <2>2, PartingBatches, DetachStep
  <1> QED
    BY <1>3, <1>4

(* A captured input, forwarded when remote; the panic hotkey interrupts. *)
LEMMA InputStep ==
    ASSUME IInv, NEW in \in CapturedInput, Input(in)
    PROVE  IInv'
  <1> DEFINE r == RecordInput(core, in)
             acts == IF core.mode = "Remote" THEN <<ForwardInput(in)>> ELSE << >>
  <1>1. core \in RuntimeInputState /\ core.modifiers = core.pressedKeys \cap ModifierKeys
    BY DEF IInv, TypeOK, ModifiersMirrorKeys
  <1>2. /\ r \in RuntimeInputState
        /\ r.modifiers = r.pressedKeys \cap ModifierKeys
        /\ r.mode = core.mode
        /\ r.pendingPeer = core.pendingPeer
        /\ r.activePeer = core.activePeer
        /\ r.activeSession = core.activeSession
        /\ r.pressedKeys \cup r.pressedButtons =
             IF in.kind = "motion" THEN core.pressedKeys \cup core.pressedButtons
             ELSE Track(core.pressedKeys \cup core.pressedButtons, in)
    BY <1>1, RecordInputProps
  <1> HIDE DEF r
  <1>3. CASE IsPanicHotkeyPress(r, in)
    <2>1. Apply(HandlePanicHotkey(r))
      BY <1>3 DEF Input, ApplyInput, r
    <2> QED
      BY <1>2, <2>1, PanicStep
  <1>4. CASE ~IsPanicHotkeyPress(r, in)
    <2>1. /\ core' = r
          /\ emitted' = acts
          /\ leasedPeer' = PeerAfter(acts)
          /\ remoteHeld' = HeldAfter(acts)
      BY <1>4 DEF Input, ApplyInput, Apply, Outcome, r
    <2>2. /\ emitted' \in Seq(CoreAction)
          /\ leasedPeer' = leasedPeer
          /\ remoteHeld' = IF core.mode = "Remote" /\ in.kind # "motion"
                           THEN Track(remoteHeld, in) ELSE remoteHeld
      <3>1. ForwardInput(in) \in CoreAction /\ ForwardInput(in).name = "ForwardInput"
                /\ ForwardInput(in).input = in
        BY DEF CoreAction, ForwardInput
      <3> QED
        BY <2>1, <3>1 DEF PeerAfter, HeldAfter, Emits
    <2>3. remoteHeld' \subseteq Codes
      <3>1. in.kind # "motion" => in.code \in Codes
        BY DEF CapturedInput, KeyInput, ButtonInput, Motion, Codes
      <3> QED
        BY <2>2, <3>1 DEF IInv, TypeOK, Track
    <2>4. TypeOK' /\ LeaseMatchesMode' /\ ModifiersMirrorKeys'
      BY <1>2, <2>1, <2>2, <2>3 DEF IInv, TypeOK, LeaseMatchesMode, ModifiersMirrorKeys
    <2>5. NothingStuckAtPeer'
      <3>1. remoteHeld' \subseteq r.pressedKeys \cup r.pressedButtons
        <4>1. CASE in.kind = "motion"
          BY <1>2, <2>2, <4>1 DEF IInv, NothingStuckAtPeer
        <4>2. CASE in.kind # "motion" /\ core.mode = "Remote"
          BY <1>2, <2>2, <4>2 DEF IInv, NothingStuckAtPeer, Track
        <4>3. CASE core.mode # "Remote"
          BY <2>2, <4>3 DEF IInv, NothingStuckAtPeer
        <4> QED
          BY <4>1, <4>2, <4>3
      <3>2. core'.mode # "Remote" => remoteHeld' = {}
        BY <1>2, <2>1, <2>2 DEF IInv, NothingStuckAtPeer
      <3> QED
        BY <2>1, <3>1, <3>2 DEF NothingStuckAtPeer
    <2> QED
      BY <2>4, <2>5 DEF IInv
  <1> QED
    BY <1>3, <1>4

(* Asking for a peer, by an edge crossing (which records the pointer) or on
   request. *)
LEMMA EntryStep ==
    ASSUME IInv, core.mode = "Local",
           NEW c \in RuntimeInputState, SameSessionAndInput(c), c.mode = "Local",
           NEW p \in Peers,
           Apply(RequestRemoteEntry(c, p))
    PROVE  IInv'
  <1> DEFINE acts == <<StartRemoteSession(p)>>
  <1>1. /\ core' = [c EXCEPT !.mode = "EnteringRemote", !.pendingPeer = p]
        /\ emitted' = acts
        /\ leasedPeer' = PeerAfter(acts)
        /\ remoteHeld' = HeldAfter(acts)
    BY DEF Apply, RequestRemoteEntry, Outcome
  <1>2. emitted' \in Seq(CoreAction) /\ leasedPeer' = p /\ remoteHeld' = remoteHeld
    <2>1. /\ StartRemoteSession(p) \in CoreAction
          /\ StartRemoteSession(p).name = "StartRemoteSession"
          /\ StartRemoteSession(p).peer = p
      BY DEF CoreAction, StartRemoteSession
    <2> QED
      BY <1>1, <2>1 DEF PeerAfter, HeldAfter, Emits
  <1>3. core' \in RuntimeInputState
    BY <1>1 DEF RuntimeInputState, ControlMode
  <1>4. /\ core'.mode = "EnteringRemote" /\ core'.pendingPeer = p
        /\ core'.activePeer = core.activePeer /\ core'.activeSession = core.activeSession
        /\ core'.pressedKeys = core.pressedKeys /\ core'.pressedButtons = core.pressedButtons
        /\ core'.modifiers = core.modifiers
    BY <1>1 DEF SameSessionAndInput, RuntimeInputState
  <1>5. p # NONE
    BY NoneAssumption
  <1> QED
    BY <1>2, <1>3, <1>4, <1>5
       DEF IInv, TypeOK, LeaseMatchesMode, NothingStuckAtPeer, ModifiersMirrorKeys

(* A step that ends in local control, from a mode without a session, and
   emits nothing. *)
LEMMA IdleStep ==
    ASSUME IInv, core.mode \in {"Local", "LeavingRemote", "Suspended"},
           NEW c \in RuntimeInputState, SameSessionAndInput(c), c.mode = "Local",
           Apply(Outcome(c, << >>))
    PROVE  IInv'
  <1>1. emitted' \in Seq(CoreAction) /\ leasedPeer' = leasedPeer /\ remoteHeld' = remoteHeld
    BY DEF Apply, Outcome, PeerAfter, HeldAfter, Emits
  <1>2. core' = c
    BY DEF Apply, Outcome
  <1> QED
    BY <1>1, <1>2
       DEF IInv, TypeOK, LeaseMatchesMode, NothingStuckAtPeer, ModifiersMirrorKeys,
           SameSessionAndInput

(* RuntimeEvent::LocalPointerMoved: a crossing, or a movement within the layout. *)
LEMMA PointerStep ==
    ASSUME IInv, NEW next \in Points, NEW p \in Peers \cup {NONE}, LocalPointerMoved(next, p)
    PROVE  IInv'
  <1> DEFINE moved == [core EXCEPT !.lastPointer = next]
  <1>1. moved \in RuntimeInputState /\ SameSessionAndInput(moved) /\ moved.mode = core.mode
    BY DEF IInv, TypeOK, RuntimeInputState, SameSessionAndInput
  <1>2. core.mode = "Local"
    BY DEF LocalPointerMoved, CanRequestRemoteEntry
  <1> HIDE DEF moved
  <1>3. CASE p = NONE
    <2>1. Apply(Outcome(moved, << >>))
      BY <1>3 DEF LocalPointerMoved, ApplyLocalPointerMove, moved
    <2> QED
      BY <1>1, <1>2, <2>1, IdleStep
  <1>4. CASE p \in Peers
    <2>1. Apply(RequestRemoteEntry(moved, p))
      BY <1>4, NoneAssumption DEF LocalPointerMoved, ApplyLocalPointerMove, moved
    <2> QED
      BY <1>1, <1>2, <1>4, <2>1, EntryStep
  <1> QED
    BY <1>3, <1>4

(* The pending peer becomes the controlled one. *)
LEMMA ConfirmStep ==
    ASSUME IInv, NEW sid \in Sessions, RemoteEntryConfirmed(sid)
    PROVE  IInv'
  <1>1. core.mode = "EnteringRemote" /\ core.pendingPeer # NONE
    BY DEF RemoteEntryConfirmed, CanConfirmRemoteEntry
  <1>2. core' = [core EXCEPT !.mode = "Remote", !.pendingPeer = NONE,
                             !.activePeer = core.pendingPeer, !.activeSession = sid]
    BY DEF RemoteEntryConfirmed, ConfirmRemoteEntry, Apply, Outcome
  <1>3. emitted' \in Seq(CoreAction) /\ leasedPeer' = leasedPeer /\ remoteHeld' = remoteHeld
    BY DEF RemoteEntryConfirmed, ConfirmRemoteEntry, Apply, Outcome, PeerAfter, HeldAfter, Emits
  <1>4. core' \in RuntimeInputState
    BY <1>2 DEF IInv, TypeOK, RuntimeInputState, ControlMode
  <1>5. /\ core'.mode = "Remote" /\ core'.pendingPeer = NONE
        /\ core'.activePeer = core.pendingPeer /\ core'.activeSession = sid
        /\ core'.pressedKeys = core.pressedKeys /\ core'.pressedButtons = core.pressedButtons
        /\ core'.modifiers = core.modifiers
    BY <1>2 DEF IInv, TypeOK, RuntimeInputState
  <1>6. sid # NONE
    BY NoneAssumption
  <1> QED
    BY <1>1, <1>3, <1>4, <1>5, <1>6
       DEF IInv, TypeOK, LeaseMatchesMode, NothingStuckAtPeer, ModifiersMirrorKeys

(* Leaving releases the peer whenever something can be down there. *)
LEMMA LeaveStep ==
    ASSUME IInv, RemoteLeaveRequested
    PROVE  IInv'
  <1> DEFINE stop == StopRemoteSession(core.activeSession)
             release == HasPressedInput(core) \/ core.activePeer # NONE
  <1>1. core.activeSession \in Sessions \cup {NONE} /\ core \in RuntimeInputState
    BY DEF IInv, TypeOK, RuntimeInputState
  <1>2. core' = Detached(core, "LeavingRemote")
    BY DEF RemoteLeaveRequested, RequestRemoteLeave, Apply, Outcome
  <1>3. /\ emitted' = IF release THEN <<ReleaseAllInputs, stop>> ELSE <<stop>>
        /\ leasedPeer' = PeerAfter(emitted')
        /\ remoteHeld' = HeldAfter(emitted')
    BY DEF RemoteLeaveRequested, RequestRemoteLeave, Apply, Outcome
  <1>4. ~release => remoteHeld = {}
    BY DEF HasPressedInput, IInv, LeaseMatchesMode, NothingStuckAtPeer
  <1>5. emitted' \in Seq(CoreAction) /\ leasedPeer' = NONE /\ remoteHeld' = {}
    BY <1>1, <1>3, <1>4, PartingBatches
  <1> QED
    BY <1>1, <1>2, <1>5, DetachStep

(* Losing the transport releases the peer whenever something can be down there. *)
LEMMA TransportLostStep ==
    ASSUME IInv, TransportLost
    PROVE  IInv'
  <1>1. core \in RuntimeInputState /\ core' = Detached(core, "Suspended") /\ leasedPeer' = NONE
    BY DEF IInv, TypeOK, TransportLost, HandleTransportLost, Outcome
  <1>2. CASE emitted' = <<ReleaseAllInputs>>
    <2>1. remoteHeld' = {} /\ emitted' \in Seq(CoreAction)
      BY <1>2, PartingBatches DEF TransportLost
    <2> QED
      BY <1>1, <2>1, DetachStep
  <1>3. CASE emitted' = << >> /\ core.activeSession = NONE
    <2>1. remoteHeld = {}
      BY <1>3 DEF IInv, LeaseMatchesMode, NothingStuckAtPeer
    <2>2. remoteHeld' = {} /\ emitted' \in Seq(CoreAction)
      BY <1>3, <2>1, PartingBatches DEF TransportLost
    <2> QED
      BY <1>1, <2>2, DetachStep
  <1> QED
    BY <1>2, <1>3 DEF TransportLost, HandleTransportLost, Outcome

LEMMA InitIInv == Init => IInv
  <1> SUFFICES ASSUME Init PROVE IInv
    OBVIOUS
  <1>1. TypeOK
    BY DEF Init, InitialState, TypeOK, RuntimeInputState, ControlMode
  <1> QED
    BY <1>1 DEF Init, InitialState, IInv, LeaseMatchesMode, NothingStuckAtPeer, ModifiersMirrorKeys

LEMMA NextIInv == IInv /\ [Next]_vars => IInv'
  <1> SUFFICES ASSUME IInv, [Next]_vars PROVE IInv'
    OBVIOUS
  <1>1. core \in RuntimeInputState /\ SameSessionAndInput(core)
    BY DEF IInv, TypeOK, SameSessionAndInput
  <1>2. ASSUME NEW in \in CapturedInput, Input(in) PROVE IInv'
    BY <1>2, InputStep
  <1>3. ASSUME NEW next \in Points, NEW p \in Peers \cup {NONE}, LocalPointerMoved(next, p)
        PROVE  IInv'
    BY <1>3, PointerStep
  <1>4. ASSUME NEW p \in Peers, RemoteEntryRequested(p) PROVE IInv'
    BY <1>1, <1>4, EntryStep DEF RemoteEntryRequested, CanRequestRemoteEntry
  <1>5. ASSUME NEW s \in Sessions, RemoteEntryConfirmed(s) PROVE IInv'
    BY <1>5, ConfirmStep
  <1>6. CASE RemoteLeaveRequested
    BY <1>6, LeaveStep
  <1>7. ASSUME core.mode \in {"LeavingRemote", "Suspended"},
               Apply(Outcome([core EXCEPT !.mode = "Local"], << >>))
        PROVE  IInv'
    <2> DEFINE local == [core EXCEPT !.mode = "Local"]
    <2>1. local \in RuntimeInputState /\ SameSessionAndInput(local) /\ local.mode = "Local"
      BY <1>1 DEF RuntimeInputState, ControlMode, SameSessionAndInput
    <2> HIDE DEF local
    <2>2. Apply(Outcome(local, << >>))
      BY <1>7 DEF local
    <2> QED
      BY <1>7, <2>1, <2>2, IdleStep
  <1>8. CASE LocalControlConfirmed
    BY <1>7, <1>8 DEF LocalControlConfirmed, CanConfirmLocalControl, ConfirmLocalControl
  <1>9. CASE RecoveryInterrupt
    BY <1>1, <1>9, PanicStep DEF RecoveryInterrupt
  <1>10. CASE TransportLost
    BY <1>10, TransportLostStep
  <1>11. CASE RecoveryCompleted
    BY <1>7, <1>11 DEF RecoveryCompleted, CanCompleteRecovery, CompleteRecovery
  <1>12. CASE UNCHANGED vars
    BY <1>12 DEF vars, IInv, TypeOK, LeaseMatchesMode, NothingStuckAtPeer, ModifiersMirrorKeys
  <1> QED
    BY <1>2, <1>3, <1>4, <1>5, <1>6, <1>8, <1>9, <1>10, <1>11, <1>12 DEF Next

LEMMA Invariance == Spec => []IInv
  BY InitIInv, NextIInv, PTL DEF Spec

----
(* RuntimeInputState keeps its types, and emits only well-formed actions. *)
THEOREM TypeCorrect == Spec => []TypeOK
  BY Invariance, PTL DEF IInv

(* Mode, pending peer, active peer and active session always agree, with each
   other and with the session the emitted actions have opened. *)
THEOREM ModeAgreesWithLease == Spec => []LeaseMatchesMode
  BY Invariance, PTL DEF IInv

(* No way out of Remote leaves a key or button down at the peer. *)
THEOREM NothingStuck == Spec => []NothingStuckAtPeer
  BY Invariance, PTL DEF IInv

(* ModifierState never drifts from the pressed keys, so the panic hotkey is
   recognised exactly when the recorded keys hold control and alt. *)
THEOREM ModifiersMirror == Spec => []ModifiersMirrorKeys
  BY Invariance, PTL DEF IInv

----
(* What the emitted batch is, by the event that emitted it. *)

LEMMA PanicBatch ==
    ASSUME IInv,
           NEW s \in RuntimeInputState,
           s.mode = core.mode, s.pendingPeer = core.pendingPeer,
           s.activePeer = core.activePeer, s.activeSession = core.activeSession,
           Apply(HandlePanicHotkey(s))
    PROVE  /\ emitted' \in {<<ReleaseLocalInputs>>,
                            <<ReleaseLocalInputs, ReleaseAllInputs,
                              StopRemoteSession(core.activeSession)>>}
           /\ core'.activeSession = NONE
           /\ \/ leasedPeer' = NONE /\ remoteHeld' = {} /\ leasedPeer # NONE
              \/ leasedPeer' = leasedPeer /\ remoteHeld' = remoteHeld /\ core.activeSession = NONE
  <1> DEFINE acts == HandlePanicHotkey(s).actions
  <1>1. /\ core' = Detached(s, "Local")
        /\ emitted' = acts
        /\ leasedPeer' = PeerAfter(acts)
        /\ remoteHeld' = HeldAfter(acts)
    BY DEF Apply, HandlePanicHotkey, Outcome
  <1>2. core'.activeSession = NONE
    BY <1>1, DetachedProps DEF ControlMode
  <1>3. core.activeSession \in Sessions \cup {NONE}
    BY DEF IInv, TypeOK, RuntimeInputState
  <1>4. CASE ShouldReleaseRemote(s)
    <2>1. acts = <<ReleaseLocalInputs, ReleaseAllInputs, StopRemoteSession(core.activeSession)>>
      BY <1>4 DEF HandlePanicHotkey, Outcome
    <2>2. leasedPeer' = NONE /\ remoteHeld' = {}
      BY <1>1, <1>3, <2>1, PartingBatches
    <2>3. CASE leasedPeer # NONE
      BY <1>1, <1>2, <2>1, <2>2, <2>3
    <2>4. CASE leasedPeer = NONE
      BY <1>1, <1>2, <2>1, <2>2, <2>4 DEF IInv, LeaseMatchesMode, NothingStuckAtPeer
    <2> QED
      BY <2>3, <2>4
  <1>5. CASE ~ShouldReleaseRemote(s)
    <2>1. acts = <<ReleaseLocalInputs>>
      BY <1>5 DEF HandlePanicHotkey, Outcome
    <2>2. leasedPeer' = leasedPeer /\ remoteHeld' = remoteHeld
      BY <1>1, <1>3, <2>1, PartingBatches
    <2>3. core.activeSession = NONE
      BY <1>5 DEF ShouldReleaseRemote
    <2> QED
      BY <1>1, <1>2, <2>1, <2>2, <2>3
  <1> QED
    BY <1>4, <1>5

LEMMA InputBatch ==
    ASSUME IInv, NEW in \in CapturedInput, Input(in)
    PROVE  \/ \E s \in RuntimeInputState :
                /\ s.mode = core.mode /\ s.pendingPeer = core.pendingPeer
                /\ s.activePeer = core.activePeer /\ s.activeSession = core.activeSession
                /\ Apply(HandlePanicHotkey(s))
           \/ /\ emitted' = IF core.mode = "Remote" THEN <<ForwardInput(in)>> ELSE << >>
              /\ core'.activeSession = core.activeSession
              /\ leasedPeer' = leasedPeer
              /\ remoteHeld' = IF core.mode = "Remote" /\ in.kind # "motion"
                               THEN Track(remoteHeld, in) ELSE remoteHeld
  <1> DEFINE r == RecordInput(core, in)
             acts == IF core.mode = "Remote" THEN <<ForwardInput(in)>> ELSE << >>
  <1>1. /\ r \in RuntimeInputState
        /\ r.mode = core.mode
        /\ r.pendingPeer = core.pendingPeer
        /\ r.activePeer = core.activePeer
        /\ r.activeSession = core.activeSession
    BY RecordInputProps DEF IInv, TypeOK, ModifiersMirrorKeys
  <1> HIDE DEF r
  <1>2. CASE IsPanicHotkeyPress(r, in)
    <2>1. Apply(HandlePanicHotkey(r))
      BY <1>2 DEF Input, ApplyInput, r
    <2> QED
      BY <1>1, <2>1
  <1>3. CASE ~IsPanicHotkeyPress(r, in)
    <2>1. /\ core' = r
          /\ emitted' = acts
          /\ leasedPeer' = PeerAfter(acts)
          /\ remoteHeld' = HeldAfter(acts)
      BY <1>3 DEF Input, ApplyInput, Apply, Outcome, r
    <2>2. ForwardInput(in).name = "ForwardInput" /\ ForwardInput(in).input = in
      BY DEF ForwardInput
    <2>3. /\ leasedPeer' = leasedPeer
          /\ remoteHeld' = IF core.mode = "Remote" /\ in.kind # "motion"
                           THEN Track(remoteHeld, in) ELSE remoteHeld
      BY <2>1, <2>2 DEF PeerAfter, HeldAfter, Emits
    <2> QED
      BY <1>1, <2>1, <2>3
  <1> QED
    BY <1>2, <1>3

LEMMA EntryBatch ==
    ASSUME NEW c, NEW p, Apply(RequestRemoteEntry(c, p)), c.activeSession = core.activeSession,
           c \in RuntimeInputState
    PROVE  /\ emitted' = <<StartRemoteSession(p)>>
           /\ core'.activeSession = core.activeSession
           /\ leasedPeer' = p
           /\ remoteHeld' = remoteHeld
  <1>1. /\ emitted' = <<StartRemoteSession(p)>>
        /\ leasedPeer' = PeerAfter(emitted')
        /\ remoteHeld' = HeldAfter(emitted')
    BY DEF Apply, RequestRemoteEntry, Outcome
  <1>2. core'.activeSession = core.activeSession
    BY DEF Apply, RequestRemoteEntry, Outcome, RuntimeInputState
  <1>3. StartRemoteSession(p).name = "StartRemoteSession" /\ StartRemoteSession(p).peer = p
    BY DEF StartRemoteSession
  <1> QED
    BY <1>1, <1>2, <1>3 DEF PeerAfter, HeldAfter, Emits

LEMMA LeaveBatch ==
    ASSUME IInv, RemoteLeaveRequested
    PROVE  /\ \/ emitted' = <<ReleaseAllInputs, StopRemoteSession(core.activeSession)>>
              \/ emitted' = <<StopRemoteSession(core.activeSession)>> /\ remoteHeld = {}
           /\ core'.activeSession = NONE /\ leasedPeer' = NONE /\ remoteHeld' = {}
           /\ leasedPeer # NONE
  <1> DEFINE stop == StopRemoteSession(core.activeSession)
             release == HasPressedInput(core) \/ core.activePeer # NONE
  <1>1. core.activeSession \in Sessions \cup {NONE} /\ core \in RuntimeInputState
    BY DEF IInv, TypeOK, RuntimeInputState
  <1>2. core'.activeSession = NONE
    BY <1>1, DetachedProps
       DEF RemoteLeaveRequested, RequestRemoteLeave, Apply, Outcome, ControlMode
  <1>3. /\ emitted' = IF release THEN <<ReleaseAllInputs, stop>> ELSE <<stop>>
        /\ leasedPeer' = PeerAfter(emitted')
        /\ remoteHeld' = HeldAfter(emitted')
    BY DEF RemoteLeaveRequested, RequestRemoteLeave, Apply, Outcome
  <1>4. ~release => remoteHeld = {}
    BY DEF HasPressedInput, IInv, LeaseMatchesMode, NothingStuckAtPeer
  <1>5. leasedPeer' = NONE /\ remoteHeld' = {}
    BY <1>1, <1>3, <1>4, PartingBatches
  <1>6. leasedPeer # NONE
    BY DEF RemoteLeaveRequested, CanRequestRemoteLeave, IInv, LeaseMatchesMode
  <1> QED
    BY <1>2, <1>3, <1>4, <1>5, <1>6

(* The steps that emit nothing and touch neither the session nor the peer. *)
LEMMA QuietBatch ==
    ASSUME NEW c, Apply(Outcome(c, << >>)), c.activeSession = core.activeSession
    PROVE  /\ emitted' = << >>
           /\ core'.activeSession = core.activeSession
           /\ leasedPeer' = leasedPeer
           /\ remoteHeld' = remoteHeld
  BY DEF Apply, Outcome, PeerAfter, HeldAfter, Emits

(* What a step of the core is for the peer, whichever event took it: nothing,
   a forwarded input, a request for a peer, a confirmed session, or a parting. *)
Quietly ==
    /\ emitted' = << >>
    /\ core'.activeSession = core.activeSession
    /\ leasedPeer' = leasedPeer
    /\ remoteHeld' = remoteHeld

Forwards(in) ==
    /\ emitted' = <<ForwardInput(in)>>
    /\ core.mode = "Remote"
    /\ core'.activeSession = core.activeSession
    /\ leasedPeer' = leasedPeer
    /\ remoteHeld' = IF in.kind # "motion" THEN Track(remoteHeld, in) ELSE remoteHeld

AsksFor(p) ==
    /\ emitted' = <<StartRemoteSession(p)>>
    /\ core.mode = "Local"
    /\ core'.activeSession = core.activeSession
    /\ leasedPeer' = p
    /\ remoteHeld' = remoteHeld

ConfirmsSession(sid) ==
    /\ emitted' = << >>
    /\ core.mode = "EnteringRemote"
    /\ core'.activeSession = sid
    /\ leasedPeer' = leasedPeer
    /\ remoteHeld' = remoteHeld

Parts ==
    /\ \/ emitted' \in {<< >>, <<ReleaseLocalInputs>>, <<ReleaseAllInputs>>}
       \/ emitted' = <<ReleaseAllInputs, StopRemoteSession(core.activeSession)>>
       \/ emitted' = <<StopRemoteSession(core.activeSession)>> /\ remoteHeld = {}
       \/ emitted' = <<ReleaseLocalInputs, ReleaseAllInputs, StopRemoteSession(core.activeSession)>>
    /\ core'.activeSession = NONE
    /\ \/ leasedPeer' = NONE /\ remoteHeld' = {}
       \/ leasedPeer' = leasedPeer /\ remoteHeld' = remoteHeld /\ core.activeSession = NONE

LEMMA StepKinds ==
    ASSUME IInv, Next
    PROVE  \/ Quietly
           \/ \E in \in CapturedInput : Forwards(in)
           \/ \E p \in Peers : AsksFor(p)
           \/ \E sid \in Sessions : ConfirmsSession(sid)
           \/ Parts
  <1>1. core \in RuntimeInputState
    BY DEF IInv, TypeOK
  <1>2. ASSUME NEW s \in RuntimeInputState,
               s.mode = core.mode, s.pendingPeer = core.pendingPeer,
               s.activePeer = core.activePeer, s.activeSession = core.activeSession,
               Apply(HandlePanicHotkey(s))
        PROVE  Parts
    BY <1>2, PanicBatch DEF Parts
  <1>3. ASSUME NEW in \in CapturedInput, Input(in)
        PROVE  Quietly \/ Forwards(in) \/ Parts
    <2>1. CASE \E s \in RuntimeInputState :
                  /\ s.mode = core.mode /\ s.pendingPeer = core.pendingPeer
                  /\ s.activePeer = core.activePeer /\ s.activeSession = core.activeSession
                  /\ Apply(HandlePanicHotkey(s))
      BY <1>2, <2>1
    <2>2. CASE /\ emitted' = IF core.mode = "Remote" THEN <<ForwardInput(in)>> ELSE << >>
               /\ core'.activeSession = core.activeSession
               /\ leasedPeer' = leasedPeer
               /\ remoteHeld' = IF core.mode = "Remote" /\ in.kind # "motion"
                                THEN Track(remoteHeld, in) ELSE remoteHeld
      <3>1. CASE core.mode = "Remote"
        BY <2>2, <3>1 DEF Forwards
      <3>2. CASE core.mode # "Remote"
        BY <2>2, <3>2 DEF Quietly
      <3> QED
        BY <3>1, <3>2
    <2> QED
      BY <1>3, <2>1, <2>2, InputBatch
  <1>4. ASSUME NEW next \in Points, NEW p \in Peers \cup {NONE}, LocalPointerMoved(next, p)
        PROVE  Quietly \/ (p \in Peers /\ AsksFor(p))
    <2> DEFINE moved == [core EXCEPT !.lastPointer = next]
    <2>1. moved \in RuntimeInputState /\ moved.activeSession = core.activeSession
      BY <1>1 DEF RuntimeInputState
    <2>2. core.mode = "Local"
      BY <1>4 DEF LocalPointerMoved, CanRequestRemoteEntry
    <2> HIDE DEF moved
    <2>3. CASE p = NONE
      <3>1. Apply(Outcome(moved, << >>))
        BY <1>4, <2>3 DEF LocalPointerMoved, ApplyLocalPointerMove, moved
      <3> QED
        BY <2>1, <3>1, QuietBatch DEF Quietly
    <2>4. CASE p \in Peers
      <3>1. Apply(RequestRemoteEntry(moved, p))
        BY <1>4, <2>4, NoneAssumption DEF LocalPointerMoved, ApplyLocalPointerMove, moved
      <3> QED
        BY <2>1, <2>2, <2>4, <3>1, EntryBatch DEF AsksFor
    <2> QED
      BY <2>3, <2>4
  <1>5. ASSUME NEW p \in Peers, RemoteEntryRequested(p)
        PROVE  AsksFor(p)
    BY <1>1, <1>5, EntryBatch DEF RemoteEntryRequested, CanRequestRemoteEntry, AsksFor
  <1>6. ASSUME NEW sid \in Sessions, RemoteEntryConfirmed(sid)
        PROVE  ConfirmsSession(sid)
    <2>1. core'.activeSession = sid /\ core.mode = "EnteringRemote"
      BY <1>1, <1>6
         DEF RemoteEntryConfirmed, CanConfirmRemoteEntry, ConfirmRemoteEntry, Apply, Outcome,
             RuntimeInputState
    <2>2. emitted' = << >> /\ leasedPeer' = leasedPeer /\ remoteHeld' = remoteHeld
      BY <1>6
         DEF RemoteEntryConfirmed, ConfirmRemoteEntry, Apply, Outcome, PeerAfter, HeldAfter, Emits
    <2> QED
      BY <2>1, <2>2 DEF ConfirmsSession
  <1>7. CASE RemoteLeaveRequested
    BY <1>7, LeaveBatch DEF Parts
  <1>8. ASSUME Apply(Outcome([core EXCEPT !.mode = "Local"], << >>))
        PROVE  Quietly
    <2>1. [core EXCEPT !.mode = "Local"].activeSession = core.activeSession
      BY <1>1 DEF RuntimeInputState
    <2> QED
      BY <1>8, <2>1, QuietBatch DEF Quietly
  <1>9. CASE TransportLost
    <2>1. core'.activeSession = NONE /\ leasedPeer' = NONE
      BY <1>1, <1>9, DetachedProps DEF TransportLost, HandleTransportLost, Outcome, ControlMode
    <2>2. emitted' \in {<< >>, <<ReleaseAllInputs>>}
      BY <1>9 DEF TransportLost, HandleTransportLost, Outcome
    <2>3. remoteHeld' = {}
      BY <1>9, TransportLostStep DEF IInv, LeaseMatchesMode, NothingStuckAtPeer,
         TransportLost, HandleTransportLost, Outcome, Detached, ClearInput, TypeOK,
         RuntimeInputState
    <2> QED
      BY <2>1, <2>2, <2>3 DEF Parts
  <1> QED
    BY <1>1, <1>2, <1>3, <1>4, <1>5, <1>6, <1>7, <1>8, <1>9
       DEF Next, RecoveryInterrupt, LocalControlConfirmed, ConfirmLocalControl,
           RecoveryCompleted, CompleteRecovery

----
(* A session is stopped under its own name, and never before what is down at
   the peer has been released. *)
THEOREM StopsAreOrdered == Spec => ReleaseBeforeStop
  <1>1. ASSUME IInv, Next PROVE StopAfterRelease
    <2> DEFINE stop == StopRemoteSession(core.activeSession)
    <2>1. stop.name = "StopRemoteSession" /\ stop.session = core.activeSession
      BY DEF StopRemoteSession
    <2>2. /\ ReleaseAllInputs.name = "ReleaseAllInputs"
          /\ ReleaseLocalInputs.name = "ReleaseLocalInputs"
          /\ \A in \in CapturedInput : ForwardInput(in).name = "ForwardInput"
          /\ \A p \in Peers : StartRemoteSession(p).name = "StartRemoteSession"
      BY DEF ReleaseAllInputs, ReleaseLocalInputs, ForwardInput, StartRemoteSession
    <2> HIDE DEF stop
    <2>3. CASE emitted' = << >>
      BY <2>3 DEF StopAfterRelease
    <2>4. CASE \E a : emitted' = <<a>> /\ a.name # "StopRemoteSession"
      BY <2>4 DEF StopAfterRelease
    <2>5. CASE emitted' = <<stop>> /\ remoteHeld = {}
      BY <2>1, <2>5 DEF StopAfterRelease
    <2>6. CASE emitted' = <<ReleaseAllInputs, stop>>
      BY <2>1, <2>2, <2>6 DEF StopAfterRelease
    <2>7. CASE emitted' = <<ReleaseLocalInputs, ReleaseAllInputs, stop>>
      BY <2>1, <2>2, <2>7 DEF StopAfterRelease
    <2> QED
      BY <1>1, <2>2, <2>3, <2>4, <2>5, <2>6, <2>7, StepKinds
         DEF Quietly, Forwards, AsksFor, ConfirmsSession, Parts, stop
  <1>2. IInv /\ [Next]_vars => [StopAfterRelease]_vars
    BY <1>1
  <1> QED
    BY <1>2, Invariance, PTL DEF Spec, ReleaseBeforeStop

(* The core implements the lease it promises its peers. *)
THEOREM ImplementsLease == Spec => LeaseSpec
  <1>1. Init => Lease!Init
    BY DEF Init, InitialState, Lease!Init
  <1>2. ASSUME IInv, [Next]_vars PROVE [Lease!Next]_Lease!vars
    <2>1. CASE UNCHANGED vars \/ Quietly
      BY <2>1 DEF vars, Lease!vars, Quietly
    <2>2. ASSUME NEW in \in CapturedInput, Forwards(in)
          PROVE  [Lease!Next]_Lease!vars
      <3>1. core.activeSession # NONE
        BY <1>2, <2>2 DEF Forwards, IInv, LeaseMatchesMode
      <3>2. CASE in.kind = "motion"
        BY <2>2, <3>2 DEF Forwards, Lease!vars
      <3>3. CASE in.kind # "motion"
        <4>1. in.code \in Codes
          BY <3>3 DEF CapturedInput, KeyInput, ButtonInput, Motion, Codes
        <4>2. Lease!Press(in.code) \/ Lease!Lift(in.code)
          BY <2>2, <3>1, <3>3 DEF Forwards, Track, Lease!Press, Lease!Lift
        <4> QED
          BY <4>1, <4>2 DEF Lease!Next
      <3> QED
        BY <3>2, <3>3
    <2>3. ASSUME NEW p \in Peers, AsksFor(p)
          PROVE  Lease!Next
      BY <1>2, <2>3 DEF AsksFor, IInv, LeaseMatchesMode, Lease!Next, Lease!Offer
    <2>4. ASSUME NEW sid \in Sessions, ConfirmsSession(sid)
          PROVE  Lease!Next
      BY <1>2, <2>4, NoneAssumption
         DEF ConfirmsSession, IInv, LeaseMatchesMode, Lease!Next, Lease!Confirm
    <2>5. CASE Parts
      <3>1. CASE leasedPeer # NONE /\ leasedPeer' = NONE /\ remoteHeld' = {}
        BY <2>5, <3>1 DEF Parts, Lease!Next, Lease!End
      <3>2. CASE leasedPeer = NONE /\ leasedPeer' = NONE /\ remoteHeld' = {}
        BY <1>2, <2>5, <3>2
           DEF Parts, IInv, LeaseMatchesMode, NothingStuckAtPeer, TypeOK, RuntimeInputState,
               ControlMode, Lease!vars
      <3>3. CASE leasedPeer' = leasedPeer /\ remoteHeld' = remoteHeld /\ core.activeSession = NONE
        BY <2>5, <3>3 DEF Parts, Lease!vars
      <3> QED
        BY <2>5, <3>1, <3>2, <3>3 DEF Parts
    <2> QED
      BY <1>2, <2>1, <2>2, <2>3, <2>4, <2>5, StepKinds
  <1> QED
    BY <1>1, <1>2, Invariance, PTL DEF Spec, LeaseSpec, Lease!Spec

=============================================================================

------------------------- MODULE CaptureDaemonProofs -------------------------
(***************************************************************************)
(* Proofs about the sending daemon, for any peers, any capacity of the     *)
(* capture channel and any drain batch.  Nothing stays down at the peer    *)
(* because of what the two threads have still to dispatch: while control   *)
(* is remote the worker's forwards lead to what the core records as        *)
(* pressed, and once it is not, the session is gone, or was never pressed  *)
(* on, or one of the threads has a StopRemoteSession left to carry out.    *)
(***************************************************************************)
EXTENDS CaptureDaemon, SequenceTheorems, TLAPS

KeyAction(a, k) == a.name = "ForwardInput" /\ a.input.kind = "key" /\ a.input.code = k
Presses(a, k) == KeyAction(a, k) /\ a.input.press
Lifts(a, k)   == KeyAction(a, k) /\ ~a.input.press

(* Whether k is down at the peer once the worker has dispatched its batch. *)
DownAfterBatch(k) ==
    \/ k \in peerHeld /\ \A i \in 1 .. Len(batch) : ~Lifts(batch[i], k)
    \/ \E i \in 1 .. Len(batch) :
          Presses(batch[i], k) /\ \A j \in i + 1 .. Len(batch) : ~Lifts(batch[j], k)

Has(actions, name) == \E i \in 1 .. Len(actions) : actions[i].name = name

(* Who holds the mutex across steps, and for what. *)
MutexHeld ==
    /\ Recovering => mutex = "worker"
    /\ request # NONE => mutex = "ipc" /\ core.mode = "Local"
    /\ request = NONE => requestBatch = << >>

(* A recovery forwards nothing. *)
RequestsForwardNothing == ~Has(requestBatch, "ForwardInput")

(* The worker starts a turn, and ends, with nothing to dispatch. *)
TurnsStartEmpty ==
    worker \in {"starting", "top", "receive", "received", "timedOut", "dead", "stopped"}
        => batch = << >>

(* Only a session that reaches its peer holds anything down. *)
HeldThroughLink ==
    /\ session = NONE => ~linkUp
    /\ ~linkUp => peerHeld = {}

(* The worker's forwards lead to what the core records as pressed. *)
RemoteFollowed ==
    core.mode = "Remote" =>
        /\ \A i \in 1 .. Len(batch) : batch[i].name = "ForwardInput"
        /\ \A k \in {Chord, PanicKey} : DownAfterBatch(k) => k \in core.pressedKeys

(* Once control is not remote, somebody is about to end the session, or there
   is nothing to release. *)
ReleasePending ==
    core.mode # "Remote" /\ session # NONE =>
        \/ peerHeld = {} /\ ~Has(batch, "ForwardInput")
        \/ Has(batch, "StopRemoteSession")
        \/ Has(requestBatch, "StopRemoteSession")

Tracked == connects = 0 => HeldThroughLink /\ RemoteFollowed /\ ReleasePending

IInv ==
    /\ TypeOK
    /\ MutexHeld
    /\ TurnsStartEmpty
    /\ RequestsForwardNothing
    /\ Tracked

----
(* What the transitions of the core ask for. *)

LEMMA DetachedTyped ==
    ASSUME NEW s \in Core!RuntimeInputState
    PROVE  /\ Core!Detached(s, "Local") \in Core!RuntimeInputState
           /\ Core!Detached(s, "Local").mode = "Local"
  BY DEF Core!Detached, Core!ClearInput, Core!RuntimeInputState, Core!ControlMode

LEMMA ActionsTyped ==
    /\ Core!ReleaseLocalInputs \in Action /\ Core!ReleaseAllInputs \in Action
    /\ \A x \in {Session, NONE} : Core!StopRemoteSession(x) \in Action
    /\ \A p \in Peers : Core!StartRemoteSession(p) \in Action
    /\ \A in \in Core!CapturedInput : Core!ForwardInput(in) \in Action
    /\ Core!ReleaseLocalInputs.name = "ReleaseLocalInputs"
    /\ Core!ReleaseAllInputs.name = "ReleaseAllInputs"
    /\ \A x : Core!StopRemoteSession(x).name = "StopRemoteSession"
    /\ \A p : Core!StartRemoteSession(p).name = "StartRemoteSession"
    /\ \A in : Core!ForwardInput(in).name = "ForwardInput" /\ Core!ForwardInput(in).input = in
  BY DEF Action, Core!ReleaseLocalInputs, Core!ReleaseAllInputs, Core!StopRemoteSession,
         Core!StartRemoteSession, Core!ForwardInput

(* A recovery leaves Local behind; it stops the session unless there was none. *)
LEMMA PanicOutcome ==
    ASSUME NEW s \in Core!RuntimeInputState
    PROVE  LET o == Core!HandlePanicHotkey(s)
           IN  /\ o.state \in Core!RuntimeInputState
               /\ o.state.mode = "Local"
               /\ o.actions \in Seq(Action)
               /\ ~Has(o.actions, "ForwardInput")
               /\ s.mode = "Remote" => Has(o.actions, "StopRemoteSession")
  <1> DEFINE o == Core!HandlePanicHotkey(s)
             stop == Core!StopRemoteSession(s.activeSession)
  <1>1. o.state = Core!Detached(s, "Local")
    BY DEF Core!HandlePanicHotkey, Core!Outcome
  <1>2. \/ /\ o.actions = <<Core!ReleaseLocalInputs, Core!ReleaseAllInputs, stop>>
        \/ /\ o.actions = <<Core!ReleaseLocalInputs>>
           /\ s.mode # "Remote"
    BY DEF Core!HandlePanicHotkey, Core!Outcome, Core!ShouldReleaseRemote
  <1>3. s.activeSession \in {Session, NONE}
    BY DEF Core!RuntimeInputState
  <1> HIDE DEF o, stop
  <1>4. CASE o.actions = <<Core!ReleaseLocalInputs, Core!ReleaseAllInputs, stop>>
    <2>1. stop \in Action /\ stop.name = "StopRemoteSession"
      BY <1>3, ActionsTyped DEF stop
    <2>2. o.actions \in Seq(Action) /\ Len(o.actions) = 3
      BY <1>4, <2>1, ActionsTyped
    <2>3. /\ o.actions[1].name = "ReleaseLocalInputs" /\ o.actions[2].name = "ReleaseAllInputs"
          /\ o.actions[3].name = "StopRemoteSession"
      BY <1>4, <2>1, ActionsTyped
    <2>4. \A i \in 1 .. 3 : i = 1 \/ i = 2 \/ i = 3
      OBVIOUS
    <2>5. ~Has(o.actions, "ForwardInput")
      BY <2>2, <2>3, <2>4 DEF Has
    <2>6. Has(o.actions, "StopRemoteSession")
      BY <2>2, <2>3 DEF Has
    <2> QED
      BY <1>1, <2>2, <2>5, <2>6, DetachedTyped DEF o
  <1>5. CASE o.actions = <<Core!ReleaseLocalInputs>> /\ s.mode # "Remote"
    <2>1. o.actions \in Seq(Action) /\ Len(o.actions) = 1 /\ o.actions[1].name = "ReleaseLocalInputs"
      BY <1>5, ActionsTyped
    <2>2. ~Has(o.actions, "ForwardInput")
      BY <2>1 DEF Has
    <2> QED
      BY <1>1, <1>5, <2>1, <2>2, DetachedTyped DEF o
  <1> QED
    BY <1>2, <1>4, <1>5

LEMMA RecordInputTyped ==
    ASSUME NEW s \in Core!RuntimeInputState, NEW in \in Core!CapturedInput
    PROVE  LET r == Core!RecordInput(s, in)
           IN  /\ r \in Core!RuntimeInputState
               /\ r.mode = s.mode
               /\ r.pressedKeys = IF in.kind = "key" THEN Core!Track(s.pressedKeys, in)
                                  ELSE s.pressedKeys
  <1>1. /\ in.kind = "key" => in.code \in {Chord, PanicKey}
        /\ in.kind = "button" => FALSE
    BY DEF Core!CapturedInput, Core!KeyInput, Core!ButtonInput, Core!Motion
  <1> QED
    BY <1>1, ZenonT(60) DEF Core!RecordInput, Core!RuntimeInputState, Core!Track

(* An input that leaves control remote is recorded and forwarded; nothing is
   forwarded otherwise, and leaving Remote stops the session. *)
Follows(s, in, o) ==
    /\ o.state \in Core!RuntimeInputState
    /\ o.actions \in Seq(Action)
    /\ o.state.mode = "Remote" =>
          /\ s.mode = "Remote"
          /\ o.actions = <<Core!ForwardInput(in)>>
          /\ o.state.pressedKeys = IF in.kind = "key" THEN Core!Track(s.pressedKeys, in)
                                   ELSE s.pressedKeys
    /\ o.state.mode # "Remote" =>
          /\ ~Has(o.actions, "ForwardInput")
          /\ s.mode = "Remote" => Has(o.actions, "StopRemoteSession")

LEMMA InputFollows ==
    ASSUME NEW s \in Core!RuntimeInputState, NEW in \in Core!CapturedInput
    PROVE  Follows(s, in, Core!ApplyInput(s, in))
  <1> DEFINE r == Core!RecordInput(s, in)
             o == Core!ApplyInput(s, in)
  <1>1. /\ r \in Core!RuntimeInputState /\ r.mode = s.mode
        /\ r.pressedKeys = IF in.kind = "key" THEN Core!Track(s.pressedKeys, in) ELSE s.pressedKeys
    BY RecordInputTyped
  <1>2. \/ o = Core!HandlePanicHotkey(r)
        \/ /\ o.state = r
           /\ o.actions = IF s.mode = "Remote" THEN <<Core!ForwardInput(in)>> ELSE << >>
    BY DEF Core!ApplyInput, Core!Outcome
  <1> SUFFICES Follows(s, in, o)
    OBVIOUS
  <1> HIDE DEF r, o
  <1>3. CASE o = Core!HandlePanicHotkey(r)
    BY <1>1, <1>3, PanicOutcome DEF Follows
  <1>4. CASE /\ o.state = r
             /\ o.actions = IF s.mode = "Remote" THEN <<Core!ForwardInput(in)>> ELSE << >>
    <2>1. CASE s.mode = "Remote"
      <3>1. o.actions = <<Core!ForwardInput(in)>> /\ Core!ForwardInput(in) \in Action
        BY <1>4, <2>1, ActionsTyped
      <3>2. o.actions \in Seq(Action)
        BY <3>1
      <3> QED
        BY <1>1, <1>4, <2>1, <3>1, <3>2 DEF Follows
    <2>2. CASE s.mode # "Remote"
      <3>1. o.actions = << >> /\ o.actions \in Seq(Action) /\ Len(o.actions) = 0
        BY <1>4, <2>2
      <3>2. ~Has(o.actions, "ForwardInput")
        BY <3>1 DEF Has
      <3> QED
        BY <1>1, <1>4, <2>2, <3>1, <3>2 DEF Follows
    <2> QED
      BY <2>1, <2>2
  <1> QED
    BY <1>2, <1>3, <1>4

LEMMA PointerFollows ==
    ASSUME NEW s \in Core!RuntimeInputState, s.mode = "Local", NEW in, NEW p \in Peers \cup {NONE}
    PROVE  Follows(s, in, Core!ApplyLocalPointerMove(s, Pointer, p))
  <1> DEFINE moved == [s EXCEPT !.lastPointer = Pointer]
             o == Core!ApplyLocalPointerMove(s, Pointer, p)
  <1>1. moved \in Core!RuntimeInputState /\ moved.mode = "Local"
    BY DEF Core!RuntimeInputState
  <1>2. CASE p = NONE
    <2>1. o.state = moved /\ o.actions = << >>
      BY <1>2 DEF Core!ApplyLocalPointerMove, Core!Outcome
    <2>2. ~Has(o.actions, "ForwardInput") /\ o.actions \in Seq(Action)
      BY <2>1 DEF Has
    <2> QED
      BY <1>1, <2>1, <2>2 DEF Follows
  <1>3. CASE p # NONE
    <2>1. /\ o.state = [moved EXCEPT !.mode = "EnteringRemote", !.pendingPeer = p]
          /\ o.actions = <<Core!StartRemoteSession(p)>>
      BY <1>3 DEF Core!ApplyLocalPointerMove, Core!RequestRemoteEntry, Core!Outcome
    <2>2. o.state \in Core!RuntimeInputState /\ o.state.mode = "EnteringRemote"
      BY <1>1, <2>1 DEF Core!RuntimeInputState, Core!ControlMode
    <2>3. /\ o.actions \in Seq(Action) /\ Len(o.actions) = 1
          /\ o.actions[1].name = "StartRemoteSession"
      BY <1>3, <2>1, ActionsTyped
    <2>4. ~Has(o.actions, "ForwardInput")
      BY <2>3 DEF Has
    <2> QED
      BY <2>2, <2>3, <2>4 DEF Follows
  <1> QED
    BY <1>2, <1>3

LEMMA OutcomesFollow ==
    ASSUME TypeOK, NEW in \in Core!CapturedInput, NEW o \in Outcomes(in)
    PROVE  Follows(core, in, o)
  BY InputFollows, PointerFollows DEF Outcomes, TypeOK

----
(* What carrying out an action does to the session. *)

LEMMA ActionForms ==
    ASSUME NEW a \in Action
    PROVE  /\ a.name \in {"StartRemoteSession", "ForwardInput", "ReleaseLocalInputs",
                          "ReleaseAllInputs", "StopRemoteSession"}
           /\ a.name = "ForwardInput" =>
                 /\ a.input \in Core!CapturedInput
                 /\ a.input.kind = "key" =>
                       a.input.code \in {Chord, PanicKey} /\ a.input.press \in BOOLEAN
  <1>1. a.name = "ForwardInput" => a.input \in Core!CapturedInput
    BY DEF Action
  <1>2. \A in \in Core!CapturedInput :
            in.kind = "key" => in.code \in {Chord, PanicKey} /\ in.press \in BOOLEAN
    BY DEF Core!CapturedInput, Core!KeyInput, Core!ButtonInput, Core!Motion
  <1>3. a.name \in {"StartRemoteSession", "ForwardInput", "ReleaseLocalInputs",
                    "ReleaseAllInputs", "StopRemoteSession"}
    BY DEF Action
  <1> QED
    BY <1>1, <1>2, <1>3

(* An action is lost or local, ends the session, or takes effect at the peer. *)
LEMMA SucceedsForms ==
    ASSUME NEW a, Succeeds(a)
    PROVE  \/ /\ UNCHANGED sessionVars
              /\ session = NONE \/ a.name # "StopRemoteSession"
              /\ session = NONE \/ ~linkUp \/ a.name = "ReleaseLocalInputs"
           \/ session' = NONE /\ linkUp' = FALSE /\ peerHeld' = {}
           \/ /\ UNCHANGED <<session, linkUp>> /\ linkUp
              /\ a.name # "StopRemoteSession"
              /\ peerHeld' = IF a.name = "ForwardInput" /\ a.input.kind = "key"
                             THEN Core!Track(peerHeld, a.input)
                             ELSE IF a.name = "ReleaseAllInputs" THEN {} ELSE peerHeld
  BY DEF Succeeds, DetachSession, ReachesPeer, sessionVars

LEMMA FailsForms ==
    ASSUME NEW a, Fails(a)
    PROVE  \/ PlatformMayFail /\ UNCHANGED sessionVars
           \/ session' = NONE /\ linkUp' = FALSE /\ peerHeld' = {}
  BY DEF Fails, DetachSession

LEMMA SessionTyped ==
    ASSUME TypeOK, NEW a \in Action, Succeeds(a) \/ Fails(a)
    PROVE  /\ session' \in Peers \cup {NONE} /\ linkUp' \in BOOLEAN
           /\ peerHeld' \subseteq {Chord, PanicKey}
  <1>1. CASE Succeeds(a)
    BY <1>1, SucceedsForms, ActionForms DEF TypeOK, Core!Track, sessionVars
  <1>2. CASE Fails(a)
    BY <1>2, FailsForms DEF TypeOK, sessionVars
  <1> QED
    BY <1>1, <1>2

LEMMA Parts ==
    ASSUME NEW S, NEW q \in Seq(S), q # << >>
    PROVE  /\ Head(q) \in S /\ Head(q) = q[1] /\ Tail(q) \in Seq(S)
           /\ Len(q) \in Nat \ {0} /\ Len(Tail(q)) = Len(q) - 1
           /\ \A i \in 1 .. Len(q) - 1 : Tail(q)[i] = q[i + 1]
  BY HeadTailProperties, EmptySeq, LenProperties

LEMMA Joined ==
    ASSUME NEW S, NEW q \in Seq(S), NEW r \in Seq(S)
    PROVE  /\ q \o r \in Seq(S) /\ Len(q) \in Nat /\ Len(r) \in Nat
           /\ Len(q \o r) = Len(q) + Len(r)
           /\ \A i \in 1 .. Len(q) : (q \o r)[i] = q[i]
           /\ \A i \in 1 .. Len(r) : (q \o r)[Len(q) + i] = r[i]
  BY ConcatProperties, LenProperties

----
(* Types. *)

LEMMA InitTyped == Init => TypeOK
  <1> SUFFICES ASSUME Init PROVE TypeOK
    OBVIOUS
  <1>1. \A c \in InitialCores : c \in Core!RuntimeInputState
    <2>1. Core!InitialState \in Core!RuntimeInputState
      BY DEF Core!InitialState, Core!RuntimeInputState, Core!ControlMode
    <2>2. ASSUME NEW s \in Core!RuntimeInputState, NEW p \in Peers
          PROVE  Core!RequestRemoteEntry(s, p).state \in Core!RuntimeInputState
      BY DEF Core!RequestRemoteEntry, Core!Outcome, Core!RuntimeInputState, Core!ControlMode
    <2>3. ASSUME NEW s \in Core!RuntimeInputState
          PROVE  Core!ConfirmRemoteEntry(s, Session).state \in Core!RuntimeInputState
      BY DEF Core!ConfirmRemoteEntry, Core!Outcome, Core!RuntimeInputState, Core!ControlMode
    <2> QED
      BY <2>1, <2>2, <2>3 DEF InitialCores
  <1>2. core \in Core!RuntimeInputState
    BY <1>1 DEF Init
  <1>3. session \in Peers \cup {NONE}
    BY <1>2 DEF Init, InitialCores, Core!RuntimeInputState
  <1>4. events = << >> /\ batch = << >> /\ requestBatch = << >> /\ Len(events) = 0
    BY DEF Init
  <1>5. /\ events \in Seq(Core!CapturedInput) /\ batch \in Seq(Action)
        /\ requestBatch \in Seq(Action) /\ Len(events) <= QueueCapacity
    BY <1>4, DaemonAssumption
  <1>6. drained \in 0 .. DrainBatch /\ connects \in 0 .. MaxConnects
    BY DaemonAssumption DEF Init
  <1>7. linkUp \in BOOLEAN /\ stopping \in BOOLEAN
    BY DEF Init
  <1> QED
    BY <1>2, <1>3, <1>5, <1>6, <1>7 DEF Init, TypeOK, Recoveries

LEMMA ApplyTyped ==
    ASSUME TypeOK, ApplyEvent
    PROVE  /\ core' \in Core!RuntimeInputState
           /\ events' \in Seq(Core!CapturedInput) /\ Len(events') <= QueueCapacity
           /\ batch' \in Seq(Action)
  <1>1. PICK o \in Outcomes(Head(events)) : core' = o.state /\ batch' = batch \o o.actions
    BY DEF ApplyEvent
  <1>2. /\ events # << >> /\ events' = Tail(events) /\ events \in Seq(Core!CapturedInput)
        /\ Len(events) <= QueueCapacity /\ batch \in Seq(Action)
    BY DEF ApplyEvent, TypeOK
  <1>3. Head(events) \in Core!CapturedInput
    BY <1>2, Parts
  <1>4. o.state \in Core!RuntimeInputState /\ o.actions \in Seq(Action)
    BY <1>3, OutcomesFollow DEF Follows
  <1>5. batch' \in Seq(Action)
    BY <1>1, <1>2, <1>4, Joined
  <1>6. events' \in Seq(Core!CapturedInput) /\ Len(events') <= QueueCapacity
    BY <1>2, Parts, DaemonAssumption
  <1> QED
    BY <1>1, <1>4, <1>5, <1>6

LEMMA WorkerTyped == TypeOK /\ WorkerStep => TypeOK'
  <1> SUFFICES ASSUME TypeOK, WorkerStep PROVE TypeOK'
    OBVIOUS
  <1> USE DEF workerVars, ipcVars, sessionVars
  <1>1. CASE WorkerTop
    BY <1>1, DaemonAssumption DEF WorkerTop, SyncPolicy, PolicyFor, TypeOK
  <1>2. CASE WorkerReceives \/ WorkerTimesOut
    BY <1>2 DEF WorkerReceives, WorkerTimesOut, SyncPolicy, PolicyFor, TypeOK
  <1>3. CASE WorkerRecovers
    <2>1. core' \in Core!RuntimeInputState /\ batch' \in Seq(Action)
      BY <1>3, PanicOutcome DEF WorkerRecovers, TypeOK
    <2> QED
      BY <1>3, <2>1 DEF WorkerRecovers, TypeOK
  <1>4. CASE WorkerIdle \/ WorkerDrained
    BY <1>4 DEF WorkerIdle, WorkerDrained, TypeOK
  <1>5. CASE WorkerApplies
    BY <1>5, ApplyTyped DEF WorkerApplies, ApplyEvent, TypeOK
  <1>6. CASE WorkerDrains
    <2>1. drained' \in 0 .. DrainBatch
      BY <1>6, DaemonAssumption DEF WorkerDrains, TypeOK
    <2> QED
      BY <1>6, <2>1, ApplyTyped DEF WorkerDrains, ApplyEvent, TypeOK
  <1>7. CASE WorkerDispatches
    <2>1. Head(batch) \in Action /\ batch' \in Seq(Action)
      BY <1>7, Parts DEF WorkerDispatches, TypeOK
    <2> QED
      BY <1>7, <2>1, SessionTyped DEF WorkerDispatches, TypeOK
  <1>8. CASE WorkerFails
    <2>1. Head(batch) \in Action /\ batch' \in Seq(Action)
      BY <1>8, Parts DEF WorkerFails, TypeOK
    <2> QED
      BY <1>8, <2>1, SessionTyped DEF WorkerFails, TypeOK
  <1>9. CASE WorkerRecovered \/ WorkerDispatched
    BY <1>9 DEF WorkerRecovered, WorkerDispatched, SyncPolicy, PolicyFor, TypeOK
  <1> QED
    BY <1>1, <1>2, <1>3, <1>4, <1>5, <1>6, <1>7, <1>8, <1>9 DEF WorkerStep

LEMMA NextTyped == TypeOK /\ [Next]_vars => TypeOK'
  <1> SUFFICES ASSUME TypeOK, [Next]_vars PROVE TypeOK'
    OBVIOUS
  <1> USE DEF workerVars, ipcVars, sessionVars
  <1>1. CASE WorkerStep
    BY <1>1, WorkerTyped
  <1>2. ASSUME NEW r \in Recoveries, RequestRecovery(r) PROVE TypeOK'
    <2>1. core' \in Core!RuntimeInputState /\ requestBatch' \in Seq(Action)
      BY <1>2, PanicOutcome DEF RequestRecovery, TypeOK
    <2> QED
      BY <1>2, <2>1 DEF RequestRecovery, TypeOK
  <1>3. CASE RequestDispatches
    <2>1. Head(requestBatch) \in Action /\ requestBatch' \in Seq(Action)
      BY <1>3, Parts DEF RequestDispatches, TypeOK
    <2> QED
      BY <1>3, <2>1, SessionTyped DEF RequestDispatches, TypeOK
  <1>4. CASE RequestFails
    <2>1. Head(requestBatch) \in Action /\ requestBatch' \in Seq(Action)
      BY <1>4, Parts DEF RequestFails, Answer, TypeOK
    <2> QED
      BY <1>4, <2>1, SessionTyped DEF RequestFails, Answer, TypeOK
  <1>5. CASE RequestDone
    <2>1. requestBatch' \in Seq(Action) /\ stopping' \in BOOLEAN
      BY <1>5 DEF RequestDone, Answer
    <2> QED
      BY <1>5, <2>1 DEF RequestDone, Answer, DetachSession, TypeOK
  <1>6. ASSUME NEW p \in Peers, RequestConnect(p) PROVE TypeOK'
    <2>1. connects' \in 0 .. MaxConnects
      BY <1>6, DaemonAssumption DEF RequestConnect, TypeOK
    <2> QED
      BY <1>6, <2>1 DEF RequestConnect, TypeOK
  <1>7. ASSUME NEW in \in Core!CapturedInput, UserInput(in) PROVE TypeOK'
    <2>1. events' \in Seq(Core!CapturedInput) /\ Len(events') <= QueueCapacity
      BY <1>7, AppendProperties, LenProperties, DaemonAssumption DEF UserInput, TypeOK
    <2> QED
      BY <1>7, <2>1 DEF UserInput, TypeOK
  <1>8. CASE PeerGone
    BY <1>8 DEF PeerGone, TypeOK
  <1>9. CASE UNCHANGED vars
    BY <1>9 DEF vars, TypeOK
  <1> QED
    BY <1>1, <1>2, <1>3, <1>4, <1>5, <1>6, <1>7, <1>8, <1>9 DEF Next, RequestStep

----
(* The mutex, and the batches of the two threads. *)

Ordered == MutexHeld /\ TurnsStartEmpty

(* An event is applied with the mutex free: no request is being handled. *)
LEMMA FreeMutex ==
    ASSUME MutexHeld, mutex = NONE
    PROVE  request = NONE /\ requestBatch = << >> /\ ~Recovering
  BY DaemonAssumption DEF MutexHeld

LEMMA NextOrdered == TypeOK /\ Ordered /\ [Next]_vars => Ordered'
  <1> SUFFICES ASSUME TypeOK, Ordered, [Next]_vars PROVE Ordered'
    OBVIOUS
  <1> USE DEF workerVars, ipcVars, sessionVars, Ordered
  <1>1. CASE WorkerTop
    BY <1>1 DEF WorkerTop, MutexHeld, TurnsStartEmpty, Recovering
  <1>2. CASE WorkerReceives \/ WorkerTimesOut
    BY <1>2 DEF WorkerReceives, WorkerTimesOut, MutexHeld, TurnsStartEmpty, Recovering
  <1>3. CASE WorkerRecovers
    BY <1>3, FreeMutex DEF WorkerRecovers, MutexHeld, TurnsStartEmpty, Recovering
  <1>4. CASE WorkerIdle \/ WorkerDrained
    BY <1>4 DEF WorkerIdle, WorkerDrained, MutexHeld, TurnsStartEmpty, Recovering
  <1>5. CASE WorkerApplies
    BY <1>5, FreeMutex DEF WorkerApplies, ApplyEvent, MutexHeld, TurnsStartEmpty, Recovering
  <1>6. CASE WorkerDrains
    BY <1>6, FreeMutex DEF WorkerDrains, ApplyEvent, MutexHeld, TurnsStartEmpty, Recovering
  <1>7. CASE WorkerDispatches
    BY <1>7 DEF WorkerDispatches, MutexHeld, TurnsStartEmpty, Recovering, Dispatching
  <1>8. CASE WorkerFails
    BY <1>8 DEF WorkerFails, MutexHeld, TurnsStartEmpty, Recovering
  <1>9. CASE WorkerRecovered
    BY <1>9 DEF WorkerRecovered, MutexHeld, TurnsStartEmpty, Recovering
  <1>10. CASE WorkerDispatched
    BY <1>10 DEF WorkerDispatched, MutexHeld, TurnsStartEmpty, Recovering
  <1>11. ASSUME NEW r \in Recoveries, RequestRecovery(r) PROVE Ordered'
    <2>1. r # NONE
      BY DaemonAssumption DEF Recoveries
    <2>2. core'.mode = "Local"
      BY <1>11, PanicOutcome DEF RequestRecovery, TypeOK
    <2> QED
      BY <1>11, <2>1, <2>2, FreeMutex DEF RequestRecovery, MutexHeld, TurnsStartEmpty, Recovering
  <1>12. CASE RequestStep
    BY <1>12
       DEF RequestStep, RequestDispatches, RequestFails, RequestDone, Answer, MutexHeld,
           TurnsStartEmpty, Recovering
  <1>13. ASSUME NEW p \in Peers, RequestConnect(p) PROVE Ordered'
    BY <1>13 DEF RequestConnect, MutexHeld, TurnsStartEmpty, Recovering
  <1>14. ASSUME NEW in \in Core!CapturedInput, UserInput(in) PROVE Ordered'
    BY <1>14 DEF UserInput, MutexHeld, TurnsStartEmpty, Recovering
  <1>15. CASE PeerGone \/ UNCHANGED vars
    BY <1>15 DEF PeerGone, vars, MutexHeld, TurnsStartEmpty, Recovering
  <1> QED
    BY <1>1, <1>2, <1>3, <1>4, <1>5, <1>6, <1>7, <1>8, <1>9, <1>10, <1>11, <1>12, <1>13, <1>14,
       <1>15 DEF Next, WorkerStep

----
(* What the batches lead to at the peer. *)

LEMMA HasTail ==
    ASSUME NEW q \in Seq(Action), q # << >>, NEW n
    PROVE  Has(q, n) <=> Head(q).name = n \/ Has(Tail(q), n)
  <1>1. PICK m \in Nat : /\ Len(q) = m + 1 /\ Len(Tail(q)) = m /\ Head(q) = q[1]
                         /\ \A i \in 1 .. m : Tail(q)[i] = q[i + 1]
    <2>1. Len(q) - 1 \in Nat
      BY Parts
    <2> QED
      BY <2>1, Parts
  <1>2. ASSUME NEW i \in 1 .. m + 1, q[i].name = n
        PROVE  Head(q).name = n \/ Has(Tail(q), n)
    <2>1. CASE i = 1
      BY <1>1, <1>2, <2>1
    <2>2. CASE i # 1
      <3>1. i - 1 \in 1 .. m /\ i = i - 1 + 1
        BY <2>2
      <3>2. Tail(q)[i - 1].name = n
        BY <1>1, <1>2, <3>1
      <3> QED
        BY <1>1, <3>1, <3>2 DEF Has
    <2> QED
      BY <2>1, <2>2
  <1>3. ASSUME NEW i \in 1 .. m, Tail(q)[i].name = n PROVE Has(q, n)
    <2>1. i + 1 \in 1 .. m + 1 /\ q[i + 1].name = n
      BY <1>1, <1>3
    <2> QED
      BY <1>1, <2>1 DEF Has
  <1>4. ASSUME Head(q).name = n PROVE Has(q, n)
    BY <1>1, <1>4 DEF Has
  <1> QED
    BY <1>1, <1>2, <1>3, <1>4 DEF Has

LEMMA HasJoined ==
    ASSUME NEW q \in Seq(Action), NEW r \in Seq(Action), NEW n
    PROVE  Has(q \o r, n) <=> Has(q, n) \/ Has(r, n)
  <1>1. PICK a \in Nat, b \in Nat : a = Len(q) /\ b = Len(r)
    BY Joined
  <1>2. /\ Len(q \o r) = a + b
        /\ \A i \in 1 .. a : (q \o r)[i] = q[i]
        /\ \A i \in 1 .. b : (q \o r)[a + i] = r[i]
    BY <1>1, Joined
  <1>3. ASSUME NEW i \in 1 .. a + b, (q \o r)[i].name = n PROVE Has(q, n) \/ Has(r, n)
    <2>1. CASE i <= a
      BY <1>1, <1>2, <1>3, <2>1 DEF Has
    <2>2. CASE ~(i <= a)
      <3>1. i - a \in 1 .. b /\ a + (i - a) = i
        BY <2>2
      <3>2. r[i - a].name = n
        BY <1>2, <1>3, <3>1
      <3> QED
        BY <1>1, <3>1, <3>2 DEF Has
    <2> QED
      BY <2>1, <2>2
  <1>4. ASSUME NEW i \in 1 .. a, q[i].name = n PROVE Has(q \o r, n)
    <2>1. i \in 1 .. a + b
      OBVIOUS
    <2> QED
      BY <1>2, <1>4, <2>1 DEF Has
  <1>5. ASSUME NEW i \in 1 .. b, r[i].name = n PROVE Has(q \o r, n)
    <2>1. a + i \in 1 .. a + b
      OBVIOUS
    <2> QED
      BY <1>2, <1>5, <2>1 DEF Has
  <1> QED
    BY <1>1, <1>2, <1>3, <1>4, <1>5 DEF Has

LEMMA NextRequests ==
    TypeOK /\ RequestsForwardNothing /\ [Next]_vars => RequestsForwardNothing'
  <1> SUFFICES ASSUME TypeOK, RequestsForwardNothing, [Next]_vars PROVE RequestsForwardNothing'
    OBVIOUS
  <1>1. CASE UNCHANGED requestBatch
    BY <1>1 DEF RequestsForwardNothing, Has
  <1>2. CASE requestBatch' = << >>
    <2>1. Len(requestBatch') = 0
      BY <1>2
    <2> QED
      BY <2>1 DEF RequestsForwardNothing, Has
  <1>3. CASE requestBatch # << >> /\ requestBatch' = Tail(requestBatch)
    <2>1. ~Has(Tail(requestBatch), "ForwardInput")
      BY <1>3, HasTail DEF TypeOK, RequestsForwardNothing
    <2> QED
      BY <1>3, <2>1 DEF RequestsForwardNothing, Has
  <1>4. ASSUME NEW r \in Recoveries, RequestRecovery(r) PROVE RequestsForwardNothing'
    <2>1. requestBatch' = Core!HandlePanicHotkey(core).actions
      BY <1>4 DEF RequestRecovery
    <2>2. ~Has(Core!HandlePanicHotkey(core).actions, "ForwardInput")
      BY PanicOutcome DEF TypeOK
    <2> QED
      BY <2>1, <2>2 DEF RequestsForwardNothing, Has
  <1>5. CASE RequestStep
    BY <1>2, <1>3, <1>5 DEF RequestStep, RequestDispatches, RequestFails, RequestDone, Answer
  <1>6. CASE WorkerStep
    BY <1>1, <1>6
       DEF WorkerStep, WorkerTop, WorkerReceives, WorkerTimesOut, WorkerRecovers, WorkerIdle,
           WorkerApplies, WorkerDrains, ApplyEvent, WorkerDrained, WorkerDispatches, WorkerFails,
           WorkerRecovered, WorkerDispatched, ipcVars
  <1>7. ASSUME NEW p \in Peers, RequestConnect(p) PROVE RequestsForwardNothing'
    BY <1>1, <1>7 DEF RequestConnect
  <1>8. ASSUME NEW in \in Core!CapturedInput, UserInput(in) PROVE RequestsForwardNothing'
    BY <1>1, <1>8 DEF UserInput, ipcVars
  <1>9. CASE PeerGone \/ UNCHANGED vars
    BY <1>1, <1>9 DEF PeerGone, vars, ipcVars
  <1> QED
    BY <1>4, <1>5, <1>6, <1>7, <1>8, <1>9 DEF Next

LEMMA BatchParts ==
    ASSUME TypeOK, batch # << >>, batch' = Tail(batch)
    PROVE  \E m \in Nat : /\ Len(batch) = m + 1 /\ Len(batch') = m /\ Head(batch) = batch[1]
                          /\ \A i \in 1 .. m : batch'[i] = batch[i + 1]
  <1>1. batch \in Seq(Action)
    BY DEF TypeOK
  <1>2. /\ Len(batch) \in Nat \ {0} /\ Len(Tail(batch)) = Len(batch) - 1 /\ Head(batch) = batch[1]
        /\ \A i \in 1 .. Len(batch) - 1 : Tail(batch)[i] = batch[i + 1]
    BY <1>1, Parts
  <1>3. Len(batch) - 1 \in Nat /\ Len(batch) = (Len(batch) - 1) + 1
    BY <1>2
  <1> QED
    BY <1>2, <1>3

(* Dispatching the head of the batch brings nothing down that the batch would
   not have brought down. *)
LEMMA HeadDispatched ==
    ASSUME TypeOK, batch # << >>, batch' = Tail(batch), NEW k,
           k \in peerHeld' => (k \in peerHeld /\ ~Lifts(Head(batch), k)) \/ Presses(Head(batch), k),
           DownAfterBatch(k)'
    PROVE  DownAfterBatch(k)
  <1>1. PICK m \in Nat : /\ Len(batch) = m + 1 /\ Len(batch') = m /\ Head(batch) = batch[1]
                         /\ \A i \in 1 .. m : batch'[i] = batch[i + 1]
    BY BatchParts
  <1>2. \A i \in 2 .. m + 1 : i - 1 \in 1 .. m /\ batch[i] = batch'[i - 1]
    <2> SUFFICES ASSUME NEW i \in 2 .. m + 1 PROVE i - 1 \in 1 .. m /\ batch[i] = batch'[i - 1]
      OBVIOUS
    <2>1. i - 1 \in 1 .. m /\ i - 1 + 1 = i
      OBVIOUS
    <2> QED
      BY <1>1, <2>1
  <1>3. CASE k \in peerHeld' /\ \A i \in 1 .. m : ~Lifts(batch'[i], k)
    <2>1. \A i \in 2 .. m + 1 : ~Lifts(batch[i], k)
      BY <1>2, <1>3
    <2>2. CASE Presses(Head(batch), k)
      <3>1. 1 \in 1 .. m + 1 /\ Presses(batch[1], k) /\ \A j \in 1 + 1 .. m + 1 : ~Lifts(batch[j], k)
        BY <1>1, <2>1, <2>2
      <3> QED
        BY <1>1, <3>1 DEF DownAfterBatch
    <2>3. CASE k \in peerHeld /\ ~Lifts(Head(batch), k)
      <3>1. \A i \in 1 .. m + 1 : i = 1 \/ i \in 2 .. m + 1
        OBVIOUS
      <3>2. \A i \in 1 .. m + 1 : ~Lifts(batch[i], k)
        BY <1>1, <2>1, <2>3, <3>1
      <3> QED
        BY <1>1, <2>3, <3>2 DEF DownAfterBatch
    <2> QED
      BY <1>3, <2>2, <2>3
  <1>4. ASSUME NEW i \in 1 .. m, Presses(batch'[i], k),
               \A j \in i + 1 .. m : ~Lifts(batch'[j], k)
        PROVE  DownAfterBatch(k)
    <2>1. i + 1 \in 1 .. m + 1 /\ Presses(batch[i + 1], k)
      BY <1>1, <1>4
    <2>2. \A j \in i + 1 + 1 .. m + 1 : j \in 2 .. m + 1 /\ j - 1 \in i + 1 .. m
      OBVIOUS
    <2>3. \A j \in i + 1 + 1 .. m + 1 : ~Lifts(batch[j], k)
      BY <1>2, <1>4, <2>2
    <2> QED
      BY <1>1, <2>1, <2>3 DEF DownAfterBatch
  <1>5. \/ k \in peerHeld' /\ \A i \in 1 .. m : ~Lifts(batch'[i], k)
        \/ \E i \in 1 .. m : Presses(batch'[i], k) /\ \A j \in i + 1 .. m : ~Lifts(batch'[j], k)
    BY <1>1 DEF DownAfterBatch, Presses, Lifts, KeyAction
  <1> QED
    BY <1>3, <1>4, <1>5

(* A forward is put behind the others. *)
LEMMA ForwardAdded ==
    ASSUME TypeOK, NEW a \in Action, batch' = batch \o <<a>>, UNCHANGED peerHeld, NEW k,
           DownAfterBatch(k)'
    PROVE  ~Lifts(a, k) /\ (Presses(a, k) \/ DownAfterBatch(k))
  <1>1. PICK m \in Nat : /\ Len(batch) = m /\ Len(batch') = m + 1 /\ batch'[m + 1] = a
                         /\ \A i \in 1 .. m : batch'[i] = batch[i]
    <2>0. <<a>> \in Seq(Action) /\ Len(<<a>>) = 1 /\ <<a>>[1] = a
      OBVIOUS
    <2>1. PICK r : r = <<a>> /\ r \in Seq(Action) /\ Len(r) = 1 /\ r[1] = a
      BY <2>0
    <2>2. /\ Len(batch) \in Nat /\ Len(batch') = Len(batch) + 1
          /\ \A i \in 1 .. Len(batch) : batch'[i] = batch[i]
          /\ batch'[Len(batch) + 1] = r[1]
      BY <2>1, Joined DEF TypeOK
    <2> QED
      BY <2>1, <2>2
  <1>2. Presses(a, k) => ~Lifts(a, k)
    BY ActionForms DEF Presses, Lifts, KeyAction
  <1>3. CASE k \in peerHeld' /\ \A i \in 1 .. m + 1 : ~Lifts(batch'[i], k)
    <2>1. m + 1 \in 1 .. m + 1 /\ \A i \in 1 .. m : i \in 1 .. m + 1
      OBVIOUS
    <2>2. ~Lifts(a, k) /\ \A i \in 1 .. m : ~Lifts(batch[i], k)
      BY <1>1, <1>3, <2>1
    <2> QED
      BY <1>1, <1>3, <2>2 DEF DownAfterBatch
  <1>4. ASSUME NEW i \in 1 .. m + 1, Presses(batch'[i], k),
               \A j \in i + 1 .. m + 1 : ~Lifts(batch'[j], k)
        PROVE  ~Lifts(a, k) /\ (Presses(a, k) \/ DownAfterBatch(k))
    <2>1. CASE i = m + 1
      BY <1>1, <1>2, <1>4, <2>1
    <2>2. CASE i # m + 1
      <3>1. i \in 1 .. m /\ m + 1 \in i + 1 .. m + 1
            /\ \A j \in i + 1 .. m : j \in i + 1 .. m + 1 /\ j \in 1 .. m
        BY <2>2
      <3>2. ~Lifts(a, k) /\ Presses(batch[i], k)
        BY <1>1, <1>4, <3>1
      <3>3. \A j \in i + 1 .. m : ~Lifts(batch[j], k)
        BY <1>1, <1>4, <3>1
      <3> QED
        BY <1>1, <3>1, <3>2, <3>3 DEF DownAfterBatch
    <2> QED
      BY <2>1, <2>2
  <1>5. \/ k \in peerHeld' /\ \A i \in 1 .. m + 1 : ~Lifts(batch'[i], k)
        \/ \E i \in 1 .. m + 1 :
              Presses(batch'[i], k) /\ \A j \in i + 1 .. m + 1 : ~Lifts(batch'[j], k)
    BY <1>1 DEF DownAfterBatch, Presses, Lifts, KeyAction
  <1> QED
    BY <1>3, <1>4, <1>5

Followed == HeldThroughLink /\ RemoteFollowed /\ ReleasePending

(* Steps that touch neither the core, nor the batches, nor the session. *)
LEMMA FollowedKept ==
    ASSUME Followed, UNCHANGED <<core, batch, requestBatch, sessionVars>>
    PROVE  Followed'
  <1>1. UNCHANGED <<session, linkUp, peerHeld>>
    BY DEF sessionVars
  <1>2. HeldThroughLink'
    BY <1>1 DEF Followed, HeldThroughLink
  <1>3. \A k : DownAfterBatch(k)' <=> DownAfterBatch(k)
    BY <1>1 DEF DownAfterBatch
  <1>4. RemoteFollowed'
    BY <1>3 DEF Followed, RemoteFollowed
  <1>5. ReleasePending'
    BY <1>1 DEF Followed, ReleasePending, Has
  <1> QED
    BY <1>2, <1>4, <1>5 DEF Followed

(* The session ends, whatever the thread that ended it does with its batch. *)
LEMMA FollowedGone ==
    ASSUME TypeOK, Followed, UNCHANGED core, session' = NONE, linkUp' = FALSE, peerHeld' = {},
           \/ batch' = batch
           \/ batch # << >> /\ batch' = Tail(batch)
           \/ batch' = << >>
    PROVE  Followed'
  <1>1. HeldThroughLink' /\ ReleasePending'
    BY DEF HeldThroughLink, ReleasePending
  <1>2. ASSUME core.mode = "Remote",
               \A i \in 1 .. Len(batch) : batch[i].name = "ForwardInput",
               \A k \in {Chord, PanicKey} : DownAfterBatch(k) => k \in core.pressedKeys
        PROVE  /\ \A i \in 1 .. Len(batch') : batch'[i].name = "ForwardInput"
               /\ \A k \in {Chord, PanicKey} : DownAfterBatch(k)' => k \in core.pressedKeys
    <2>1. CASE batch' = batch
      <3>1. \A k : DownAfterBatch(k)' => DownAfterBatch(k)
        BY <2>1 DEF DownAfterBatch
      <3> QED
        BY <1>2, <2>1, <3>1
    <2>2. CASE batch # << >> /\ batch' = Tail(batch)
      <3>1. \A i \in 1 .. Len(batch') : i + 1 \in 1 .. Len(batch) /\ batch'[i] = batch[i + 1]
        <4>1. /\ Len(batch) \in Nat \ {0} /\ Len(batch') = Len(batch) - 1
              /\ \A i \in 1 .. Len(batch) - 1 : batch'[i] = batch[i + 1]
          BY <2>2, Parts DEF TypeOK
        <4> QED
          BY <4>1
      <3>2. \A k \in {Chord, PanicKey} : DownAfterBatch(k)' => DownAfterBatch(k)
        BY <2>2, HeadDispatched
      <3> QED
        BY <1>2, <3>1, <3>2
    <2>3. CASE batch' = << >>
      <3>1. Len(batch') = 0
        BY <2>3
      <3>2. \A k : ~DownAfterBatch(k)'
        BY <3>1 DEF DownAfterBatch
      <3> QED
        BY <3>1, <3>2
    <2> QED
      BY <2>1, <2>2, <2>3
  <1>3. RemoteFollowed'
    BY <1>2 DEF Followed, RemoteFollowed
  <1> QED
    BY <1>1, <1>3 DEF Followed

(* The worker carries out the head of its batch. *)
LEMMA FollowedDispatch ==
    ASSUME TypeOK, Followed, WorkerDispatches
    PROVE  Followed'
  <1> DEFINE a == Head(batch)
  <1>1. /\ batch # << >> /\ batch' = Tail(batch) /\ Succeeds(a)
        /\ UNCHANGED <<core, requestBatch>>
    BY DEF WorkerDispatches, ipcVars
  <1>2. /\ a \in Action /\ batch \in Seq(Action) /\ a = batch[1]
        /\ Len(batch) \in Nat \ {0} /\ Len(batch') = Len(batch) - 1
        /\ \A i \in 1 .. Len(batch) - 1 : batch'[i] = batch[i + 1]
    BY <1>1, Parts DEF TypeOK
  <1>3. CASE session' = NONE /\ linkUp' = FALSE /\ peerHeld' = {}
    BY <1>1, <1>3, FollowedGone
  <1>4. ASSUME UNCHANGED <<session, linkUp>>, a.name # "StopRemoteSession" \/ session = NONE,
               \A k \in peerHeld' : (k \in peerHeld /\ ~Lifts(a, k)) \/ Presses(a, k),
               ~linkUp => peerHeld' = {},
               a.name # "ForwardInput" /\ peerHeld = {} => peerHeld' = {}
        PROVE  Followed'
    <2>1. HeldThroughLink'
      BY <1>4 DEF Followed, HeldThroughLink
    <2>2. RemoteFollowed'
      <3> SUFFICES ASSUME core.mode = "Remote"
                   PROVE  /\ \A i \in 1 .. Len(batch') : batch'[i].name = "ForwardInput"
                          /\ \A k \in {Chord, PanicKey} : DownAfterBatch(k)' => k \in core.pressedKeys
        BY <1>1 DEF RemoteFollowed
      <3>1. \A i \in 1 .. Len(batch') : i + 1 \in 1 .. Len(batch) /\ batch'[i] = batch[i + 1]
        BY <1>2
      <3>2. \A k \in {Chord, PanicKey} : DownAfterBatch(k)' => DownAfterBatch(k)
        BY <1>1, <1>4, HeadDispatched
      <3> QED
        BY <3>1, <3>2 DEF Followed, RemoteFollowed
    <2>3. ReleasePending'
      <3>1. /\ Has(batch, "ForwardInput") <=> a.name = "ForwardInput" \/ Has(batch', "ForwardInput")
            /\ Has(batch, "StopRemoteSession") <=>
                  a.name = "StopRemoteSession" \/ Has(batch', "StopRemoteSession")
        BY <1>1, <1>2, HasTail
      <3>2. Has(requestBatch, "StopRemoteSession")' <=> Has(requestBatch, "StopRemoteSession")
        BY <1>1 DEF Has
      <3>3. Has(batch, "ForwardInput")' <=> Has(batch', "ForwardInput")
        BY DEF Has
      <3>4. Has(batch, "StopRemoteSession")' <=> Has(batch', "StopRemoteSession")
        BY DEF Has
      <3> QED
        BY <1>1, <1>4, <3>1, <3>2, <3>3, <3>4 DEF Followed, ReleasePending
    <2> QED
      BY <2>1, <2>2, <2>3 DEF Followed
  <1>5. CASE /\ UNCHANGED sessionVars
             /\ session = NONE \/ a.name # "StopRemoteSession"
             /\ session = NONE \/ ~linkUp \/ a.name = "ReleaseLocalInputs"
    <2>1. UNCHANGED <<session, linkUp, peerHeld>>
      BY <1>5 DEF sessionVars
    <2>2. peerHeld = {} \/ a.name = "ReleaseLocalInputs"
      BY <1>5 DEF Followed, HeldThroughLink
    <2>3. \A k \in peerHeld' : (k \in peerHeld /\ ~Lifts(a, k)) \/ Presses(a, k)
      BY <2>1, <2>2 DEF Lifts, KeyAction
    <2>4. ~linkUp => peerHeld' = {}
      BY <2>1 DEF Followed, HeldThroughLink
    <2> QED
      BY <1>4, <1>5, <2>1, <2>3, <2>4
  <1>6. CASE /\ UNCHANGED <<session, linkUp>> /\ linkUp
             /\ a.name # "StopRemoteSession"
             /\ peerHeld' = IF a.name = "ForwardInput" /\ a.input.kind = "key"
                            THEN Core!Track(peerHeld, a.input)
                            ELSE IF a.name = "ReleaseAllInputs" THEN {} ELSE peerHeld
    <2>1. ASSUME NEW k \in peerHeld' PROVE (k \in peerHeld /\ ~Lifts(a, k)) \/ Presses(a, k)
      BY <1>2, <1>6, ActionForms DEF Lifts, Presses, KeyAction, Core!Track
    <2> QED
      BY <1>4, <1>6, <2>1
  <1> QED
    BY <1>1, <1>3, <1>5, <1>6, SucceedsForms

(* The worker applies an event. *)
LEMMA FollowedApply ==
    ASSUME TypeOK, Followed, ApplyEvent
    PROVE  Followed'
  <1> DEFINE in == Head(events)
  <1>1. PICK o \in Outcomes(in) : core' = o.state /\ batch' = batch \o o.actions
    BY DEF ApplyEvent
  <1>2. UNCHANGED <<requestBatch, session, linkUp, peerHeld>>
    BY DEF ApplyEvent, ipcVars, sessionVars
  <1>3. in \in Core!CapturedInput
    BY Parts DEF ApplyEvent, TypeOK
  <1>4. Follows(core, in, o)
    BY <1>3, OutcomesFollow
  <1>5. HeldThroughLink'
    BY <1>2 DEF Followed, HeldThroughLink
  <1> HIDE DEF in
  <1>6. CASE o.state.mode = "Remote"
    <2> DEFINE a == Core!ForwardInput(in)
    <2>1. /\ core.mode = "Remote" /\ a \in Action /\ a.name = "ForwardInput" /\ a.input = in
          /\ batch' = batch \o <<a>>
          /\ core'.pressedKeys = IF in.kind = "key" THEN Core!Track(core.pressedKeys, in)
                                 ELSE core.pressedKeys
      BY <1>1, <1>3, <1>4, <1>6, ActionsTyped DEF Follows
    <2> HIDE DEF a
    <2>2. ASSUME NEW k \in {Chord, PanicKey}, DownAfterBatch(k)' PROVE k \in core'.pressedKeys
      <3>1. ~Lifts(a, k) /\ (Presses(a, k) \/ DownAfterBatch(k))
        BY <1>2, <2>1, <2>2, ForwardAdded
      <3>2. DownAfterBatch(k) => k \in core.pressedKeys
        BY <2>1 DEF Followed, RemoteFollowed
      <3>3. in.kind = "key" => in.press \in BOOLEAN
        BY <2>1, ActionForms
      <3> QED
        BY <2>1, <3>1, <3>2, <3>3 DEF Lifts, Presses, KeyAction, Core!Track
    <2>3. \A i \in 1 .. Len(batch') : batch'[i].name = "ForwardInput"
      <3>1. <<a>> \in Seq(Action) /\ Len(<<a>>) = 1 /\ <<a>>[1] = a /\ batch \in Seq(Action)
        BY <2>1 DEF TypeOK
      <3>2. /\ Len(batch) \in Nat /\ Len(batch') = Len(batch) + 1
            /\ \A i \in 1 .. Len(batch) : batch'[i] = batch[i]
            /\ batch'[Len(batch) + 1] = a
        BY <2>1, <3>1, Joined
      <3>3. \A i \in 1 .. Len(batch') : i \in 1 .. Len(batch) \/ i = Len(batch) + 1
        BY <3>2
      <3>4. \A i \in 1 .. Len(batch) : batch[i].name = "ForwardInput"
        BY <2>1 DEF Followed, RemoteFollowed
      <3> QED
        BY <2>1, <3>2, <3>3, <3>4
    <2>4. RemoteFollowed'
      BY <2>2, <2>3 DEF RemoteFollowed
    <2>5. ReleasePending'
      BY <1>1, <1>6 DEF ReleasePending
    <2> QED
      BY <1>5, <2>4, <2>5 DEF Followed
  <1>7. CASE o.state.mode # "Remote"
    <2>1. RemoteFollowed'
      BY <1>1, <1>7 DEF RemoteFollowed
    <2>2. ReleasePending'
      <3>1. /\ ~Has(o.actions, "ForwardInput")
            /\ core.mode = "Remote" => Has(o.actions, "StopRemoteSession")
        BY <1>4, <1>7 DEF Follows
      <3>2. \A n : Has(batch', n) <=> Has(batch, n) \/ Has(o.actions, n)
        <4>1. batch \in Seq(Action) /\ o.actions \in Seq(Action)
          BY <1>4 DEF Follows, TypeOK
        <4> QED
          BY <1>1, <4>1, HasJoined
      <3>3. /\ Has(batch, "ForwardInput")' <=> Has(batch', "ForwardInput")
            /\ Has(batch, "StopRemoteSession")' <=> Has(batch', "StopRemoteSession")
            /\ Has(requestBatch, "StopRemoteSession")' <=> Has(requestBatch, "StopRemoteSession")
        BY <1>2 DEF Has
      <3> QED
        BY <1>1, <1>2, <3>1, <3>2, <3>3 DEF Followed, ReleasePending
    <2> QED
      BY <1>5, <2>1, <2>2 DEF Followed
  <1> QED
    BY <1>6, <1>7

(* A thread recovers: the core is Local, and if it was Remote that thread has
   the session to stop.  The worker has then nothing else to dispatch. *)
LEMMA FollowedRecovery ==
    ASSUME TypeOK, Followed, UNCHANGED sessionVars, core' = Core!HandlePanicHotkey(core).state,
           requestBatch = << >>,
           \/ /\ batch = << >> /\ batch' = Core!HandlePanicHotkey(core).actions
              /\ requestBatch' = requestBatch
           \/ /\ batch' = batch /\ requestBatch' = Core!HandlePanicHotkey(core).actions
    PROVE  Followed'
  <1>1. UNCHANGED <<session, linkUp, peerHeld>>
    BY DEF sessionVars
  <1> DEFINE o == Core!HandlePanicHotkey(core)
  <1>2. /\ core'.mode = "Local" /\ ~Has(o.actions, "ForwardInput")
        /\ core.mode = "Remote" => Has(o.actions, "StopRemoteSession")
    BY PanicOutcome DEF TypeOK
  <1>3. \A n : ~Has(requestBatch, n)
    <2>1. Len(requestBatch) = 0
      OBVIOUS
    <2> QED
      BY <2>1 DEF Has
  <1>4. HeldThroughLink' /\ RemoteFollowed'
    BY <1>1, <1>2 DEF Followed, HeldThroughLink, RemoteFollowed
  <1>5. /\ Has(batch, "ForwardInput")' <=> Has(batch', "ForwardInput")
        /\ Has(batch, "StopRemoteSession")' <=> Has(batch', "StopRemoteSession")
        /\ Has(requestBatch, "StopRemoteSession")' <=> Has(requestBatch', "StopRemoteSession")
    BY DEF Has
  <1>6. batch = << >> => ~Has(batch, "StopRemoteSession")
    <2>1. batch = << >> => Len(batch) = 0
      OBVIOUS
    <2> QED
      BY <2>1 DEF Has
  <1> HIDE DEF o
  <1>7. \/ batch = << >> /\ batch' = o.actions
        \/ batch' = batch /\ requestBatch' = o.actions
    BY DEF o
  <1>8. ReleasePending'
    BY <1>1, <1>2, <1>3, <1>5, <1>6, <1>7 DEF Followed, ReleasePending
  <1> QED
    BY <1>4, <1>8 DEF Followed

(* An IPC thread carries out the head of its batch; it forwards nothing. *)
LEMMA FollowedRequest ==
    ASSUME TypeOK, MutexHeld, RequestsForwardNothing, Followed, RequestDispatches
    PROVE  Followed'
  <1> DEFINE a == Head(requestBatch)
  <1>1. /\ request # NONE /\ requestBatch # << >> /\ requestBatch' = Tail(requestBatch)
        /\ Succeeds(a) /\ UNCHANGED <<core, batch>>
    BY DEF RequestDispatches, workerVars
  <1>2. core.mode = "Local"
    BY <1>1 DEF MutexHeld
  <1>3. CASE session' = NONE /\ linkUp' = FALSE /\ peerHeld' = {}
    BY <1>1, <1>3, FollowedGone
  <1>4. ASSUME UNCHANGED <<session, linkUp>>, a.name # "StopRemoteSession" \/ session = NONE,
               ~linkUp => peerHeld' = {},
               peerHeld = {} /\ a.name # "ForwardInput" => peerHeld' = {},
               a.name # "ForwardInput"
        PROVE  Followed'
    <2>1. HeldThroughLink' /\ RemoteFollowed'
      BY <1>1, <1>2, <1>4 DEF Followed, HeldThroughLink, RemoteFollowed
    <2>2. Has(requestBatch, "StopRemoteSession") <=>
             a.name = "StopRemoteSession" \/ Has(requestBatch', "StopRemoteSession")
      BY <1>1, HasTail DEF TypeOK
    <2>3. /\ Has(batch, "ForwardInput")' <=> Has(batch, "ForwardInput")
          /\ Has(batch, "StopRemoteSession")' <=> Has(batch, "StopRemoteSession")
          /\ Has(requestBatch, "StopRemoteSession")' <=> Has(requestBatch', "StopRemoteSession")
      BY <1>1 DEF Has
    <2>4. ReleasePending'
      BY <1>1, <1>4, <2>2, <2>3 DEF Followed, ReleasePending
    <2> QED
      BY <2>1, <2>4 DEF Followed
  <1>5. a.name # "ForwardInput"
    BY <1>1, HasTail DEF TypeOK, RequestsForwardNothing
  <1>6. ~linkUp => peerHeld = {}
    BY DEF Followed, HeldThroughLink
  <1>7. CASE /\ UNCHANGED sessionVars
             /\ session = NONE \/ a.name # "StopRemoteSession"
    BY <1>4, <1>5, <1>6, <1>7 DEF sessionVars
  <1>8. CASE /\ UNCHANGED <<session, linkUp>> /\ linkUp
             /\ a.name # "StopRemoteSession"
             /\ peerHeld' = IF a.name = "ForwardInput" /\ a.input.kind = "key"
                            THEN Core!Track(peerHeld, a.input)
                            ELSE IF a.name = "ReleaseAllInputs" THEN {} ELSE peerHeld
    BY <1>4, <1>5, <1>8
  <1> QED
    BY <1>1, <1>3, <1>7, <1>8, SucceedsForms

LEMMA NextTracked ==
    ASSUME ~PlatformMayFail
    PROVE  TypeOK /\ Ordered /\ RequestsForwardNothing /\ Tracked /\ [Next]_vars => Tracked'
  <1> SUFFICES ASSUME TypeOK, Ordered, RequestsForwardNothing, Tracked, [Next]_vars, connects' = 0
               PROVE  Followed'
    BY DEF Tracked, Followed
  <1> USE DEF workerVars, ipcVars
  <1>1. connects = 0 \/ \E p \in Peers : RequestConnect(p)
    BY DEF Next, WorkerStep, WorkerTop, WorkerReceives, WorkerTimesOut, WorkerRecovers, WorkerIdle,
           WorkerApplies, WorkerDrains, ApplyEvent, WorkerDrained, WorkerDispatches, WorkerFails,
           WorkerRecovered, WorkerDispatched, RequestRecovery, RequestStep, RequestDispatches,
           RequestFails, RequestDone, UserInput, PeerGone, vars
  <1>2. ASSUME NEW p \in Peers, RequestConnect(p) PROVE FALSE
    BY <1>2, DaemonAssumption DEF RequestConnect, TypeOK
  <1>3. Followed
    BY <1>1, <1>2 DEF Tracked, Followed
  <1>4. CASE \/ WorkerTop \/ WorkerReceives \/ WorkerTimesOut \/ WorkerIdle \/ WorkerDrained
             \/ WorkerRecovered \/ WorkerDispatched
    BY <1>3, <1>4, FollowedKept
       DEF WorkerTop, WorkerReceives, WorkerTimesOut, WorkerIdle, WorkerDrained, WorkerRecovered,
           WorkerDispatched
  <1>5. CASE WorkerRecovers
    <2>1. requestBatch = << >> /\ batch = << >>
      BY <1>5, FreeMutex DEF WorkerRecovers, Ordered, TurnsStartEmpty
    <2> QED
      BY <1>3, <1>5, <2>1, FollowedRecovery DEF WorkerRecovers
  <1>6. CASE WorkerApplies \/ WorkerDrains
    BY <1>3, <1>6, FollowedApply DEF WorkerApplies, WorkerDrains
  <1>7. CASE WorkerDispatches
    BY <1>3, <1>7, FollowedDispatch
  <1>8. CASE WorkerFails
    <2>1. session' = NONE /\ linkUp' = FALSE /\ peerHeld' = {}
      BY <1>8, FailsForms DEF WorkerFails
    <2> QED
      BY <1>3, <1>8, <2>1, FollowedGone DEF WorkerFails
  <1>9. ASSUME NEW r \in Recoveries, RequestRecovery(r) PROVE Followed'
    <2>1. requestBatch = << >>
      BY <1>9, FreeMutex DEF RequestRecovery, Ordered
    <2> QED
      BY <1>3, <1>9, <2>1, FollowedRecovery DEF RequestRecovery
  <1>10. CASE RequestDispatches
    BY <1>3, <1>10, FollowedRequest DEF Ordered
  <1>11. CASE RequestFails
    <2>1. session' = NONE /\ linkUp' = FALSE /\ peerHeld' = {}
      BY <1>11, FailsForms DEF RequestFails
    <2> QED
      BY <1>3, <1>11, <2>1, FollowedGone DEF RequestFails
  <1>12. CASE RequestDone
    <2>1. CASE request \in {"disconnect", "shutdown"}
      BY <1>3, <1>12, <2>1, FollowedGone DEF RequestDone, DetachSession
    <2>2. CASE request \notin {"disconnect", "shutdown"}
      BY <1>3, <1>12, <2>2, FollowedKept DEF RequestDone, Answer
    <2> QED
      BY <2>1, <2>2
  <1>13. ASSUME NEW in \in Core!CapturedInput, UserInput(in) PROVE Followed'
    BY <1>3, <1>13, FollowedKept DEF UserInput
  <1>14. CASE PeerGone
    <2>1. /\ session' = session /\ linkUp' = FALSE /\ peerHeld' = {}
          /\ UNCHANGED <<core, batch, requestBatch>>
      BY <1>14 DEF PeerGone
    <2>2. HeldThroughLink'
      BY <2>1 DEF HeldThroughLink
    <2>3. \A k : DownAfterBatch(k)' => DownAfterBatch(k)
      BY <2>1 DEF DownAfterBatch
    <2>4. RemoteFollowed'
      BY <1>3, <2>1, <2>3 DEF Followed, RemoteFollowed
    <2>5. ReleasePending'
      BY <1>3, <2>1 DEF Followed, ReleasePending, Has
    <2> QED
      BY <2>2, <2>4, <2>5 DEF Followed
  <1>15. CASE UNCHANGED vars
    BY <1>3, <1>15, FollowedKept DEF vars
  <1> QED
    BY <1>2, <1>4, <1>5, <1>6, <1>7, <1>8, <1>9, <1>10, <1>11, <1>12, <1>13, <1>14, <1>15
       DEF Next, WorkerStep, RequestStep

----
LEMMA InitOrdered == Init => Ordered /\ RequestsForwardNothing
  <1> SUFFICES ASSUME Init PROVE Ordered /\ RequestsForwardNothing
    OBVIOUS
  <1>1. requestBatch = << >> /\ Len(requestBatch) = 0
    BY DEF Init
  <1> QED
    BY <1>1
       DEF Init, Ordered, MutexHeld, TurnsStartEmpty, Recovering, RequestsForwardNothing, Has

LEMMA InitTracked == Init => Tracked
  <1> SUFFICES ASSUME Init PROVE Followed
    BY DEF Tracked, Followed
  <1>1. peerHeld = {} /\ Len(batch) = 0 /\ (session = NONE => ~linkUp)
    BY DEF Init
  <1> QED
    BY <1>1 DEF Followed, HeldThroughLink, RemoteFollowed, ReleasePending, DownAfterBatch, Has

(* Every variable of the sending daemon keeps its type, whatever the platform
   refuses and however often a session is connected. *)
THEOREM DaemonTypes == Spec => []TypeOK
  <1>1. Init => TypeOK
    BY InitTyped
  <1>2. TypeOK /\ [Next]_vars => TypeOK'
    BY NextTyped
  <1> QED
    BY <1>1, <1>2, PTL DEF Spec

(* However the worker's forwards interleave with recoveries of either thread,
   with a dying worker, a lost peer or a disconnect, once both batches are
   carried out the peer holds down only keys the core records, and none when
   control is not remote.  The local platform must be able to release: a
   local release that fails drops the rest of the batch with the Stop. *)
THEOREM NothingStuck ==
    ASSUME ~PlatformMayFail
    PROVE  Spec => []NothingStuckAtThePeer
  <1>1. Init => IInv
    BY InitTyped, InitOrdered, InitTracked DEF IInv, Ordered
  <1>2. IInv /\ [Next]_vars => IInv'
    BY NextTyped, NextOrdered, NextRequests, NextTracked DEF IInv, Ordered
  <1>3. IInv => NothingStuckAtThePeer
    <2> SUFFICES ASSUME IInv, Quiet, connects = 0
                 PROVE  /\ peerHeld \subseteq core.pressedKeys
                        /\ core.mode # "Remote" => peerHeld = {}
      BY DEF NothingStuckAtThePeer
    <2>1. Followed /\ Len(batch) = 0 /\ Len(requestBatch) = 0
      BY DEF IInv, Tracked, Followed, Quiet
    <2>2. core.mode # "Remote" => peerHeld = {}
      BY <2>1 DEF Followed, HeldThroughLink, ReleasePending, Has
    <2>3. ASSUME core.mode = "Remote", NEW k \in peerHeld PROVE k \in core.pressedKeys
      <3>1. k \in {Chord, PanicKey}
        BY DEF IInv, TypeOK
      <3>2. DownAfterBatch(k)
        BY <2>1 DEF DownAfterBatch
      <3> QED
        BY <2>1, <2>3, <3>1, <3>2 DEF Followed, RemoteFollowed
    <2> QED
      BY <2>2, <2>3
  <1> QED
    BY <1>1, <1>2, <1>3, PTL DEF Spec

=============================================================================

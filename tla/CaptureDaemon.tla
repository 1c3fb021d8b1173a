---------------------------- MODULE CaptureDaemon ----------------------------
(***************************************************************************)
(* The sending daemon at run time: the capture worker and the IPC server   *)
(* share one RuntimeInputState behind a mutex and one dispatcher, which    *)
(* carries out the core's actions on the local platform and on the managed *)
(* peer session.                                                           *)
(*                                                                         *)
(* The IPC server holds the state mutex for a whole request, and the       *)
(* worker for a whole recovery; but the actions of captured input are      *)
(* dispatched after the mutex is released, one at a time, so the two       *)
(* threads' actions interleave.                                            *)
(*                                                                         *)
(* The peer session is the one PeerLink describes, seen from here: a       *)
(* written command takes effect at the peer, and a session that ends       *)
(* releases what it pressed.  The peer may go away at any time.            *)
(***************************************************************************)
EXTENDS Integers, Sequences

CONSTANTS
    Chord,            \* stands for control and alt held together
    PanicKey,
    Peers,
    QueueCapacity,    \* event_buffer_capacity of the capture channel
    DrainBatch,       \* drain_batch_size
    MaxConnects,      \* bound: session.connect requests that succeed
    PlatformMayFail,  \* the local platform's release_all can fail
    NONE

ASSUME DaemonAssumption ==
    /\ Chord # PanicKey
    /\ QueueCapacity \in Nat \ {0}
    /\ DrainBatch \in Nat \ {0}
    /\ MaxConnects \in Nat
    /\ PlatformMayFail \in BOOLEAN
    /\ NONE \notin {"worker", "ipc"}
    /\ NONE \notin {"releaseAll", "disconnect", "shutdown", "permissions"}

Session == "session"
Pointer == "pointer"

Core == INSTANCE ControlTransitions
    WITH Keys <- {Chord, PanicKey}, ModifierKeys <- {Chord}, ControlKeys <- {Chord},
         AltKeys <- {Chord}, Buttons <- {}, Sessions <- {Session}, Points <- {Pointer}

VARIABLES
    core,         \* RuntimeInputState, behind the mutex
    mutex,        \* the thread that holds it across steps: "worker", "ipc" or NONE
    events,       \* captured input not yet received by the worker
    policy,       \* InputCapturePolicy of the capture session
    worker,       \* where the capture worker is
    drained,      \* events drained in this turn of the worker's loop
    batch,        \* CoreActions the worker has still to dispatch
    request,      \* the IPC request being handled
    requestBatch, \* CoreActions it has still to dispatch
    reply,        \* the last IPC request answered with a result, or "error"
    stopping,     \* shutdown_requested
    session,      \* the peer the manager routes to
    linkUp,       \* that session still reaches its peer
    connects,     \* bound counter
    peerHeld      \* keys this session holds down at its peer

workerVars  == <<events, policy, worker, drained, batch>>
ipcVars     == <<request, requestBatch, reply, stopping, connects>>
sessionVars == <<session, linkUp, peerHeld>>
vars        == <<core, mutex, workerVars, ipcVars, sessionVars>>

(* RuntimeInputState::new, and the remote state the loopback smoke test and
   the daemon's tests bring about before the worker starts. *)
InitialCores ==
    {Core!InitialState} \cup
    {Core!ConfirmRemoteEntry(Core!RequestRemoteEntry(Core!InitialState, p).state, Session).state :
        p \in Peers}

Init ==
    /\ core \in InitialCores
    /\ session \in IF core.mode = "Remote" THEN {core.activePeer} ELSE Peers \cup {NONE}
    /\ linkUp = (session # NONE)
    /\ peerHeld = {}
    /\ mutex = NONE
    /\ events = << >>
    /\ policy = "PassThrough"
    /\ worker = "starting"
    /\ drained = 0
    /\ batch = << >>
    /\ request = NONE
    /\ requestBatch = << >>
    /\ reply = NONE
    /\ stopping = FALSE
    /\ connects = 0

Capturing == worker \notin {"dead", "stopped"}

----
(***************************************************************************)
(* Carrying out one CoreAction.                                            *)
(***************************************************************************)
DetachSession ==
    /\ session' = NONE
    /\ linkUp' = FALSE
    /\ peerHeld' = {}

(* What a written command does at the peer. *)
ReachesPeer(a) ==
    /\ peerHeld' = CASE a.name = "ForwardInput" /\ a.input.kind = "key" ->
                            Core!Track(peerHeld, a.input)
                     [] a.name = "ReleaseAllInputs" -> {}
                     [] OTHER -> peerHeld
    /\ UNCHANGED <<session, linkUp>>

ForAnotherPeer(a) == a.name = "StartRemoteSession" /\ a.peer # session

(* Mutant: a Stop is sent but the session stays attached. *)
SucceedsKeepingSession(a) ==
    IF a.name = "ReleaseLocalInputs" \/ session = NONE THEN UNCHANGED sessionVars
    ELSE ~ForAnotherPeer(a) /\ IF linkUp THEN ReachesPeer(a) ELSE UNCHANGED sessionVars

(* The dispatcher returns Ok.  Without a session a command is dropped; one
   written to a peer that is gone may be buffered and lost. *)
Succeeds(a) ==
    IF a.name = "ReleaseLocalInputs" \/ session = NONE THEN UNCHANGED sessionVars
    ELSE /\ ~ForAnotherPeer(a)
         /\ IF a.name = "StopRemoteSession" THEN DetachSession
            ELSE IF linkUp THEN ReachesPeer(a)
            ELSE UNCHANGED sessionVars

(* It returns an error: the local release failed, or the session refused the
   peer or could not write, and is detached. *)
Fails(a) ==
    IF a.name = "ReleaseLocalInputs" THEN PlatformMayFail /\ UNCHANGED sessionVars
    ELSE /\ session # NONE
         /\ ForAnotherPeer(a) \/ ~linkUp
         /\ DetachSession

----
(***************************************************************************)
(* The capture worker.  A turn of its loop: sync the policy, receive an    *)
(* event, perhaps recover, apply it, dispatch, sync, drain what else is    *)
(* ready, dispatch, sync.                                                  *)
(***************************************************************************)
PolicyFor(mode) == IF mode = "Remote" THEN "Consume" ELSE "PassThrough"

(* sync_capture_policy_with_state *)
SyncPolicy ==
    /\ mutex = NONE
    /\ policy' = PolicyFor(core.mode)

WorkerTop ==
    /\ worker = "top"
    /\ IF stopping
       THEN worker' = "stopped" /\ UNCHANGED policy
       ELSE worker' = "receive" /\ SyncPolicy
    /\ drained' = 0
    /\ UNCHANGED <<core, mutex, events, batch, ipcVars, sessionVars>>

(* recv_timeout returns an event, which stays at the head of events until it
   is applied, or runs out of time. *)
WorkerReceives ==
    /\ worker = "receive"
    /\ events # << >>
    /\ worker' = "received"
    /\ UNCHANGED <<core, mutex, events, policy, drained, batch, ipcVars, sessionVars>>

(* Mutant: the worker waits for an event without a timeout. *)
WorkerWaits ==
    /\ worker = "receive"
    /\ events = << >>
    /\ UNCHANGED <<core, mutex, events, policy, worker, drained, batch, ipcVars, sessionVars>>

WorkerTimesOut ==
    /\ worker = "receive"
    /\ events = << >>
    /\ SyncPolicy
    /\ worker' = "timedOut"
    /\ UNCHANGED <<core, mutex, events, drained, batch, ipcVars, sessionVars>>

(* A long poll gap, a changed layout or lost permissions: the worker recovers
   and dispatches with the mutex held, before it applies the event.  The first
   inspection is made before the loop. *)
WorkerRecovers ==
    /\ worker \in {"starting", "received", "timedOut"}
    /\ mutex = NONE
    /\ mutex' = "worker"
    /\ LET outcome == Core!HandlePanicHotkey(core)
       IN  core' = outcome.state /\ batch' = outcome.actions
    /\ worker' = IF worker = "received" THEN "recovering" ELSE "recoveringIdle"
    /\ UNCHANGED <<events, policy, drained, ipcVars, sessionVars>>

(* Nothing, or nothing more, to recover from. *)
WorkerIdle ==
    /\ worker \in {"starting", "timedOut"}
    /\ worker' = "top"
    /\ UNCHANGED <<core, mutex, events, policy, drained, batch, ipcVars, sessionVars>>

(* Mutant: while remote, input is forwarded without a look at the hotkey. *)
OutcomesForwarding(in) ==
    IF in = Core!Motion /\ core.mode = "Local"
    THEN {Core!ApplyLocalPointerMove(core, Pointer, p) : p \in Peers \cup {NONE}}
    ELSE IF core.mode = "Remote"
    THEN {Core!Outcome(Core!RecordInput(core, in), <<Core!ForwardInput(in)>>)}
    ELSE {Core!ApplyInput(core, in)}

(* apply_routed_capture_event: a motion in Local mode moves the router's
   pointer, and may cross an edge bound to any peer (PointerRouter). *)
Outcomes(in) ==
    IF in = Core!Motion /\ core.mode = "Local"
    THEN {Core!ApplyLocalPointerMove(core, Pointer, p) : p \in Peers \cup {NONE}}
    ELSE {Core!ApplyInput(core, in)}

(* The worker takes the next event and appends the actions to its batch. *)
ApplyEvent ==
    /\ events # << >>
    /\ mutex = NONE
    /\ \E outcome \in Outcomes(Head(events)) :
          /\ core' = outcome.state
          /\ batch' = batch \o outcome.actions
    /\ events' = Tail(events)
    /\ UNCHANGED <<mutex, policy, ipcVars, sessionVars>>

WorkerApplies ==
    /\ worker = "received"
    /\ ApplyEvent
    /\ worker' = "dispatch"
    /\ UNCHANGED drained

(* Mutant: the bound of the drain loop is inclusive. *)
WorkerDrainsOneMore ==
    /\ worker = "drain"
    /\ drained <= DrainBatch
    /\ ApplyEvent
    /\ drained' = drained + 1
    /\ UNCHANGED worker

WorkerDrains ==
    /\ worker = "drain"
    /\ drained < DrainBatch
    /\ ApplyEvent
    /\ drained' = drained + 1
    /\ UNCHANGED worker

(* The drained batch is full, or no event is ready. *)
WorkerDrained ==
    /\ worker = "drain"
    /\ drained = DrainBatch \/ events = << >>
    /\ worker' = "dispatchDrained"
    /\ UNCHANGED <<core, mutex, events, policy, drained, batch, ipcVars, sessionVars>>

Recovering == worker \in {"recovering", "recoveringIdle"}

Dispatching == Recovering \/ worker \in {"dispatch", "dispatchDrained"}

WorkerDispatches ==
    /\ Dispatching
    /\ batch # << >>
    /\ Succeeds(Head(batch))
    /\ batch' = Tail(batch)
    /\ UNCHANGED <<core, mutex, events, policy, worker, drained, ipcVars>>

(* An error ends the worker, and with it the capture session: the mutex and
   the rest of the batch are dropped, the mode stays. *)
WorkerFails ==
    /\ Dispatching
    /\ batch # << >>
    /\ Fails(Head(batch))
    /\ worker' = "dead"
    /\ batch' = << >>
    /\ mutex' = IF Recovering THEN NONE ELSE mutex
    /\ UNCHANGED <<core, events, policy, drained, ipcVars>>

(* The batch is done: unlock after a recovery, sync after a dispatch. *)
WorkerRecovered ==
    /\ Recovering
    /\ batch = << >>
    /\ mutex' = NONE
    /\ worker' = IF worker = "recovering" THEN "received" ELSE "timedOut"
    /\ UNCHANGED <<core, events, policy, drained, batch, ipcVars, sessionVars>>

WorkerDispatched ==
    /\ worker \in {"dispatch", "dispatchDrained"}
    /\ batch = << >>
    /\ SyncPolicy
    /\ worker' = IF worker = "dispatch" THEN "drain" ELSE "top"
    /\ UNCHANGED <<core, mutex, events, drained, batch, ipcVars, sessionVars>>

----
(***************************************************************************)
(* The IPC server: one request at a time.                                  *)
(***************************************************************************)

(* input.releaseAll, session.disconnect, daemon.shutdown, and a
   permissions.probe that found issues. *)
Recoveries == {"releaseAll", "disconnect", "shutdown", "permissions"}

RequestRecovery(r) ==
    /\ request = NONE
    /\ ~stopping
    /\ mutex = NONE
    /\ mutex' = "ipc"
    /\ request' = r
    /\ reply' = NONE
    /\ LET outcome == Core!HandlePanicHotkey(core)
       IN  core' = outcome.state /\ requestBatch' = outcome.actions
    /\ UNCHANGED <<workerVars, stopping, connects, sessionVars>>

RequestDispatches ==
    /\ request # NONE
    /\ requestBatch # << >>
    /\ Succeeds(Head(requestBatch))
    /\ requestBatch' = Tail(requestBatch)
    /\ UNCHANGED <<core, mutex, workerVars, request, reply, stopping, connects>>

Answer(r) ==
    /\ request' = NONE
    /\ requestBatch' = << >>
    /\ mutex' = NONE
    /\ reply' = r

RequestFails ==
    /\ request # NONE
    /\ requestBatch # << >>
    /\ Fails(Head(requestBatch))
    /\ Answer("error")
    /\ UNCHANGED <<core, workerVars, stopping, connects>>

(* disconnect and shutdown then detach whatever session is active. *)
RequestDone ==
    /\ request # NONE
    /\ requestBatch = << >>
    /\ Answer(request)
    /\ stopping' = (request = "shutdown")
    /\ IF request \in {"disconnect", "shutdown"} THEN DetachSession ELSE UNCHANGED sessionVars
    /\ UNCHANGED <<core, workerVars, connects>>

(* session.connect: the handshake runs with the mutex held. *)
RequestConnect(p) ==
    /\ request = NONE
    /\ ~stopping
    /\ mutex = NONE
    /\ session = NONE
    /\ connects < MaxConnects
    /\ session' = p
    /\ linkUp' = TRUE
    /\ peerHeld' = {}
    /\ connects' = connects + 1
    /\ reply' = "connect"
    /\ UNCHANGED <<core, mutex, workerVars, request, requestBatch, stopping>>

----
(***************************************************************************)
(* The user and the network.                                               *)
(***************************************************************************)

(* The capture hook hands over an event, or drops it when the channel is
   full. *)
UserInput(in) ==
    /\ Capturing
    /\ Len(events) < QueueCapacity
    /\ events' = Append(events, in)
    /\ UNCHANGED <<core, mutex, policy, worker, drained, batch, ipcVars, sessionVars>>

PeerGone ==
    /\ linkUp
    /\ linkUp' = FALSE
    /\ peerHeld' = {}
    /\ UNCHANGED <<core, mutex, workerVars, ipcVars, session>>

WorkerStep ==
    \/ WorkerTop
    \/ WorkerReceives
    \/ WorkerTimesOut
    \/ WorkerRecovers
    \/ WorkerIdle
    \/ WorkerApplies
    \/ WorkerDrains
    \/ WorkerDrained
    \/ WorkerDispatches
    \/ WorkerFails
    \/ WorkerRecovered
    \/ WorkerDispatched

RequestStep == RequestDispatches \/ RequestFails \/ RequestDone

Next ==
    \/ WorkerStep
    \/ \E r \in Recoveries : RequestRecovery(r)
    \/ RequestStep
    \/ \E p \in Peers : RequestConnect(p)
    \/ \E in \in Core!CapturedInput : UserInput(in)
    \/ PeerGone

Spec == Init /\ [][Next]_vars

(* The two threads run: a step that waits for the mutex gets it in the end,
   a request that was taken is finished.  Recoveries by the worker, requests,
   input and failures need never happen. *)
Fairness ==
    /\ SF_vars(WorkerTop)
    /\ SF_vars(WorkerReceives \/ WorkerTimesOut)
    /\ SF_vars(WorkerIdle)
    /\ SF_vars(WorkerApplies)
    /\ SF_vars(WorkerDrains)
    /\ WF_vars(WorkerDrained)
    /\ WF_vars(WorkerDispatches \/ WorkerFails)
    /\ WF_vars(WorkerRecovered)
    /\ SF_vars(WorkerDispatched)
    /\ WF_vars(RequestStep)

FairSpec == Spec /\ Fairness

----
Action ==
    [name : {"StartRemoteSession"}, peer : Peers]
    \cup [name : {"ForwardInput"}, input : Core!CapturedInput]
    \cup [name : {"ReleaseLocalInputs", "ReleaseAllInputs"}]
    \cup [name : {"StopRemoteSession"}, session : {Session, NONE}]

(* Every variable has its type. *)
TypeOK ==
    /\ core \in Core!RuntimeInputState
    /\ mutex \in {"worker", "ipc", NONE}
    /\ events \in Seq(Core!CapturedInput) /\ Len(events) <= QueueCapacity
    /\ policy \in {"Consume", "PassThrough"}
    /\ worker \in {"starting", "top", "receive", "received", "timedOut", "recovering",
                   "recoveringIdle", "dispatch", "drain", "dispatchDrained", "dead", "stopped"}
    /\ drained \in 0 .. DrainBatch
    /\ batch \in Seq(Action)
    /\ request \in Recoveries \cup {NONE}
    /\ requestBatch \in Seq(Action)
    /\ reply \in Recoveries \cup {"connect", "error", NONE}
    /\ stopping \in BOOLEAN
    /\ session \in Peers \cup {NONE}
    /\ linkUp \in BOOLEAN
    /\ connects \in 0 .. MaxConnects
    /\ peerHeld \subseteq {Chord, PanicKey}

(* No thread has actions still to carry out. *)
Quiet == batch = << >> /\ requestBatch = << >>

(* Between batches, whatever the session the daemon began with holds down at
   the peer is recorded by the core as pressed, and nothing is down once
   control is not remote: however the worker's forwards interleave with a
   recovery on the IPC thread, none of them outlives the recovery. *)
NothingStuckAtThePeer ==
    Quiet /\ connects = 0 =>
        /\ peerHeld \subseteq core.pressedKeys
        /\ core.mode # "Remote" => peerHeld = {}

(* Once input.releaseAll or daemon.shutdown was answered with released: true
   and no thread has actions left, nothing is down at the peer. *)
ReleasedMeansReleased ==
    reply \in {"releaseAll", "shutdown"} /\ Quiet /\ core.mode # "Remote" => peerHeld = {}

(* Input is forwarded only while control is remote: no key goes down in a
   session that was connected while it was not. *)
ForwardedOnlyWhileRemote ==
    reply = "connect" /\ Quiet /\ core.mode # "Remote" => peerHeld = {}

(* The local desktop gets its input back: the worker does not keep consuming
   it when control is no longer remote, even if it was an IPC request that
   recovered it. *)
InputComesBack ==
    (policy = "Consume") ~> (policy = "PassThrough" \/ core.mode = "Remote" \/ ~Capturing)

(* A captured panic hotkey brings control back, or the worker has died or was
   told to stop. *)
PanicHotkeyWorks ==
    (/\ Capturing
     /\ core.mode = "Remote"
     /\ Chord \in core.modifiers
     /\ events = <<[kind |-> "key", code |-> PanicKey, press |-> TRUE]>>)
        ~> (core.mode # "Remote" \/ ~Capturing)

(* A remote entry is confirmed, or given up. *)
EntryIsConfirmed == (core.mode = "EnteringRemote") ~> (core.mode # "EnteringRemote")

=============================================================================

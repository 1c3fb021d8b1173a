# Akraz: a formal model

Akraz shares one keyboard and mouse between computers.  A daemon on each
computer captures local input; when the pointer leaves the screen through an
edge that is bound to a peer, input is meant to be routed to that peer over an
authenticated TCP session, until the user, a panic hotkey or a failure brings it
back.  What must never happen is that a key stays down on a computer nobody is
driving, that input goes to a computer nobody chose, or that the user cannot get
the local keyboard back.

This directory holds TLA+ modules that model the parts of the code these promises
rest on, TLC configurations that check them on small instances, and theorems
proved with TLAPS.  `PROJECT.json` maps every definition to the lines it models,
and lists runs, mutants, findings, hazards and theorems.

Paths below: *core* is `src/crates/akraz-core/src/lib.rs`, *daemon* is
`src/crates/akraz-daemon/src/lib.rs`, *main* is its `main.rs`, *platform*, *identity*,
*ipc*, *discovery* and *protocol* are `src/crates/akraz-<name>/src/lib.rs`, *akrazctl* is
`src/crates/akrazctl/src/main.rs` and *application* is
`src/apps/akraz/src-tauri/src/lib.rs`.

## 1. Inventory

| Component | State | Operations | Interacts with | What is hard | What makes it correct |
|---|---|---|---|---|---|
| Input-routing core (core) | mode, pending and active peer, session, pressed keys and buttons, modifiers, last pointer | `apply_event`, one `RuntimeEvent` at a time, returning `CoreAction`s | driven by daemon; its actions are dispatched by daemon | ten events in five modes, in any order; two copies of the modifiers | fields agree with the mode; whatever was forwarded is released on every way out; Release before Stop |
| Screen-edge geometry (core) | none | `detect_edge_crossing` and `LogicalRect` | called by the core | saturating arithmetic, exclusive edges, ties | a crossing is reported exactly when the pointer leaves through a bound edge |
| Captured input router (daemon) | pointer and screen layout | `apply_routed_capture_event_to_state`, layout change | core, desktop | its pointer is a second copy of the desktop's | crossings happen where the user's pointer is |
| Peer session (daemon) | sender: stream, sequence number, heartbeat thread; receiver: prelude stage, expected sequence, release guard | dispatch, heartbeat, drop; the receiver's frame loop | two daemons over TCP; platform at the receiver | two threads and the heartbeat on one stream; timeout, reset, torn frames, crash, partial injection failure | frames in order; whatever is down at the receiver is released when the session ends |
| Peer session manager (daemon) | active session, reconnect backoff | attach, connect, disconnect, dispatch | IPC handlers, capture worker, start-up | detaching a newer session than the one that failed; trust and addresses that change while it connects; a prelude that is never answered; one listener for every device's connections | a listener serves exactly the sessions meant for it and in step with it; the session commands go to is taken up or given up |
| Capture worker and IPC handlers (daemon) | `RuntimeInputState` behind a mutex, capture policy, event channel, three watchdogs | worker loop, `handle_ipc_request` | all of the above | actions dispatched after the mutex is released; first failing action drops the rest of a batch; changes noticed only when polled | a recovery by either thread leaves nothing down at the peer and gives the local desktop its input; no loss of permission is missed |
| Pairing and trust (daemon, identity) | pending pairings, trusted peers | start, accept, reject, forget | IPC, identity file | pending pairing overwritten while the user confirms; a code of six digits | a trusted record was shown with the code that was confirmed |
| Identity store (identity) | one JSON file | `load_or_create`, save, list, remove | daemon, application, akrazctl | read-modify-write without a lock, truncate then write, two creators | one identity; a damaged file is not replaced; undisturbed updates are atomic |
| Platform adapters (platform) | injected inputs pressed, capture thread, channel and policy | inject, `release_all`, start, stop, hooks, probes | daemon, operating system | `release_all` stops at the first failure; a full channel drops events; probes and starts look separately | nothing stays down unaccounted for; keys arrive as themselves; probes are truthful |
| Wire protocol (protocol, daemon) | none | frames, version check, transcript, Ed25519 | peer session | which fields a proof binds, frames in a wrong order | what is sent is read back; nothing else is executed |
| Local IPC endpoint (ipc) | socket path | serve one request, prepare and clean the path | daemon, application, akrazctl | path removed and rebound for each request | nobody waits at a listener nobody serves; answers are read as what they are |
| mDNS discovery (discovery) | map of peers, published list | library events, poll, stop | daemon | stale entries, names in two spellings | the list follows what is on the air; what is offered can be paired with |
| Daemon process (main) | threads, crash marker, log buffer | start-up, serve, tear-down | all | order of tear-down, panics of threads | a shutdown ends; evidence of a crash is kept |
| Application: supervisor | managed child | start, stop, acknowledge | IPC, daemon process | answers lost, an endpoint that is absent between requests | one daemon at a time, never lost sight of |
| Application: settings | settings and layout files | normalise, save, arguments | daemon process | checked here, parsed again there | what is accepted starts, as it was meant |
| akrazctl | none | one request or file operation per run, `daemon-args` | IPC, identity file, a shell | the same; the line is printed unquoted | the same |
| Web UI, scripts | form state; build | presentation; packaging | application | | not modelled |

`PROJECT.json` lists the same components with what is modelled of each, and the
hazards with the line where each one bites.

## 2. Modules

```
ControlTransitions   the core's transition functions (no variables)
  ControlCore          the core as a state machine, beside the peer it drives
    ControlCoreProofs    theorems
    RemoteLease          what the core promises: an abstract lease
  PointerRouter        the router and the real desktop    (uses EdgeGeometry)
    PointerRouterProofs  theorems, those of the geometry included
  CaptureDaemon        capture worker, IPC server, dispatchers, one session
    CaptureDaemonProofs  theorems
EdgeGeometry         rectangles and edge crossings (pure)
PeerLink             one peer session, both ends and the connection
  PeerLinkProofs       theorems
Handshake            the prelude of a session and what a listener makes of it (pure)
  SessionManager       the active session, two threads, peers and their listeners
    SessionManagerProofs theorems
IdentityDocument     documents, fingerprints, codes, stored records (pure)
  IdentityStore        the identity file and the processes that use it
    TrustStore           what it promises: one atomic list of peers
    Pairing              the daemon's pairing requests
      PairingProofs        theorems, those of the identity file included
  Discovery            TXT records, the worker and its list, candidates
InputCodes           key and button codes from capture to injection (pure)
  PeerFrames           frames, the prelude's order, what is executed (pure)
InjectedInput        what an adapter holds down, and release_all
CaptureChain         keyboard, capture thread, channel, policy, worker
EnvironmentWatch     the worker's watchdogs
InputProbes          sessions, probes, geometry, starts (pure; uses EdgeGeometry)
Adapters             Discovery, PeerFrames, InjectedInput, CaptureChain, EnvironmentWatch
                     and InputProbes side by side
  AdaptersProofs       theorems of all six
IpcEndpoint          the socket path, listeners, clients
  DaemonProcess        the daemon's threads, tear-down, crash marker
    Supervisor           the application's commands and other clients
StartOptions         settings, arguments, serve options (pure)
  CommandLine          daemon-args, a shell, parameters of requests (pure)
Requests             JSON-RPC requests and answers (pure)
Diagnostics          log buffer, figures, support bundles (pure)
Lifecycle            Supervisor, CommandLine, Requests and Diagnostics side by side
  SupervisorProofs     theorems of all these, the endpoint and the process included
MC*                  instances for TLC
```

`ControlTransitions` is the one translation of `RuntimeInputState`: each
`handle_*`, `request_*`, `confirm_*` function is an operator from a state to an
*outcome*, the state after it and the actions it returns.  `ControlCore` EXTENDS it, `PointerRouter` and
`CaptureDaemon` INSTANCE it, so all three see the same core.

### ControlTransitions, ControlCore and RemoteLease
`ControlCore` applies any `RuntimeEvent` at any time; a refused event
(`CoreTransitionError`) leaves the state and emits nothing.  Beside the state it
keeps what a peer that obeys the emitted actions holds down, and the lease those
actions describe.  `RemoteLease` is the abstract specification: a lease of the
local input is free, requested or held; input flows only while it is held; it
ends with nothing down.  Key codes are model values with their role (control,
alt, panic key); the coordinates of a pointer move are abstracted to the peer of
the crossed edge, which `EdgeGeometry` computes.

### EdgeGeometry and PointerRouter
`EdgeGeometry` follows `LogicalRect`, `crossed_edge`, `select_crossed_edge` and
`detect_edge_crossing`; the width of integers is a constant, and every sum
saturates where the code's does.  `PointerRouter` has the router's pointer and
layout (`CapturedInputRouter`) and, beside them, the desktop's own pointer, which
the operating system keeps on the screen.  Movements, recoveries and screen
changes come in any order.

### PeerLink
The sender has two dispatching threads (capture worker, IPC server), the
heartbeat thread, one stream behind a mutex and one sequence counter.  A dispatch
clones the active session, locks the stream, takes a number, writes; a Stop or an
error detaches the session, and the last clone to go stops and joins the heartbeat
thread and closes the stream.  The receiver reads the prelude
(Hello, AuthProof, SessionReady), then frames; it executes commands against the
platform, keeps `needs_release_on_close`, and releases on each way out.  The
connection may lose its tail, cut a frame, be reset, or stay silent until the
read timeout; the sending process may die; injection and release may fail, a
release part way.

### CaptureDaemon
The capture worker's loop with its program points, the state mutex, the IPC
requests that change state (`input.releaseAll`, `session.disconnect`,
`daemon.shutdown`, `permissions.probe` that found issues, `session.connect`) and
the dispatcher chain.  Captured input is applied under the mutex and dispatched
after it; a recovery holds the mutex while it dispatches.  A Boolean constant
says whether the local `release_all` may fail.  The peer session is seen from
the sender: a written command takes effect, a session that ends releases what it
pressed (what `PeerLink` shows).

The initial states include Remote: the daemon itself never confirms a remote
entry (finding 4), but its smoke commands and tests start the same worker in that
state, and all the recovery code exists for it.

### Handshake and SessionManager
`connect_authenticated` writes Hello, AuthProof and SessionReady in one go and
waits for no answer; a signature is the pair of a key and the transcript it
signs.  The listener computes the transcript over its own id, version and
capabilities, so it finds out by comparing what the sender assumed of it.
`SessionManager` has the check, the connection, the attachment and the reset of
the backoff as steps of the IPC thread, dispatch, write and detachment as steps
of both threads, and the listener of each peer, which takes the oldest connection,
whoever made it, and stays with it until it ends.  Other devices' connections to the same
listeners (`Visits`) say and stay what and as long as they like.  A thread detaches whatever is active; a session attached while
another thread is about to detach is lost that way, and its connection closes.
Peers may be trusted and forgotten on either side, move to other addresses and
run another build.  Only the IPC thread connects, so the refusal of
`attach_session` cannot happen in the daemon; the model keeps the test.

### IdentityDocument, IdentityStore, TrustStore and Pairing
A public key is the number its bytes spell, since the verification code puts the
smaller key first.  The code is six decimal digits of a hash; the hash (`Digest`) is a
constant that may map different pairs of devices to one number, so different peers
may have the same code.  `IdentityStore` has one process per user of the file and the
steps the code takes at the file system: open, create, fill, read, truncate,
write.  A writer that finds the file filled by another since it truncated may
leave the longer text's tail.  A write may fail or be cut short, a process may
die between any two steps.  `TrustStore` is the promise to the user, a list of
trusted peers that changes one record at a time; it holds until two updates
overlap, a write fails or a process dies in one (`overlapped`), which is exactly
what a missing lock costs.  `Pairing` adds the daemon's pending pairings and
lets the user confirm the code of any document, not only the last shown.  The
histories `shown` and `confirmed` hold the records shown and not rejected in this life of
the daemon, and those of them whose device and code a user confirmed.

### IpcEndpoint, DaemonProcess and Supervisor
A daemon binds the path anew for each request: prepare (remove whatever is
there), bind, accept, read, answer, remove, drop the listener.  Any error returns
from the loop.  Clients connect, write a line and wait without a timeout; they may
be gone at any time, and a path without a listener reads as "not running".
`DaemonProcess` is `run_daemon`: start-up, the peer listener and the capture
worker, tear-down in order, panics of each thread with the hook that writes the
marker.  `Supervisor` follows `daemon_start` and `daemon_stop` through their polls
and retries (whose number is left open), with an operating-system child or a
sidecar; the application runs one command at a time.

### StartOptions, CommandLine, Requests and Diagnostics
What one program writes and another reads: settings and the arguments the daemon
is spawned with, the command line `akrazctl daemon-args` prints (unquoted;
what a shell makes of a value is a constant, `ShellReads`, and so are the values that end
the command), parameters checked by the client and again by the daemon, requests
and answers with everything that may be wrong with a line, the support bundle
and the sections it lists.  A text is a body with or without blanks around it, and
some bodies hold a colon, an at sign or a blank.  Loops over lists (arguments, manual
addresses, log entries, samples) are recursive functions on positions.  `Lifecycle`
puts the statements beside the behaviours of `Supervisor`, for sets of inputs that are
its constants.

### Discovery
The library's events queue up until the worker polls; a poll takes one after the
other into the map and, once there is none, replaces the published list.  The library resolves services under
lower-case names and removes them under the announced one (an assumption about
the library that the code's double removal caters for).  Device ids are UUIDs, so the
checks of their characters are left out, as are those of the key and fingerprint entries.

### InjectedInput, CaptureChain, EnvironmentWatch
`InjectedInput`: the operating system takes an input first, the lock is taken and
the input recorded afterwards; a release holds the lock and lifts in reverse.
`CaptureChain`: a physical keyboard, the raw event under way to the capture
thread (one at a time), the bounded channel, the policy read by the hook at each
event, start, stop and join; the keyboard is whatever feeds raw events to the
capture, injected input included, which the code does not filter; on Windows raw input is delivered whether or not the
hook consumes the event, on X11 nothing is consumed.  `EnvironmentWatch`: ages
since the last poll, turn and event in place of clock readings; `owed` notes since
when a change that remote control should not outlive is outstanding.

### InputCodes, PeerFrames, InputProbes
Tables and decisions without state.  `InputCodes` follows a key from the scan code
or keycode it is captured as, over the name on the wire, to the key that answers
the code injected.  `PeerFrames` states what a listener should execute of any
sequence of frames without its automaton, and compares.  `InputProbes` takes a
machine to be what the operating system would answer, and compares what the probes
report with what a start of a capture or an injection does.

## 3. Runs

| Run | Properties | Instance and why it is enough |
|---|---|---|
| `core_and_router` | TypeOK, LeaseMatchesMode, NothingStuckAtPeer, ModifiersMirrorKeys, ReleaseBeforeStop, LeaseSpec; RouterTypeOK, NeverTurnsBack, CrossingIsExact | `ControlCore` and `PointerRouter`, each moving with the other at rest.  Control, alt and the panic key, one button, two peers, two sessions: every event in every mode, panic chords, a second session after a first.  Integers of a few units in width, two screens of different size and place, movements that reach the limits of the integers, ties of two edges: saturation, exclusive edges and layout changes all happen.  The theorems drop the bounds. |
| `pointer_drift` | CrossesAtTheEdge, violated | the router of `core_and_router`, one screen. |
| `peer_link` | TypeOK, SequencesAgree, EndedMeansReleased, HeldFollowsSent, EveryReleaseArrives, StopEndsTheSession | one key, sequence numbers 0..2 with exhaustion, room for the prelude's three frames on the wire: press, release, Stop and heartbeats interleave with every failure. |
| `capture_daemon` | TypeOK, NothingStuckAtThePeer, InputComesBack, PanicHotkeyWorks | a chord key and the panic key, two peers (a crossing to the peer that is not connected), one event queued and one drained per turn, one reconnect; any number of requests and recoveries. |
| `release_retry` | ReleasedMeansReleased, violated | the same, the local release may fail. |
| `stale_forward` | ForwardedOnlyWhileRemote, violated | the same, one reconnect. |
| `entry_pending` | EntryIsConfirmed, violated | the same, no reconnect, under fairness. |
| `pairing` | TypeOK, OneIdentity, TrustIsConfirmed, RefusedIsKept, TrustSpec | the daemon and one tool; a peer, the peer's id with another key, whose code is the peer's for one of the two identities this device may draw and another for the other, a peer only the tool trusts, this device's own document and one with a forged fingerprint; no file, a good one, or one of a newer version at the start.  Two processes suffice for every race on the file, as each step involves one of them and the file. |
| `lifecycle` | TypeOK, OneDaemon, NobodyWaitsInVain, UnderstoodAsMeant, CrashEvidenceKept, ShutdownEnds | two daemons one after or beside the other, the application and one other client, one mishap (a failure, a panic, a client that leaves, the application closed): what a second daemon does to the path, port and marker of the first.  UnderstoodAsMeant ranges over lists of up to three arguments, bindings and addresses, and over values a shell replaces or ends the command at. |
| `session_manager` | TypeOK, AdmittedAsMeant, RoutedSessionIsTakenUp | two peers: one as this device has noted it; one that runs the same build, an older minor version or the next major one, or is noted with older capabilities; one address, delays 1 and 2, two connections, one change of trust or address; one connection of another device, as long as nothing else has varied: both an earlier session of this device and the other device's may hold the listener. |
| `minor_versions` | CompatibleVersionsShareSessions, violated | the same, no other device. |
| `adapters` | TypeOK, NothingStaysDown, CommandsArrive, ProbesTruthful, DiscoveryPairs, WatchKeepsUp, CaptureEnds | parts that share no state, each moving while the others are at rest: two events in the discovery queue and four kinds of announcement; three inputs and one that cannot be injected; two keys and a channel of one or two events; poll gap 2, resume gap 4, idle timeout 3; every environment of a Linux session and some thousand machines; frame sequences of up to two frames, and up to three after a prelude. |

Deadlock is not checked: a session that ended, a stopped worker, a daemon that
exited, a used-up bound are legitimate ends.  Bounds: `MaxSeq` and `Capacity` (PeerLink; `u64::MAX` and
the socket buffer in the program), `QueueCapacity` and `DrainBatch` (real
parameters of the daemon), `MaxConnects`, `MaxSessions`, `MaxVisits`, `MaxChanges`, `MaxMishaps`,
`MaxEvents`, `MaxAge` (only bounds).  The safety part of
`peer_link` was also run with `MaxSeq = 3` and that of `capture_daemon` with a
queue and a batch of two, without a violation.  A statement about pure operators
has the form `Init => ...`, so that TLC evaluates it in the initial states only.

**What the properties say.**  *NothingStuckAtPeer* and
*NothingStuckAtThePeer*: what is down at the peer is known to the core as
pressed, and nothing is down once control is not remote; in `CaptureDaemon`, in
spite of forwards dispatched after a recovery on another thread.  *LeaseSpec*: the
core's actions form leases.  *CrossingIsExact*: a peer is asked for exactly when
the router's pointer goes from inside to outside through a bound edge, with the
offset on the screen.  *EndedMeansReleased*: when the session has ended at the
receiver, whatever ended it, nothing is down there that could be lifted.
*EveryReleaseArrives* and
*StopEndsTheSession*: a written release takes effect, a Stop ends the session
at both ends, whatever heartbeats do.  *InputComesBack*: the capture policy
follows the mode even when another thread changed it.

*AdmittedAsMeant*: a listener serves a connection exactly if it is the peer the
session is for, trusts this device at that moment and has the same major version (it is *meant* for
it), and if besides both run the same minor version and the peer's capabilities are those
noted at pairing (the two are *in step*).  The second half is the code's own and not what the
protocol crate says, see finding 5.  The sender learns nothing of a refusal:
`session.connect` has answered by then.  *RoutedSessionIsTakenUp*: the active session
does not wait for ever in a listener's backlog behind earlier sessions of this device.
Behind another device's it may: a listener stays with whoever sends heartbeats.  The
property therefore has the hypothesis `OthersLeave` (at every listener, again and again, no
other device's session is being served); without it the instance has a behaviour in which
the visitor stays and the session waits for ever.

*OneIdentity*: whoever asks for the identity gets the same one.
*TrustIsConfirmed*: a record in the file was given to a tool, or it is another device's,
had been shown by `pairing.start` with its code and not rejected since, and a user
confirmed that code for its id.  This does not say that the user looked at this very
record: a code has six digits, and of records shown under one id with one code, accept
saves the one shown last.  *RefusedIsKept*: a damaged file stays as it is, one of
another version too, unless `akrazctl identity forget`, which does not load the
identity first, rewrites it.  *TrustSpec*: the refinement of `TrustStore`.

*OneDaemon*: a daemon that was not asked to stop is the one the application
holds, unless an earlier run of the application left one.  *NobodyWaitsInVain*: a
waiting client is connected to a listener in service.  *CrashEvidenceKept*: no
daemon whose main, capture or listener thread panicked removes its own marker;
the panic of its discovery thread it does remove, and that of another daemon.
*ShutdownEnds*: a daemon that was asked to stop ends unless a peer keeps a session
open.  *UnderstoodAsMeant*: see StartOptions above; of a printed
command line it speaks only if the shell leaves the values alone (`LeftAlone`).  daemon-args
refuses empty values and whitespace only and prints the others unquoted: a value with a
quote, a backslash, `$`, `;`, `&` or `#` passes `normalize_shell_safe_arg` (akrazctl:1457), and
a shell gives the daemon another value or cuts the line.  The instance has such values, and
without the hypothesis the property fails.

*NothingStaysDown*: injected input that is down is recorded or about to be
lifted; a captured key is taken for pressed only while it is down, or its release
was dropped by a full channel; the local desktop keeps a key only if it was down
when the policy changed.  *CommandsArrive*: commands are read back as sent, in
order, after the whole prelude; keys are injected as themselves exactly in the
cases the module lists (an extended key of Windows other than a modifier arrives
as another key).  *ProbesTruthful*: a reported capability starts, save for
symbols and windows no probe asks for.  *DiscoveryPairs*: the list is what is on
the air, offers can be paired with and both users see the same code.
*WatchKeepsUp*: remote control ends by the first turn a poll gap after its
permissions went or the screen changed.  *CaptureEnds*: a stop ends the worker
and the capture thread.

**Fairness.**  `PeerLink` and `CaptureDaemon` assume weak fairness of steps a
thread takes alone (a running thread runs; a blocking read returns data, end of
stream or the timeout; a join returns once the thread ended), and strong
fairness of the steps that need a mutex or a queue others also use: the
standard library's mutex parks waiters and wakes them, and no holder keeps it for ever.  Failures, user
input, requests, recoveries and heartbeats are never assumed.  A write to the
peer is assumed to finish or fail: the code sets no write timeout, so a peer that
stops reading is outside these liveness results (listed as a hazard).
`SessionManager` assumes that threads finish the dispatch or connection they
began, that listeners accept what is queued and that a closed connection is read
to its end; `Supervisor` that the main and listener threads of a living daemon
run, and nothing of clients, peers or users; `CaptureChain` that the two threads
run, strongly for the message that ends the capture thread, which the system's
queue delivers behind a finite number of others.

## 4. Findings

1. **The router's pointer drifts** (`pointer_drift`, daemon:3607).  The router
   stores the unclamped point; after a crossing that was recovered from, it is off
   the screen while the desktop's pointer is on it.  The next crossing then fires
   away from any edge, or not at the edge.
2. **A failed local release hides the remote one** (`release_retry`, daemon:253).
   The recovery's batch is ReleaseLocalInputs, ReleaseAllInputs,
   StopRemoteSession.  If the first fails the others are dropped, but the core is already
   Local; the repeated `input.releaseAll` finds nothing remote to release and
   answers `released: true`, with a key down at the peer and the session open.
3. **A stale forward reaches a new session** (`stale_forward`, daemon:3118).  The worker
   computed a forward, an IPC thread recovers and then connects, the worker dispatches:
   the key goes down in the new session while the mode is Local.
4. **Nothing confirms a remote entry** (`entry_pending`, daemon:3609).  Outside tests and smoke
   commands no code applies `RemoteEntryConfirmed` or `TransportLost`: a
   crossing leaves the mode at EnteringRemote until somebody recovers.
5. **Minor versions do not mix** (`minor_versions`, daemon:126).  The protocol crate says that
   versions of one major version can share a session (protocol:46, its tests at 513 and 525).
   The daemon checks the major version of a hello, but each side signs and verifies a
   transcript with its own `ProtocolVersion::CURRENT`: a peer of another minor version
   refuses the proof, and `negotiate` is never called.

## 5. Proofs

A run shows a property on one instance; a theorem shows it for every value of the
constants that the module's ASSUMEs allow.  A theorem names the same definition
the run checks.  TLC evaluates each ASSUME on the runs of its module.

| Module | Theorems | Of the run |
|---|---|---|
| `ControlCoreProofs` | TypeCorrect, ModeAgreesWithLease, NothingStuck, ModifiersMirror, StopsAreOrdered, ImplementsLease | `core_and_router`, the core's |
| `PointerRouterProofs` | LeavingHasAnEdge, CrossingIsSound (geometry); RouterTypes, PointerNeverTurnsBack, CrossingsAreExact | `core_and_router`, the router's |
| `PeerLinkProofs` | SessionTypes, SequencesKept, SessionReleases, SessionOrder | `peer_link`, all safety |
| `CaptureDaemonProofs` | DaemonTypes, NothingStuck | `capture_daemon`, all safety |
| `SessionManagerProofs` | ManagerTypes, AdmittedExactly | `session_manager`, all safety |
| `PairingProofs` | PairingTypesHold, IdentityIsOne, PeersAreConfirmed, RefusedFilesAreKept, FileImplementsTrustStore | `pairing`, all |
| `SupervisorProofs` | LifecycleTypes, DaemonIsOne, WaitersAreServed, EvidenceKept | `lifecycle`, all safety: the behaviours |
| | OptionsReadBack, SettingsAreStarted, PrintedLineReadBack, RequestsAreAnswered, DiagnosticsAreTold, WrittenIsUnderstood | `lifecycle`, all safety: UnderstoodAsMeant |
| `AdaptersProofs` | PartsTyped, InputIsAccountedFor, CommandsDoArrive, DiscoveryIsTrue, ProbesTellTheTruth, WatchersKeepUp | `adapters`, all safety |

Each module states its invariant first (`IInv`, or its parts), then lemmas on the
operators, then one lemma or step per action, and the theorems last.

**ControlCoreProofs.**  For every set of keys, buttons, peers, sessions and pointer
positions.  The inductive invariant is the conjunction of the run's four: types
alone are not kept without the relation of modes and peers (a confirmed entry takes
the pending peer, which must not be NONE); nothing-stuck needs that every path out
of Remote goes through an action list that releases, which the core decides from
the peer fields, so it needs LeaseMatchesMode; the recorded keys are what is
forwarded only because recording precedes forwarding.  One lemma per transition
function gives its outcome; steps of `Next` and of the refinement are cases of them.

**PointerRouterProofs.**  For every width of integers, screens and movements.  From
inside to outside some edge is crossed, `crossed_edge` finds one, and the offset is
on the screen, so that `i32::clamp` has a range.  With these lemmas the type
invariant suffices: NeverTurnsBack is saturating addition being monotone, and
CrossingIsExact compares the saturated computation with exact arithmetic, which is
where the screens' validity is used.

**PeerLinkProofs.**  For every set of keys, largest sequence number and capacity.
`IInv` adds to the run's invariants: *ThreadsReady* (a waiting thread has a command,
the number taken is one below the counter while the lock is held), *GuardCoversHeld*
(what is down keeps the release guard up; without it a session could end and not
release), *WireInOrder* (each numbered frame on the wire has the number after the
one before it, the first the one expected, the last the one before the counter) and
*WireCarriesSent* (the commands on the wire are those sent and not executed, which
makes HeldFollowsSent follow the execution of the first of them).

**CaptureDaemonProofs.**  For every capacity of the event queue, size of a drained
batch, set of peers and number of reconnects.  `IInv` says who holds
the mutex at which program point, that a turn of the worker starts with nothing left
to dispatch, that a request never forwards input, and then follows what will be down:
while control is remote, a key down once the worker's batch is carried out is one the
core records (*RemoteFollowed*), and when it is not, nothing is down or under way, or
a Stop is still to be carried out in one of the two batches (*ReleasePending*).
**NothingStuck** has the hypothesis `~PlatformMayFail`: a local release that fails
drops the rest of the batch with the Stop in it, which is finding 2, shown by
`release_retry` with that constant TRUE; DaemonTypes has no such hypothesis.
NothingStuck is, as the property is, about the session the daemon began with;
`stale_forward` shows why (finding 3).

**SessionManagerProofs.**  For every set of peers, addresses, builds, trust and delays.
`IInv` says that every prelude of this device in a backlog is one connect writes, to a peer
and with capabilities its record had when the attempt began; other devices' connections
are any.  *AdmitsIsMeant* then compares the
transcript signed with the one the listener computes, field by field: they agree
exactly if the session is meant for the listener and in step with it.  That the listener's step is the only one to
settle a connection comes with the invariant's step cases.  The model carries the
delay of the backoff, where the code computes it from the count of failures: the next
delay is the last one doubled, and no power of two is left to reason about.

**PairingProofs.**  For every number of tools, set of documents, keys and contents of
the file at the start.  `IInv` follows copies: the file, every text a process read
and every identity given out are one (*OneOrigin*); nothing is copied before the file
exists, and its creator is alone with it until it has filled it (*CreatedOnce*);
whoever loaded the identity was given one (*LoadedFirst*); every record that is in
the file, in a buffer or about to be written was confirmed or given to a tool
(*OnlyConfirmed*, which needs all three places, as a write carries the whole file); what is
pending was shown with its code (*Pending*), so an accept that finds its code pending saves
a record the confirmation stands for, for every `Digest`, injective or not;
and until an update is disturbed one process updates at a time, with a copy that is
the file and its own change (*Undisturbed*).  The last is what
**FileImplementsTrustStore** needs: a completed write maps to one change of
`TrustStore`, a truncation, a read and everything else to a stutter.

**SupervisorProofs.**  For every number of daemons, callers and mishaps.  `IInv` has
three parts.  The endpoint: a connection leads to a daemon and is answered by the
daemon that talks to it; only the application asks for a shutdown, and a daemon past
its answer to one is one that was asked.  The process: which threads run at each
stage of main, and that a panic leaves a failed result for the join that looks at it
(*PanicsShow*; from it EvidenceKept).  The application: its handle is the child that
has not been replaced or is about to be stored, and once a shutdown was answered the
child was asked (*Stopping*; without it the handle could be dropped with its daemon
alive, and OneDaemon would not be kept).

**WrittenIsUnderstood** needs no invariant but holds for inputs of every length, so it
is about loops.  A theorem by induction over data is out of the prover's reach as a
scheme; for a loop written as a recursive function on positions the argument is made in
each instance: a function that takes the loop's steps exists (*Computed*) and is the one the
definition chooses (*ParseIs*, *RecordedIs*, *SortedIs*), and a claim holds at every
position because the set of those where it fails has no least member (*CountingUp*,
*LeastNatural*, from the library's well-foundedness of the numbers).

* *Start options*: reading two lists one after the other is reading the joined list
  (*ParseJoin*), so the arguments are read group by group (*SpawnedParse*); each group
  changes one field, and the two refusals (an option given twice, a listen address
  without a store) do not apply.
* *Settings*: after each entry the list of manual addresses is clean, that is trimmed,
  accepted, one for each peer (*ManualAfter*), and a clean list is its own normal form.
* *Command lines*: the options of one flag, picked by rank, are all of them and no other
  (*Positioned*, *GivenInOrder*); what was accepted holds no blank, so a shell
  that leaves the values alone keeps every word (*LeftAsItIs*, *WordsKept*).
* *Requests*: a method and a call are found by their name (*MethodsNamed*,
  *CallsNamed*); the rest is cases.
* *Diagnostics*: the log is its newest entries after each record (*NewestRecorded*).
  Insertion keeps a list ascending and as many samples within every bound (*InsertedSorts*,
  *SortedIs*), so the sample at a rank has that many within it (*RankedCount*); the
  rounded average lies between the least and the greatest sample.

**AdaptersProofs.**  The parts share no state, so the invariant is one invariant for each
(*PartsInv*), kept by the part's steps and left alone by the others'.

* *Injected input*, for every set of inputs: the list of pressed inputs holds each input
  once, what a release has yet to lift is among them, and a release of the listener that is
  sent and not recorded has lifted its input.  Removing, appending, reversing and taking the tail of such a list are lemmas.
* *Capture*, for every set of keys, channel capacity and system: the raw event under way
  says what its key is now, and what the daemon will take for pressed, once it has received
  what is under way, is down or was missed (a drop adds to the missed keys).
* *Frames and codes*, for every keyboard, command and sequence of frames.  A key is followed
  from its code over its name to the key that answers.  The listener is a function of the
  frames it has read; induction along the longest good run gives its state after each frame
  (*ReadsRun*), which ends in the commands counted by position (*ReadsAuthentic*) or, without
  a whole prelude, in nothing (*ReadsOther*).
* *Discovery*, for every set of names and announcements: what is on the air under a name is
  what the last event under way about it says, or else what the map holds (*AirFollows*;
  drained means that no event is under way).  Offers and codes are lemmas on the record: its
  seven entries are found under seven keys, and what is read back is what was written.
* *Probes*, for every answer of the operating system and every set of monitors: the verdict
  of a series of checks names the first that fails, checks of the probe are checks of the
  start, and the union of rectangles covers each, saturated or not.
* *Watchdogs*, for every choice of gaps and timeout: a change that is owed a recovery is one
  the next inspection would see and no older than the last one; turns are no older than
  progress.

**What the assumptions are.**  Sets are kept apart and bounds are numbers: NONE is no
thread, peer, record or binding, "stale" names no daemon, modifiers are keys and the
panic key is none of them, the recoveries have names of their own.
`IntAssumption`: the integers have both signs.  `RouterAssumption`: screens are valid
rectangles whose far edges are representable (the probes refuse empty ones,
`union_logical_rects` takes far edges that are saturated already, and the metrics of
Windows are those of a screen), and movements are 32-bit.  `StoreAssumption`: the file at
the start is missing, not JSON, or a document of some version with one record for
each peer, and one that loads has an identity the generator could have made;
`EarlierPeersAssumption`: its peers were given to a tool earlier;
`PairingAssumption`: a document that passes its checks gives a record.
`WatchAssumption`: gaps and timeout are positive and below the largest age told apart.
`KeyboardAssumption`: codes are in the ranges of scan and evdev codes, no two keys share
one, the modifiers and Backspace have the codes the tables of the code name, and a key
with an E0 prefix has an evdev code other than its scan code.  `FrameAssumption`: Err is no
name and no key.  `AdaptersAssumption`: the commands, frames, devices and machines the
statements range over are values of the types the code gives them (IsCommand, IsFrame:
a frame of the prelude carries its verdict; IsDevice: the fingerprint is that of the key,
the id is one `normalize_device_id` lets through; IsMachine: an answer is of its type).
`OptionsAssumption`: the empty text and the three values the application passes to its
daemon are texts, the empty one is no address, and REFUSED is no settings, arguments or
options.  `ShellAssumption`: a shell makes
one text of a text.  `DiagnosticsAssumption`: capacity and largest figure are numbers.
`LifecycleAssumption`: the inputs the statements range over are settings, options,
argument lists and texts of the types the code gives them, and lists of samples that are
not empty (the code gives no histogram of an empty one).

**Only model-checked.**

* Liveness under fairness, outside TLAPS's reach with ENABLED: EveryReleaseArrives,
  StopEndsTheSession, InputComesBack, PanicHotkeyWorks, RoutedSessionIsTakenUp,
  ShutdownEnds, CaptureEnds.
* The violations of section 4, which are counterexamples.

## 6. Abstractions, and what is not modelled

* Cryptography is symbolic: a signature verifies for exactly its key and
  transcript, and a fingerprint (160 bits of a hash) is that of one key; the verification
  code keeps six digits and is not taken for injective.  In `PeerLink` authentication is a choice of the receiver.
* Byte formats: the JSON of frames, requests, files and reports is what its
  parser makes of it; the frame codec and feature negotiation of the protocol
  crate, which the daemon does not call, are left out.
* Logging, status requests and formatting of answers change no state modelled.
  The idle watchdog's action is dropped by the transport dispatcher;
  `EnvironmentWatch` has only that it is reported.
* Keys outside the chord and the panic key behave as the chord key does; a
  chord of control and alt is one key in `CaptureDaemon`.
* `release_all` at the receiver is atomic or fails part way in `PeerLink`;
  `InjectedInput` has its steps.
* Time appears as nondeterminism or as ages: a timeout may fire whenever the stream has
  nothing to read; a long poll gap may be noticed at any turn of the worker.
* `CaptureChain` holds one raw event under way to the capture thread; a longer
  queue of the operating system delays events and loses none.
* `EnvironmentWatch` starts from permissions granted and a layout that matches, and
  counts a change as owed only if it comes during remote control and the worker had
  seen the permissions granted.
* The Windows variant of the IPC endpoint (a named pipe), the resolution of the
  endpoint's name, permissions of files and directories.
* The application's settings and layout files: commands of one window come one
  after the other, so their reads and writes do not interleave.
* `store_managed_child` kills the new child if one is running already; as commands
  come one after the other this cannot happen and is left out.
* A capture worker that ended by an error leaves the daemon serving: modelled, and
  no property says what should happen instead.
* The operating systems themselves, the mDNS library, the shell and the network
  are environments, marked external in the map.  Tests, smoke commands, the web
  UI, build and QA scripts are not modelled.

## 7. Plan

Done: the core, the router, one peer session, the capture daemon, the session
manager with its handshake, pairing and the identity store, the IPC endpoint with
the daemon's life and its supervisor, the adapters, discovery, and what programs
write for each other.

Proved: every safety property of the core, the router, the peer session, the capture
daemon, the session manager, pairing and the identity file, the daemon's life and the
adapters, and the two refinements.

To prove next: that a session's sender and receiver implement a channel of
commands (SessionOrder is its main step); an invariant of `CaptureDaemon` for
reconnected sessions under the condition that no forward is under way.
To model, if the code comes to use them: the protocol crate's frame codec and
negotiation, a write timeout of the peer session.

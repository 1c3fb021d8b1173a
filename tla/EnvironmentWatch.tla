--------------------------- MODULE EnvironmentWatch ---------------------------
(***************************************************************************)
(* The watchdogs of the capture worker: the environment is inspected at    *)
(* most once in a poll gap, a turn that comes late is taken for a resume   *)
(* of the system, and a capture that is silent for long is reported.  Each *)
(* keeps the time of its last poll; here time is what has gone by since.   *)
(* What a recovery does is CaptureDaemon's matter: it ends remote control. *)
(***************************************************************************)
EXTENDS Integers, FiniteSets

CONSTANTS
    PollGap,      \* DEFAULT_RUNTIME_ENVIRONMENT_POLL_GAP
    ResumeGap,    \* DEFAULT_POWER_RESUME_POLL_GAP
    IdleTimeout,  \* bounded_idle_watchdog_timeout
    MaxAge,       \* bound on the time that is told apart
    Bounds,       \* virtual screen bounds
    Unread        \* the geometry cannot be read

ASSUME WatchAssumption ==
    /\ MaxAge \in Nat /\ {PollGap, ResumeGap, IdleTimeout} \subseteq 1..(MaxAge - 1)
    /\ Bounds # {} /\ Unread \notin Bounds

VARIABLES
    able,        \* required_input_capabilities_available
    screen,      \* the bounds of the screen, or Unread
    remote,      \* the core is under remote control
    watching,    \* the worker has made its first inspection
    known,       \* RuntimeEnvironmentWatchdog.permissions_available
    layout,      \* the router's local bounds
    envAge,      \* since RuntimeEnvironmentWatchdog.last_poll_at
    turnAge,     \* since PowerResumeWatchdog.last_poll_at: every turn sets it
    idleAge,     \* since InputCaptureIdleWatchdog.last_progress_at
    idleReported,
    owed         \* since a change that remote control has not been ended for

watchVars == <<able, screen, remote, watching, known, layout,
               envAge, turnAge, idleAge, idleReported, owed>>

Changes == {"permission", "layout"}
Never == -1
Older(age) == IF age < MaxAge THEN age + 1 ELSE MaxAge
NothingOwed == [c \in Changes |-> Never]

WatchInit ==
    /\ able = TRUE /\ screen = (CHOOSE b \in Bounds : TRUE) /\ layout = screen
    /\ remote = FALSE /\ watching = FALSE /\ known = TRUE
    /\ envAge = PollGap /\ turnAge = 0 /\ idleAge = 0 /\ idleReported = FALSE
    /\ owed = NothingOwed

----
(* The surroundings.  A change that comes while remote control is on, and
   differs from what the worker last saw, is owed a recovery. *)
Owing(c, different) ==
    IF ~different THEN Never ELSE IF owed[c] = Never /\ remote THEN 0 ELSE owed[c]

PermissionChanges ==
    /\ able' = ~able
    /\ owed' = [owed EXCEPT !["permission"] = Owing("permission", known /\ ~able')]
    /\ UNCHANGED <<screen, remote, watching, known, layout, envAge, turnAge, idleAge, idleReported>>

ScreenChanges ==
    /\ screen' \in (Bounds \cup {Unread}) \ {screen}
    /\ owed' = [owed EXCEPT !["layout"] = Owing("layout", screen' \notin {layout, Unread})]
    /\ UNCHANGED <<able, remote, watching, known, layout, envAge, turnAge, idleAge, idleReported>>

TimePasses ==
    /\ envAge' = Older(envAge) /\ turnAge' = Older(turnAge) /\ idleAge' = Older(idleAge)
    /\ owed' = [c \in Changes |-> IF owed[c] = Never THEN Never ELSE Older(owed[c])]
    /\ UNCHANGED <<able, screen, remote, watching, known, layout, idleReported>>

(* Captured input and requests enter and leave remote control. *)
ModeChanges ==
    /\ watching
    /\ remote' = ~remote
    /\ owed' = NothingOwed
    /\ UNCHANGED <<able, screen, watching, known, layout, envAge, turnAge, idleAge, idleReported>>

----
(* RuntimeEnvironmentWatchdog.record_poll.  Mutant: the time of a poll that is
   not due is kept too. *)
EveryPollKept(due) == 0
PollKept(due) == IF due THEN 0 ELSE envAge

Recover(when) ==
    /\ remote' = (remote /\ ~when)
    /\ owed' = IF when THEN NothingOwed ELSE owed

(* inspect_runtime_environment_and_recover; resumed is a recovery before it. *)
Inspect(resumed) ==
    LET due     == envAge >= PollGap
        moved   == due /\ screen \notin {layout, Unread}
        lost    == due /\ known /\ ~able
    IN /\ envAge' = PollKept(due)
       /\ layout' = IF moved THEN screen ELSE layout
       /\ known' = IF due THEN able ELSE known
       /\ Recover(resumed \/ moved \/ lost)

BeginWatching ==
    /\ ~watching
    /\ watching' = TRUE
    /\ Inspect(FALSE)
    /\ UNCHANGED <<able, screen, turnAge, idleAge, idleReported>>

Resumed == turnAge >= ResumeGap

(* A turn with an event: the environment, then the event. *)
EventTurn ==
    /\ watching
    /\ Inspect(Resumed)
    /\ turnAge' = 0 /\ idleAge' = 0 /\ idleReported' = FALSE
    /\ UNCHANGED <<able, screen, watching>>

(* A turn without one.  After a resume it goes on to the next at once. *)
ResumedTurn ==
    /\ watching /\ Resumed
    /\ Recover(TRUE)
    /\ turnAge' = 0 /\ idleAge' = 0 /\ idleReported' = FALSE
    /\ UNCHANGED <<able, screen, watching, known, layout, envAge>>

IdleTurn ==
    /\ watching /\ ~Resumed
    /\ Inspect(FALSE)
    /\ turnAge' = 0
    /\ idleReported' = (idleReported \/ idleAge >= IdleTimeout)
    /\ UNCHANGED <<able, screen, watching, idleAge>>

WatchStep ==
    \/ PermissionChanges \/ ScreenChanges \/ TimePasses \/ ModeChanges
    \/ BeginWatching \/ EventTurn \/ ResumedTurn \/ IdleTurn

----
WatchTypeOK ==
    /\ {able, remote, watching, known, idleReported} \subseteq BOOLEAN
    /\ screen \in Bounds \cup {Unread} /\ layout \in Bounds
    /\ {envAge, turnAge, idleAge} \subseteq 0..MaxAge
    /\ owed \in [Changes -> Never..MaxAge]

(* Remote control does not outlive what it stands on: when permissions the
   worker has seen are lost, or the screen becomes another one, it has ended
   by the first turn that comes a poll gap or more after the change, however
   the turns fall and however long the system slept.  And by the turn that
   comes an idle timeout after the last event, the silence is reported. *)
WatchKeepsUp ==
    /\ \A c \in Changes : owed[c] # Never => owed[c] - turnAge < PollGap
    /\ watching /\ idleAge - turnAge >= IdleTimeout => idleReported
=============================================================================

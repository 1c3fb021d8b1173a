----------------------------- MODULE CaptureChain -----------------------------
(***************************************************************************)
(* A capture session of the platform and its owner: the thread that sees   *)
(* the keyboard and hands its events to a bounded channel, the shared      *)
(* policy that says whether the local desktop sees them too, and the       *)
(* daemon's worker, which starts the session, receives from the channel    *)
(* and stops it.  What the worker makes of an event is CaptureDaemon's     *)
(* matter; here the key is put among the pressed ones, or taken out.       *)
(*                                                                         *)
(* On Windows the thread sees raw input, and its hooks decide about the    *)
(* desktop; on X11 raw events are seen and nothing is kept from anybody.   *)
(***************************************************************************)
EXTENDS Sequences, SequencesExt, Naturals

CONSTANTS
    Switches,    \* keys of the local keyboard
    Capacities,  \* event_buffer_capacity, 0 included
    Systems,     \* of {"Windows", "X11"}
    NoEvent

ASSUME CaptureAssumption ==
    /\ Capacities \subseteq Nat /\ Systems \subseteq {"Windows", "X11"}
    /\ NoEvent \notin [key : Switches, isDown : BOOLEAN]

VARIABLES
    system, capacity,
    down,         \* keys down on the keyboard
    desktop,      \* keys the local desktop takes for pressed
    raw,          \* the event the capture thread is called with
    channel,      \* captured events nobody has received
    pressed,      \* RuntimeInputState.pressed_keys
    missed,       \* keys whose last event did not get into the channel
    capturePolicy,
    turned,       \* keys that were down when the policy changed
    hook,         \* the capture thread
    ready,        \* what it reported about its start
    quit,         \* WM_QUIT is posted, or should_stop is set
    running,      \* the worker is not asked to stop
    owner,        \* the daemon, then its worker, as the session's owner
    unposted      \* WM_QUIT could not be posted to a thread that was alive

setup   == <<system, capacity>>
keyVars == <<down, desktop, raw, missed>>
policyVars == <<capturePolicy, turned>>
threads == <<hook, ready, quit, owner, unposted>>
captureVars == <<setup, keyVars, channel, pressed, policyVars, threads, running>>


Stroke(k, isDown) == [key |-> k, isDown |-> isDown]
Tracked(keys, e) == IF e.isDown THEN keys \cup {e.key} ELSE keys \ {e.key}
KeysOf(events) == {events[i].key : i \in DOMAIN events}

bounded_capacity == IF capacity = 0 THEN 1 ELSE capacity

CaptureInit ==
    /\ system \in Systems /\ capacity \in Capacities
    /\ down = {} /\ desktop = {} /\ raw = NoEvent /\ missed = {}
    /\ channel = << >> /\ pressed = {}
    /\ capturePolicy = "PassThrough" /\ turned = {}
    /\ hook = "absent" /\ ready = "nothing" /\ quit = FALSE
    /\ running = TRUE /\ owner = "starting" /\ unposted = FALSE

----
(* The keyboard.  While the thread loops it is called with every event, and
   on Windows the hook procedure returns 1 for those to be consumed. *)
Consumed ==
    system = "Windows" /\ hook = "looping" /\ capturePolicy = "ConsumeCapturedInput"

KeyMoves(k) ==
    LET e == Stroke(k, k \notin down)
    IN /\ raw = NoEvent
       /\ down' = Tracked(down, e)
       /\ desktop' = IF Consumed THEN desktop ELSE Tracked(desktop, e)
       /\ raw' = IF hook = "looping" THEN e ELSE NoEvent
       /\ missed' = IF hook = "looping" THEN missed ELSE missed \cup {k}
       /\ UNCHANGED <<setup, channel, pressed, policyVars, threads, running>>

----
(* The capture thread.  The desktop, the window, raw input and the hooks, or
   the display and its raw events: the first that cannot be had is reported,
   and what was had before it is given back. *)
HookInstalled ==
    /\ hook = "spawned"
    /\ hook' = "looping" /\ ready' = "ok"
    /\ UNCHANGED <<setup, keyVars, channel, pressed, policyVars, quit, owner, unposted, running>>

HookRefused ==
    /\ hook = "spawned"
    /\ hook' = "over" /\ ready' = "error"
    /\ UNCHANGED <<setup, keyVars, channel, pressed, policyVars, quit, owner, unposted, running>>

(* Mutants: a full channel forgets its oldest event; or it keeps the thread
   waiting. *)
SendMakingRoom(e) ==
    /\ channel' = Append(IF Len(channel) < bounded_capacity THEN channel ELSE Tail(channel), e)
    /\ missed' = missed \ {e.key}

SendWaiting(e) ==
    /\ Len(channel) < bounded_capacity
    /\ channel' = Append(channel, e)
    /\ missed' = missed \ {e.key}

(* A full channel, and one nobody receives from any more, drop the event. *)
try_send_captured_input_event(e) ==
    IF Len(channel) < bounded_capacity /\ owner # "over"
    THEN channel' = Append(channel, e) /\ missed' = missed \ {e.key}
    ELSE missed' = missed \cup {e.key} /\ UNCHANGED channel

HookForwards ==
    /\ hook = "looping" /\ raw # NoEvent
    /\ try_send_captured_input_event(raw)
    /\ raw' = NoEvent
    /\ UNCHANGED <<setup, down, desktop, pressed, policyVars, threads, running>>

(* The loop ends when asked to, and on Windows when GetMessageW fails.  The
   sender goes with the thread. *)
HookEnds ==
    /\ hook = "looping" /\ raw = NoEvent
    /\ quit
    /\ hook' = "over"
    /\ UNCHANGED <<setup, keyVars, channel, pressed, policyVars, ready, quit, owner, unposted, running>>

HookFails ==
    /\ hook = "looping" /\ raw = NoEvent
    /\ system = "Windows"
    /\ hook' = "over"
    /\ UNCHANGED <<setup, keyVars, channel, pressed, policyVars, ready, quit, owner, unposted, running>>

----
(* The owner: start_input_capture waits for the thread's report; the daemon
   spawns its worker; the worker takes turns until it is asked to stop or the
   sender is gone. *)
Moves(from, to) == owner = from /\ owner' = to

StartCapture ==
    /\ Moves("starting", "waiting")
    /\ hook' = "spawned"
    /\ UNCHANGED <<setup, keyVars, channel, pressed, policyVars, ready, quit, unposted, running>>

StartReported ==
    /\ ready # "nothing"
    /\ Moves("waiting", IF ready = "ok" THEN "started" ELSE "over")
    /\ UNCHANGED <<setup, keyVars, channel, pressed, policyVars, hook, ready, quit, unposted, running>>

WorkerSpawned ==
    /\ Moves("started", "top") \/ Moves("started", "stopping")
    /\ UNCHANGED <<setup, keyVars, channel, pressed, policyVars, hook, ready, quit, unposted, running>>

(* The policy follows the core's mode, which may have any value. *)
TurnBegins ==
    /\ IF running
       THEN /\ Moves("top", "receiving")
            /\ capturePolicy' \in {"PassThrough", "ConsumeCapturedInput"}
            /\ turned' = IF capturePolicy' = capturePolicy THEN turned ELSE turned \cup down
       ELSE Moves("top", "stopping") /\ UNCHANGED policyVars
    /\ UNCHANGED <<setup, keyVars, channel, pressed, hook, ready, quit, unposted, running>>

Receives ==
    /\ channel # << >>
    /\ Moves("receiving", "top")
    /\ pressed' = Tracked(pressed, Head(channel))
    /\ channel' = Tail(channel)
    /\ UNCHANGED <<setup, keyVars, policyVars, hook, ready, quit, unposted, running>>

TimesOut ==
    /\ channel = << >>
    /\ Moves("receiving", IF hook = "over" THEN "stopping" ELSE "top")
    /\ UNCHANGED <<setup, keyVars, channel, pressed, policyVars, hook, ready, quit, unposted, running>>

(* InputCaptureSession::stop and drop: the thread is asked, and joined.  On
   Windows one that cannot be asked is left alone. *)
CannotPost == system = "Windows"

StopAsks ==
    /\ owner = "stopping"
    /\ \/ Moves("stopping", "joining") /\ quit' = TRUE /\ UNCHANGED <<unposted, missed, channel>>
       \/ /\ CannotPost
          /\ Moves("stopping", "over")
          /\ unposted' = (hook # "over")
          /\ missed' = missed \cup KeysOf(channel)
          /\ channel' = << >>
          /\ UNCHANGED quit
    /\ UNCHANGED <<setup, down, desktop, raw, pressed, policyVars, hook, ready, running>>

StopJoins ==
    /\ hook = "over"
    /\ Moves("joining", "over")
    /\ missed' = missed \cup KeysOf(channel)
    /\ channel' = << >>
    /\ UNCHANGED <<setup, down, desktop, raw, pressed, policyVars, hook, ready, quit, unposted, running>>

(* From outside: the daemon stops the worker; a recovery clears the keys. *)
AsksToStop ==
    /\ running /\ owner \notin {"starting", "waiting", "started"}
    /\ running' = FALSE
    /\ UNCHANGED <<setup, keyVars, channel, pressed, policyVars, threads>>

Recovers ==
    /\ pressed' = {}
    /\ UNCHANGED <<setup, keyVars, channel, policyVars, threads, running>>

HookStep  == HookInstalled \/ HookRefused \/ HookForwards \/ HookEnds \/ HookFails
OwnerStep ==
    \/ StartCapture \/ StartReported \/ WorkerSpawned \/ TurnBegins
    \/ Receives \/ TimesOut \/ StopAsks \/ StopJoins
CaptureStep ==
    \/ \E k \in Switches : KeyMoves(k)
    \/ HookStep \/ OwnerStep \/ AsksToStop \/ Recovers

(* Both threads run; the request to quit is a message behind others, or a flag
   looked at after each batch of events, so keys cannot put it off for ever. *)
CaptureFairness ==
    /\ WF_captureVars(HookInstalled \/ HookRefused)
    /\ WF_captureVars(HookForwards)
    /\ SF_captureVars(HookEnds)
    /\ WF_captureVars(OwnerStep)

----
CaptureTypeOK ==
    /\ system \in Systems /\ capacity \in Capacities
    /\ down \subseteq Switches /\ desktop \subseteq Switches
    /\ turned \subseteq Switches
    /\ pressed \subseteq Switches /\ missed \subseteq Switches
    /\ raw = NoEvent \/ raw.key \in Switches
    /\ Len(channel) <= bounded_capacity
    /\ capturePolicy \in {"PassThrough", "ConsumeCapturedInput"}
    /\ hook \in {"absent", "spawned", "looping", "over"} /\ ready \in {"nothing", "ok", "error"}
    /\ owner \in {"starting", "waiting", "started", "top", "receiving", "stopping", "joining", "over"}
    /\ {quit, running, unposted} \subseteq BOOLEAN

(* A key the daemon takes for pressed, once it has received what is under way
   to it, is down on the keyboard, or its release was dropped and nothing has
   been heard of the key since: a full channel leaves a key stuck at the peer
   until the user presses it again, and no longer.  And a key stays pressed
   on the local desktop only if it was down when the policy changed. *)
underWay == IF raw = NoEvent THEN channel ELSE Append(channel, raw)

TakenForPressed ==
    {k \in Switches :
        \/ k \in pressed \ KeysOf(underWay)
        \/ \E i \in DOMAIN underWay :
              /\ underWay[i] = Stroke(k, TRUE)
              /\ \A j \in DOMAIN underWay : j > i => underWay[j].key # k}

KeysAccounted == TakenForPressed \subseteq down \cup missed /\ desktop \subseteq down \cup turned

(* A worker that is asked to stop ends, and takes the capture thread with it,
   whatever the user types and however full the channel is; but on Windows a
   thread that could not be asked goes on without an owner. *)
CaptureEnds == ~running ~> (owner = "over" /\ (hook = "over" \/ unposted))
=============================================================================

---------------------------- MODULE InjectedInput ----------------------------
(***************************************************************************)
(* The input a platform adapter holds down on the local desktop            *)
(* (WindowsInjectedInputState, LinuxX11InjectedInputState).  Two threads   *)
(* share it: the peer listener, which injects what the peer sends and      *)
(* releases everything at the end of a session, and a thread of a local    *)
(* recovery, which releases everything.  An input is sent to the operating *)
(* system first and recorded afterwards, under a lock; a release holds the *)
(* lock from its first to its last step.                                   *)
(***************************************************************************)
EXTENDS Sequences, SequencesExt

CONSTANTS
    Inputs,        \* keys and buttons
    Unsupported,   \* the buttons that cannot be injected
    Nothing

Releasers == {"listener", "recovery"}

ASSUME InputAssumption ==
    /\ Unsupported \subseteq Inputs
    /\ Nothing \notin Releasers \cup [input : Inputs, pressed : BOOLEAN]

VARIABLES
    osDown,      \* inputs that are down in the operating system, by injection
    press_order, \* inputs recorded as pressed, in the order of their presses
    lock,        \* the thread that holds the state mutex
    sending,     \* the listener's input that is sent and not recorded
    left         \* what the lock holder has yet to release

injectedVars == <<osDown, press_order, lock, sending, left>>

Press(x)   == [input |-> x, pressed |-> TRUE]
Release(x) == [input |-> x, pressed |-> FALSE]

InjectedInit ==
    /\ osDown = {}
    /\ press_order = << >>
    /\ lock = Nothing
    /\ sending = Nothing
    /\ left = << >>

----
(* What the operating system makes of an accepted input. *)
Sent(e) == osDown' = IF e.pressed THEN osDown \cup {e.input} ELSE osDown \ {e.input}

(* Mutant: an input that is recorded is recorded again. *)
MarkAgain(x) == Append(press_order, x)

(* An input is in the list once, so what retain keeps is the list without it. *)
mark_pressed(x)  == IF x \in ToSet(press_order) THEN press_order ELSE Append(press_order, x)
mark_released(x) == RemoveFirst(press_order, x)

(* inject_input: the operating system takes it, or it fails and nothing is
   recorded. *)
InjectSends(e) ==
    /\ sending = Nothing /\ lock # "listener"
    /\ e.input \notin Unsupported
    /\ Sent(e)
    /\ sending' = e
    /\ UNCHANGED <<press_order, lock, left>>

(* update_injected_state, which waits for the lock. *)
InjectRecords ==
    /\ sending # Nothing
    /\ lock = Nothing
    /\ press_order' = IF sending.pressed THEN mark_pressed(sending.input)
                                         ELSE mark_released(sending.input)
    /\ sending' = Nothing
    /\ UNCHANGED <<osDown, lock, left>>

(* release_all, from the last press to the first. *)
ReleaseBegins(t) ==
    /\ lock = Nothing
    /\ t = "listener" => sending = Nothing
    /\ lock' = t
    /\ left' = Reverse(press_order)
    /\ UNCHANGED <<osDown, press_order, sending>>

ReleaseOne ==
    /\ left # << >>
    /\ Sent(Release(Head(left)))
    /\ press_order' = mark_released(Head(left))
    /\ left' = Tail(left)
    /\ UNCHANGED <<lock, sending>>

(* A failure ends the release; what is left stays recorded. *)
StopsThere ==
    /\ lock' = Nothing
    /\ left' = << >>
    /\ UNCHANGED press_order

ReleaseFails ==
    /\ left # << >>
    /\ StopsThere
    /\ UNCHANGED <<osDown, sending>>

(* Ok: nothing is left. *)
ReleaseEnds ==
    /\ lock # Nothing /\ left = << >>
    /\ lock' = Nothing
    /\ UNCHANGED <<osDown, press_order, sending, left>>

InjectedStep ==
    \/ \E x \in Inputs : InjectSends(Press(x)) \/ InjectSends(Release(x))
    \/ InjectRecords
    \/ \E t \in Releasers : ReleaseBegins(t)
    \/ ReleaseOne
    \/ ReleaseFails
    \/ ReleaseEnds

----
InjectedTypeOK ==
    /\ osDown \subseteq Inputs \ Unsupported
    /\ ToSet(press_order) \subseteq Inputs \ Unsupported
    /\ IsInjective(press_order)
    /\ lock \in Releasers \cup {Nothing}
    /\ sending = Nothing \/ sending.input \in Inputs
    /\ left # << >> => lock # Nothing

(* Whatever is down on the desktop can still be lifted: it is recorded, and
   while a release runs it is among what that release has yet to lift.  The
   one exception is the press the listener has sent and not recorded.  So when
   release_all returns Ok nothing else is down, and when it fails a later one
   lifts the rest. *)
InputsAccounted ==
    osDown \subseteq (IF lock = Nothing THEN ToSet(press_order) ELSE ToSet(left))
                     \cup {x \in Inputs : sending = Press(x)}
=============================================================================

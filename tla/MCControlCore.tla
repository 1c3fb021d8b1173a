---------------------------- MODULE MCControlCore ----------------------------
(* ControlCore on two peers, two sessions, two modifiers, a panic key and a
   button: every event can meet every mode.  Beside it PointerRouter on the
   instance of MCPointerRouter; each of the two moves with the other at rest. *)
EXTENDS ControlCore, MCPointerRouter

CONSTANTS ctrl, alt, bksp, left

MCKeys         == {ctrl, alt, bksp}
MCModifierKeys == {ctrl, alt}
MCControlKeys  == {ctrl}
MCAltKeys      == {alt}
MCButtons      == {left}

RouterRests == RouterInit /\ bounds \in MCOneScreen /\ current = [x |-> 0, y |-> 0]
CoreRests == core = InitialState /\ emitted = << >> /\ leasedPeer = NONE /\ remoteHeld = {}

MCInit == Init /\ RouterInit

MCNext ==
    \/ RouterRests /\ Next /\ UNCHANGED routerVars
    \/ CoreRests /\ RouterNext /\ UNCHANGED vars

MCSpec == MCInit /\ [][MCNext]_<<vars, routerVars>>

=============================================================================

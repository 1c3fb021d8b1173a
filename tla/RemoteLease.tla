----------------------------- MODULE RemoteLease -----------------------------
(***************************************************************************)
(* What the input-routing core promises to a peer: control of the peer is  *)
(* a lease.  It is offered to one peer at a time, becomes usable when a    *)
(* session confirms it, keys and buttons go down at the peer only while    *)
(* it is confirmed, and ending it, for whatever reason, lifts every one of *)
(* them in the same step.                                                  *)
(***************************************************************************)
CONSTANTS
    Peers,
    Sessions,
    Codes,      \* keys and buttons
    NONE

VARIABLES
    peer,       \* the peer the lease is offered or granted to
    session,    \* the session that confirmed it
    held        \* the keys and buttons down at the peer

vars == <<peer, session, held>>

TypeOK ==
    /\ peer \in Peers \cup {NONE}
    /\ session \in Sessions \cup {NONE}
    /\ held \subseteq Codes

Init ==
    /\ peer = NONE
    /\ session = NONE
    /\ held = {}

Offer(p) ==
    /\ peer = NONE
    /\ peer' = p
    /\ UNCHANGED <<session, held>>

Confirm(s) ==
    /\ peer # NONE
    /\ session = NONE
    /\ session' = s
    /\ UNCHANGED <<peer, held>>

Press(c) ==
    /\ session # NONE
    /\ held' = held \cup {c}
    /\ UNCHANGED <<peer, session>>

Lift(c) ==
    /\ session # NONE
    /\ held' = held \ {c}
    /\ UNCHANGED <<peer, session>>

End ==
    /\ peer # NONE
    /\ peer' = NONE
    /\ session' = NONE
    /\ held' = {}

Next ==
    \/ \E p \in Peers : Offer(p)
    \/ \E s \in Sessions : Confirm(s)
    \/ \E c \in Codes : Press(c) \/ Lift(c)
    \/ End

Spec == Init /\ [][Next]_vars

=============================================================================

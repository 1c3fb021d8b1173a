----------------------------- MODULE TrustStore -----------------------------
(***************************************************************************)
(* What the identity file promises its users: one list of trusted peers,   *)
(* at most one record for a device id, changed by one request at a time.   *)
(* The promise ends when the file is disturbed: two updates overlap, a     *)
(* write fails, or a process dies while it writes.                         *)
(***************************************************************************)
CONSTANT Records
VARIABLES trusted, disturbed

Trust(r)  == trusted' = {t \in trusted : t.id # r.id} \cup {r}
Forget(r) == trusted' = {t \in trusted : t.id # r.id}

Init == trusted \subseteq Records /\ disturbed \in BOOLEAN

Next ==
    \/ disturbed' = TRUE /\ trusted' \subseteq Records
    \/ ~disturbed /\ disturbed' = FALSE /\ \E r \in Records : Trust(r) \/ Forget(r)

Spec == Init /\ [][Next]_<<trusted, disturbed>>
=============================================================================

------------------------ MODULE SessionManagerProofs ------------------------
(***************************************************************************)
(* The session manager, for every set of peers, addresses and builds: its  *)
(* backoff stays within its bounds, and a listener serves exactly the      *)
(* sessions that are meant for it and in step with it.                     *)
(***************************************************************************)
EXTENDS SessionManager, WellFoundedInduction, TLAPS

----
(***************************************************************************)
(* The invariant: every prelude of this device in a backlog is one that    *)
(* connect writes, with what it noted of the peer when it began.           *)
(***************************************************************************)
Capabilities == {PeerCaps, OlderCaps}
Records  == {RecordOf(p, caps) : p \in Peers, caps \in Capabilities}
Preludes == {Prelude(Me, r, n) : r \in Records, n \in Nat}
Session  == [server : Peers, mine : BOOLEAN, prelude : Preludes \cup {<< >>}, fate : Fates]

Activity ==
    [at : {"idle", "connecting", "attaching", "resetting", "writing", "detaching"},
     session : Nat \cup {NONE}, command : {"input", "stop", "startOther", NONE}]

Backlogs ==
    /\ sessions \in Seq(Session)
    /\ \A s \in DOMAIN sessions :
          sessions[s].mine /\ sessions[s].fate = "queued" => sessions[s].prelude \in Preludes

Attempts ==
    /\ pc \in [Threads -> Activity]
    /\ pc["ipc"].at = "connecting" =>
          /\ attempt.peer \in Peers
          /\ attempt.address \in Addresses
          /\ attempt.caps \in Capabilities

IInv == TypeOK /\ Backlogs /\ Attempts

----
(***************************************************************************)
(* The smallest of a set of numbers, and the backoff.                      *)
(***************************************************************************)
LEMMA MinIsMember ==
    ASSUME NEW S \in SUBSET Nat, S # {}
    PROVE  Min(S) \in S
<1>1. PICK n \in S : \A k \in S : <<k, n>> \notin OpToRel(<, Nat)
  BY NatLessThanWellFounded, WFMin
<1>2. \A k \in S : k \in Nat /\ n \in Nat /\ ~(k < n)
  BY <1>1 DEF OpToRel
<1>3. \E m \in S : \A k \in S : m =< k
  BY <1>2
<1> QED BY <1>3 DEF Min

BackoffInBounds == delay \in {0} \cup InitialDelay..MaxDelay /\ wait \in 0..delay

(* One more failure keeps the delay between the initial one and the maximum. *)
LEMMA FailureIsRecorded ==
    ASSUME BackoffInBounds, RecordFailure
    PROVE  BackoffInBounds' /\ delay' >= delay
<1>1. InitialDelay \in Nat \ {0} /\ MaxDelay \in Nat /\ InitialDelay <= MaxDelay
  BY ManagerAssumption
<1>2. delay = 0 \/ delay \in InitialDelay..MaxDelay
  BY DEF BackoffInBounds
<1>3. DelayForFailure(delay) \in InitialDelay..MaxDelay /\ DelayForFailure(delay) >= delay
  BY <1>1, <1>2 DEF DelayForFailure
<1> QED BY <1>1, <1>3 DEF RecordFailure, BackoffInBounds

----
(***************************************************************************)
(* The connections.                                                        *)
(***************************************************************************)
LEMMA SessionFields ==
    ASSUME NEW q \in Seq(Session)
    PROVE  \A c \in DOMAIN q : /\ q[c] \in Session
                                /\ q[c].server \in Peers /\ q[c].fate \in Fates
                                /\ q[c].mine \in BOOLEAN
<1>1. \A c \in DOMAIN q : q[c] \in Session
  OBVIOUS
<1> QED BY <1>1 DEF Session

LEMMA SessionReplaced ==
    ASSUME NEW q \in Seq(Session), NEW s \in DOMAIN q, NEW x \in Session
    PROVE  [q EXCEPT ![s] = x] \in Seq(Session)
<1>1. Len(q) \in Nat /\ q \in [1..Len(q) -> Session]
  OBVIOUS
<1>2. [q EXCEPT ![s] = x] \in [1..Len(q) -> Session]
  BY <1>1
<1> QED BY <1>1, <1>2

(* Fields of every connection *)
Fields(q) == \A s \in DOMAIN q : /\ q[s].server \in Peers /\ q[s].fate \in Fates
                                 /\ q[s].mine \in BOOLEAN

(* A new connection is added to the backlog of its listener. *)
LEMMA Queues ==
    ASSUME IInv, NEW made \in Session, made.mine => made.prelude \in Preludes,
           sessions' = Append(sessions, made)
    PROVE  /\ Backlogs'
           /\ DOMAIN sessions' = DOMAIN sessions \cup {Len(sessions) + 1}
           /\ \A s \in DOMAIN sessions : sessions'[s] = sessions[s]
           /\ Fields(sessions')
<1>1. sessions \in Seq(Session)
  BY DEF IInv, Backlogs
<1>2. sessions' \in Seq(Session)
  BY <1>1
<1>3. /\ DOMAIN sessions' = DOMAIN sessions \cup {Len(sessions) + 1}
      /\ \A s \in DOMAIN sessions : sessions'[s] = sessions[s]
      /\ sessions'[Len(sessions) + 1] = made
  BY <1>1
<1>4. Backlogs'
  BY <1>2, <1>3 DEF Backlogs, IInv
<1>5. Fields(sessions')
  BY <1>2, SessionFields DEF Fields
<1> QED BY <1>3, <1>4, <1>5

(* What connect writes is a prelude to the peer it names. *)
LEMMA Connected ==
    ASSUME IInv, Connects
    PROVE  /\ Backlogs'
           /\ DOMAIN sessions' = DOMAIN sessions \cup {Len(sessions) + 1}
           /\ \A s \in DOMAIN sessions : sessions'[s] = sessions[s]
           /\ Fields(sessions')
<1> DEFINE prelude == Prelude(Me, RecordOf(attempt.peer, attempt.caps), Len(sessions) + 1)
           made == [server |-> at[attempt.address], mine |-> TRUE, prelude |-> prelude,
                    fate |-> "queued"]
<1>1. sessions \in Seq(Session) /\ sessions' = Append(sessions, made)
  BY DEF IInv, Backlogs, Connects
<1>2. prelude \in Preludes
  <2>1. RecordOf(attempt.peer, attempt.caps) \in Records
    BY DEF IInv, Attempts, Connects, Records
  <2>2. Len(sessions) + 1 \in Nat
    BY <1>1
  <2> QED BY <2>1, <2>2 DEF Preludes
<1>3. at[attempt.address] \in Peers
  BY DEF IInv, TypeOK, Attempts, Connects
<1> HIDE DEF prelude
<1>4. made \in Session /\ made.prelude \in Preludes
  BY <1>2, <1>3 DEF Session, Fates
<1> HIDE DEF made
<1> QED BY <1>1, <1>4, Queues

(* Another device's connection says nothing yet. *)
LEMMA Visited ==
    ASSUME IInv, NEW d \in Peers, Visits(d)
    PROVE  /\ Backlogs'
           /\ DOMAIN sessions' = DOMAIN sessions \cup {Len(sessions) + 1}
           /\ \A s \in DOMAIN sessions : sessions'[s] = sessions[s]
           /\ Fields(sessions')
<1> DEFINE made == [server |-> d, mine |-> FALSE, prelude |-> << >>, fate |-> "queued"]
<1>1. sessions' = Append(sessions, made)
  BY DEF Visits
<1>2. made \in Session /\ ~made.mine
  BY DEF Session, Fates
<1> HIDE DEF made
<1> QED BY <1>1, <1>2, Queues

(* A connection that is read, closed or lost leaves the backlog. *)
LEMMA LeftBacklog ==
    ASSUME IInv, NEW s \in DOMAIN sessions, NEW fate \in Fates \ {"queued"},
           NEW prelude \in Preludes \cup {<< >>},
           sessions' = [sessions EXCEPT ![s].prelude = prelude, ![s].fate = fate]
    PROVE  /\ Backlogs'
           /\ DOMAIN sessions' = DOMAIN sessions
           /\ \A c \in DOMAIN sessions \ {s} : sessions'[c] = sessions[c]
           /\ sessions'[s].fate = fate
           /\ Fields(sessions')
<1>1. sessions \in Seq(Session)
  BY DEF IInv, Backlogs
<1>2. sessions[s] \in Session
  BY <1>1
<1> DEFINE left == [[sessions[s] EXCEPT !.prelude = prelude] EXCEPT !.fate = fate]
<1>3. left \in Session /\ left.fate = fate
  BY <1>2 DEF Session
<1>4. sessions' = [sessions EXCEPT ![s] = left]
  BY <1>1, <1>2 DEF Session
<1> HIDE DEF left
<1>5. sessions' \in Seq(Session)
  <2>1. left \in Session
    BY <1>3
  <2>2. [sessions EXCEPT ![s] = left] \in Seq(Session)
    BY <1>1, <2>1, SessionReplaced
  <2> QED BY <1>4, <2>2
<1>6. /\ DOMAIN sessions' = DOMAIN sessions
      /\ \A c \in DOMAIN sessions \ {s} : sessions'[c] = sessions[c]
      /\ sessions'[s] = left
  BY <1>1, <1>4
<1>7. Backlogs'
  BY <1>3, <1>5, <1>6 DEF Backlogs, IInv
<1>8. Fields(sessions')
  BY <1>5, SessionFields DEF Fields
<1> QED BY <1>3, <1>6, <1>7, <1>8

(* The listener answers one connection, that of its oldest. *)
LEMMA Taken ==
    ASSUME IInv, NEW d \in Peers, ListenerTakes(d)
    PROVE  \E s \in DOMAIN sessions : \E fate \in {"served", "refused"} :
              /\ sessions[s].server = d /\ sessions[s].fate = "queued"
              /\ sessions' = [sessions EXCEPT ![s].prelude = << >>, ![s].fate = fate]
              /\ sessions[s].mine =>
                    (fate = "served" <=> Admits(Device(d), RecordsAt(d), sessions[s].prelude))
<1> DEFINE s == Min(Queued(d))
<1>1. Queued(d) \in SUBSET Nat /\ Queued(d) # {}
  BY DEF ListenerTakes, IInv, Backlogs, Queued
<1>2. s \in Queued(d)
  BY <1>1, MinIsMember
<1>3. PICK fate \in {"served", "refused"} :
         /\ sessions' = [sessions EXCEPT ![s].prelude = << >>, ![s].fate = fate]
         /\ sessions[s].mine =>
               (fate = "served" <=> Admits(Device(d), RecordsAt(d), sessions[s].prelude))
  BY DEF ListenerTakes
<1>4. s \in DOMAIN sessions /\ sessions[s].server = d /\ sessions[s].fate = "queued"
  BY <1>2 DEF Queued
<1> HIDE DEF s
<1> QED BY <1>3, <1>4

----
(***************************************************************************)
(* Every step keeps the invariant.                                         *)
(***************************************************************************)
(* What the steps that leave the connections alone must keep. *)
LEMMA SessionsAlone ==
    ASSUME IInv, UNCHANGED sessions, active' \in {active, NONE, pc["ipc"].session},
           trusted' \in [Peers -> {PeerCaps, OlderCaps, NONE}], theirs' \subseteq Peers,
           at' \in [Addresses -> Peers \cup {NONE}],
           BackoffInBounds',
           Attempts', \A t \in Threads : pc'[t].session \in DOMAIN sessions \cup {NONE}
    PROVE  IInv'
<1>1. Backlogs'
  BY DEF IInv, Backlogs
<1>2. TypeOK'
  <2>1. Fields(sessions)
    BY DEF IInv, TypeOK, Fields
  <2>2. active' \in DOMAIN sessions \cup {NONE}
    BY DEF IInv, TypeOK, Threads
  <2> QED BY <2>1, <2>2 DEF TypeOK, BackoffInBounds, Fields
<1> QED BY <1>1, <1>2 DEF IInv

LEMMA Initially == Init => IInv
<1> SUFFICES ASSUME Init PROVE IInv
  OBVIOUS
<1>1. DOMAIN sessions = {} /\ sessions \in Seq(Session)
  BY DEF Init
<1>2. Backlogs
  BY <1>1 DEF Backlogs
<1>3. Attempts
  BY DEF Attempts, Init, Idle, Activity, Threads
<1>4. BackoffInBounds
  BY DEF Init, BackoffInBounds
<1>5. TypeOK
  <2>2. /\ trusted \in [Peers -> {PeerCaps, OlderCaps, NONE}] /\ theirs \subseteq Peers
        /\ at \in [Addresses -> Peers \cup {NONE}]
    BY DEF Init
  <2>3. active = NONE /\ \A t \in Threads : pc[t].session = NONE
    BY DEF Init, Idle
  <2> QED BY <1>1, <1>4, <2>2, <2>3 DEF TypeOK, BackoffInBounds
<1> QED BY <1>2, <1>3, <1>5 DEF IInv

LEMMA Preserved == IInv /\ [Next]_vars => IInv'
<1> SUFFICES ASSUME IInv, [Next]_vars PROVE IInv'
  OBVIOUS
<1> USE DEF IInv
<1>1. BackoffInBounds /\ (UNCHANGED backoffVars => BackoffInBounds')
  BY DEF TypeOK, BackoffInBounds, backoffVars
<1>2. \A t \in Threads : /\ pc[t] \in Activity
                         /\ pc[t].session \in DOMAIN sessions \cup {NONE}
  BY DEF Attempts, TypeOK
<1>3. sessions \in Seq(Session) /\ DOMAIN sessions = 1..Len(sessions) /\ Len(sessions) \in Nat
  BY DEF Backlogs
<1>4. CASE UNCHANGED vars
  BY <1>4 DEF vars, storeVars, backoffVars, TypeOK, Backlogs, Attempts
<1>5. ASSUME NEW p \in Peers, NEW a \in Addresses, ConnectChecks(p, a)
      PROVE  IInv'
  <2>1. trusted[p] \in Capabilities
    BY <1>5 DEF ConnectChecks, MayConnect, TypeOK, Capabilities
  <2>2. [at |-> "connecting", session |-> NONE, command |-> NONE] \in Activity
    BY DEF Activity
  <2>3. Attempts'
    BY <1>5, <2>1, <2>2 DEF ConnectChecks, Attempts, Threads
  <2>4. \A t \in Threads : pc'[t].session \in DOMAIN sessions \cup {NONE}
    BY <1>2, <1>5 DEF ConnectChecks, Attempts
  <2> QED BY <1>1, <1>5, <2>3, <2>4, SessionsAlone
          DEF ConnectChecks, storeVars, backoffVars, TypeOK
<1>6. CASE Connects
  <2> DEFINE going == [at |-> "attaching", session |-> Len(sessions) + 1, command |-> NONE]
  <2>1. pc' = [pc EXCEPT !["ipc"] = going]
    BY <1>6 DEF Connects
  <2>2. going \in Activity /\ going.session = Len(sessions) + 1
    BY <1>3 DEF Activity
  <2>3. going.at # "connecting"
    OBVIOUS
  <2> HIDE DEF going
  <2>4. Attempts'
    BY <2>1, <2>2, <2>3 DEF Attempts, Threads
  <2>5. /\ Backlogs' /\ DOMAIN sessions' = DOMAIN sessions \cup {Len(sessions) + 1}
        /\ Fields(sessions')
    BY <1>6, Connected
  <2>6. \A t \in Threads : pc'[t].session \in DOMAIN sessions' \cup {NONE}
    BY <1>2, <2>1, <2>2, <2>5 DEF Attempts
  <2>7. TypeOK'
    BY <1>1, <1>6, <2>5, <2>6 DEF Connects, storeVars, backoffVars, TypeOK, Fields
  <2> QED BY <2>4, <2>5, <2>7
<1>7. CASE ConnectFails
  <2>1. BackoffInBounds'
    BY <1>1, <1>7, FailureIsRecorded DEF ConnectFails
  <2>3. Idle \in Activity /\ Idle.at # "connecting" /\ Idle.session = NONE
    BY DEF Idle, Activity
  <2>4. Attempts'
    BY <1>7, <2>3 DEF ConnectFails, Attempts, Threads
  <2>5. \A t \in Threads : pc'[t].session \in DOMAIN sessions \cup {NONE}
    BY <1>2, <1>7, <2>3 DEF ConnectFails, Attempts
  <2> QED BY <1>7, <2>1, <2>4, <2>5, SessionsAlone DEF ConnectFails, storeVars, TypeOK
<1>8. CASE Attach
  <2> DEFINE going == [at |-> "resetting", session |-> NONE, command |-> NONE]
  <2>1. \A r \in {Idle, going} : r \in Activity /\ r.at # "connecting" /\ r.session = NONE
    BY DEF Idle, Activity
  <2>2. \E r \in {Idle, going} : pc' = [pc EXCEPT !["ipc"] = r]
    BY <1>8 DEF Attach
  <2>3. active' \in {active, pc["ipc"].session}
    BY <1>8 DEF Attach
  <2> HIDE DEF going
  <2>4. Attempts'
    BY <2>1, <2>2 DEF Attempts, Threads
  <2>5. \A t \in Threads : pc'[t].session \in DOMAIN sessions \cup {NONE}
    BY <1>2, <2>1, <2>2 DEF Attempts
  <2> QED BY <1>1, <1>8, <2>3, <2>4, <2>5, SessionsAlone
          DEF Attach, storeVars, backoffVars, TypeOK
<1>9. CASE ResetBackoff
  <2>1. Idle \in Activity /\ Idle.at # "connecting" /\ Idle.session = NONE
    BY DEF Idle, Activity
  <2>2. Attempts'
    BY <1>9, <2>1 DEF ResetBackoff, Attempts, Threads
  <2>3. \A t \in Threads : pc'[t].session \in DOMAIN sessions \cup {NONE}
    BY <1>2, <1>9, <2>1 DEF ResetBackoff, Attempts
  <2>4. BackoffInBounds'
    BY <1>9 DEF ResetBackoff, BackoffInBounds
  <2> QED BY <1>9, <2>2, <2>3, <2>4, SessionsAlone DEF ResetBackoff, storeVars, TypeOK
<1>10. ASSUME NEW t \in Threads, NEW c \in Commands(t), Dispatch(t, c)
       PROVE  IInv'
  <2> DEFINE going == [at |-> "writing", session |-> active, command |-> c]
  <2>1. pc' = [pc EXCEPT ![t] = going]
    BY <1>10 DEF Dispatch
  <2>2. active \in DOMAIN sessions \cup {NONE} /\ c \in {"input", "stop", "startOther"}
    BY <1>10 DEF TypeOK, Commands
  <2>3. going \in Activity /\ going.at # "connecting" /\ going.session = active
    BY <1>3, <2>2 DEF Activity
  <2> HIDE DEF going
  <2>4. Attempts'
    BY <1>10, <2>1, <2>3 DEF Dispatch, Attempts, Threads
  <2>5. \A u \in Threads : pc'[u].session \in DOMAIN sessions \cup {NONE}
    BY <1>2, <2>1, <2>2, <2>3 DEF Attempts
  <2> QED BY <1>1, <1>10, <2>4, <2>5, SessionsAlone
          DEF Dispatch, storeVars, backoffVars, TypeOK
<1>11. ASSUME NEW t \in Threads, WriteSucceeds(t)
       PROVE  IInv'
  <2> DEFINE going == [at |-> "detaching", session |-> NONE, command |-> NONE]
  <2>1. \A r \in {Idle, going} : r \in Activity /\ r.at # "connecting" /\ r.session = NONE
    BY DEF Idle, Activity
  <2>2. \E r \in {Idle, going} : pc' = [pc EXCEPT ![t] = r]
    BY <1>11 DEF WriteSucceeds
  <2> HIDE DEF going
  <2>3. Attempts'
    BY <1>11, <2>1, <2>2 DEF WriteSucceeds, Attempts, Threads
  <2>4. \A u \in Threads : pc'[u].session \in DOMAIN sessions \cup {NONE}
    BY <1>2, <2>1, <2>2 DEF Attempts
  <2> QED BY <1>1, <1>11, <2>3, <2>4, SessionsAlone
          DEF WriteSucceeds, storeVars, backoffVars, TypeOK
<1>12. ASSUME NEW t \in Threads, WriteFails(t)
       PROVE  IInv'
  <2> DEFINE going == [at |-> "detaching", session |-> NONE, command |-> NONE]
  <2>1. going \in Activity /\ going.at # "connecting" /\ going.session = NONE
    BY DEF Activity
  <2>2. pc' = [pc EXCEPT ![t] = going]
    BY <1>12 DEF WriteFails
  <2> HIDE DEF going
  <2>3. Attempts'
    BY <1>12, <2>1, <2>2 DEF WriteFails, Attempts, Threads
  <2>4. \A u \in Threads : pc'[u].session \in DOMAIN sessions \cup {NONE}
    BY <1>2, <2>1, <2>2 DEF Attempts
  <2>5. BackoffInBounds'
    BY <1>1, <1>12, FailureIsRecorded DEF WriteFails
  <2> QED BY <1>12, <2>3, <2>4, <2>5, SessionsAlone DEF WriteFails, storeVars, TypeOK
<1>13. ASSUME NEW t \in Threads, Detach(t)
       PROVE  IInv'
  <2>1. Idle \in Activity /\ Idle.at # "connecting" /\ Idle.session = NONE
    BY DEF Idle, Activity
  <2>2. Attempts'
    BY <1>13, <2>1 DEF Detach, Attempts, Threads
  <2>3. \A u \in Threads : pc'[u].session \in DOMAIN sessions \cup {NONE}
    BY <1>2, <1>13, <2>1 DEF Detach, Attempts
  <2> QED BY <1>1, <1>13, <2>2, <2>3, SessionsAlone
          DEF Detach, storeVars, backoffVars, TypeOK
<1>14. CASE Disconnect
  <2>1. Attempts'
    BY <1>14 DEF Disconnect, Attempts
  <2>2. \A t \in Threads : pc'[t].session \in DOMAIN sessions \cup {NONE}
    BY <1>2, <1>14 DEF Disconnect
  <2> QED BY <1>1, <1>14, <2>1, <2>2, SessionsAlone
          DEF Disconnect, storeVars, backoffVars, TypeOK
<1>15. ASSUME NEW s \in DOMAIN sessions, NEW fate \in Fates \ {"queued"},
              NEW prelude \in Preludes \cup {<< >>},
              sessions' = [sessions EXCEPT ![s].prelude = prelude, ![s].fate = fate],
              UNCHANGED <<storeVars, active, backoffVars, pc, attempt>>
       PROVE  IInv'
  <2>1. /\ Backlogs' /\ DOMAIN sessions' = DOMAIN sessions
        /\ Fields(sessions')
    BY <1>15, LeftBacklog
  <2>2. Attempts'
    BY <1>15 DEF Attempts
  <2>3. TypeOK'
    BY <1>15, <2>1 DEF storeVars, backoffVars, TypeOK, Fields
  <2> QED BY <2>1, <2>2, <2>3
<1>16. ASSUME NEW d \in Peers, ListenerTakes(d)
       PROVE  IInv'
  <2>1. PICK s \in DOMAIN sessions : \E fate \in {"served", "refused"} :
           sessions' = [sessions EXCEPT ![s].prelude = << >>, ![s].fate = fate]
    BY <1>16, Taken
  <2>2. PICK fate \in Fates \ {"queued"} :
           sessions' = [sessions EXCEPT ![s].prelude = << >>, ![s].fate = fate]
    BY <2>1 DEF Fates
  <2>3. UNCHANGED <<storeVars, active, backoffVars, pc, attempt>>
    BY <1>16 DEF ListenerTakes
  <2> QED BY <1>15, <2>2, <2>3
<1>17. ASSUME NEW s \in DOMAIN sessions, SessionCloses(s)
       PROVE  IInv'
  <2>1. sessions[s] \in Session
    BY <1>3
  <2>2. sessions[s].prelude \in Preludes \cup {<< >>}
    BY <2>1 DEF Session
  <2>3. sessions' = [sessions EXCEPT ![s].prelude = sessions[s].prelude, ![s].fate = "ended"]
    <3>1. [sessions[s] EXCEPT !.prelude = sessions[s].prelude] = sessions[s]
      BY <2>1 DEF Session
    <3> QED BY <1>3, <1>17, <3>1 DEF SessionCloses
  <2>4. "ended" \in Fates \ {"queued"}
    BY DEF Fates
  <2> QED BY <1>15, <1>17, <2>2, <2>3, <2>4 DEF SessionCloses
<1>18. ASSUME NEW s \in DOMAIN sessions, ConnectionLost(s)
       PROVE  IInv'
  <2>1. sessions' = [sessions EXCEPT ![s].prelude = << >>, ![s].fate = "ended"]
    <3>1. sessions[s] \in Session
      BY <1>3
    <3>2. [[sessions[s] EXCEPT !.fate = "ended"] EXCEPT !.prelude = << >>]
            = [[sessions[s] EXCEPT !.prelude = << >>] EXCEPT !.fate = "ended"]
      BY <3>1 DEF Session
    <3> QED BY <1>3, <1>18, <3>2 DEF ConnectionLost
  <2>2. "ended" \in Fates \ {"queued"}
    BY DEF Fates
  <2> QED BY <1>15, <1>18, <2>1, <2>2 DEF ConnectionLost
<1>19. CASE Tick
  <2>1. BackoffInBounds'
    BY <1>1, <1>19, ManagerAssumption DEF Tick, BackoffInBounds
  <2>2. Attempts'
    BY <1>19 DEF Tick, Attempts
  <2>3. \A t \in Threads : pc'[t].session \in DOMAIN sessions \cup {NONE}
    BY <1>2, <1>19 DEF Tick
  <2> QED BY <1>1, <1>19, <2>1, <2>2, <2>3, SessionsAlone DEF Tick, storeVars, TypeOK
<1>20. ASSUME trusted' \in [Peers -> {PeerCaps, OlderCaps, NONE}], theirs' \subseteq Peers,
              at' \in [Addresses -> Peers \cup {NONE}], UNCHANGED Others
       PROVE  IInv'
  <2>1. Attempts'
    BY <1>20 DEF Others, Attempts
  <2>2. \A t \in Threads : pc'[t].session \in DOMAIN sessions \cup {NONE}
    BY <1>2, <1>20 DEF Others
  <2> QED BY <1>1, <1>20, <2>1, <2>2, SessionsAlone DEF Others, backoffVars, TypeOK
<1>21. ASSUME NEW p \in Peers, NEW r \in {PeerCaps, OlderCaps, NONE}, TrustHere(p, r)
       PROVE  IInv'
  BY <1>20, <1>21 DEF TrustHere, TypeOK
<1>22. ASSUME NEW p \in Peers, TrustThere(p)
       PROVE  IInv'
  BY <1>20, <1>22 DEF TrustThere, TypeOK
<1>23. ASSUME NEW a \in Addresses, NEW p \in Peers, Moves(a, p)
       PROVE  IInv'
  BY <1>20, <1>23 DEF Moves, TypeOK
<1>24. ASSUME NEW d \in Peers, Visits(d)
       PROVE  IInv'
  <2>1. /\ Backlogs' /\ DOMAIN sessions' = DOMAIN sessions \cup {Len(sessions) + 1}
        /\ Fields(sessions')
    BY <1>24, Visited
  <2>2. Attempts'
    BY <1>24 DEF Visits, Attempts
  <2>3. \A t \in Threads : pc'[t].session \in DOMAIN sessions' \cup {NONE}
    BY <1>2, <1>24, <2>1 DEF Visits
  <2>4. TypeOK'
    BY <1>1, <1>24, <2>1, <2>3 DEF Visits, storeVars, backoffVars, TypeOK, Fields
  <2> QED BY <2>1, <2>2, <2>4
<1> QED BY <1>4, <1>5, <1>6, <1>7, <1>8, <1>9, <1>10, <1>11, <1>12, <1>13, <1>14,
           <1>16, <1>17, <1>18, <1>19, <1>21, <1>22, <1>23, <1>24
        DEF Next, ConnectStep, ThreadStep

THEOREM Invariance == Spec => []IInv
BY Initially, Preserved, PTL DEF Spec

(* The manager's state keeps its type, and its backoff its bounds: a wait is
   never longer than the maximum, and there is none without a failure. *)
THEOREM ManagerTypes == Spec => []TypeOK
<1>1. IInv => TypeOK
  BY DEF IInv
<1> QED BY <1>1, Invariance, PTL

----
(***************************************************************************)
(* Admission.                                                              *)
(***************************************************************************)
(* The transcripts of the two sides agree exactly on a session meant for the
   listener and in step with it. *)
LEMMA AdmitsIsMeant ==
    ASSUME NEW s \in DOMAIN sessions, sessions[s].prelude \in Preludes
    PROVE  LET d == sessions[s].server
           IN  Admits(Device(d), RecordsAt(d), sessions[s].prelude) <=> Meant(s) /\ InStep(s)
<1> DEFINE d == sessions[s].server
           prelude == sessions[s].prelude
<1>1. PICK p \in Peers, caps \in Capabilities, n \in Nat : prelude = Prelude(Me, RecordOf(p, caps), n)
  BY DEF Preludes, Records
<1> DEFINE signed == InitiatorTranscript(Me.id, p, n, Me.version, Me.caps, caps)
           verified == InitiatorTranscript(Me.id, d, n, builds[d], Me.caps, PeerCaps)
           hello == Hello(Me.version, Me.id, p, n, Me.caps)
           proof == AuthProof(Me.id, "Initiator", <<Me.key, signed>>)
           here == [id |-> Me.id, key |-> Me.key, caps |-> Me.caps]
<1>2. /\ prelude[1] = hello /\ prelude[2] = proof
      /\ AcceptsReady(prelude[3])
  BY <1>1 DEF Prelude, RecordOf, Sign, AcceptsReady, SessionReady
<1>3. signed = verified <=> p = d /\ Me.version = builds[d] /\ caps = PeerCaps
  BY DEF InitiatorTranscript, AuthTranscript
<1>4. ListenerTranscript(Device(d), hello) = verified
  BY DEF ListenerTranscript, Device, Hello
<1>5. verified.role = "Initiator"
  BY DEF InitiatorTranscript, AuthTranscript
<1>6. AcceptsProof(Device(d), hello, proof, here) <=> signed = verified
  <2> HIDE DEF signed, verified, hello
  <2>1. /\ proof.kind = "authProof" /\ proof.device = here.id /\ proof.role = "Initiator"
        /\ proof.signature = <<Me.key, signed>> /\ here.key = Me.key
    BY DEF AuthProof
  <2> HIDE DEF proof, here
  <2>2. Verifies(here.key, verified, proof.signature) <=> signed = verified
    BY <2>1 DEF Verifies
  <2> QED BY <1>4, <1>5, <2>1, <2>2 DEF AcceptsProof
<1>7. Resolved(hello, RecordsAt(d)) = IF d \in theirs THEN {here} ELSE {}
  BY DEF Resolved, RecordsAt, Hello
<1>8. AcceptsHello(Device(d), hello) <=> builds[d].major = Me.version.major
  BY DEF AcceptsHello, Device, Hello, IsCompatible
<1>9. prelude[1].peer = p /\ NotedOfPeer(prelude) = caps
  <2>1. proof.signature[2] = signed
    BY DEF AuthProof
  <2>2. signed.remoteCaps = caps
    BY DEF InitiatorTranscript, AuthTranscript
  <2>3. hello.peer = p
    BY DEF Hello
  <2> HIDE DEF signed, hello, proof
  <2> QED BY <1>2, <2>1, <2>2, <2>3 DEF NotedOfPeer
<1>10. /\ Meant(s) <=> d = p /\ d \in theirs /\ builds[d].major = Me.version.major
       /\ InStep(s) <=> builds[d] = Me.version /\ caps = PeerCaps
  BY <1>9 DEF Meant, InStep, IsCompatible
<1> HIDE DEF signed, verified, hello, proof, here
<1>11. Admits(Device(d), RecordsAt(d), prelude) <=>
          builds[d].major = Me.version.major /\ d \in theirs /\ signed = verified
  BY <1>2, <1>6, <1>7, <1>8 DEF Admits
<1> QED BY <1>3, <1>10, <1>11

(* The property's step, and what keeps it. *)
JudgedRightly ==
    \A s \in DOMAIN sessions :
        Judged(s) => (sessions'[s].fate = "served" <=> Meant(s) /\ InStep(s))

LEMMA UnreadIsUnjudged == IInv /\ UNCHANGED sessions => JudgedRightly
BY DEF JudgedRightly, Judged

(* Only the listener's taking of a connection settles it, and it serves this
   device's exactly when the session is meant for it and in step with it: the
   device that took it is the one it was made for, trusts this device as it
   reads the hello, runs its protocol version, which the code demands minor
   included, and has the capabilities noted of it. *)
THEOREM AdmittedExactly == Spec => AdmittedAsMeant
<1>1. ASSUME IInv, [Next]_vars PROVE [JudgedRightly]_vars
  <2>1. CASE UNCHANGED sessions
    BY <1>1, <2>1, UnreadIsUnjudged
  <2>2. ASSUME Connects \/ \E d \in Peers : Visits(d)
        PROVE  JudgedRightly
    BY <1>1, <2>2, Connected, Visited DEF JudgedRightly, Judged
  <2>3. ASSUME NEW d \in Peers, ListenerTakes(d)
        PROVE  JudgedRightly
    <3>1. PICK s \in DOMAIN sessions, fate \in {"served", "refused"} :
             /\ sessions[s].server = d /\ sessions[s].fate = "queued"
             /\ sessions' = [sessions EXCEPT ![s].prelude = << >>, ![s].fate = fate]
             /\ sessions[s].mine =>
                   (fate = "served" <=> Admits(Device(d), RecordsAt(d), sessions[s].prelude))
      BY <1>1, <2>3, Taken
    <3>2. sessions[s].mine => sessions[s].prelude \in Preludes
      BY <1>1, <3>1 DEF IInv, Backlogs
    <3>3. sessions[s].mine => (fate = "served" <=> Meant(s) /\ InStep(s))
      BY <3>1, <3>2, AdmitsIsMeant
    <3>4. fate \in Fates \ {"queued"}
      BY DEF Fates
    <3>5. sessions'[s].fate = fate /\ \A c \in DOMAIN sessions \ {s} : sessions'[c] = sessions[c]
      BY <1>1, <3>1, <3>4, LeftBacklog
    <3> QED BY <3>3, <3>5 DEF JudgedRightly, Judged
  <2>4. ASSUME NEW s \in DOMAIN sessions, SessionCloses(s) \/ ConnectionLost(s)
        PROVE  JudgedRightly
    <3>1. sessions \in Seq(Session) /\ sessions[s] \in Session
      BY <1>1 DEF IInv, Backlogs
    <3>2. sessions'[s].fate = "ended" /\ \A c \in DOMAIN sessions \ {s} : sessions'[c] = sessions[c]
      BY <2>4, <3>1 DEF SessionCloses, ConnectionLost, Session
    <3> QED BY <3>2 DEF JudgedRightly, Judged
  <2> QED BY <1>1, <2>1, <2>2, <2>3, <2>4
          DEF Next, vars, ConnectStep, ThreadStep, ConnectChecks, ConnectFails, Attach, ResetBackoff,
              Dispatch, WriteSucceeds, WriteFails, Detach, Disconnect, Tick, TrustHere, TrustThere,
              Moves, Others
<1> QED BY <1>1, Invariance, PTL DEF Spec, AdmittedAsMeant, JudgedRightly
=============================================================================

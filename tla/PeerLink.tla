------------------------------ MODULE PeerLink ------------------------------
(***************************************************************************)
(* One peer session: a TcpPeerSessionTransport whose stream is shared by   *)
(* two dispatching threads and the heartbeat thread, the TCP connection,   *)
(* and the receiving daemon's session loop with the inputs it has          *)
(* injected.  The session starts connected, with the authenticated         *)
(* prelude written; connecting and reconnecting belong to the session      *)
(* manager.                                                                *)
(*                                                                         *)
(* The sending process may die, the connection may be reset, any read may  *)
(* time out, and injecting or releasing input may fail.  The death of the  *)
(* receiving process is left out: the keys it holds down are then the      *)
(* operating system's.                                                     *)
(***************************************************************************)
EXTENDS Integers, Sequences, FiniteSets

CONSTANTS
    Keys,         \* what a forwarded input presses or lifts
    MaxSeq,       \* the largest sequence number, u64::MAX in the code
    Capacity,     \* frames the connection buffers before a write blocks
    NONE

ASSUME LinkAssumption ==
    /\ MaxSeq \in Nat
    /\ Capacity \in Nat \ {0}
    /\ NONE \notin {"worker", "ipc", "heartbeat"}

Dispatchers == {"worker", "ipc"}   \* the capture worker, an IPC handler
Writers     == Dispatchers \cup {"heartbeat"}

Command ==
    [name : {"StartRemoteSession", "ReleaseAllInputs", "StopRemoteSession"}]
    \cup [name : {"ForwardInput"}, key : Keys, press : BOOLEAN]

Heartbeat(n)       == [kind |-> "heartbeat", seq |-> n]
CommandFrame(n, c) == [kind |-> "command", seq |-> n, command |-> c]
Torn               == [kind |-> "torn"]
Prelude == <<[kind |-> "hello"], [kind |-> "authProof"], [kind |-> "sessionReady"]>>

VARIABLES
    pc,            \* [Dispatchers -> {"idle", "waiting", "detaching"}]
    job,           \* [Dispatchers -> the command being dispatched]
    lock,          \* the thread that holds the stream lock
    nextSeq,       \* next_sequence, behind the stream lock
    frameSeq,      \* the sequence number the lock holder has consumed
    attached,      \* the session manager routes commands to this session
    beating,       \* the heartbeat thread is alive
    conn,          \* "up", "closed" by the sender, or "reset"
    chan,          \* frames written and not yet read
    stage,         \* what the receiver reads next; "ended" when its loop returned
    expected,      \* PeerTransportSessionSequence.expected
    guard,         \* needs_release_on_close
    held,          \* inputs injected as pressed and not released
    releaseFailed, \* the receiver's last release_all failed
    sent,          \* history: commands whose write succeeded, in order
    executed       \* history: how many of them the receiver has executed

senderVars   == <<pc, job, lock, nextSeq, frameSeq, attached, beating, sent>>
receiverVars == <<stage, expected, guard, held, releaseFailed, executed>>
vars         == <<senderVars, conn, chan, receiverVars>>

Init ==
    /\ pc = [w \in Dispatchers |-> "idle"]
    /\ job = [w \in Dispatchers |-> NONE]
    /\ lock = NONE
    /\ nextSeq = 0
    /\ frameSeq = NONE
    /\ attached = TRUE
    /\ beating = TRUE
    /\ conn = "up"
    /\ chan = Prelude
    /\ stage = "hello"
    /\ expected = 0
    /\ guard = FALSE
    /\ held = {}
    /\ releaseFailed = FALSE
    /\ sent = << >>
    /\ executed = 0

----
(***************************************************************************)
(* The sender.                                                             *)
(***************************************************************************)

(* ManagedPeerSessionTransport clones the session it routes to, which asks
   for the stream lock unless the command starts a session with another peer
   than the connected one. *)
Dispatch(w, c) ==
    /\ pc[w] = "idle"
    /\ attached
    /\ \/ /\ pc' = [pc EXCEPT ![w] = "waiting"]
          /\ job' = [job EXCEPT ![w] = c]
       \/ /\ c.name = "StartRemoteSession"
          /\ pc' = [pc EXCEPT ![w] = "detaching"]
          /\ UNCHANGED job
    /\ UNCHANGED <<lock, nextSeq, frameSeq, attached, beating, sent, conn, chan, receiverVars>>

(* Mutant: a Stop does not detach the session. *)
AfterWriteKeepingSession(w, ok) ==
    IF w = "heartbeat"
    THEN beating' = (beating /\ ok) /\ UNCHANGED <<pc, job>>
    ELSE /\ pc' = [pc EXCEPT ![w] = IF ok THEN "idle" ELSE "detaching"]
         /\ job' = [job EXCEPT ![w] = NONE]
         /\ UNCHANGED beating

(* What becomes of the thread that held the lock: a failed write ends the
   heartbeat thread; a dispatching thread detaches the session for a Stop or
   an error, and is done otherwise. *)
AfterWrite(w, ok) ==
    IF w = "heartbeat"
    THEN beating' = (beating /\ ok) /\ UNCHANGED <<pc, job>>
    ELSE /\ pc' = [pc EXCEPT ![w] = IF ok /\ job[w].name # "StopRemoteSession"
                                     THEN "idle" ELSE "detaching"]
         /\ job' = [job EXCEPT ![w] = NONE]
         /\ UNCHANGED beating

Unlock == lock' = NONE /\ frameSeq' = NONE

Refused(w) == Unlock /\ AfterWrite(w, FALSE) /\ UNCHANGED nextSeq

(* Mutant: a heartbeat does not advance the number the commands use. *)
TakeSequenceCommandsOnly(w) ==
    IF nextSeq = MaxSeq
    THEN Refused(w)
    ELSE /\ lock' = w
         /\ nextSeq' = IF w = "heartbeat" THEN nextSeq ELSE nextSeq + 1
         /\ frameSeq' = nextSeq
         /\ UNCHANGED <<pc, job, beating>>

(* Mutant: the addition is not checked. *)
TakeSequenceUnchecked(w) ==
    /\ lock' = w
    /\ nextSeq' = nextSeq + 1
    /\ frameSeq' = nextSeq
    /\ UNCHANGED <<pc, job, beating>>

(* Under the lock the thread takes the next sequence number; when there is
   none left it unlocks without writing. *)
TakeSequence(w) ==
    IF nextSeq = MaxSeq
    THEN Refused(w)
    ELSE /\ lock' = w
         /\ nextSeq' = nextSeq + 1
         /\ frameSeq' = nextSeq
         /\ UNCHANGED <<pc, job, beating>>

LockStream(w) ==
    /\ pc[w] = "waiting"
    /\ lock = NONE
    /\ TakeSequence(w)
    /\ UNCHANGED <<attached, sent, conn, chan, receiverVars>>

(* The heartbeat thread wakes up and takes the lock. *)
Beat ==
    /\ beating
    /\ lock = NONE
    /\ TakeSequence("heartbeat")
    /\ UNCHANGED <<attached, sent, conn, chan, receiverVars>>

LockedFrame ==
    IF lock = "heartbeat" THEN Heartbeat(frameSeq) ELSE CommandFrame(frameSeq, job[lock])

(* A frame written while the receiver has already closed may be buffered and
   lost. *)
Write ==
    /\ lock # NONE
    /\ conn = "up"
    /\ \/ stage # "ended" /\ Len(chan) < Capacity /\ chan' = Append(chan, LockedFrame)
       \/ stage = "ended" /\ UNCHANGED chan
    /\ Unlock
    /\ AfterWrite(lock, TRUE)
    /\ sent' = IF lock = "heartbeat" THEN sent ELSE Append(sent, job[lock])
    /\ UNCHANGED <<nextSeq, attached, conn, receiverVars>>

WriteFails ==
    /\ lock # NONE
    /\ conn = "reset" \/ stage = "ended"
    /\ Unlock
    /\ AfterWrite(lock, FALSE)
    /\ UNCHANGED <<nextSeq, attached, sent, conn, chan, receiverVars>>

Detach(w) ==
    /\ pc[w] = "detaching"
    /\ pc' = [pc EXCEPT ![w] = "idle"]
    /\ attached' = FALSE
    /\ UNCHANGED <<job, lock, nextSeq, frameSeq, beating, sent, conn, chan, receiverVars>>

(* session.disconnect *)
Disconnect ==
    /\ attached
    /\ attached' = FALSE
    /\ UNCHANGED <<pc, job, lock, nextSeq, frameSeq, beating, sent, conn, chan, receiverVars>>

Dropped == ~attached /\ \A w \in Dispatchers : pc[w] = "idle"

(* The last clone of the session is dropped: its heartbeat thread is told to
   stop and joined, which waits for a heartbeat being written; then the
   stream closes. *)
StopHeartbeat ==
    /\ Dropped
    /\ beating
    /\ beating' = FALSE
    /\ UNCHANGED <<pc, job, lock, nextSeq, frameSeq, attached, sent, conn, chan, receiverVars>>

Close ==
    /\ Dropped
    /\ ~beating
    /\ lock = NONE
    /\ conn = "up"
    /\ conn' = "closed"
    /\ UNCHANGED <<senderVars, chan, receiverVars>>

(* The sending process dies, perhaps in the middle of a frame. *)
SenderCrash ==
    /\ conn = "up"
    /\ conn' = "closed"
    /\ pc' = [w \in Dispatchers |-> "idle"]
    /\ job' = [w \in Dispatchers |-> NONE]
    /\ attached' = FALSE
    /\ beating' = FALSE
    /\ Unlock
    /\ chan' \in {chan} \cup (IF lock # NONE THEN {Append(chan, Torn)} ELSE {})
    /\ UNCHANGED <<nextSeq, sent, receiverVars>>

(* The network or the receiving host resets the connection: what was not yet
   read is gone. *)
Reset ==
    /\ conn = "up"
    /\ conn' = "reset"
    /\ chan' = << >>
    /\ UNCHANGED <<senderVars, receiverVars>>

----
(***************************************************************************)
(* The receiver.                                                           *)
(***************************************************************************)

(* release_all lifts inputs one by one and stops at the first failure. *)
ReleaseAll(remaining, ok) ==
    \/ ok /\ remaining = {}
    \/ ~ok /\ remaining \subseteq held

(* Mutant: the loop is left only when there is something to release. *)
EndSessionOnlyGuarded ==
    /\ stage' = IF guard THEN "ended" ELSE stage
    /\ IF guard
       THEN \E ok \in BOOLEAN :
               /\ \E remaining \in SUBSET held : ReleaseAll(remaining, ok) /\ held' = remaining
               /\ releaseFailed' = ~ok
       ELSE UNCHANGED <<held, releaseFailed>>
    /\ UNCHANGED <<expected, guard, executed>>

(* Every way out of the loop: release if the guard is up, then return. *)
EndSession ==
    /\ stage' = "ended"
    /\ IF guard
       THEN \E ok \in BOOLEAN :
               /\ \E remaining \in SUBSET held : ReleaseAll(remaining, ok) /\ held' = remaining
               /\ releaseFailed' = ~ok
       ELSE UNCHANGED <<held, releaseFailed>>
    /\ UNCHANGED <<expected, guard, executed>>

(* The prelude: hello, proof and ready in this order; the sender's identity
   may be unknown or its proof rejected. *)
NextStage == [hello |-> "authProof", authProof |-> "sessionReady", sessionReady |-> "frames"]

ReadPrelude ==
    /\ stage \in DOMAIN NextStage
    /\ chan # << >>
    /\ chan' = Tail(chan)
    /\ \/ /\ Head(chan).kind = stage
          /\ stage' = NextStage[stage]
          /\ UNCHANGED <<expected, guard, held, releaseFailed, executed>>
       \/ /\ Head(chan).kind # stage \/ stage = "authProof"
          /\ EndSession
    /\ UNCHANGED <<senderVars, conn>>

(* Mutant: a stopped session needs no release. *)
UpdateGuardOnStop(c) ==
    guard' = (c.name \in {"StartRemoteSession", "ForwardInput"})

(* update_peer_transport_release_guard, after the command was executed *)
UpdateGuard(c) ==
    guard' = CASE c.name \in {"StartRemoteSession", "ForwardInput"} -> TRUE
               [] c.name = "ReleaseAllInputs"  -> FALSE
               [] c.name = "StopRemoteSession" -> guard

(* Mutant: lifting an input is not injected. *)
ExecutePressesOnly(c) ==
    held' = CASE c.name = "ForwardInput" -> IF c.press THEN held \cup {c.key} ELSE held
              [] c.name = "ReleaseAllInputs" -> {}
              [] OTHER -> held

(* execute_peer_transport_command *)
Execute(c) ==
    held' = CASE c.name = "ForwardInput" ->
                    IF c.press THEN held \cup {c.key} ELSE held \ {c.key}
              [] c.name = "ReleaseAllInputs" -> {}
              [] OTHER -> held

ExecuteCommand(frame) ==
    /\ Execute(frame.command)
    /\ UpdateGuard(frame.command)
    /\ expected' = expected + 1
    /\ executed' = executed + 1
    /\ releaseFailed' = IF frame.command.name = "ReleaseAllInputs" THEN FALSE ELSE releaseFailed
    /\ UNCHANGED stage

(* inject_input fails, or release_all does: the guard is still what it was,
   and the session ends. *)
CommandFails(frame) ==
    /\ frame.command.name \in {"ForwardInput", "ReleaseAllInputs"}
    /\ EndSession

ReadFrame ==
    /\ stage = "frames"
    /\ chan # << >>
    /\ chan' = Tail(chan)
    /\ LET frame == Head(chan)
       IN  \/ /\ frame.kind = "command" /\ frame.seq = expected
              /\ ExecuteCommand(frame) \/ CommandFails(frame)
           \/ /\ frame.kind = "heartbeat" /\ frame.seq = expected
              /\ expected' = expected + 1
              /\ UNCHANGED <<stage, guard, held, releaseFailed, executed>>
           \/ /\ frame.kind \in {"command", "heartbeat"} /\ frame.seq # expected
              /\ EndSession
           \/ /\ frame.kind = "torn"
              /\ EndSession
    /\ UNCHANGED <<senderVars, conn>>

(* Nothing arrives for DEFAULT_PEER_SESSION_HEARTBEAT_TIMEOUT. *)
ReadTimeout ==
    /\ stage # "ended"
    /\ EndSession
    /\ UNCHANGED <<senderVars, conn, chan>>

(* End of stream after the last frame, or a reset connection. *)
ReadClosed ==
    /\ stage # "ended"
    /\ conn # "up"
    /\ chan = << >>
    /\ EndSession
    /\ UNCHANGED <<senderVars, conn, chan>>

----
Next ==
    \/ \E w \in Dispatchers, c \in Command : Dispatch(w, c)
    \/ \E w \in Dispatchers : LockStream(w)
    \/ \E w \in Dispatchers : Detach(w)
    \/ Beat
    \/ Write
    \/ WriteFails
    \/ Disconnect
    \/ StopHeartbeat
    \/ Close
    \/ SenderCrash
    \/ Reset
    \/ ReadPrelude
    \/ ReadFrame
    \/ ReadTimeout
    \/ ReadClosed

Spec == Init /\ [][Next]_vars

(* The receiver keeps reading, and gives up on a silent connection.  A thread
   that wants the stream gets it, one that writes finishes (an unread
   connection blocks it, and the receiver reads), a dropped session closes. *)
Fairness ==
    /\ WF_vars(ReadPrelude)
    /\ WF_vars(ReadFrame)
    /\ WF_vars(ReadClosed)
    /\ WF_vars(ReadTimeout /\ chan = << >> /\ ~beating)
    /\ WF_vars(Write \/ WriteFails)
    /\ WF_vars(StopHeartbeat)
    /\ WF_vars(Close)
    /\ \A w \in Dispatchers : SF_vars(LockStream(w)) /\ WF_vars(Detach(w))

FairSpec == Spec /\ Fairness

----
Numbered(frame) == frame.kind \in {"command", "heartbeat"}

Frame ==
    {Prelude[i] : i \in 1 .. 3}
    \cup {Torn}
    \cup {Heartbeat(n) : n \in 0 .. MaxSeq - 1}
    \cup {CommandFrame(n, c) : n \in 0 .. MaxSeq - 1, c \in Command}

(* Every variable has its type. *)
TypeOK ==
    /\ pc \in [Dispatchers -> {"idle", "waiting", "detaching"}]
    /\ job \in [Dispatchers -> Command \cup {NONE}]
    /\ lock \in Writers \cup {NONE}
    /\ nextSeq \in 0 .. MaxSeq
    /\ frameSeq \in 0 .. MaxSeq - 1 \cup {NONE}
    /\ attached \in BOOLEAN
    /\ beating \in BOOLEAN
    /\ conn \in {"up", "closed", "reset"}
    /\ chan \in Seq(Frame)
    /\ stage \in {"hello", "authProof", "sessionReady", "frames", "ended"}
    /\ expected \in 0 .. MaxSeq
    /\ guard \in BOOLEAN
    /\ held \subseteq Keys
    /\ releaseFailed \in BOOLEAN
    /\ sent \in Seq(Command)
    /\ executed \in Nat

(* Whatever threads wrote them, the frames on the wire are numbered without a
   gap from the number the receiver expects: a session never ends by a
   sequence mismatch of the program's own making. *)
SequencesAgree ==
    stage # "ended" =>
        \A i \in DOMAIN chan :
            Numbered(chan[i]) =>
                chan[i].seq = expected + Cardinality({j \in 1 .. i - 1 : Numbered(chan[j])})

(* However the session ended (stop, end of stream, timeout, reset, a torn or
   refused frame, a failed injection), nothing it pressed is still down,
   unless lifting it failed. *)
EndedMeansReleased == stage = "ended" => held = {} \/ releaseFailed

Presses(c, k) == c.name = "ForwardInput" /\ c.key = k /\ c.press
Lifts(c, k) ==
    \/ c.name = "ForwardInput" /\ c.key = k /\ ~c.press
    \/ c.name = "ReleaseAllInputs"

(* The receiver executes the commands in the order the threads wrote them,
   none twice and none skipped: a key is down there exactly when, of the
   commands executed so far, one pressed it and no later one lifted it. *)
HeldFollowsSent ==
    stage # "ended" =>
        /\ executed <= Len(sent)
        /\ \A k \in Keys :
              k \in held <=>
                 \E i \in 1 .. executed :
                     /\ Presses(sent[i], k)
                     /\ \A j \in i + 1 .. executed : ~Lifts(sent[j], k)

(* A ReleaseAllInputs that was written is executed, or the session ends and
   releases by itself. *)
EveryReleaseArrives ==
    \A i \in 1 .. MaxSeq :
        (Len(sent) >= i /\ sent[i].name = "ReleaseAllInputs") ~> (executed >= i \/ stage = "ended")

(* Once a StopRemoteSession is written, the session comes to an end at the
   receiver: the sender detaches, its heartbeat thread is joined, the stream
   closes and the receiver reads the end of it. *)
StopEndsTheSession ==
    (\E i \in DOMAIN sent : sent[i].name = "StopRemoteSession") ~> (stage = "ended")

=============================================================================

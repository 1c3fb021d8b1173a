--------------------------- MODULE PeerLinkProofs ---------------------------
(***************************************************************************)
(* Proofs about one peer session, for any set of keys, any largest         *)
(* sequence number and any capacity of the connection.  The inductive      *)
(* invariant says what is on the wire: the rest of the prelude, then       *)
(* frames numbered from the one the receiver expects, which carry the      *)
(* commands sent after the last one executed, in order.                    *)
(***************************************************************************)
EXTENDS PeerLink, FiniteSetTheorems, SequenceTheorems, TLAPS

(* The frames of the prelude the receiver has still to read. *)
PreludeLeft ==
    CASE stage = "hello"        -> 3
      [] stage = "authProof"    -> 2
      [] stage = "sessionReady" -> 1
      [] OTHER                  -> 0

(* A thread that waits for the lock has a command to send; one that holds it
   has taken the number before nextSeq. *)
ThreadsReady ==
    /\ \A w \in Dispatchers : pc[w] = "waiting" => job[w] \in Command
    /\ lock \in Dispatchers => pc[lock] = "waiting"
    /\ lock # NONE => frameSeq \in 0 .. MaxSeq - 1 /\ nextSeq = frameSeq + 1

(* What is held down keeps the release guard up. *)
GuardCoversHeld == stage # "ended" /\ ~guard => held = {}

(* The frame at position i of the wire. *)
OnTheWire(i) ==
    \/ i <= PreludeLeft /\ chan[i] = Prelude[3 - PreludeLeft + i]
    \/ /\ i > PreludeLeft
       /\ Numbered(chan[i])
       /\ chan[i].seq = expected + (i - PreludeLeft - 1)
    \/ /\ i > PreludeLeft
       /\ chan[i] = Torn
       /\ i = Len(chan) /\ conn = "closed"

(* The next frame that will be written carries on the numbers of the wire. *)
WireInOrder ==
    stage # "ended" =>
        /\ conn = "reset" => chan = << >>
        /\ conn # "reset" =>
              /\ PreludeLeft <= Len(chan)
              /\ \A i \in 1 .. Len(chan) : OnTheWire(i)
        /\ conn = "up" =>
              (IF lock = NONE THEN nextSeq ELSE frameSeq) = expected + (Len(chan) - PreludeLeft)

(* at[i] is the number of commands sent up to the frame at position i. *)
Carries(at) ==
    /\ at[0] = executed
    /\ \A i \in 1 .. Len(chan) :
          IF chan[i].kind = "command"
          THEN at[i] = at[i - 1] + 1 /\ sent[at[i]] = chan[i].command
          ELSE at[i] = at[i - 1]
    /\ conn = "up" => at[Len(chan)] = Len(sent)

WireCarriesSent ==
    stage # "ended" => \E at \in [0 .. Len(chan) -> 0 .. Len(sent)] : Carries(at)

IInv ==
    /\ TypeOK
    /\ ThreadsReady
    /\ GuardCoversHeld
    /\ EndedMeansReleased
    /\ WireInOrder
    /\ WireCarriesSent
    /\ HeldFollowsSent

----
(* Facts about frames and commands. *)

LEMMA CommandForms ==
    ASSUME NEW c \in Command
    PROVE  /\ c.name \in {"StartRemoteSession", "ReleaseAllInputs", "StopRemoteSession", "ForwardInput"}
           /\ c.name = "ForwardInput" => c.key \in Keys /\ c.press \in BOOLEAN
  BY DEF Command

LEMMA FrameForms ==
    ASSUME NEW f \in Frame
    PROVE  /\ f.kind \in {"hello", "authProof", "sessionReady", "torn", "heartbeat", "command"}
           /\ Numbered(f) => f.seq \in 0 .. MaxSeq - 1
           /\ f.kind = "command" => f.command \in Command
  <1>1. CASE f \in {Prelude[i] : i \in 1 .. 3}
    <2>1. f = Prelude[1] \/ f = Prelude[2] \/ f = Prelude[3]
      BY <1>1
    <2> QED
      BY <2>1 DEF Prelude, Numbered
  <1>2. CASE f = Torn
    BY <1>2 DEF Torn, Numbered
  <1>3. CASE f \in {Heartbeat(n) : n \in 0 .. MaxSeq - 1}
    BY <1>3 DEF Heartbeat, Numbered
  <1>4. CASE f \in {CommandFrame(n, c) : n \in 0 .. MaxSeq - 1, c \in Command}
    BY <1>4 DEF CommandFrame, Numbered
  <1> QED
    BY <1>1, <1>2, <1>3, <1>4 DEF Frame

(* The frame the lock holder writes. *)
LEMMA LockedFrameProps ==
    ASSUME TypeOK, ThreadsReady, lock # NONE
    PROVE  /\ LockedFrame \in Frame
           /\ Numbered(LockedFrame)
           /\ LockedFrame.seq = frameSeq
           /\ lock = "heartbeat" => LockedFrame.kind = "heartbeat"
           /\ lock # "heartbeat" =>
                 /\ lock \in Dispatchers
                 /\ job[lock] \in Command
                 /\ LockedFrame.kind = "command"
                 /\ LockedFrame.command = job[lock]
  <1>1. frameSeq \in 0 .. MaxSeq - 1
    BY DEF ThreadsReady
  <1>2. CASE lock = "heartbeat"
    <2>1. LockedFrame = Heartbeat(frameSeq)
      BY <1>2 DEF LockedFrame
    <2> QED
      BY <1>1, <1>2, <2>1 DEF Heartbeat, Frame, Numbered
  <1>3. CASE lock # "heartbeat"
    <2>1. lock \in Dispatchers /\ job[lock] \in Command
      BY <1>3 DEF TypeOK, ThreadsReady, Writers
    <2>2. LockedFrame = CommandFrame(frameSeq, job[lock])
      BY <1>3 DEF LockedFrame
    <2> QED
      BY <1>1, <1>3, <2>1, <2>2 DEF CommandFrame, Frame, Numbered
  <1> QED
    BY <1>2, <1>3

----
(* Types, and what the threads hold. *)
Typed == TypeOK /\ ThreadsReady

LEMMA InitTyped == Init => Typed
  <1> SUFFICES ASSUME Init PROVE Typed
    OBVIOUS
  <1>1. Prelude \in Seq(Frame)
    <2>1. \A i \in 1 .. 3 : Prelude[i] \in Frame
      BY DEF Frame
    <2> QED
      BY <2>1 DEF Prelude
  <1>2. /\ pc \in [Dispatchers -> {"idle", "waiting", "detaching"}]
        /\ job \in [Dispatchers -> Command \cup {NONE}]
    BY DEF Init
  <1>3. /\ lock \in Writers \cup {NONE} /\ frameSeq \in 0 .. MaxSeq - 1 \cup {NONE}
        /\ nextSeq \in 0 .. MaxSeq /\ expected \in 0 .. MaxSeq /\ executed \in Nat
    BY LinkAssumption DEF Init
  <1>4. sent \in Seq(Command) /\ chan \in Seq(Frame) /\ held \subseteq Keys
    BY <1>1 DEF Init
  <1>5. TypeOK
    BY <1>2, <1>3, <1>4 DEF Init, TypeOK
  <1>6. ThreadsReady
    BY LinkAssumption DEF Init, ThreadsReady, Dispatchers
  <1> QED
    BY <1>5, <1>6 DEF Typed

(* A thread that holds the lock takes a number, or is refused one. *)
LEMMA TakesNumber ==
    ASSUME Typed, NEW w \in Writers, lock = NONE, TakeSequence(w),
           w # "heartbeat" => pc[w] = "waiting",
           UNCHANGED <<attached, sent, conn, chan, receiverVars>>
    PROVE  Typed'
  <1>1. w # NONE
    BY LinkAssumption DEF Writers, Dispatchers
  <1>2. CASE nextSeq = MaxSeq
    <2>1. Refused(w)
      BY <1>2 DEF TakeSequence
    <2>2. /\ pc' \in [Dispatchers -> {"idle", "waiting", "detaching"}]
          /\ job' \in [Dispatchers -> Command \cup {NONE}]
          /\ lock' = NONE /\ frameSeq' = NONE /\ beating' \in BOOLEAN /\ UNCHANGED nextSeq
      BY <2>1 DEF Typed, TypeOK, Refused, Unlock, AfterWrite, Dispatchers, Writers
    <2>3. \A v \in Dispatchers : pc'[v] = "waiting" => job'[v] \in Command
      BY <2>1 DEF Typed, TypeOK, ThreadsReady, Refused, AfterWrite, Dispatchers, Writers
    <2>4. ThreadsReady'
      BY <1>1, <2>2, <2>3, LinkAssumption DEF ThreadsReady, Dispatchers
    <2> QED
      BY <2>2, <2>4 DEF Typed, TypeOK, receiverVars
  <1>3. CASE nextSeq # MaxSeq
    <2>1. /\ lock' = w /\ nextSeq' = nextSeq + 1 /\ frameSeq' = nextSeq
          /\ UNCHANGED <<pc, job, beating>>
      BY <1>3 DEF TakeSequence
    <2>2. nextSeq \in 0 .. MaxSeq - 1 /\ nextSeq + 1 \in 0 .. MaxSeq
      BY <1>3, LinkAssumption DEF Typed, TypeOK
    <2> QED
      BY <1>1, <2>1, <2>2 DEF Typed, TypeOK, ThreadsReady, receiverVars, Dispatchers, Writers
  <1> QED
    BY <1>2, <1>3

(* The lock holder is done with the stream. *)
LEMMA LeavesLock ==
    ASSUME Typed, lock # NONE, NEW ok \in BOOLEAN, Unlock, AfterWrite(lock, ok)
    PROVE  /\ pc' \in [Dispatchers -> {"idle", "waiting", "detaching"}]
           /\ job' \in [Dispatchers -> Command \cup {NONE}]
           /\ lock' = NONE /\ frameSeq' = NONE
           /\ beating' \in BOOLEAN
           /\ \A w \in Dispatchers : pc'[w] = "waiting" => job'[w] \in Command
  BY DEF Typed, TypeOK, ThreadsReady, Unlock, AfterWrite, Dispatchers, Writers

(* Every way out of the receiver's loop. *)
LEMMA EndSessionTyped ==
    ASSUME Typed, EndSession
    PROVE  /\ stage' = "ended"
           /\ UNCHANGED <<expected, guard, executed>>
           /\ held' \subseteq held
           /\ releaseFailed' \in BOOLEAN
           /\ guard => held' = {} \/ releaseFailed'
           /\ ~guard => held' = held /\ releaseFailed' = releaseFailed
  BY DEF Typed, TypeOK, EndSession, ReleaseAll

LEMMA ExecuteTyped ==
    ASSUME Typed, NEW frame \in Frame, frame.kind = "command", frame.seq = expected,
           ExecuteCommand(frame)
    PROVE  /\ UNCHANGED stage
           /\ held' \subseteq Keys
           /\ guard' \in BOOLEAN
           /\ expected' = expected + 1 /\ expected' \in 0 .. MaxSeq
           /\ executed' = executed + 1
           /\ releaseFailed' \in BOOLEAN
  <1>1. frame.command \in Command /\ frame.seq \in 0 .. MaxSeq - 1
    BY FrameForms DEF Numbered
  <1>2. held' \subseteq Keys
    BY <1>1, CommandForms DEF ExecuteCommand, Execute, Typed, TypeOK
  <1>3. guard' \in BOOLEAN
    BY <1>1, CommandForms DEF ExecuteCommand, UpdateGuard, Typed, TypeOK
  <1>4. releaseFailed' = FALSE \/ releaseFailed' = releaseFailed
    BY DEF ExecuteCommand
  <1>5. UNCHANGED stage /\ expected' = expected + 1 /\ executed' = executed + 1
    BY DEF ExecuteCommand
  <1>6. expected' \in 0 .. MaxSeq
    BY <1>1, <1>5, LinkAssumption
  <1>7. releaseFailed' \in BOOLEAN
    BY <1>4 DEF Typed, TypeOK
  <1> QED
    BY <1>2, <1>3, <1>5, <1>6, <1>7

LEMMA ReadTyped ==
    ASSUME Typed, chan # << >>
    PROVE  /\ Head(chan) \in Frame
           /\ Head(chan) = chan[1]
           /\ Tail(chan) \in Seq(Frame)
           /\ Len(Tail(chan)) = Len(chan) - 1
           /\ \A i \in 1 .. Len(chan) - 1 : Tail(chan)[i] = chan[i + 1]
           /\ Len(chan) \in Nat \ {0}
  BY HeadTailProperties, EmptySeq, LenProperties DEF Typed, TypeOK

LEMMA NextTyped == Typed /\ [Next]_vars => Typed'
  <1> SUFFICES ASSUME Typed, [Next]_vars PROVE Typed'
    OBVIOUS
  <1> USE DEF senderVars, receiverVars
  <1>1. ASSUME NEW w \in Dispatchers, NEW c \in Command, Dispatch(w, c) PROVE Typed'
    <2>1. /\ pc[w] = "idle"
          /\ pc' = [pc EXCEPT ![w] = "waiting"] \/ pc' = [pc EXCEPT ![w] = "detaching"]
          /\ pc'[w] = "waiting" => job' = [job EXCEPT ![w] = c]
          /\ job' = job \/ job' = [job EXCEPT ![w] = c]
          /\ UNCHANGED <<lock, nextSeq, frameSeq, attached, beating, sent, conn, chan, receiverVars>>
      BY <1>1 DEF Dispatch, Typed, TypeOK
    <2>2. /\ pc \in [Dispatchers -> {"idle", "waiting", "detaching"}]
          /\ job \in [Dispatchers -> Command \cup {NONE}]
      BY DEF Typed, TypeOK
    <2>3. /\ pc' \in [Dispatchers -> {"idle", "waiting", "detaching"}]
          /\ job' \in [Dispatchers -> Command \cup {NONE}]
          /\ \A v \in Dispatchers \ {w} : pc'[v] = pc[v] /\ job'[v] = job[v]
          /\ pc'[w] = "waiting" => job'[w] \in Command
      BY <2>1, <2>2
    <2>4. lock # w
      BY <2>1 DEF Typed, ThreadsReady
    <2>5. ThreadsReady'
      BY <2>1, <2>3, <2>4 DEF Typed, ThreadsReady
    <2> QED
      BY <2>1, <2>3, <2>5 DEF Typed, TypeOK
  <1>2. ASSUME NEW w \in Dispatchers, LockStream(w) PROVE Typed'
    BY <1>2, TakesNumber DEF LockStream, Writers
  <1>3. ASSUME NEW w \in Dispatchers, Detach(w) PROVE Typed'
    <2>1. /\ pc[w] = "detaching" /\ pc' = [pc EXCEPT ![w] = "idle"] /\ attached' = FALSE
          /\ UNCHANGED <<job, lock, nextSeq, frameSeq, beating, sent, conn, chan, receiverVars>>
      BY <1>3 DEF Detach
    <2>2. /\ pc' \in [Dispatchers -> {"idle", "waiting", "detaching"}]
          /\ pc'[w] = "idle" /\ \A v \in Dispatchers \ {w} : pc'[v] = pc[v]
      BY <2>1 DEF Typed, TypeOK
    <2>3. lock # w
      BY <2>1 DEF Typed, ThreadsReady
    <2>4. ThreadsReady'
      BY <2>1, <2>2, <2>3 DEF Typed, ThreadsReady
    <2> QED
      BY <2>1, <2>2, <2>4 DEF Typed, TypeOK
  <1>4. CASE Beat
    BY <1>4, TakesNumber DEF Beat, Writers
  <1>5. CASE Write
    <2>1. /\ lock # NONE /\ Unlock /\ AfterWrite(lock, TRUE)
          /\ UNCHANGED <<nextSeq, attached, conn, receiverVars>>
          /\ chan' = chan \/ chan' = Append(chan, LockedFrame)
          /\ sent' = IF lock = "heartbeat" THEN sent ELSE Append(sent, job[lock])
      BY <1>5 DEF Write
    <2>2. LockedFrame \in Frame /\ (lock # "heartbeat" => job[lock] \in Command)
      BY <2>1, LockedFrameProps DEF Typed
    <2>3. chan' \in Seq(Frame) /\ sent' \in Seq(Command)
      <3>1. chan \in Seq(Frame) /\ sent \in Seq(Command)
        BY DEF Typed, TypeOK
      <3>2. chan' \in Seq(Frame)
        BY <2>1, <2>2, <3>1
      <3>3. sent' \in Seq(Command)
        BY <2>1, <2>2, <3>1
      <3> QED
        BY <3>2, <3>3
    <2> QED
      <3>1. /\ pc' \in [Dispatchers -> {"idle", "waiting", "detaching"}]
            /\ job' \in [Dispatchers -> Command \cup {NONE}]
            /\ lock' = NONE /\ frameSeq' = NONE /\ beating' \in BOOLEAN
            /\ \A w \in Dispatchers : pc'[w] = "waiting" => job'[w] \in Command
        BY <2>1, LeavesLock
      <3>2. ThreadsReady'
        BY <3>1, LinkAssumption DEF ThreadsReady, Dispatchers
      <3> QED
        BY <2>1, <2>3, <3>1, <3>2 DEF Typed, TypeOK
  <1>6. CASE WriteFails
    <2>1. /\ lock # NONE /\ Unlock /\ AfterWrite(lock, FALSE)
          /\ UNCHANGED <<nextSeq, attached, sent, conn, chan, receiverVars>>
      BY <1>6 DEF WriteFails
    <2> QED
      <3>1. /\ pc' \in [Dispatchers -> {"idle", "waiting", "detaching"}]
            /\ job' \in [Dispatchers -> Command \cup {NONE}]
            /\ lock' = NONE /\ frameSeq' = NONE /\ beating' \in BOOLEAN
            /\ \A w \in Dispatchers : pc'[w] = "waiting" => job'[w] \in Command
        BY <2>1, LeavesLock
      <3>2. ThreadsReady'
        BY <3>1, LinkAssumption DEF ThreadsReady, Dispatchers
      <3> QED
        BY <2>1, <3>1, <3>2 DEF Typed, TypeOK
  <1>7. CASE Disconnect \/ StopHeartbeat \/ Close
    <2>1. CASE Disconnect
      BY <2>1 DEF Typed, TypeOK, ThreadsReady, Disconnect
    <2>2. CASE StopHeartbeat
      BY <2>2 DEF Typed, TypeOK, ThreadsReady, StopHeartbeat
    <2>3. CASE Close
      BY <2>3 DEF Typed, TypeOK, ThreadsReady, Close
    <2> QED
      BY <1>7, <2>1, <2>2, <2>3
  <1>8. CASE SenderCrash
    <2>1. Torn \in Frame
      BY DEF Frame
    <2>2. chan' \in Seq(Frame)
      <3>1. chan \in Seq(Frame)
        BY DEF Typed, TypeOK
      <3>2. chan' = chan \/ chan' = Append(chan, Torn)
        BY <1>8 DEF SenderCrash
      <3> QED
        BY <2>1, <3>1, <3>2
    <2>3. /\ pc' \in [Dispatchers -> {"idle", "waiting", "detaching"}]
          /\ job' \in [Dispatchers -> Command \cup {NONE}]
          /\ \A w \in Dispatchers : pc'[w] # "waiting"
      BY <1>8 DEF SenderCrash
    <2>4. /\ lock' = NONE /\ frameSeq' = NONE /\ NONE \notin Dispatchers
          /\ attached' = FALSE /\ beating' = FALSE /\ conn' = "closed"
          /\ UNCHANGED <<nextSeq, sent, receiverVars>>
      BY <1>8, LinkAssumption DEF SenderCrash, Unlock, Dispatchers
    <2>5. ThreadsReady'
      BY <2>3, <2>4 DEF ThreadsReady
    <2> QED
      BY <2>2, <2>3, <2>4, <2>5 DEF Typed, TypeOK
  <1>9. CASE Reset
    BY <1>9 DEF Typed, TypeOK, ThreadsReady, Reset
  <1>10. CASE ReadPrelude
    <2>1. /\ chan # << >> /\ chan' = Tail(chan) /\ UNCHANGED <<senderVars, conn>>
          /\ \/ stage' = NextStage[stage] /\ stage \in DOMAIN NextStage
                /\ UNCHANGED <<expected, guard, held, releaseFailed, executed>>
             \/ EndSession
      BY <1>10 DEF ReadPrelude
    <2>2. stage \in DOMAIN NextStage => NextStage[stage] \in {"authProof", "sessionReady", "frames"}
      BY DEF NextStage
    <2> QED
      BY <2>1, <2>2, ReadTyped, EndSessionTyped DEF Typed, TypeOK, ThreadsReady
  <1>11. CASE ReadFrame
    <2>1. chan # << >> /\ chan' = Tail(chan) /\ UNCHANGED <<senderVars, conn>>
      BY <1>11 DEF ReadFrame
    <2> DEFINE frame == Head(chan)
    <2>2. frame \in Frame /\ chan' \in Seq(Frame)
      BY <2>1, ReadTyped
    <2>3. CASE frame.kind = "command" /\ frame.seq = expected /\ ExecuteCommand(frame)
      BY <2>1, <2>2, <2>3, ExecuteTyped DEF Typed, TypeOK, ThreadsReady
    <2>4. CASE /\ frame.kind = "heartbeat" /\ frame.seq = expected /\ expected' = expected + 1
               /\ UNCHANGED <<stage, guard, held, releaseFailed, executed>>
      <3>1. expected' \in 0 .. MaxSeq
        BY <2>2, <2>4, FrameForms, LinkAssumption DEF Numbered
      <3> QED
        BY <2>1, <2>2, <2>4, <3>1 DEF Typed, TypeOK, ThreadsReady
    <2>5. CASE EndSession
      BY <2>1, <2>2, <2>5, EndSessionTyped DEF Typed, TypeOK, ThreadsReady
    <2> QED
      BY <1>11, <2>3, <2>4, <2>5 DEF ReadFrame, CommandFails
  <1>12. CASE ReadTimeout \/ ReadClosed
    BY <1>12, EndSessionTyped DEF Typed, TypeOK, ThreadsReady, ReadTimeout, ReadClosed
  <1>13. CASE UNCHANGED vars
    BY <1>13 DEF vars, Typed, TypeOK, ThreadsReady
  <1> QED
    BY <1>1, <1>2, <1>3, <1>4, <1>5, <1>6, <1>7, <1>8, <1>9, <1>10, <1>11, <1>12, <1>13 DEF Next

----
(* Releasing what is down. *)
Released == GuardCoversHeld /\ EndedMeansReleased

LEMMA EndSessionReleases ==
    ASSUME Typed, Released, stage # "ended", EndSession
    PROVE  Released'
  BY EndSessionTyped DEF Typed, TypeOK, Released, GuardCoversHeld, EndedMeansReleased

(* The steps of the sending process and of the connection. *)
SenderStep ==
    \/ \E w \in Dispatchers, c \in Command : Dispatch(w, c)
    \/ \E w \in Dispatchers : LockStream(w)
    \/ \E w \in Dispatchers : Detach(w)
    \/ Beat \/ Write \/ WriteFails \/ Disconnect \/ StopHeartbeat \/ Close \/ SenderCrash \/ Reset

LEMMA SenderLeavesReceiver == SenderStep => UNCHANGED receiverVars
  <1>1. ASSUME NEW w \in Dispatchers, NEW c \in Command, Dispatch(w, c)
        PROVE  UNCHANGED receiverVars
    BY <1>1 DEF Dispatch
  <1>2. ASSUME NEW w \in Dispatchers, LockStream(w) \/ Detach(w) PROVE UNCHANGED receiverVars
    BY <1>2 DEF LockStream, Detach
  <1>3. ASSUME Beat \/ Write \/ WriteFails \/ Disconnect \/ StopHeartbeat \/ Close
               \/ SenderCrash \/ Reset
        PROVE  UNCHANGED receiverVars
    BY <1>3 DEF Beat, Write, WriteFails, Disconnect, StopHeartbeat, Close, SenderCrash, Reset
  <1> QED
    BY <1>1, <1>2, <1>3 DEF SenderStep

LEMMA StepForms ==
    [Next]_vars =>
        SenderStep \/ ReadPrelude \/ ReadFrame \/ ReadTimeout \/ ReadClosed \/ UNCHANGED vars
  BY DEF Next, SenderStep

LEMMA NextReleased == Typed /\ Released /\ [Next]_vars => Released'
  <1> SUFFICES ASSUME Typed, Released, [Next]_vars PROVE Released'
    OBVIOUS
  <1>1. ASSUME UNCHANGED receiverVars PROVE Released'
    BY <1>1 DEF receiverVars, Released, GuardCoversHeld, EndedMeansReleased
  <1>2. CASE ReadPrelude
    <2>1. CASE /\ stage \in DOMAIN NextStage /\ stage' = NextStage[stage]
               /\ UNCHANGED <<expected, guard, held, releaseFailed, executed>>
      <3>1. stage # "ended" /\ stage' # "ended"
        BY <2>1 DEF NextStage
      <3> QED
        BY <2>1, <3>1 DEF Released, GuardCoversHeld, EndedMeansReleased
    <2>2. CASE stage \in DOMAIN NextStage /\ EndSession
      <3>1. stage # "ended"
        BY <2>2 DEF NextStage
      <3> QED
        BY <2>2, <3>1, EndSessionReleases
    <2> QED
      BY <1>2, <2>1, <2>2 DEF ReadPrelude
  <1>3. CASE ReadFrame
    <2>1. stage = "frames" /\ Head(chan) \in Frame
      BY <1>3, ReadTyped DEF ReadFrame
    <2> DEFINE frame == Head(chan)
               c == frame.command
    <2>2. CASE frame.kind = "command" /\ frame.seq = expected /\ ExecuteCommand(frame)
      <3>1. c \in Command /\ stage' = "frames"
        BY <2>1, <2>2, FrameForms DEF ExecuteCommand
      <3>2. c.name \in {"StartRemoteSession", "ForwardInput"} => guard' = TRUE
        BY <2>2 DEF ExecuteCommand, UpdateGuard
      <3>3. c.name = "ReleaseAllInputs" => held' = {}
        BY <2>2 DEF ExecuteCommand, Execute
      <3>4. c.name = "StopRemoteSession" => held' = held /\ guard' = guard
        BY <2>2 DEF ExecuteCommand, UpdateGuard, Execute
      <3> QED
        BY <2>1, <3>1, <3>2, <3>3, <3>4, CommandForms
           DEF Released, GuardCoversHeld, EndedMeansReleased
    <2>3. CASE UNCHANGED <<stage, guard, held, releaseFailed, executed>>
      BY <2>3 DEF Released, GuardCoversHeld, EndedMeansReleased
    <2>4. CASE EndSession
      BY <2>1, <2>4, EndSessionReleases
    <2> QED
      BY <1>3, <2>2, <2>3, <2>4 DEF ReadFrame, CommandFails
  <1>4. CASE ReadTimeout \/ ReadClosed
    BY <1>4, EndSessionReleases DEF ReadTimeout, ReadClosed
  <1>5. CASE UNCHANGED vars
    BY <1>1, <1>5 DEF vars
  <1> QED
    BY <1>1, <1>2, <1>3, <1>4, <1>5, SenderLeavesReceiver, StepForms

----
(* What is on the wire. *)

LEMMA PreludeLeftValues ==
    /\ stage = "hello" => PreludeLeft = 3
    /\ stage = "authProof" => PreludeLeft = 2
    /\ stage = "sessionReady" => PreludeLeft = 1
    /\ stage \in {"frames", "ended"} => PreludeLeft = 0
  BY DEF PreludeLeft

NextNumber == IF lock = NONE THEN nextSeq ELSE frameSeq

(* A step that neither writes nor reads. *)
LEMMA WireKept ==
    ASSUME WireInOrder, UNCHANGED <<chan, stage, expected>>,
           conn' = conn \/ (conn = "up" /\ conn' = "closed"),
           conn' = "up" => NextNumber' = NextNumber
    PROVE  WireInOrder'
  <1>1. PreludeLeft' = PreludeLeft
    BY DEF PreludeLeft
  <1>2. \A i : OnTheWire(i) => OnTheWire(i)'
    BY <1>1 DEF OnTheWire, Numbered
  <1> QED
    BY <1>1, <1>2 DEF WireInOrder, NextNumber

(* A frame is written after the others. *)
LEMMA WireAppended ==
    ASSUME Typed, WireInOrder, UNCHANGED <<stage, expected>>, stage # "ended", conn = "up",
           NEW f \in Frame, chan' = Append(chan, f),
           \/ conn' = "closed" /\ f = Torn
           \/ /\ conn' = "up" /\ Numbered(f) /\ f.seq = NextNumber
              /\ NextNumber' = NextNumber + 1
    PROVE  WireInOrder'
  <1>1. /\ PreludeLeft' = PreludeLeft /\ PreludeLeft \in 0 .. 3
    BY PreludeLeftValues DEF PreludeLeft, Typed, TypeOK
  <1>2. /\ Len(chan) \in Nat /\ chan' \in Seq(Frame)
        /\ Len(chan') = Len(chan) + 1
        /\ \A i \in 1 .. Len(chan) : chan'[i] = chan[i]
        /\ chan'[Len(chan) + 1] = f
    BY AppendProperties, LenProperties DEF Typed, TypeOK
  <1>3. PreludeLeft <= Len(chan) /\ \A i \in 1 .. Len(chan) : OnTheWire(i)
    BY DEF WireInOrder
  <1>4. ASSUME NEW i \in 1 .. Len(chan) PROVE OnTheWire(i)'
    <2>1. \/ i <= PreludeLeft /\ chan[i] = Prelude[3 - PreludeLeft + i]
          \/ /\ i > PreludeLeft /\ Numbered(chan[i])
             /\ chan[i].seq = expected + (i - PreludeLeft - 1)
      BY <1>3 DEF OnTheWire
    <2>2. chan'[i] = chan[i]
      BY <1>2
    <2> QED
      BY <1>1, <2>1, <2>2 DEF OnTheWire, Numbered
  <1>5. NextNumber = expected + (Len(chan) - PreludeLeft) /\ expected \in Nat
    BY LinkAssumption DEF WireInOrder, NextNumber, Typed, TypeOK
  <1>6. Len(chan) + 1 > PreludeLeft
    BY <1>1, <1>2, <1>3
  <1>7. ASSUME NEW n \in Nat, n = Len(chan) + 1 PROVE OnTheWire(n)'
    <2>1. CASE conn' = "closed" /\ f = Torn
      BY <1>1, <1>2, <1>6, <1>7, <2>1 DEF OnTheWire
    <2>2. CASE Numbered(f) /\ f.seq = NextNumber
      <3>1. f.seq = expected' + (n - PreludeLeft' - 1)
        BY <1>1, <1>2, <1>5, <1>7, <2>2
      <3> QED
        BY <1>1, <1>2, <1>6, <1>7, <2>2, <3>1 DEF OnTheWire, Numbered
    <2> QED
      BY <2>1, <2>2
  <1>8. conn' = "up" => NextNumber' = expected' + (Len(chan') - PreludeLeft')
    BY <1>1, <1>2, <1>5, <1>6
  <1>9. PreludeLeft' <= Len(chan')
    BY <1>1, <1>2, <1>6
  <1>10. \A i \in 1 .. Len(chan') : OnTheWire(i)'
    <2> SUFFICES ASSUME NEW i \in 1 .. Len(chan') PROVE OnTheWire(i)'
      OBVIOUS
    <2>1. CASE i \in 1 .. Len(chan)
      BY <1>4, <2>1
    <2>2. CASE i \notin 1 .. Len(chan)
      <3>1. i \in Nat /\ i = Len(chan) + 1
        BY <1>2, <2>2
      <3> QED
        BY <1>7, <3>1
    <2> QED
      BY <2>1, <2>2
  <1> QED
    BY <1>8, <1>9, <1>10 DEF WireInOrder, NextNumber

LEMMA SenderWire == Typed /\ WireInOrder /\ SenderStep => WireInOrder'
  <1> SUFFICES ASSUME Typed, WireInOrder, SenderStep, stage # "ended" PROVE WireInOrder'
    BY SenderLeavesReceiver DEF receiverVars, WireInOrder
  <1> USE DEF senderVars
  <1>1. UNCHANGED <<stage, expected>>
    BY SenderLeavesReceiver DEF receiverVars
  <1>2. ASSUME NEW w \in Dispatchers, NEW c \in Command, Dispatch(w, c) PROVE WireInOrder'
    BY <1>1, <1>2, WireKept DEF Dispatch, NextNumber
  <1>3. ASSUME NEW w \in Writers, lock = NONE, TakeSequence(w), UNCHANGED <<conn, chan>>
        PROVE  WireInOrder'
    <2>1. NextNumber' = NextNumber
      BY <1>3, LinkAssumption
         DEF TakeSequence, Refused, Unlock, NextNumber, Writers, Dispatchers
    <2> QED
      BY <1>1, <1>3, <2>1, WireKept
  <1>4. ASSUME NEW w \in Dispatchers, LockStream(w) PROVE WireInOrder'
    BY <1>3, <1>4 DEF LockStream, Writers
  <1>5. ASSUME NEW w \in Dispatchers, Detach(w) PROVE WireInOrder'
    BY <1>1, <1>5, WireKept DEF Detach, NextNumber
  <1>6. CASE Beat
    BY <1>3, <1>6 DEF Beat, Writers
  <1>7. CASE Write
    <2>1. /\ lock # NONE /\ conn = "up" /\ conn' = "up" /\ lock' = NONE /\ nextSeq' = nextSeq
          /\ chan' = Append(chan, LockedFrame)
      BY <1>7 DEF Write, Unlock
    <2>2. LockedFrame \in Frame /\ Numbered(LockedFrame) /\ LockedFrame.seq = NextNumber
      BY <2>1, LockedFrameProps DEF Typed, NextNumber
    <2>3. NextNumber' = NextNumber + 1
      BY <2>1 DEF NextNumber, Typed, ThreadsReady
    <2> QED
      BY <1>1, <2>1, <2>2, <2>3, WireAppended
  <1>8. CASE WriteFails
    BY <1>1, <1>8, WireKept DEF WriteFails
  <1>9. CASE Disconnect \/ StopHeartbeat
    BY <1>1, <1>9, WireKept DEF Disconnect, StopHeartbeat, NextNumber
  <1>10. CASE Close
    BY <1>1, <1>10, WireKept DEF Close
  <1>11. CASE SenderCrash
    <2>1. conn = "up" /\ conn' = "closed" /\ (chan' = chan \/ chan' = Append(chan, Torn))
      BY <1>11 DEF SenderCrash
    <2>2. Torn \in Frame
      BY DEF Frame
    <2>3. CASE chan' = chan
      BY <1>1, <2>1, <2>3, WireKept
    <2>4. CASE chan' = Append(chan, Torn)
      BY <1>1, <2>1, <2>2, <2>4, WireAppended
    <2> QED
      BY <2>1, <2>3, <2>4
  <1>12. CASE Reset
    BY <1>12 DEF Reset, WireInOrder
  <1> QED
    BY <1>2, <1>4, <1>5, <1>6, <1>7, <1>8, <1>9, <1>10, <1>11, <1>12 DEF SenderStep

(* The receiver takes a frame from the wire and goes on. *)
LEMMA WireRead ==
    ASSUME Typed, WireInOrder, stage # "ended", chan # << >>, chan' = Tail(chan),
           UNCHANGED <<conn, lock, nextSeq, frameSeq>>,
           NEW p \in 0 .. 3, PreludeLeft = p, NEW q \in 0 .. 3, PreludeLeft' = q,
           p = q + 1 \/ (p = 0 /\ q = 0), expected' = expected + (q + 1 - p)
    PROVE  WireInOrder'
  <1>1. /\ Len(chan) \in Nat \ {0} /\ Len(chan') = Len(chan) - 1 /\ expected \in Nat
        /\ \A i \in 1 .. Len(chan) - 1 : chan'[i] = chan[i + 1]
    BY ReadTyped, LinkAssumption DEF Typed, TypeOK
  <1>2. /\ conn # "reset"
        /\ p <= Len(chan) /\ \A i \in 1 .. Len(chan) : OnTheWire(i)
        /\ conn = "up" => NextNumber = expected + (Len(chan) - p)
    BY DEF WireInOrder, NextNumber
  <1>3. ASSUME NEW i \in 1 .. Len(chan') PROVE OnTheWire(i)'
    <2>1. i \in Nat /\ i >= 1 /\ i + 1 \in 1 .. Len(chan) /\ i \in 1 .. Len(chan) - 1
      BY <1>1
    <2>2. chan'[i] = chan[i + 1] /\ OnTheWire(i + 1)
      BY <1>1, <1>2, <2>1
    <2>3. CASE i + 1 <= p /\ chan[i + 1] = Prelude[3 - p + (i + 1)]
      <3>1. i <= q /\ 3 - q + i = 3 - p + (i + 1)
        BY <2>1, <2>3
      <3>2. chan'[i] = Prelude[3 - q + i]
        BY <2>2, <2>3, <3>1
      <3> QED
        BY <3>1, <3>2 DEF OnTheWire
    <2>4. CASE /\ i + 1 > p /\ Numbered(chan[i + 1])
               /\ chan[i + 1].seq = expected + (i + 1 - p - 1)
      <3>1. i > q /\ chan[i + 1].seq = expected' + (i - q - 1)
        BY <1>1, <2>1, <2>4
      <3>2. chan'[i] = chan[i + 1]
        BY <2>2
      <3>3. Numbered(chan'[i]) /\ chan'[i].seq = expected' + (i - q - 1)
        BY <2>4, <3>1, <3>2 DEF Numbered
      <3> QED
        BY <3>1, <3>3 DEF OnTheWire, Numbered
    <2>5. CASE /\ i + 1 > p /\ chan[i + 1] = Torn
               /\ i + 1 = Len(chan) /\ conn = "closed"
      <3>1. i + 1 > p /\ Len(chan) = i + 1
        BY <2>5
      <3>2. i = Len(chan')
        BY <1>1, <2>1, <3>1, SMTT(30)
      <3>3. i > q
        BY <2>1, <3>1
      <3>4. chan'[i] = Torn /\ conn' = "closed"
        BY <2>2, <2>5
      <3> QED
        BY <3>2, <3>3, <3>4 DEF OnTheWire
    <2> QED
      BY <2>2, <2>3, <2>4, <2>5 DEF OnTheWire
  <1>4. q <= Len(chan')
    BY <1>1, <1>2
  <1>5. conn' = "up" => NextNumber' = expected' + (Len(chan') - q)
    <2>1. NextNumber' = NextNumber
      BY DEF NextNumber
    <2>2. expected + (Len(chan) - p) = expected' + (Len(chan') - q)
      BY <1>1
    <2> QED
      BY <1>2, <2>1, <2>2
  <1> QED
    BY <1>2, <1>3, <1>4, <1>5 DEF WireInOrder, NextNumber

LEMMA NextWire == Typed /\ WireInOrder /\ [Next]_vars => WireInOrder'
  <1> SUFFICES ASSUME Typed, WireInOrder, [Next]_vars PROVE WireInOrder'
    OBVIOUS
  <1> USE DEF senderVars
  <1>1. CASE stage' = "ended"
    BY <1>1 DEF WireInOrder
  <1>2. ASSUME EndSession PROVE WireInOrder'
    BY <1>1, <1>2 DEF EndSession
  <1>3. CASE ReadPrelude
    <2>1. CASE stage' = NextStage[stage] /\ stage \in DOMAIN NextStage /\ UNCHANGED expected
      <3>1. PICK p \in 0 .. 3, q \in 0 .. 3 :
                stage # "ended" /\ PreludeLeft = p /\ PreludeLeft' = q /\ p = q + 1
        BY <2>1 DEF NextStage, PreludeLeft
      <3>2. expected' = expected + (q + 1 - p)
        BY <2>1, <3>1, LinkAssumption DEF Typed, TypeOK
      <3> QED
        BY <1>3, <2>1, <3>1, <3>2, WireRead DEF ReadPrelude
    <2> QED
      BY <1>2, <1>3, <2>1 DEF ReadPrelude
  <1>4. CASE ReadFrame
    <2>1. CASE expected' = expected + 1 /\ stage' = stage
      <3>1. stage = "frames" /\ PreludeLeft = 0 /\ PreludeLeft' = 0
        BY <1>4, <2>1 DEF ReadFrame, PreludeLeft
      <3> QED
        BY <1>4, <2>1, <3>1, WireRead DEF ReadFrame
    <2> QED
      BY <1>2, <1>4, <2>1 DEF ReadFrame, ExecuteCommand, CommandFails
  <1>5. CASE ReadTimeout \/ ReadClosed
    BY <1>2, <1>5 DEF ReadTimeout, ReadClosed
  <1>6. CASE UNCHANGED vars
    BY <1>6, WireKept DEF vars, receiverVars, NextNumber
  <1> QED
    BY <1>3, <1>4, <1>5, <1>6, SenderWire, StepForms

----
(* The frames on the wire carry the commands sent and not yet executed. *)

LEMMA CarriesKept ==
    ASSUME WireCarriesSent, UNCHANGED <<chan, sent, executed, stage>>,
           conn' = "up" => conn = "up"
    PROVE  WireCarriesSent'
  <1> SUFFICES ASSUME stage # "ended"
               PROVE  \E at \in [0 .. Len(chan) -> 0 .. Len(sent)] : Carries(at)'
    BY DEF WireCarriesSent
  <1>1. PICK at \in [0 .. Len(chan) -> 0 .. Len(sent)] : Carries(at)
    BY DEF WireCarriesSent
  <1>2. Carries(at)'
    BY <1>1 DEF Carries
  <1> QED
    BY <1>2

LEMMA CarriesAppended ==
    ASSUME Typed, WireCarriesSent, stage # "ended", UNCHANGED <<stage, executed>>,
           NEW f \in Frame, chan' = Append(chan, f), conn' = "up" => conn = "up",
           \/ f.kind # "command" /\ sent' = sent
           \/ f.kind = "command" /\ sent' = Append(sent, f.command) /\ conn = "up"
    PROVE  WireCarriesSent'
  <1>1. PICK at \in [0 .. Len(chan) -> 0 .. Len(sent)] : Carries(at)
    BY DEF WireCarriesSent
  <1>2. /\ Len(chan) \in Nat /\ Len(chan') = Len(chan) + 1
        /\ \A i \in 1 .. Len(chan) : chan'[i] = chan[i]
        /\ chan'[Len(chan) + 1] = f
    BY AppendProperties, LenProperties DEF Typed, TypeOK
  <1>3. PICK m \in Nat : m = Len(chan)
    BY <1>2
  <1>4. PICK n \in Nat : n = Len(sent)
    BY LenProperties DEF Typed, TypeOK
  <1>5. PICK last \in 0 .. n + 1 :
            /\ f.kind # "command" => last = at[m] /\ last <= n
            /\ f.kind = "command" => last = n + 1
    BY <1>1, <1>3, <1>4
  <1> DEFINE new == [i \in 0 .. m + 1 |-> IF i <= m THEN at[i] ELSE last]
  <1>6. /\ f.kind = "command" => Len(sent') = n + 1 /\ sent'[n + 1] = f.command
        /\ f.kind # "command" => Len(sent') = n
        /\ \A i \in 1 .. n : sent'[i] = sent[i]
    <2>1. CASE f.kind = "command"
      <3>1. f.command \in Command /\ sent \in Seq(Command)
        BY <2>1, FrameForms DEF Typed, TypeOK
      <3> QED
        BY <1>4, <2>1, <3>1, AppendProperties
    <2>2. CASE f.kind # "command"
      BY <1>4, <2>2
    <2> QED
      BY <2>1, <2>2
  <1>7. at \in [0 .. m -> 0 .. n]
    BY <1>1, <1>3, <1>4
  <1>8. new \in [0 .. m + 1 -> 0 .. Len(sent')]
    <2>1. CASE f.kind = "command"
      BY <1>5, <1>6, <1>7, <2>1
    <2>2. CASE f.kind # "command"
      BY <1>5, <1>6, <1>7, <2>2
    <2> QED
      BY <2>1, <2>2
  <1>9. new[0] = executed'
    BY <1>1, <1>3 DEF Carries
  <1>10. ASSUME NEW i \in 1 .. m + 1
         PROVE  IF chan'[i].kind = "command"
                THEN new[i] = new[i - 1] + 1 /\ sent'[new[i]] = chan'[i].command
                ELSE new[i] = new[i - 1]
    <2>1. CASE i \in 1 .. m
      <3>1. chan'[i] = chan[i] /\ i - 1 \in 0 .. m /\ i \in 0 .. m
        BY <1>2, <1>3, <2>1
      <3>2. new[i] = at[i] /\ new[i - 1] = at[i - 1] /\ at[i] \in 0 .. n /\ at[i - 1] \in 0 .. n
        BY <1>7, <3>1
      <3>3. IF chan[i].kind = "command"
            THEN at[i] = at[i - 1] + 1 /\ sent[at[i]] = chan[i].command
            ELSE at[i] = at[i - 1]
        BY <1>1, <1>3, <2>1 DEF Carries
      <3>4. chan[i].kind = "command" => at[i] \in 1 .. n
        BY <3>2, <3>3
      <3> HIDE DEF new
      <3> QED
        BY <1>6, <3>1, <3>2, <3>3, <3>4
    <2>2. CASE i = m + 1
      <3>1. new[i] = last /\ new[i - 1] = at[m] /\ chan'[i] = f
        BY <1>2, <1>3, <2>2
      <3>2. CASE f.kind = "command"
        <4>1. at[m] = n
          BY <1>1, <1>3, <1>4, <3>2 DEF Carries
        <4> HIDE DEF new
        <4> QED
          BY <1>5, <1>6, <3>1, <3>2, <4>1
      <3>3. CASE f.kind # "command"
        <4> HIDE DEF new
        <4> QED
          BY <1>5, <3>1, <3>3
      <3> QED
        BY <3>2, <3>3
    <2>3. i \in 1 .. m \/ i = m + 1
      OBVIOUS
    <2> HIDE DEF new
    <2> QED
      BY <2>1, <2>2, <2>3
  <1>11. conn' = "up" => new[m + 1] = Len(sent')
    <2>1. new[m + 1] = last
      OBVIOUS
    <2>2. conn = "up" => at[m] = n
      BY <1>1, <1>3, <1>4 DEF Carries
    <2> HIDE DEF new
    <2> QED
      BY <1>5, <1>6, <2>1, <2>2
  <1>12. Len(chan') = m + 1
    BY <1>2, <1>3
  <1> HIDE DEF new
  <1>13. \E a \in [0 .. Len(chan') -> 0 .. Len(sent')] : Carries(a)'
    <2>1. PICK a : a = new
      OBVIOUS
    <2>2. Carries(a)'
      BY <1>9, <1>10, <1>11, <1>12, <2>1 DEF Carries
    <2>3. a \in [0 .. Len(chan') -> 0 .. Len(sent')]
      BY <1>8, <1>12, <2>1
    <2> QED
      BY <2>2, <2>3
  <1> QED
    BY <1>13 DEF WireCarriesSent

(* The receiver takes a frame: the rest still carries what is left. *)
LEMMA CarriesRead ==
    ASSUME Typed, WireCarriesSent, stage # "ended", chan # << >>, chan' = Tail(chan),
           UNCHANGED <<conn, sent>>,
           chan[1].kind = "command" => executed' = executed + 1,
           chan[1].kind # "command" => executed' = executed
    PROVE  WireCarriesSent'
  <1>1. PICK at \in [0 .. Len(chan) -> 0 .. Len(sent)] : Carries(at)
    BY DEF WireCarriesSent
  <1>2. PICK m \in Nat : /\ Len(chan) = m + 1 /\ Len(chan') = m
                         /\ \A i \in 1 .. m : chan'[i] = chan[i + 1]
    <2>1. Len(chan) - 1 \in Nat
      BY ReadTyped
    <2> QED
      BY <2>1, ReadTyped
  <1> DEFINE new == [i \in 0 .. m |-> at[i + 1]]
  <1>3. at \in [0 .. m + 1 -> 0 .. Len(sent)]
    BY <1>1, <1>2
  <1>4. new \in [0 .. m -> 0 .. Len(sent')]
    BY <1>3
  <1>5. new[0] = executed'
    <2>1. new[0] = at[1] /\ at[0] = executed /\ executed \in Nat
      BY <1>1 DEF Carries, Typed, TypeOK
    <2>2. IF chan[1].kind = "command" THEN at[1] = at[0] + 1 ELSE at[1] = at[0]
      BY <1>1, <1>2 DEF Carries
    <2> HIDE DEF new
    <2> QED
      BY <2>1, <2>2
  <1>6. ASSUME NEW i \in 1 .. m
        PROVE  IF chan'[i].kind = "command"
               THEN new[i] = new[i - 1] + 1 /\ sent'[new[i]] = chan'[i].command
               ELSE new[i] = new[i - 1]
    <2>1. new[i] = at[i + 1] /\ new[i - 1] = at[i] /\ chan'[i] = chan[i + 1]
      BY <1>2
    <2>2. IF chan[i + 1].kind = "command"
          THEN at[i + 1] = at[i] + 1 /\ sent[at[i + 1]] = chan[i + 1].command
          ELSE at[i + 1] = at[i]
      <3>1. i + 1 \in 1 .. Len(chan) /\ i + 1 - 1 = i
        BY <1>2
      <3> QED
        BY <1>1, <3>1 DEF Carries
    <2> HIDE DEF new
    <2> QED
      BY <2>1, <2>2
  <1>7. conn' = "up" => new[m] = Len(sent')
    BY <1>1, <1>2 DEF Carries
  <1> HIDE DEF new
  <1>8. \E a \in [0 .. Len(chan') -> 0 .. Len(sent')] : Carries(a)'
    <2>1. PICK a : a = new
      OBVIOUS
    <2>2. Carries(a)'
      BY <1>2, <1>5, <1>6, <1>7, <2>1 DEF Carries
    <2> QED
      BY <1>2, <1>4, <2>1, <2>2
  <1> QED
    BY <1>8 DEF WireCarriesSent

LEMMA NextCarries == Typed /\ WireInOrder /\ WireCarriesSent /\ [Next]_vars => WireCarriesSent'
  <1> SUFFICES ASSUME Typed, WireInOrder, WireCarriesSent, [Next]_vars, stage' # "ended"
               PROVE  WireCarriesSent'
    BY DEF WireCarriesSent
  <1> USE DEF senderVars
  <1>1. CASE SenderStep
    <2>1. UNCHANGED <<stage, executed>> /\ stage # "ended"
      BY <1>1, SenderLeavesReceiver DEF receiverVars
    <2>2. CASE UNCHANGED <<chan, sent>> /\ (conn' = "up" => conn = "up")
      BY <2>1, <2>2, CarriesKept
    <2>3. ASSUME NEW w \in Dispatchers, NEW c \in Command, Dispatch(w, c) PROVE WireCarriesSent'
      BY <2>2, <2>3 DEF Dispatch
    <2>4. ASSUME NEW w \in Dispatchers, LockStream(w) \/ Detach(w) PROVE WireCarriesSent'
      BY <2>2, <2>4 DEF LockStream, Detach
    <2>5. CASE Beat \/ WriteFails \/ Disconnect \/ StopHeartbeat \/ Close
      BY <2>2, <2>5 DEF Beat, WriteFails, Disconnect, StopHeartbeat, Close
    <2>6. CASE Write
      <3>1. /\ lock # NONE /\ conn = "up" /\ chan' = Append(chan, LockedFrame)
            /\ sent' = IF lock = "heartbeat" THEN sent ELSE Append(sent, job[lock])
        BY <2>1, <2>6 DEF Write
      <3>2. LockedFrame \in Frame
        BY <3>1, LockedFrameProps DEF Typed
      <3>3. \/ LockedFrame.kind # "command" /\ sent' = sent
            \/ LockedFrame.kind = "command" /\ sent' = Append(sent, LockedFrame.command)
        BY <3>1, LockedFrameProps DEF Typed
      <3> QED
        BY <2>1, <3>1, <3>2, <3>3, CarriesAppended
    <2>7. CASE SenderCrash
      <3>1. conn' # "up" /\ sent' = sent /\ (chan' = chan \/ chan' = Append(chan, Torn))
        BY <2>7 DEF SenderCrash
      <3>2. Torn \in Frame /\ Torn.kind # "command"
        BY DEF Frame, Torn
      <3> QED
        BY <2>1, <2>2, <3>1, <3>2, CarriesAppended
    <2>8. CASE Reset
      <3>1. chan' = << >> /\ sent' = sent /\ conn' # "up"
        BY <2>8 DEF Reset
      <3>2. executed \in 0 .. Len(sent)
        <4>1. PICK at \in [0 .. Len(chan) -> 0 .. Len(sent)] : Carries(at)
          BY <2>1 DEF WireCarriesSent
        <4>2. 0 \in 0 .. Len(chan)
          BY LenProperties DEF Typed, TypeOK
        <4> QED
          BY <4>1, <4>2 DEF Carries
      <3>3. PICK a : a = [i \in 0 .. 0 |-> executed]
        OBVIOUS
      <3>4. Len(chan') = 0
        BY <3>1
      <3>5. Carries(a)'
        BY <2>1, <3>1, <3>3, <3>4 DEF Carries
      <3>6. a \in [0 .. Len(chan') -> 0 .. Len(sent')]
        BY <3>1, <3>2, <3>3, <3>4
      <3> QED
        BY <3>5, <3>6 DEF WireCarriesSent
    <2> QED
      BY <1>1, <2>3, <2>4, <2>5, <2>6, <2>7, <2>8 DEF SenderStep
  <1>2. CASE ReadPrelude
    <2>1. /\ stage \in DOMAIN NextStage /\ chan # << >> /\ Head(chan).kind = stage
          /\ executed' = executed /\ chan' = Tail(chan) /\ UNCHANGED <<conn, sent>>
      BY <1>2 DEF ReadPrelude, EndSession
    <2>2. stage # "ended" /\ stage # "command"
      BY <2>1 DEF NextStage
    <2>3. chan[1].kind # "command"
      BY <2>1, <2>2, ReadTyped
    <2> QED
      BY <2>1, <2>2, <2>3, CarriesRead
  <1>3. CASE ReadFrame
    <2>1. stage = "frames" /\ chan # << >> /\ chan' = Tail(chan) /\ UNCHANGED <<conn, sent>>
      BY <1>3 DEF ReadFrame
    <2>2. /\ chan[1].kind = "command" => executed' = executed + 1
          /\ chan[1].kind # "command" => executed' = executed
      <3>1. Head(chan) = chan[1]
        BY <2>1, ReadTyped
      <3> QED
        BY <1>3, <3>1 DEF ReadFrame, ExecuteCommand, CommandFails, EndSession
    <2> QED
      BY <2>1, <2>2, CarriesRead
  <1>4. CASE ReadTimeout \/ ReadClosed
    BY <1>4 DEF ReadTimeout, ReadClosed, EndSession
  <1>5. CASE UNCHANGED vars
    BY <1>5, CarriesKept DEF vars, receiverVars
  <1> QED
    BY <1>1, <1>2, <1>3, <1>4, <1>5, StepForms

----
(* What is held at the receiver. *)

(* Of the first n commands sent, one pressed k and no later one lifted it. *)
DownAfter(n, k) ==
    \E i \in 1 .. n :
        /\ Presses(sent[i], k)
        /\ \A j \in i + 1 .. n : ~Lifts(sent[j], k)

LEMMA DownAfterNext ==
    ASSUME NEW n \in Nat, NEW k
    PROVE  DownAfter(n + 1, k) <=>
              Presses(sent[n + 1], k) \/ (DownAfter(n, k) /\ ~Lifts(sent[n + 1], k))
  <1>1. ASSUME Presses(sent[n + 1], k) PROVE DownAfter(n + 1, k)
    <2>1. n + 1 \in 1 .. n + 1 /\ \A j \in n + 1 + 1 .. n + 1 : FALSE
      OBVIOUS
    <2> QED
      BY <1>1, <2>1 DEF DownAfter
  <1>2. ASSUME DownAfter(n, k), ~Lifts(sent[n + 1], k) PROVE DownAfter(n + 1, k)
    <2>1. PICK i \in 1 .. n :
              Presses(sent[i], k) /\ \A j \in i + 1 .. n : ~Lifts(sent[j], k)
      BY <1>2 DEF DownAfter
    <2>2. i \in 1 .. n + 1 /\ \A j \in i + 1 .. n + 1 : j \in i + 1 .. n \/ j = n + 1
      OBVIOUS
    <2>3. \A j \in i + 1 .. n + 1 : ~Lifts(sent[j], k)
      BY <1>2, <2>1, <2>2
    <2> QED
      BY <2>1, <2>2, <2>3 DEF DownAfter
  <1>3. ASSUME DownAfter(n + 1, k), ~Presses(sent[n + 1], k)
        PROVE  DownAfter(n, k) /\ ~Lifts(sent[n + 1], k)
    <2>1. PICK i \in 1 .. n + 1 :
              Presses(sent[i], k) /\ \A j \in i + 1 .. n + 1 : ~Lifts(sent[j], k)
      BY <1>3 DEF DownAfter
    <2>2. i # n + 1
      BY <1>3, <2>1
    <2>3. i \in 1 .. n /\ n + 1 \in i + 1 .. n + 1 /\ \A j \in i + 1 .. n : j \in i + 1 .. n + 1
      BY <2>2
    <2> QED
      BY <2>1, <2>3 DEF DownAfter
  <1> QED
    BY <1>1, <1>2, <1>3

LEMMA HeldBy ==
    HeldFollowsSent <=>
        (stage # "ended" => executed <= Len(sent) /\ \A k \in Keys : k \in held <=> DownAfter(executed, k))
  BY DEF HeldFollowsSent, DownAfter

LEMMA NextHeld ==
    Typed /\ WireCarriesSent /\ HeldFollowsSent /\ [Next]_vars => HeldFollowsSent'
  <1> SUFFICES ASSUME Typed, WireCarriesSent, HeldFollowsSent, [Next]_vars, stage' # "ended"
               PROVE  HeldFollowsSent'
    BY DEF HeldFollowsSent
  <1> USE DEF senderVars
  <1>1. ASSUME stage # "ended", UNCHANGED <<held, executed>>,
               sent' = sent \/ \E c \in Command : sent' = Append(sent, c)
        PROVE  HeldFollowsSent'
    <2>1. /\ executed \in Nat /\ sent \in Seq(Command) /\ Len(sent) \in Nat
          /\ executed <= Len(sent)
          /\ \A k \in Keys : k \in held <=> DownAfter(executed, k)
      BY <1>1, HeldBy, LenProperties DEF Typed, TypeOK
    <2>2. /\ Len(sent) <= Len(sent')
          /\ \A i \in 1 .. Len(sent) : sent'[i] = sent[i]
      BY <1>1, <2>1, AppendProperties
    <2>3. \A i \in 1 .. executed : sent'[i] = sent[i]
      BY <2>1, <2>2
    <2>4. ASSUME NEW k \in Keys PROVE k \in held' <=> DownAfter(executed, k)'
      <3>1. \A i \in 1 .. executed : \A j \in i + 1 .. executed : j \in 1 .. executed
        BY <2>1
      <3>2. DownAfter(executed, k)' <=> DownAfter(executed, k)
        BY <1>1, <2>3, <3>1 DEF DownAfter, Presses, Lifts
      <3> QED
        BY <1>1, <2>1, <3>2
    <2>5. Len(sent') \in Nat /\ executed' <= Len(sent')
      BY <1>1, <2>1, <2>2, AppendProperties
    <2> QED
      BY <2>4, <2>5 DEF HeldFollowsSent, DownAfter
  <1>2. CASE SenderStep
    <2>1. UNCHANGED <<held, executed, stage>>
      BY <1>2, SenderLeavesReceiver DEF receiverVars
    <2>2. CASE sent' = sent
      BY <1>1, <2>1, <2>2
    <2>3. ASSUME NEW w \in Dispatchers, NEW c \in Command, Dispatch(w, c) PROVE HeldFollowsSent'
      BY <2>2, <2>3 DEF Dispatch
    <2>4. ASSUME NEW w \in Dispatchers, LockStream(w) \/ Detach(w) PROVE HeldFollowsSent'
      BY <2>2, <2>4 DEF LockStream, Detach
    <2>5. CASE \/ Beat \/ WriteFails \/ Disconnect \/ StopHeartbeat
               \/ Close \/ SenderCrash \/ Reset
      BY <2>2, <2>5
         DEF Beat, WriteFails, Disconnect, StopHeartbeat, Close, SenderCrash, Reset
    <2>6. CASE Write
      <3>1. sent' = IF lock = "heartbeat" THEN sent ELSE Append(sent, job[lock])
        BY <2>6 DEF Write
      <3>2. lock # "heartbeat" => job[lock] \in Command
        BY <2>6, LockedFrameProps DEF Typed, Write
      <3> QED
        BY <1>1, <2>1, <3>1, <3>2
    <2> QED
      BY <1>2, <2>3, <2>4, <2>5, <2>6 DEF SenderStep
  <1>3. CASE ReadPrelude
    BY <1>1, <1>3 DEF ReadPrelude, EndSession, NextStage
  <1>4. CASE ReadFrame
    <2>1. /\ stage = "frames" /\ chan # << >> /\ UNCHANGED sent
          /\ Head(chan) \in Frame /\ Head(chan) = chan[1] /\ Len(chan) \in Nat \ {0}
      BY <1>4, ReadTyped DEF ReadFrame
    <2>2. CASE UNCHANGED <<held, executed, stage>>
      BY <1>1, <2>1, <2>2
    <2>3. CASE Head(chan).kind = "command" /\ ExecuteCommand(Head(chan))
      <3>1. PICK c \in Command : c = Head(chan).command
        BY <2>1, <2>3, FrameForms
      <3>2. executed \in Nat /\ executed + 1 <= Len(sent) /\ sent[executed + 1] = c
        <4>1. PICK at \in [0 .. Len(chan) -> 0 .. Len(sent)] : Carries(at)
          BY <2>1 DEF WireCarriesSent
        <4>2. at[0] = executed /\ at[1] = at[0] + 1 /\ sent[at[1]] = c /\ at[1] \in 0 .. Len(sent)
          BY <2>1, <2>3, <3>1, <4>1 DEF Carries
        <4> QED
          BY <4>2, LenProperties DEF Typed, TypeOK
      <3>3. /\ stage' = "frames" /\ executed' = executed + 1
            /\ held' = CASE c.name = "ForwardInput" ->
                              IF c.press THEN held \cup {c.key} ELSE held \ {c.key}
                         [] c.name = "ReleaseAllInputs" -> {}
                         [] OTHER -> held
        BY <2>1, <2>3, <3>1 DEF ExecuteCommand, Execute
      <3>4. ASSUME NEW k \in Keys
            PROVE  k \in held' <=> Presses(c, k) \/ (k \in held /\ ~Lifts(c, k))
        <4>1. c.name = "ForwardInput" => c.press \in BOOLEAN
          BY CommandForms
        <4> QED
          BY <3>3, <4>1 DEF Presses, Lifts
      <3>5. ASSUME NEW k \in Keys PROVE k \in held' <=> DownAfter(executed + 1, k)
        BY <2>1, <3>2, <3>4, HeldBy, DownAfterNext
      <3>6. ASSUME NEW k \in Keys PROVE DownAfter(executed, k)' <=> DownAfter(executed + 1, k)
        BY <2>1, <3>3 DEF DownAfter, Presses, Lifts
      <3> QED
        BY <2>1, <3>2, <3>3, <3>5, <3>6 DEF HeldFollowsSent, DownAfter
    <2> QED
      BY <1>4, <2>2, <2>3 DEF ReadFrame, CommandFails, EndSession
  <1>5. CASE ReadTimeout \/ ReadClosed
    BY <1>5 DEF ReadTimeout, ReadClosed, EndSession
  <1>6. CASE UNCHANGED vars
    BY <1>1, <1>6 DEF vars, receiverVars
  <1> QED
    BY <1>2, <1>3, <1>4, <1>5, <1>6, StepForms

----
(* The invariant. *)

LEMMA InitIInv == Init => IInv
  <1> SUFFICES ASSUME Init PROVE IInv
    OBVIOUS
  <1>1. Typed
    BY InitTyped
  <1>2. GuardCoversHeld /\ EndedMeansReleased
    BY DEF Init, GuardCoversHeld, EndedMeansReleased
  <1>3. Len(chan) = 3 /\ PreludeLeft = 3 /\ conn = "up" /\ lock = NONE
    BY DEF Init, PreludeLeft, Prelude
  <1>4. WireInOrder
    <2>1. ASSUME NEW i \in 1 .. Len(chan) PROVE OnTheWire(i)
      BY <1>3 DEF Init, OnTheWire
    <2>2. nextSeq = 0 /\ expected = 0
      BY DEF Init
    <2> QED
      BY <1>3, <2>1, <2>2 DEF WireInOrder
  <1>5. WireCarriesSent
    <2>1. PICK at : at = [i \in 0 .. 3 |-> 0]
      OBVIOUS
    <2>2. Len(sent) = 0 /\ executed = 0
      BY DEF Init
    <2>3. ASSUME NEW i \in 1 .. 3 PROVE chan[i].kind # "command" /\ at[i] = at[i - 1]
      <3>1. i = 1 \/ i = 2 \/ i = 3
        OBVIOUS
      <3>2. chan[1].kind = "hello" /\ chan[2].kind = "authProof" /\ chan[3].kind = "sessionReady"
        BY DEF Init, Prelude
      <3> QED
        BY <2>1, <3>1, <3>2
    <2>4. Carries(at)
      BY <1>3, <2>1, <2>2, <2>3 DEF Carries
    <2>5. at \in [0 .. Len(chan) -> 0 .. Len(sent)]
      BY <1>3, <2>1, <2>2
    <2> QED
      BY <2>4, <2>5 DEF WireCarriesSent
  <1>6. HeldFollowsSent
    <2>1. held = {} /\ executed = 0 /\ Len(sent) = 0
      BY DEF Init
    <2> QED
      BY <2>1 DEF HeldFollowsSent
  <1> QED
    BY <1>1, <1>2, <1>4, <1>5, <1>6 DEF IInv, Typed

(* The inductive invariant holds in every state of a session: types, the
   program points of the sender's threads, what the wire carries, and what is
   down at the receiver move together under every step of sender, receiver
   and network. *)
THEOREM Invariance == Spec => []IInv
  <1>1. IInv /\ [Next]_vars => IInv'
    BY NextTyped, NextReleased, NextWire, NextCarries, NextHeld DEF IInv, Typed, Released
  <1> QED
    BY <1>1, InitIInv, PTL DEF Spec

(* Every variable of a session keeps its type, for any set of keys, any
   largest sequence number and any capacity of the connection. *)
THEOREM SessionTypes == Spec => []TypeOK
  BY Invariance, PTL DEF IInv

(* However a session ends, nothing it pressed is still down at the receiver
   unless lifting it failed: what is down keeps the release guard of the
   session loop up (GuardCoversHeld), and every way out of the loop releases
   when the guard is up. *)
THEOREM SessionReleases == Spec => []EndedMeansReleased
  BY Invariance, PTL DEF IInv

(* The receiver executes the commands in the order the sender's threads wrote
   them: the frames on the wire carry the commands sent and not yet executed
   (WireCarriesSent), so what is down is what the commands executed so far
   leave down. *)
THEOREM SessionOrder == Spec => []HeldFollowsSent
  BY Invariance, PTL DEF IInv

(* The numbered frames on the wire before position i are those after the rest
   of the prelude. *)
LEMMA NumberedBefore ==
    ASSUME Typed, WireInOrder, stage # "ended", NEW i \in 1 .. Len(chan), Numbered(chan[i])
    PROVE  /\ i > PreludeLeft /\ PreludeLeft \in 0 .. 3
           /\ Cardinality({j \in 1 .. i - 1 : Numbered(chan[j])}) = i - PreludeLeft - 1
           /\ chan[i].seq = expected + (i - PreludeLeft - 1)
  <1>1. PICK p \in 0 .. 3 : PreludeLeft = p
    BY PreludeLeftValues DEF Typed, TypeOK
  <1>2. Len(chan) \in Nat /\ \A j \in 1 .. Len(chan) : OnTheWire(j)
    BY LenProperties DEF WireInOrder, Typed, TypeOK
  <1>3. ASSUME NEW j \in 1 .. Len(chan), j <= p PROVE ~Numbered(chan[j])
    <2>1. p >= 1 /\ 3 - p + j \in 1 .. 3
      BY <1>3
    <2>2. chan[j] = Prelude[3 - p + j]
      BY <1>1, <1>2, <1>3 DEF OnTheWire
    <2>3. \A m \in 1 .. 3 : ~Numbered(Prelude[m])
      <3>1. \A m \in 1 .. 3 : m = 1 \/ m = 2 \/ m = 3
        OBVIOUS
      <3> QED
        BY <3>1 DEF Prelude, Numbered
    <2> QED
      BY <2>1, <2>2, <2>3
  <1>4. i > p
    BY <1>2, <1>3
  <1>5. ~Numbered(Torn)
    BY DEF Torn, Numbered
  <1>6. chan[i].seq = expected + (i - p - 1)
    BY <1>1, <1>2, <1>4, <1>5 DEF OnTheWire
  <1>7. {j \in 1 .. i - 1 : Numbered(chan[j])} = p + 1 .. i - 1
    <2>1. ASSUME NEW j \in p + 1 .. i - 1 PROVE Numbered(chan[j])
      <3>1. j \in 1 .. Len(chan) /\ j > p /\ ~(j <= p) /\ j # Len(chan)
        BY <1>2
      <3>2. OnTheWire(j)
        BY <1>2, <3>1
      <3> QED
        BY <1>1, <3>1, <3>2 DEF OnTheWire
    <2>2. ASSUME NEW j \in 1 .. i - 1, Numbered(chan[j]) PROVE j > p
      <3>1. j \in 1 .. Len(chan)
        BY <1>2
      <3> QED
        BY <1>3, <2>2, <3>1
    <2>3. p + 1 .. i - 1 \subseteq 1 .. i - 1
      OBVIOUS
    <2> QED
      BY <2>1, <2>2, <2>3
  <1>8. Cardinality(p + 1 .. i - 1) = i - p - 1
    <2>1. Cardinality(p + 1 .. i - 1) = IF p + 1 > i - 1 THEN 0 ELSE (i - 1) - (p + 1) + 1
      BY FS_Interval
    <2> QED
      BY <1>4, <2>1
  <1> QED
    BY <1>1, <1>4, <1>6, <1>7, <1>8

(* Whatever threads write them, heartbeats and commands are numbered without
   a gap from the number the receiver expects: taking a number and writing
   its frame happen under one lock, and the frames read are those written. *)
THEOREM SequencesKept == Spec => []SequencesAgree
  <1>1. IInv => SequencesAgree
    <2> SUFFICES ASSUME IInv, stage # "ended", NEW i \in DOMAIN chan, Numbered(chan[i])
                 PROVE  chan[i].seq = expected + Cardinality({j \in 1 .. i - 1 : Numbered(chan[j])})
      BY DEF SequencesAgree
    <2>1. i \in 1 .. Len(chan)
      BY LenProperties DEF IInv, TypeOK
    <2> QED
      BY <2>1, NumberedBefore DEF IInv, Typed
  <1> QED
    BY <1>1, Invariance, PTL

=============================================================================

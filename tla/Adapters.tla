------------------------------ MODULE Adapters ------------------------------
(***************************************************************************)
(* Parts of a daemon that share no state: the discovery worker, the input a *)
(* platform adapter holds down, its capture session and the watch on its   *)
(* surroundings; the tables and frames that input goes by, and the probes. *)
(* They are composed in one specification, each moving with the others at  *)
(* rest.                                                                   *)
(***************************************************************************)
EXTENDS Discovery, PeerFrames, InjectedInput, CaptureChain, InputProbes, EnvironmentWatch

CONSTANTS
    LocalId,      \* the id of this device
    TrustedSets,  \* what its store may hold
    Devices,      \* devices that may discover one another
    Commands,     \* commands of a session
    FrameSeqs,    \* what a listener may be sent
    Versions,     \* versions of the protocol
    Machines      \* what operating systems may answer

ASSUME AdaptersAssumption ==
    /\ \A d \in Devices : IsDevice(d)
    /\ \A m \in Machines : IsMachine(m)
    /\ \A c \in Commands : IsCommand(c)
    /\ \A fs \in FrameSeqs : fs \in Seq(ToSet(fs)) /\ \A i \in DOMAIN fs : IsFrame(fs[i])

Init == DiscoveryInit /\ InjectedInit /\ CaptureInit /\ WatchInit

Next ==
    \/ /\ WatchInit /\ InjectedInit /\ CaptureInit /\ DiscoveryStep
       /\ UNCHANGED <<injectedVars, captureVars, watchVars>>
    \/ /\ WatchInit /\ DiscoveryInit /\ CaptureInit /\ InjectedStep
       /\ UNCHANGED <<discoveryVars, captureVars, watchVars>>
    \/ /\ WatchInit /\ DiscoveryInit /\ InjectedInit /\ CaptureStep
       /\ UNCHANGED <<discoveryVars, injectedVars, watchVars>>
    \/ /\ DiscoveryInit /\ InjectedInit /\ CaptureInit /\ WatchStep
       /\ UNCHANGED <<discoveryVars, injectedVars, captureVars>>

vars == <<discoveryVars, injectedVars, captureVars, watchVars>>

(* The capture threads are fair; nothing is asked of the other parts. *)
Spec == Init /\ [][Next]_vars /\ CaptureFairness

(* Types of the stateful parts. *)
TypeOK == DiscoveryTypeOK /\ InjectedTypeOK /\ CaptureTypeOK /\ WatchTypeOK

(* No input stays down unaccounted for: none that was injected, and none that
   was captured. *)
NothingStaysDown == InputsAccounted /\ KeysAccounted

(* Commands reach the peer's desktop: the frames and the codes in them.  (A
   statement about no variable is evaluated in the initial states only.) *)
CommandsArrive ==
    Init => /\ InputArrives
            /\ FramesReadBack(Commands, FrameSeqs, Versions)

(* What an adapter says it can do, it can. *)
ProbesTruthful == Init => \A m \in Machines : IsTruthfulOn(m)

(* Discovery shows what is on the air, what it offers for pairing can be paired
   with, and both sides of a pairing that starts with it show the same code. *)
DiscoveryPairs ==
    /\ DrainedFollowsAir
    /\ OffersArePairable(LocalId, TrustedSets)
    /\ Init => CodesAgreeFor(Devices)
=============================================================================

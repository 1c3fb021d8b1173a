------------------------------ MODULE Lifecycle ------------------------------
(***************************************************************************)
(* The daemon's life together with what the programs around it write for   *)
(* each other: settings, arguments, command lines, parameters, requests    *)
(* and support bundles.  None of these has state; they are stated for sets *)
(* of inputs, beside the behaviours of Supervisor.                         *)
(***************************************************************************)
EXTENDS Supervisor, CommandLine, Requests, Diagnostics

CONSTANTS Options, Settings, \* start options and settings of the application
          ArgLists,          \* arguments of `akrazctl daemon-args'
          Words,             \* texts a parameter may be
          Samples            \* lists of elapsed microseconds

ASSUME LifecycleAssumption ==
    /\ Options \subseteq AppOptions /\ Settings \subseteq AppSettings
    /\ ArgLists \subseteq Seq(Arguments) /\ Words \subseteq Texts
    /\ Samples \subseteq Seq(Nat) \ {<<>>}

(* What one program writes for another is read back as it was meant: the
   options and settings the application accepts, the command line akrazctl
   prints as long as a shell interprets nothing in it, the parameters and the
   requests of both, and the bundle that is written for whoever reads it. *)
UnderstoodAsMeant ==
    Init => /\ AcceptedOptionsStart(Options, Settings)
            /\ DaemonArgsReadBack(ArgLists)
            /\ ParametersTaken(Words)
            /\ RequestsAnswered
            /\ DiagnosticsTell(Samples)
=============================================================================

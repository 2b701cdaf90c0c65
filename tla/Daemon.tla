------------------------------- MODULE Daemon -------------------------------
(***************************************************************************)
(* What the daemon does with the envelopes of its peers (daemonRun).  It   *)
(* runs with the surfaces of Notify, which raise toasts; with a gateway    *)
(* configured or discovered, enableOpenClawMode starts Sessions, whose     *)
(* surfaces replace them.  Which of the two it is, is settled before the   *)
(* first step.                                                             *)
(***************************************************************************)
EXTENDS Sessions

CONSTANTS Envelopes, Asks, Own, Debounce, Exchange, Collab, MaxTime, Dates, Never

VARIABLES
  now, stored, pc, last, toasts,  \* the variables of Notify
  gatewayURL                      \* a gateway is configured, or was discovered

toastVars == <<now, stored, pc, last, toasts>>

Toasts == INSTANCE Notify

ASSUME DaemonAssumption == Toasts!ConstantsFit

\* Toasts do not depend on the tables of Sessions.
DaemonInit ==
  /\ Init /\ Toasts!Init
  /\ gatewayURL \in BOOLEAN
  /\ ~gatewayURL => peers = Peers /\ threads = Threads

\* The surfaces in force: until SetSurfaces, those of Notify.
DaemonNext ==
  \/ gatewayURL /\ Next /\ UNCHANGED <<toastVars, gatewayURL>>
  \/ ~surfaces /\ ~gatewayURL /\ Toasts!Next /\ UNCHANGED <<vars, gatewayURL>>

DaemonSpec == DaemonInit /\ [][DaemonNext]_<<vars, toastVars, gatewayURL>>

-----------------------------------------------------------------------------
\* The user is told of an envelope, or has a reason to know of it: see Notify.
SilentForAReason == Toasts!SilentForAReason

\* Do not hold: see Notify.
OneToastAWindow == Toasts!OneToastAWindow
AsksAreTold == Toasts!AsksAreTold
=============================================================================

--------------------------- MODULE FrameDelivery ---------------------------
(***************************************************************************)
(* What frame pacing promises a backend (module FramePacer implements it). *)
(*                                                                         *)
(* Every output is offered versions of what it should show.  A version is  *)
(* numbered once and for all, is what its output should show when it is    *)
(* offered, and is only ever replaced by one with a higher number.  A      *)
(* screen takes over the version that is offered at the time, whole:       *)
(* nothing here is patched, queued, waited for or remembered per output.   *)
(***************************************************************************)
EXTENDS Painting

CONSTANTS OutputIds, Looks

VARIABLES want,       \* what each output should show
          offered,    \* output -> the version it is offered
          versions,   \* the highest number given to a version
          shown       \* output -> the version on its screen, and the screen

vars == <<want, offered, versions, shown>>

Init ==
  /\ want = [o \in OutputIds |-> << >>]
  /\ offered = << >>
  /\ versions = 0
  /\ shown = << >>

\* A version nobody has seen, of what o should show now.
IsNew(o) ==
  /\ offered'[o].version > versions
  /\ offered'[o].version <= versions'
  /\ offered'[o].quads = want'[o]

\* Something else should be shown, new versions are offered, or outputs that
\* are gone are offered nothing any more.
Offer ==
  /\ want' \in [OutputIds -> Looks]
  /\ versions' >= versions
  /\ \A o \in DOMAIN offered' :
       \/ o \in DOMAIN offered /\ offered'[o] = offered[o]
       \/ IsNew(o)
  /\ UNCHANGED shown

Show(o) ==
  /\ o \in DOMAIN offered
  /\ o \in DOMAIN shown => shown[o].version < offered[o].version
  /\ shown' = [p \in DOMAIN shown \cup {o} |->
       IF p # o THEN shown[p]
       ELSE [version |-> offered[o].version,
             quads   |-> offered[o].quads,
             screen  |-> Painted(offered[o].quads)]]
  /\ UNCHANGED <<want, offered, versions>>

Next == Offer \/ \E o \in OutputIds : Show(o)

Spec == Init /\ [][Next]_vars
=============================================================================

---------------------------- MODULE Distribution ----------------------------
(***************************************************************************)
(* What the distribution of configurations promises a data plane: it       *)
(* serves nothing until it has its own bootstrap configuration, and from   *)
(* then on only what its control plane has published; once it has been     *)
(* given a configuration it never falls back to the bootstrap file.        *)
(***************************************************************************)
CONSTANTS
  Nothing,         \* no configuration
  Bootstraps,      \* the configurations a bootstrap file may contain
  Publishable      \* what data planes make of those a control plane may publish

VARIABLES
  published,   \* all the control plane has served so far
  serving      \* what the data plane serves

vars == <<published, serving>>

Init ==
  /\ published \in {{c} : c \in Publishable}
  /\ serving = Nothing

Publish ==
  /\ \E c \in Publishable : published' = published \union {c}
  /\ UNCHANGED serving

Bootstrap ==
  /\ serving = Nothing
  /\ serving' \in Bootstraps
  /\ UNCHANGED published

Adopt ==
  /\ serving # Nothing
  /\ serving' \in published
  /\ UNCHANGED published

Next == Publish \/ Bootstrap \/ Adopt

Spec == Init /\ [][Next]_vars
=============================================================================

--------------------------- MODULE MCPluginManager ---------------------------
(* One plugin with a process; of the goroutines that serve a dashboard     *)
(* request and a second restart, one takes part in a behaviour.            *)
EXTENDS PluginManager, TLC

CONSTANTS a, w1, r2

OnePlugin == <<a>>

\* A goroutine that is "absent" takes no step.
MCInit ==
  \E w \in {w1, r2} : InitWithout({w})

MCSpec == MCInit /\ [][Next]_vars /\ Fairness
=============================================================================

---------------------------- MODULE MCBackground ----------------------------
(***************************************************************************)
(* An instance of Background for TLC.  It checks liveness, so it has no    *)
(* symmetry; instead the calls, which are numbers here, are issued in      *)
(* their order.                                                            *)
(***************************************************************************)
EXTENDS Background, MCHub

\* Three calls and one task on one channel, or two calls and more tasks on two.
Few ==
  LET issued == {c \in Calls : pc[c] # "idle"} IN
  /\ \A c, d \in Calls : c < d /\ d \in issued => c \in issued
  /\ \/ /\ \A t \in Tasks : t > 1 => task[t].at = "unborn"
        /\ \A c \in issued : arg[c].uri = u1
     \/ Cardinality(issued) <= 2

OrderedSpec ==
  BackgroundInit /\ [][BackgroundNext /\ Few']_allVars /\ BackgroundFairness
=============================================================================

------------------------------- MODULE MCCache -------------------------------
(***************************************************************************)
(* The parts of the response cache: one L1 shard and one L2 writer, each   *)
(* with two callers.  A behaviour follows one of them, named by focus, and *)
(* the other keeps its initial state.                                      *)
(***************************************************************************)
EXTENDS L1Shard, L2Writer

VARIABLE focus   \* the component this behaviour is about
MCVars == <<focus, L1Vars, vars>>

MCInit ==
  /\ focus \in {"shard", "writer"}
  /\ L1Init
  /\ Init

ShardStep == focus = "shard" /\ L1Next /\ UNCHANGED <<focus, vars>>
WriterQueueStep == focus = "writer" /\ Next /\ UNCHANGED <<focus, L1Vars>>

MCNext == ShardStep \/ WriterQueueStep

\* The components' own fairness, for the one that runs.
MCFairness ==
  /\ \A p \in L1Procs : WF_L1Vars(focus = "shard" /\ Evict(p))
  /\ WF_vars(focus = "writer" /\ Writer)
  /\ WF_vars(focus = "writer" /\ Close)

MCSpec == MCInit /\ [][MCNext]_MCVars /\ MCFairness
=============================================================================

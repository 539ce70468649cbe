----------------------------- MODULE MCServices -----------------------------
(***************************************************************************)
(* The long-running services: the UDP server, the listeners and the        *)
(* query-log writer.  A behaviour follows one component, named by focus,   *)
(* and the others keep their initial state, so the instances add up        *)
(* instead of multiplying.                                                 *)
(***************************************************************************)
EXTENDS UDPServer, Listeners, QueryLog

VARIABLE focus   (* the component this behaviour is about               *)
MCVars == <<focus, UDPVars, LSVars, QLVars>>

(* Listeners in the order Start binds them: one whose failure is only      *)
(* reported, the DoH server, and one whose failure ends Start.             *)
LSProtosDef == <<"tcp", "doh", "doq">>

MCInit ==
  /\ focus \in {"udp", "listeners", "log"}
  /\ UDPInit
  /\ LSInit
  /\ QLInit

UdpStep == focus = "udp" /\ UDPNext /\ UNCHANGED <<focus, LSVars, QLVars>>
ListenersStep == focus = "listeners" /\ LSNext /\ UNCHANGED <<focus, UDPVars, QLVars>>
LogStep == focus = "log" /\ QLNext /\ UNCHANGED <<focus, UDPVars, LSVars>>

MCNext ==
  \/ UdpStep
  \/ ListenersStep
  \/ LogStep

(* The components' own fairness, for the one that runs.                    *)
MCFairness ==
  /\ WF_UDPVars(focus = "udp" /\ usLife.closed /\ ReadFails) /\ WF_UDPVars(focus = "udp" /\ DispatchOne)
  /\ \A w \in UDPWorkers : WF_UDPVars(focus = "udp" /\ WorkerStep(w))
  /\ WF_UDPVars(focus = "udp" /\ WriterStep) /\ WF_UDPVars(focus = "udp" /\ ServeStep)
  /\ \A c \in LSCallers : WF_LSVars(focus = "listeners" /\ RestartStep(c))
  /\ WF_LSVars(focus = "listeners" /\ DrainResults)
  /\ WF_QLVars(focus = "log" /\ (WriterTakes \/ FoldOne)) /\ WF_QLVars(focus = "log" /\ WriterSeesDone)
  /\ WF_QLVars(focus = "log" /\ (FlushOK \/ \E n \in 0..QLBatch : FlushFails(n)))
  /\ WF_QLVars(focus = "log" /\ WriterExits)

MCSpec == MCInit /\ [][MCNext]_MCVars /\ MCFairness

(* The services wind down: Serve ends after Close, every Restart returns,  *)
(* and so does the query log's Close.                                      *)
ServicesEnd == ServeEnds /\ RestartReturns /\ LogCloseReturns
=============================================================================

----------------------------- MODULE ProcessFlow -----------------------------
(***************************************************************************)
(* The process-flow check of MsgPackHandler: two tables in program memory, *)
(* and setStatus(), which looks the new status up in each of them.         *)
(***************************************************************************)
EXTENDS Integers, Sequences

Statuses == {"IDLE", "BEGIN", "COMMAND_SET", "SETTING_ARGS",
             "WATING_ARG_VALUE", "ARGS_READY", "ASSEMBLY", "EXECUTING",
             "FINISHED"}

\* The trailing IDLE is the 0 that fills the last slot of each table.
MSGPACK4BCPProcessFlow ==
    <<"IDLE", "BEGIN", "COMMAND_SET", "SETTING_ARGS", "ARGS_READY",
      "ASSEMBLY", "EXECUTING", "FINISHED", "IDLE">>

MSGPACK4BCPProcessFlow2 ==
    <<"IDLE", "BEGIN", "COMMAND_SET", "ASSEMBLY", "EXECUTING", "FINISHED",
      "IDLE">>

Position(flow, s) ==
    CHOOSE p \in DOMAIN flow :
        flow[p] = s /\ \A q \in 1..(p - 1) : flow[q] # s

\* Seeded fault: commands without arguments are forgotten.
Check4BCPProcesFlowArgsOnly(flow, prev_status, status) ==
    \/ \A p \in DOMAIN flow : flow[p] # status
    \/ status = "SETTING_ARGS" /\ prev_status = "SETTING_ARGS"
    \/ LET last_process == flow[Position(flow, status) - 1]
       IN  last_process \in {"IDLE", prev_status}

\* check4BCPProcesFlow: a status the table does not list is accepted, and so
\* is the status that follows 0 (IDLE).
Check4BCPProcesFlow(flow, prev_status, status) ==
    \/ \A p \in DOMAIN flow : flow[p] # status
    \/ status = "ARGS_READY" /\ prev_status = "COMMAND_SET"
    \/ status = "SETTING_ARGS" /\ prev_status = "SETTING_ARGS"
    \/ LET last_process == flow[Position(flow, status) - 1]
       IN  last_process \in {"IDLE", prev_status}

CheckFlow(prev_status, status) ==
    \/ Check4BCPProcesFlow(MSGPACK4BCPProcessFlow, prev_status, status)
    \/ Check4BCPProcesFlow(MSGPACK4BCPProcessFlow2, prev_status, status)

\* What setStatus() returns when the status was prev_status.
SetStatusReturns(prev_status, status) ==
    status = "IDLE" \/ CheckFlow(prev_status, status)

\* The flow error is written by the first table even if the second accepts.
FlowErrorWritten(prev_status, status) ==
    /\ status # "IDLE"
    /\ ~Check4BCPProcesFlow(MSGPACK4BCPProcessFlow, prev_status, status)
=============================================================================

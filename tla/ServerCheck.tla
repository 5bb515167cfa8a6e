----------------------------- MODULE ServerCheck -----------------------------
(***************************************************************************)
(* The health checks of the servers of a proxy: src/health/checks.c.       *)
(*                                                                         *)
(* A check task probes its server and feeds what it saw to                 *)
(* set_server_check_status, which counts successes and errors in a row and *)
(* moves the server between RUNNING and MAINTAIN.  check_http first runs   *)
(* check_tcp, which reports a status of its own, and reports a second one  *)
(* when the HTTP exchange is over: the two reports are separate steps.     *)
(* Sockets are external: a probe may end in any status its code can report.*)
(* The scheduler (task_queue) is external too, and runs a started check at *)
(* any time, one call of process_check per check at a time; a second task, *)
(* which a second start_health_check queues for the same check, adds no    *)
(* call that this does not allow.                                          *)
(***************************************************************************)
EXTENDS Integers, Sequences

CONSTANTS
    NS,           \* how many servers the proxy has, in the order of its list
    Checked,      \* the servers with a srv->check
    CheckType,    \* check->type of each server
    Expects,      \* whether a TCP check waits for an answer
    Rise, Fall    \* check->interval.rise and fall

Servers == 1 .. NS

ASSUME ServerCheckAssumption ==
    /\ NS \in Nat \ {0}
    /\ Checked \subseteq Servers
    /\ CheckType \in [Servers -> {"TCP", "HTTP", "MYSQL", "REDIS"}]
    /\ Expects \in [Servers -> BOOLEAN]
    /\ Rise \in Nat \ {0}
    /\ Fall \in Nat \ {0}

VARIABLES
    cur_state,            \* srv->cur_state
    consecutive_success,  \* the counters of the check; they are only compared
    consecutive_errors,   \* with Rise and Fall, and stop counting there
    task,                 \* where the check's task is: "none" before
                          \* start_health_check, "http" between two reports
    okRun, badRun,        \* history: good and bad reports in a row, to Rise, Fall
    by                    \* history: who wrote to the server last

checkVars == <<cur_state, consecutive_success, consecutive_errors, task, okRun, badRun, by>>

CheckTypeOK ==
    /\ cur_state \in [Servers -> {"RUNNING", "MAINTAIN"}]
    /\ consecutive_success \in [Servers -> 0 .. Rise]
    /\ consecutive_errors \in [Servers -> 0 .. Fall]
    /\ task \in [Servers -> {"none", "ready", "http"}]
    /\ okRun \in [Servers -> 0 .. Rise]
    /\ badRun \in [Servers -> 0 .. Fall]
    /\ by \in [Servers -> {"none", "start", "stop", "report"}]

\* server_new and check_new.
CheckInit ==
    /\ cur_state = [s \in Servers |-> "MAINTAIN"]
    /\ consecutive_success = [s \in Servers |-> 0]
    /\ consecutive_errors = [s \in Servers |-> 0]
    /\ task = [s \in Servers |-> "none"]
    /\ okRun = [s \in Servers |-> 0]
    /\ badRun = [s \in Servers |-> 0]
    /\ by = [s \in Servers |-> "none"]

Passed == {"L4OK", "L6OK", "L7OK"}

\* The statuses each probe can report.
check_tcp(s) ==
    {"L4CON", "L4OK"} \cup (IF Expects[s] THEN {"L4TOUT", "L7RSP"} ELSE {})

check_http == {"L4CON", "L6RSP", "L6TOUT", "L7RSP", "L7STS", "L7OK"}

check_mysql == {"L4CON", "L6RSP", "L6OK"}

check_redis == {"L4CON", "L6RSP", "L6OK"}

UpTo(n, max) == IF n < max THEN n + 1 ELSE max

\* Mutant: a success does not reset the run of errors.
KeepErrors(s, status) ==
    LET ok   == status \in Passed
        good == IF ok THEN UpTo(consecutive_success[s], Rise) ELSE 0
        bad  == IF ok THEN consecutive_errors[s] ELSE UpTo(consecutive_errors[s], Fall)
    IN  /\ consecutive_success' = [consecutive_success EXCEPT ![s] = good]
        /\ consecutive_errors' = [consecutive_errors EXCEPT ![s] = bad]
        /\ cur_state' = [cur_state EXCEPT ![s] = IF ok /\ good >= Rise THEN "RUNNING"
                                                 ELSE IF ~ok /\ bad >= Fall THEN "MAINTAIN" ELSE @]
        /\ okRun' = [okRun EXCEPT ![s] = IF ok THEN UpTo(@, Rise) ELSE 0]
        /\ badRun' = [badRun EXCEPT ![s] = IF ok THEN 0 ELSE UpTo(@, Fall)]
        /\ by' = [by EXCEPT ![s] = "report"]

set_server_check_status(s, status) ==
    LET ok   == status \in Passed
        good == IF ok THEN UpTo(consecutive_success[s], Rise) ELSE 0
        bad  == IF ok THEN 0 ELSE UpTo(consecutive_errors[s], Fall)
    IN  /\ consecutive_success' = [consecutive_success EXCEPT ![s] = good]
        /\ consecutive_errors' = [consecutive_errors EXCEPT ![s] = bad]
        /\ cur_state' = [cur_state EXCEPT ![s] = IF ok /\ good >= Rise THEN "RUNNING"
                                                 ELSE IF ~ok /\ bad >= Fall THEN "MAINTAIN" ELSE @]
        /\ okRun' = [okRun EXCEPT ![s] = IF ok THEN UpTo(@, Rise) ELSE 0]
        /\ badRun' = [badRun EXCEPT ![s] = IF ok THEN 0 ELSE UpTo(@, Fall)]
        /\ by' = [by EXCEPT ![s] = "report"]

\* The task runs.  A type without a case of its own is checked over TCP.  The
\* HTTPS type calls check_https, which is declared and defined nowhere.
process_check(s) ==
    /\ task[s] = "ready"
    /\ \E status \in CASE CheckType[s] = "MYSQL" -> check_mysql
                       [] CheckType[s] = "REDIS" -> check_redis
                       [] OTHER -> check_tcp(s) :
          /\ set_server_check_status(s, status)
          /\ task' = [task EXCEPT ![s] =
                        IF CheckType[s] = "HTTP" /\ status \in Passed THEN "http" ELSE "ready"]

\* The second half of check_http.
process_check_http(s) ==
    /\ task[s] = "http"
    /\ \E status \in check_http : set_server_check_status(s, status)
    /\ task' = [task EXCEPT ![s] = "ready"]

CheckNext == \E s \in Servers : process_check(s) \/ process_check_http(s)

\* set_server_check_status brings a server up only when its last Rise reports
\* were all good, and takes it down only when its last Fall reports were all
\* bad, whatever proxy_start and proxy_stop did to its state in between.
MovedForCause ==
    [][\A s \in Servers : by'[s] = "report" /\ cur_state'[s] # cur_state[s] =>
         IF cur_state'[s] = "RUNNING" THEN okRun'[s] = Rise ELSE badRun'[s] = Fall]_checkVars

\* A server whose last Fall reports were all bad is not RUNNING, unless
\* proxy_start was called after the last of them.
DownWhenFailing ==
    \A s \in Servers : badRun[s] = Fall /\ by[s] = "report" => cur_state[s] = "MAINTAIN"
==============================================================================

-------------------------------- MODULE Eal ---------------------------------
(***************************************************************************)
(* The environment of a user program (middleware/init.c and debug.c): the  *)
(* descriptor of /dev/nfp and the stream the log is written to.            *)
(***************************************************************************)

CONSTANT Procs          \* user processes; one runs one program after another

VARIABLES
  fd,                   \* "zero", "open", or "failed" when open returned -1
  rte_logs              \* the stream: "null", "open" or "closed"

ealVars == <<fd, rte_logs>>

EalInit ==
  /\ fd = [p \in Procs |-> "zero"]
  /\ rte_logs = [p \in Procs |-> "null"]

rte_openlog_stream(p, file) == rte_logs' = [rte_logs EXCEPT ![p] = file]

(* rte_eal_init: the log first, then the device.                           *)
rte_eal_init(p, opened) ==
  /\ rte_openlog_stream(p, "open")
  /\ fd' = [fd EXCEPT ![p] = IF opened THEN "open" ELSE "failed"]

(* rte_vlog prints to the stream, which has to be open.                    *)
rte_vlog(p) == rte_logs[p] = "open"

(* rte_free: logs, then closes the stream and the device.                  *)
rte_free(p) ==
  /\ rte_vlog(p)
  /\ IF fd[p] = "zero" THEN UNCHANGED ealVars
     ELSE /\ rte_logs' = [rte_logs EXCEPT ![p] = "closed"]
          /\ fd' = [fd EXCEPT ![p] = "zero"]

(* The process ends; the next program starts with new static variables.    *)
EalEnds(p) ==
  /\ fd' = [fd EXCEPT ![p] = "zero"]
  /\ rte_logs' = [rte_logs EXCEPT ![p] = "null"]

getCharDeviceDescriptor(p) == fd[p]

=============================================================================

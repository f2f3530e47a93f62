--------------------------- MODULE RuntimeDriver ---------------------------
(***************************************************************************)
(* The node runtime's bookkeeping for one VM on one node, as functions on  *)
(* a record rt:                                                            *)
(*   proc   the entry of FirecrackerDriver.procs for the VM, or NoProc.    *)
(*          owned is TRUE when the entry holds a machine handle; Reattach  *)
(*          leaves one without it.                                         *)
(*   live   the Firecracker processes of the VM that exist on the host.    *)
(*   inv    the PID in the persisted inventory record, 0 when none.        *)
(*   sock   whether the API socket file exists.                            *)
(* PIDs are fresh naturals: reuse of a PID by the kernel is left out.      *)
(***************************************************************************)
EXTENDS Naturals

CONSTANT NoProc   \* no entry in the procs map

Proc(pid, owned) == [pid |-> pid, owned |-> owned]

ProcEntry(Pids) == [pid : Pids, owned : BOOLEAN] \cup {NoProc}

Runtime(Pids) ==
  [proc : ProcEntry(Pids), live : SUBSET Pids, inv : Pids \cup {0}, sock : BOOLEAN]

Stopped == [proc |-> NoProc, live |-> {}, inv |-> 0, sock |-> FALSE]

(* Start cleans stale sockets, launches the VMM and overwrites the entry.  *)
(* It never looks at the entry that may already be there.                  *)
DriverStart(rt, pid) ==
  [rt EXCEPT !.proc = Proc(pid, TRUE), !.live = @ \cup {pid}, !.sock = TRUE]

(* A Start that fails: before the socket files are cleaned, or after.      *)
DriverStartFails(rt) == {rt, [rt EXCEPT !.sock = FALSE]}

(* Stop returns at once without an entry, and has a machine to shut down   *)
(* only when the entry is owned.                                           *)
DriverStop(rt) ==
  IF rt.proc = NoProc
  THEN rt
  ELSE [rt EXCEPT !.proc = NoProc,
                  !.live = IF rt.proc.owned THEN @ \ {rt.proc.pid} ELSE @,
                  !.sock = FALSE]

IsAlive(rt, pid) == pid \in rt.live

(* Inspect: Running when the entry's process answers kill(pid, 0); a dead  *)
(* one loses its entry.                                                    *)
InspectRunning(rt) == rt.proc # NoProc /\ IsAlive(rt, rt.proc.pid)

DriverInspect(rt) ==
  IF InspectRunning(rt) THEN rt ELSE [rt EXCEPT !.proc = NoProc]

Reattach(rt, pid) == [rt EXCEPT !.proc = Proc(pid, FALSE)]

CanSnapshot(rt) == InspectRunning(rt) /\ rt.proc.owned

(* The backend: the driver plus the inventory that outlives the process.   *)
BackendStart(rt, pid) == [DriverStart(rt, pid) EXCEPT !.inv = pid]

BackendStop(rt) == [DriverStop(rt) EXCEPT !.inv = 0]

(* Get falls back from Inspect to the inventory record, which counts only  *)
(* when it names the PID in the VM's status and that process is alive.     *)
Recorded(rt, statusPid) ==
  ~InspectRunning(rt) /\ rt.inv # 0 /\ rt.inv = statusPid /\ IsAlive(rt, rt.inv)

GetFails(rt, statusPid) == Recorded(rt, statusPid) /\ ~rt.sock

GetRunning(rt, statusPid) ==
  InspectRunning(rt) \/ (Recorded(rt, statusPid) /\ rt.sock)

BackendGet(rt, statusPid) ==
  IF Recorded(rt, statusPid) /\ rt.sock
  THEN Reattach(DriverInspect(rt), statusPid)
  ELSE DriverInspect(rt)

(* The runtime process restarts: the procs map is lost, the inventory and  *)
(* the sockets stay on disk, and the processes in kept survive (the        *)
(* DaemonSet runs with hostPID).                                           *)
RuntimeRestarted(rt, kept) == [rt EXCEPT !.proc = NoProc, !.live = kept]
=============================================================================

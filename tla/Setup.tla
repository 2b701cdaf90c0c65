------------------------------- MODULE Setup --------------------------------
(***************************************************************************)
(* The commands that install ClawdChan on a machine: setup, which goes     *)
(* through its steps in order and collects warnings, init, daemon install, *)
(* and uninstall; over Machine's processes, files and service manager.     *)
(*                                                                         *)
(* The user's answers are choices.  One command runs at a time, and may be *)
(* interrupted between any two of its steps.                               *)
(***************************************************************************)
EXTENDS Machine, Sequences

CONSTANT MaxJobs  \* bound on the commands run

ASSUME SetupAssumption == MaxJobs \in Nat

VARIABLES
  unit,  \* the unit, plist or task is there
  job,   \* the command that runs: where it is, what it saves, where it goes
         \* on afterwards, and whether it has warned
  jobs

vars == <<machine, unit, job, jobs>>

Idle == [pc |-> "off", save |-> "none", then |-> "off", warned |-> FALSE]

Init == MachineInit /\ unit = FALSE /\ job = Idle /\ jobs = 0

TypeOK ==
  /\ MachineTypeOK /\ unit \in BOOLEAN /\ jobs \in 0..MaxJobs
  /\ job \in [pc : {"off", "identity", "saving", "openclaw", "daemon", "install", "stop",
                     "start", "remove", "data", "done"},
               save : Settings \cup {"none"}, then : {"off", "openclaw", "daemon"},
               warned : BOOLEAN]

JobGoes(pc) == job' = [job EXCEPT !.pc = pc]
Warns(pc) == job' = [job EXCEPT !.pc = pc, !.warned = TRUE]
Readable == conf \in Settings

Begin(pc) ==
  /\ job.pc \in {"off", "done"} /\ jobs < MaxJobs
  /\ jobs' = jobs + 1 /\ job' = [Idle EXCEPT !.pc = pc]
  /\ UNCHANGED <<machine, unit>>

-----------------------------------------------------------------------------
(* The steps of setup.                                                     *)

\* Mutant: the daemon is started before OpenClaw is configured.
DaemonFirst == <<"identity", "daemon", "openclaw", "done">>

Steps == <<"identity", "openclaw", "daemon", "done">>

After(step) == Steps[1 + CHOOSE i \in 1..3 : Steps[i] = step]

\* saveConfig: os.WriteFile truncates, and then writes.
Save(settings, then) ==
  /\ conf' = "torn"
  /\ job' = [job EXCEPT !.pc = "saving", !.save = settings, !.then = then]

Saved ==
  /\ job.pc = "saving" /\ conf' = job.save
  /\ job' = [job EXCEPT !.pc = job.then, !.save = "none", !.then = "off"]
  /\ UNCHANGED <<os, svc, proc, file, faults, unit, jobs>>

\* A full disk ends setup's first step and the command init; OpenClaw's step warns.
SaveFails ==
  /\ job.pc = "saving" /\ Fault
  /\ job' = IF job.then = After("openclaw")
            THEN [job EXCEPT !.pc = job.then, !.save = "none", !.then = "off", !.warned = TRUE]
            ELSE Idle
  /\ UNCHANGED <<os, conf, svc, proc, file, unit, jobs>>

\* setupInit for a new configuration, or to update the alias and the relay.
\* What is there but cannot be read is passed over.
Identity ==
  /\ job.pc = "identity"
  /\ \/ conf \in Settings \cup {"none"} /\ Save("plain", After("identity"))
     \/ conf # "none" /\ JobGoes(After("identity")) /\ UNCHANGED conf
  /\ UNCHANGED <<os, svc, proc, file, faults, unit, jobs>>

\* setupOpenClaw: not wanted or kept, configured, or disabled.
OpenClaw ==
  /\ job.pc = "openclaw"
  /\ \/ JobGoes(After("openclaw")) /\ UNCHANGED conf
     \/ ~Readable /\ Warns(After("openclaw")) /\ UNCHANGED conf
     \/ Readable /\ Save("openclaw", After("openclaw"))
     \/ conf = "openclaw" /\ Save("plain", After("openclaw"))
  /\ UNCHANGED <<os, svc, proc, file, faults, unit, jobs>>

\* launchd and the task scheduler replace the process; systemctl enable --now
\* starts one if none runs.
Replaces == os # "systemd"
ToStart == IF Replaces THEN "stop" ELSE "start"

\* daemonSetup: nothing without a configuration; a unit that is there is
\* started, or installed again, and otherwise installed if the user agrees.
Daemon ==
  /\ job.pc = "daemon"
  /\ \/ (~Readable \/ ~unit) /\ JobGoes(After("daemon"))
     \/ Readable /\ JobGoes("install")
     \/ Readable /\ unit /\ JobGoes(ToStart)
  /\ UNCHANGED <<machine, unit, jobs>>

-----------------------------------------------------------------------------
(* daemonInstall, daemonStartInstalled and daemonUninstall.                *)

Install ==
  /\ job.pc = "install" /\ unit' = TRUE /\ JobGoes(ToStart)
  /\ UNCHANGED <<machine, jobs>>

InstallFails ==
  /\ job.pc = "install" /\ Fault
  /\ unit' \in {unit, TRUE} /\ Warns(After("daemon"))
  /\ UNCHANGED <<os, conf, svc, proc, file, jobs>>

\* The service's process gets a signal, on which one that is up cleans up; the
\* task scheduler kills it.
StopService ==
  /\ svc' = NoService
  /\ IF svc.pid = None THEN UNCHANGED <<proc, file>>
     ELSE /\ proc' = Without(svc.pid)
          /\ file' = IF os # "schtasks" /\ proc[svc.pid].pc = "up"
                     THEN [file EXCEPT ![svc.pid] = "none"] ELSE file

Bootout ==
  /\ job.pc = "stop" /\ StopService /\ JobGoes("start")
  /\ UNCHANGED <<os, conf, faults, unit, jobs>>

Start ==
  /\ job.pc = "start"
  /\ svc' = [svc EXCEPT !.on = TRUE, !.due = svc.pid = None]
  /\ JobGoes(After("daemon"))
  /\ UNCHANGED <<os, conf, proc, file, faults, unit, jobs>>

StartFails ==
  /\ job.pc = "start" /\ Fault /\ Warns(After("daemon"))
  /\ UNCHANGED <<os, conf, svc, proc, file, unit, jobs>>

\* uninstall: the service, and then the data unless they are to be kept.
Remove ==
  /\ job.pc = "remove"
  /\ IF unit THEN StopService ELSE UNCHANGED <<svc, proc, file>>
  /\ unit' = FALSE /\ (JobGoes("data") \/ JobGoes("off"))
  /\ UNCHANGED <<os, conf, faults, jobs>>

\* The pidfiles are in the directory that is removed: nobody finds a daemon any more.
RemoveData ==
  /\ job.pc = "data"
  /\ conf' = "none" /\ file' = [p \in Pids |-> "none"] /\ JobGoes("off")
  /\ proc' = [p \in Pids |-> [proc[p] EXCEPT !.before = {}]]
  /\ UNCHANGED <<os, svc, faults, unit, jobs>>

-----------------------------------------------------------------------------
\* The command init overwrites the configuration.
InitCommand ==
  /\ job.pc \in {"off", "done"} /\ jobs < MaxJobs
  /\ jobs' = jobs + 1 /\ conf' = "torn"
  /\ job' = [Idle EXCEPT !.pc = "saving", !.save = "plain"]
  /\ UNCHANGED <<os, svc, proc, file, faults, unit>>

Interrupt ==
  /\ job.pc \notin {"off", "done"} /\ job' = Idle
  /\ UNCHANGED <<machine, unit, jobs>>

\* The machine is started again and the user logs in: no process has cleaned up.
LogIn ==
  /\ Fault
  /\ proc' = [p \in Pids |-> Free] /\ job' = Idle
  /\ svc' = [pid |-> None, due |-> unit, on |-> unit]
  /\ UNCHANGED <<os, conf, file, unit, jobs>>

Commands ==
  \/ Begin("identity") \/ Begin("install") \/ Begin("remove") \/ InitCommand
  \/ Identity \/ Saved \/ SaveFails \/ OpenClaw \/ Daemon
  \/ Install \/ InstallFails \/ Bootout \/ Start \/ StartFails
  \/ Remove \/ RemoveData \/ Interrupt \/ LogIn

Next ==
  \/ MachineNext /\ UNCHANGED <<unit, job, jobs>>
  \/ Commands

Spec == Init /\ [][Next]_vars

\* The service manager does what the unit says, and its process runs.
FairSpec ==
  /\ Spec /\ WF_vars(Launch /\ UNCHANGED <<unit, job, jobs>>)
  /\ WF_vars(\E p \in {svc.pid} \cap Pids : Run(p) /\ UNCHANGED <<unit, job, jobs>>)

-----------------------------------------------------------------------------
(* What must hold.                                                         *)

\* When setup (or an install) has finished without a warning, the service runs
\* with the configuration that was saved, whatever the user answered, and
\* whatever crashed or was interrupted before; where the manager replaces the
\* process (cmd_setup.go: the daemon's step runs last).
Loaded(p) == proc[p].conf \in Settings

Fresh ==
  job.pc = "done" /\ ~job.warned /\ Readable /\ svc.pid # None /\ Loaded(svc.pid) =>
    proc[svc.pid].conf = conf

FreshAfterSetup == Replaces => Fresh

\* An MCP server does not take the link beside a daemon that had registered when
\* it started to look and still runs, though pidfiles of crashed processes lie
\* about, and a List has removed a file that it read half-written.  (An uninstall
\* that removes the data meanwhile takes the registrations with it.)
Defers ==
  [][\A p \in Pids : proc[p].pc = "read" /\ proc'[p].pc = "connect" =>
       ~\E q \in proc[p].before : proc[q].kind = "cli"]_vars

\* A service that the user has running comes up again after its crashes, those
\* during its start and those of the whole machine included.
ServiceComesBack ==
  <>[](svc.on /\ os # "schtasks" /\ Readable =>
         svc.pid # None /\ proc[svc.pid].pc = "up")

\* Does not hold (add it to MCSetup.cfg): the same with systemd.
FreshEverywhere == Fresh

\* Does not hold (add it to MCSetup.cfg): setup keeps OpenClaw unless it is disabled in
\* its own step.
OpenClawIsKept ==
  [][conf = "openclaw" /\ conf' = "torn" /\ job.pc = "identity" => FALSE]_vars

\* Does not hold (add it to MCSetup.cfg): after setup there is a configuration.
SetupHeals == job.pc = "done" /\ ~job.warned => Readable

\* Does not hold (add it to MCSetup.cfg): one process at a time holds the link.
OneHolder == Cardinality({p \in Pids : proc[p].link}) <= 1

\* Does not hold (add it to MCSetup.cfg): a daemon that is up is listed.
UpIsListed == \A p \in Pids : proc[p].kind = "cli" /\ proc[p].pc = "up" => file[p] = "cli"

\* Does not hold (add it to MCSetup.cfg): a server that says it is the only listener
\* has the link.
OnlyListenerListens ==
  [][\A p \in Pids :
       Listed(p) /\ proc[p].serving /\ proc'[p].pc = "up" /\ proc[p].saw = "nobody" =>
         proc[p].link]_vars

\* Does not hold with Reuse (MCSetupReuse.cfg): a server that leaves the link to
\* a daemon has seen one.
DeferredToSomebody ==
  [][\A p \in Pids :
       proc[p].pc = "read" /\ ~proc[p].serving /\ proc'[p].pc = "register" =>
         \E q \in Pids : proc[q].kind = "cli"]_vars
=============================================================================

------------------------------ MODULE Machine -------------------------------
(***************************************************************************)
(* The processes of one machine: the daemon, which the service manager     *)
(* starts, and the MCP servers that agents start; and the directory of     *)
(* pidfiles by which an MCP server finds out whether it must hold the      *)
(* relay link itself.                                                      *)
(*                                                                         *)
(* A step is one file operation or one request to the outside.  The three  *)
(* service managers are modelled by what the code asks of them.            *)
(***************************************************************************)
EXTENDS Naturals, FiniteSets

CONSTANTS
  Pids,        \* process ids
  Platforms,   \* the service managers considered
  Reuse,       \* whether an id is given out again while its pidfile is there
  MaxOthers,   \* bound on the processes beside the service, at a time
  MaxFaults,   \* bound on crashes and failed requests
  None

ASSUME MachineAssumption ==
  /\ Pids \subseteq Nat \ {0} /\ IsFiniteSet(Pids)
  /\ Platforms \subseteq {"systemd", "launchd", "schtasks"}
  /\ Reuse \in BOOLEAN /\ MaxOthers \in Nat /\ MaxFaults \in Nat /\ None \notin Pids

VARIABLES
  os,      \* the service manager
  conf,    \* config.json: absent, torn by a write, or without or with OpenClaw
  svc,     \* the service: its process, whether the manager is about to start
           \* one, and whether the user has it running
  proc,    \* the processes
  file,    \* listeners/<pid>.json: absent, half-written, or its kind
  faults

machine == <<os, conf, svc, proc, file, faults>>

Settings == {"plain", "openclaw"}

\* An id that no process has.
Free == [kind |-> "free", pc |-> "off", conf |-> "none", link |-> FALSE,
         serving |-> FALSE, todo |-> {}, saw |-> "nobody", before |-> {}]

NoService == [pid |-> None, due |-> FALSE, on |-> FALSE]

MachineInit ==
  /\ os \in Platforms /\ conf = "none" /\ svc = NoService
  /\ proc = [p \in Pids |-> Free] /\ file = [p \in Pids |-> "none"]
  /\ faults = 0

Alive(p) == proc[p].kind # "free"
First(S) == CHOOSE p \in S : \A q \in S : p <= q

\* Bound: without Reuse an id is free when its pidfile is gone.
FreePids == {p \in Pids : ~Alive(p) /\ (Reuse \/ file[p] = "none")}

Goes(p, pc) == proc' = [proc EXCEPT ![p].pc = pc]
Fault == faults < MaxFaults /\ faults' = faults + 1

-----------------------------------------------------------------------------
(* The service manager.                                                    *)

\* Mutant: the unit says nothing about restarts.
NeverRestarts(clean) == FALSE

\* The unit has Restart=on-failure, the plist KeepAlive; a task has neither.
Restarts(clean) == os = "launchd" \/ (os = "systemd" /\ ~clean)

\* The process p of the service, if it is one, is gone.
Gone(p, clean) ==
  svc' = IF svc.pid # p THEN svc
         ELSE [pid |-> None, due |-> Restarts(clean), on |-> svc.on /\ ~clean]

Fork(kind) ==
  /\ FreePids # {}
  /\ proc' = [proc EXCEPT ![First(FreePids)] = [Free EXCEPT !.kind = kind, !.pc = "load"]]

Launch ==
  /\ svc.due /\ svc.pid = None /\ Fork("cli")
  /\ svc' = [svc EXCEPT !.pid = First(FreePids), !.due = FALSE]
  /\ UNCHANGED <<os, conf, file, faults>>

\* An agent starts its MCP server, or the user a daemon or the command listen in a
\* terminal.  Bound: the service always finds an id.
Open(kind) ==
  /\ Cardinality({p \in Pids \ {svc.pid} : Alive(p)}) < MaxOthers
  /\ Cardinality(FreePids) > 1 + MaxFaults - faults /\ Fork(kind)
  /\ UNCHANGED <<os, conf, svc, file, faults>>

-----------------------------------------------------------------------------
(* The start of a process.                                                 *)

Without(p) ==
  [q \in Pids |-> IF q = p THEN Free ELSE [proc[q] EXCEPT !.before = @ \ {p}]]

Exit(p, clean) ==
  /\ proc' = Without(p)
  /\ Gone(p, clean)

\* Without a configuration a daemon ends, and an MCP server serves the hint to
\* run setup, for good.
Load(p) ==
  /\ proc[p].pc = "load"
  /\ \/ /\ conf \in Settings
        /\ proc' = [proc EXCEPT ![p].conf = conf,
                                ![p].pc = IF proc[p].kind = "mcp" THEN "list" ELSE "connect"]
        /\ UNCHANGED svc
     \/ conf \notin Settings /\ proc[p].kind = "mcp" /\ Goes(p, "stub") /\ UNCHANGED svc
     \/ conf \notin Settings /\ proc[p].kind = "cli" /\ Exit(p, FALSE)
  /\ UNCHANGED <<os, conf, file, faults>>

\* Node.Start; a daemon goes on to the gateway that is configured, or that it
\* discovers, the command listen does not.
NextOf(p) ==
  IF proc[p].kind = "mcp" THEN {"register"}
  ELSE IF p = svc.pid /\ proc[p].conf = "openclaw" THEN {"gateway"}
  ELSE {"gateway", "register"}

Connect(p) ==
  /\ proc[p].pc = "connect"
  /\ \E pc \in NextOf(p) : proc' = [proc EXCEPT ![p].link = TRUE, ![p].pc = pc]
  /\ UNCHANGED <<os, conf, svc, file, faults>>

EnableOpenClaw(p) ==
  /\ proc[p].pc = "gateway" /\ Goes(p, "register")
  /\ UNCHANGED <<os, conf, svc, file, faults>>

\* No relay, or no gateway: the process ends.
ConnectFails(p) ==
  /\ proc[p].pc \in {"connect", "gateway"} /\ Fault /\ Exit(p, FALSE)
  /\ UNCHANGED <<os, conf, file>>

\* Register: os.WriteFile truncates, and then writes what it has opened, though
\* List may have removed it meanwhile.
Truncate(p) ==
  /\ proc[p].pc = "register"
  /\ file' = [file EXCEPT ![p] = "half"] /\ Goes(p, "write")
  /\ UNCHANGED <<os, conf, svc, faults>>

Write(p) ==
  /\ proc[p].pc = "write"
  /\ file' = [file EXCEPT ![p] = IF @ = "half" THEN proc[p].kind ELSE @]
  /\ proc' = [proc EXCEPT ![p].pc = "up", ![p].serving = TRUE]
  /\ UNCHANGED <<os, conf, svc, faults>>

\* A signal, or the end of the session: the deferred calls run.
Stop(p) ==
  /\ proc[p].pc \in {"up", "stub"}
  /\ file' = [file EXCEPT ![p] = IF proc[p].pc = "up" THEN "none" ELSE @]
  /\ Exit(p, TRUE)
  /\ UNCHANGED <<os, conf, faults>>

Crash(p) ==
  /\ Alive(p) /\ Fault /\ Exit(p, FALSE)
  /\ UNCHANGED <<os, conf, file>>

-----------------------------------------------------------------------------
(* List, called by an MCP server before it starts its node, and by its tool *)
(* toolkit; the commands status and doctor call it as well.                *)

\* The daemons that this call must find: registered, and not about to lose the
\* file to a List that has read it half-written.
Doomed == {First(proc[c].todo) : c \in {p \in Pids : proc[p].pc = "prune"}}
Findable == {p \in Pids \ Doomed : proc[p].kind = "cli" /\ proc[p].pc = "up" /\ file[p] = "cli"}

ReadDir(p) ==
  /\ proc[p].pc = "list" \/ (proc[p].kind = "mcp" /\ proc[p].pc = "up")
  /\ proc' = [proc EXCEPT ![p].pc = "read", ![p].saw = "nobody",
                          ![p].todo = {q \in Pids : file[q] # "none"},
                          ![p].before = Findable]
  /\ UNCHANGED <<os, conf, svc, file, faults>>

Next1(p) == First(proc[p].todo)

\* Mutant: only a daemon in OpenClaw mode counts.
SeesHost(p, q) ==
  IF file[q] = "cli" /\ proc[q].conf = "openclaw" THEN "cli" ELSE proc[p].saw

\* What the entries read so far say: a daemon, or another MCP server.
Sees(p, q) ==
  IF file[q] = "cli" THEN "cli"
  ELSE IF proc[p].saw = "nobody" /\ q # p THEN "mcp" ELSE proc[p].saw

ReadEntry(p) ==
  /\ proc[p].pc = "read" /\ proc[p].todo # {}
  /\ LET q == Next1(p)
         whole == file[q] \in {"cli", "mcp"} IN
     proc' = [proc EXCEPT
       ![p].pc = IF file[q] # "none" /\ ~(whole /\ Alive(q)) THEN "prune" ELSE "read",
       ![p].saw = IF whole /\ Alive(q) THEN Sees(p, q) ELSE @,
       ![p].todo = IF file[q] # "none" /\ ~(whole /\ Alive(q)) THEN @ ELSE @ \ {q}]
  /\ UNCHANGED <<os, conf, svc, file, faults>>

\* An entry that does not parse, or whose process is gone, is removed by name.
Prune(p) ==
  /\ proc[p].pc = "prune"
  /\ file' = [file EXCEPT ![Next1(p)] = "none"]
  /\ proc' = [proc EXCEPT ![p].pc = "read", ![p].todo = @ \ {Next1(p)}]
  /\ UNCHANGED <<os, conf, svc, faults>>

Listed(p) == proc[p].pc = "read" /\ proc[p].todo = {}

\* daemonStateForNode: with a daemon the server leaves the link to it.
Decide(p) ==
  /\ Listed(p) /\ ~proc[p].serving
  /\ proc' = [proc EXCEPT ![p].pc = IF proc[p].saw = "cli" THEN "register" ELSE "connect",
                          ![p].before = {}]
  /\ UNCHANGED <<os, conf, svc, file, faults>>

\* buildSetupStatus: what the user is told.
Report(p) ==
  /\ Listed(p) /\ proc[p].serving
  /\ proc' = [proc EXCEPT ![p].pc = "up", ![p].saw = "nobody", ![p].before = {}]
  /\ UNCHANGED <<os, conf, svc, file, faults>>

-----------------------------------------------------------------------------
Run(p) ==
  \/ Load(p) \/ Connect(p) \/ EnableOpenClaw(p) \/ Truncate(p) \/ Write(p)

Look(p) == ReadDir(p) \/ ReadEntry(p) \/ Prune(p) \/ Decide(p) \/ Report(p)

MachineNext ==
  \/ Launch \/ Open("mcp") \/ Open("cli")
  \/ \E p \in Pids : Run(p) \/ Look(p) \/ Stop(p) \/ Crash(p) \/ ConnectFails(p)

\* What a process is.
Process ==
  [kind : {"free", "cli", "mcp"},
   pc : {"off", "load", "stub", "list", "read", "prune", "connect", "gateway", "register",
         "write", "up"},
   conf : Settings \cup {"none"}, link : BOOLEAN, serving : BOOLEAN,
   todo : SUBSET Pids, saw : {"nobody", "mcp", "cli"}, before : SUBSET Pids]

MachineTypeOK ==
  /\ os \in Platforms /\ conf \in Settings \cup {"none", "torn"}
  /\ svc \in [pid : Pids \cup {None}, due : BOOLEAN, on : BOOLEAN]
  /\ proc \in [Pids -> Process]
  /\ file \in [Pids -> {"none", "half", "cli", "mcp"}]
  /\ faults \in 0..MaxFaults
=============================================================================

----------------------------- MODULE SetupProofs ------------------------------
(***************************************************************************)
(* For every set of process ids and any number of commands, processes and  *)
(* faults: what runs after setup has the configuration that was saved, and *)
(* an MCP server does not take the link beside a daemon.                   *)
(*                                                                         *)
(* The first needs no history of the processes: the unit says whether a    *)
(* service can run, and where the manager replaces the process, setup's    *)
(* last step finds none.  The second says of the daemons that a List must  *)
(* find that they stay findable while it looks, and that no List is about  *)
(* to remove their pidfiles.                                               *)
(***************************************************************************)
EXTENDS Setup, WellFoundedInduction, TLAPS

-----------------------------------------------------------------------------
(* The invariants.                                                         *)

\* Without a unit the manager neither runs a service nor is about to.
NoUnitNoService == ~unit => svc.pid = None /\ ~svc.due

\* The service is stopped and started once its unit is there.
JobHasUnit == job.pc \in {"stop", "start"} => unit

\* Where the manager replaces the process, there is none when it starts one.
StartsFresh == Replaces /\ job.pc = "start" => svc.pid = None /\ ~svc.due

Fresher == NoUnitNoService /\ JobHasUnit /\ StartsFresh /\ FreshAfterSetup

\* An id that no process has does nothing.
FreeIsOff == \A p \in Pids : ~Alive(p) => proc[p].pc = "off"

Typed == TypeOK /\ FreeIsOff

Installed == Typed /\ Fresher

\* A List records the daemons that it must find only while it looks.
OnlyWhileLooking ==
  \A p \in Pids : proc[p].before # {} => proc[p].pc \in {"read", "prune"}

\* Each of them is up and registered, and either still to be read or seen.
StillThere(p) ==
  \A q \in proc[p].before :
    /\ proc[q].kind = "cli" /\ proc[q].pc = "up" /\ file[q] = "cli"
    /\ q \in proc[p].todo \/ proc[p].saw = "cli"

AreThere == \A p \in Pids : StillThere(p)

\* No List is about to remove its pidfile.
NotDoomed ==
  \A p, c \in Pids : proc[c].pc = "prune" => First(proc[c].todo) \notin proc[p].before

Watching == OnlyWhileLooking /\ AreThere /\ NotDoomed

-----------------------------------------------------------------------------
(* What the steps are built from.                                          *)

\* The ids are numbers: a set of them that is not empty has a first one.
LEMMA FirstIsOne ==
  ASSUME NEW S \in SUBSET Pids, S # {}
  PROVE  First(S) \in S
<1>1. S \subseteq Nat
  BY MachineAssumption
<1>2. PICK x \in S : \A y \in S : ~(<<y, x>> \in OpToRel(<, Nat))
  BY <1>1, NatLessThanWellFounded, WFMin
<1>3. \A y \in S : ~(<<y, x>> \in {ss \in Nat \X Nat : ss[1] < ss[2]})
  BY <1>2 DEF OpToRel
<1>4. \A y \in S : ~(y < x)
  BY <1>1, <1>3
<1>5. \A y \in S : x <= y
  BY <1>1, <1>4
<1> QED BY <1>5 DEF First

\* The steps of setup, in their order.
LEMMA NextSteps ==
  /\ After("identity") = "openclaw"
  /\ After("openclaw") = "daemon"
  /\ After("daemon") = "done"
<1> DEFINE at(step) == CHOOSE i \in 1..3 : Steps[i] = step
<1>1. Steps[1] = "identity" /\ Steps[2] = "openclaw" /\ Steps[3] = "daemon" /\ Steps[4] = "done"
  BY DEF Steps
<1>2. at("identity") = 1 /\ at("openclaw") = 2 /\ at("daemon") = 3
  BY <1>1
<1> QED BY <1>1, <1>2 DEF After

\* Only p moves.
OnlyMoves(p) ==
  /\ proc' \in [Pids -> Process]
  /\ \A q \in Pids \ {p} : proc'[q] = proc[q]

LEMMA Becomes ==
  ASSUME proc \in [Pids -> Process], NEW p \in Pids, NEW r \in Process,
         proc' = [proc EXCEPT ![p] = r]
  PROVE  OnlyMoves(p) /\ proc'[p] = r
BY DEF OnlyMoves

\* Where a process ends, its id is free and no List need find it.
LEMMA WithoutOne ==
  ASSUME proc \in [Pids -> Process], NEW p \in Pids, proc' = Without(p)
  PROVE  /\ proc' \in [Pids -> Process] /\ proc'[p] = Free
         /\ \A q \in Pids \ {p} :
              /\ proc'[q].kind = proc[q].kind /\ proc'[q].pc = proc[q].pc
              /\ proc'[q].conf = proc[q].conf /\ proc'[q].todo = proc[q].todo
              /\ proc'[q].saw = proc[q].saw /\ proc'[q].before = proc[q].before \ {p}
BY DEF Without, Process, Free

\* A process that starts takes an id that is free, and has nothing.
LEMMA Forked ==
  ASSUME TypeOK, NEW kind \in {"cli", "mcp"}, Fork(kind)
  PROVE  /\ First(FreePids) \in Pids /\ ~Alive(First(FreePids))
         /\ OnlyMoves(First(FreePids))
         /\ proc'[First(FreePids)] = [Free EXCEPT !.kind = kind, !.pc = "load"]
<1>1. First(FreePids) \in FreePids
  BY FirstIsOne DEF FreePids, Fork
<1>2. First(FreePids) \in Pids /\ ~Alive(First(FreePids))
  BY <1>1 DEF FreePids
<1>3. PICK r : r = [Free EXCEPT !.kind = kind, !.pc = "load"]
  OBVIOUS
<1>4. r \in Process
  BY <1>3 DEF Process, Free
<1>5. proc' = [proc EXCEPT ![First(FreePids)] = r]
  BY <1>3 DEF Fork
<1> QED BY <1>2, <1>3, <1>4, <1>5, Becomes DEF TypeOK, MachineTypeOK

\* What a process does while it starts: it goes on by itself.
Runs(p) ==
  /\ OnlyMoves(p)
  /\ proc[p].pc \in {"load", "connect", "gateway", "register", "write"}
  /\ proc'[p].pc \notin {"read", "prune"} /\ proc'[p].before = proc[p].before
  /\ proc'[p].conf \in {proc[p].conf, conf} /\ proc'[p].kind = proc[p].kind
  /\ file' \in [Pids -> {"none", "half", "cli", "mcp"}]
  /\ \A q \in Pids \ {p} : file'[q] = file[q]
  /\ UNCHANGED <<os, conf, svc, faults>>

\* Or it ends, and the manager may start the service again.
Leaves(p) ==
  /\ proc' = Without(p)
  /\ file' \in [Pids -> {"none", "half", "cli", "mcp"}]
  /\ \A q \in Pids \ {p} : file'[q] = file[q]
  /\ svc' = svc \/ (svc.pid # None /\ svc'.pid = None)
  /\ svc' \in [pid : Pids \cup {None}, due : BOOLEAN, on : BOOLEAN]
  /\ faults' \in 0..MaxFaults
  /\ UNCHANGED <<os, conf>>

LEMMA GoneOne ==
  ASSUME TypeOK, NEW p \in Pids, NEW clean \in BOOLEAN, Gone(p, clean)
  PROVE  /\ svc' = svc \/ (svc.pid # None /\ svc'.pid = None)
         /\ svc' \in [pid : Pids \cup {None}, due : BOOLEAN, on : BOOLEAN]
<1>1. Restarts(clean) \in BOOLEAN /\ p # None
  BY MachineAssumption DEF Restarts
<1> QED BY <1>1 DEF Gone, TypeOK, MachineTypeOK

LEMMA FaultCounts ==
  ASSUME TypeOK, Fault
  PROVE  faults' \in 0..MaxFaults
BY MachineAssumption DEF Fault, TypeOK, MachineTypeOK

-----------------------------------------------------------------------------
(* What each step of a process does.                                       *)

LEMMA GoesOne ==
  ASSUME Typed, NEW p \in Pids, NEW pc \in {"stub", "register", "write"}, Goes(p, pc)
  PROVE  /\ OnlyMoves(p) /\ proc'[p].pc = pc /\ proc'[p].kind = proc[p].kind
         /\ proc'[p].conf = proc[p].conf /\ proc'[p].before = proc[p].before
BY DEF Typed, TypeOK, MachineTypeOK, Goes, OnlyMoves, Process

LEMMA LoadOne ==
  ASSUME Typed, NEW p \in Pids, Load(p)
  PROVE  Runs(p) \/ Leaves(p)
<1> USE DEF Typed, TypeOK, MachineTypeOK
<1>1. CASE /\ conf \in Settings /\ UNCHANGED svc
           /\ proc' = [proc EXCEPT ![p].conf = conf,
                                   ![p].pc = IF proc[p].kind = "mcp" THEN "list" ELSE "connect"]
  <2>1. PICK old : old = proc[p]
    OBVIOUS
  <2>2. PICK r : r = [old EXCEPT !.conf = conf,
                                 !.pc = IF old.kind = "mcp" THEN "list" ELSE "connect"]
    OBVIOUS
  <2>3. old \in Process
    BY <2>1
  <2>4. /\ r \in Process /\ r.conf = conf /\ r.before = old.before /\ r.kind = old.kind
        /\ r.pc \in {"list", "connect"}
    BY <1>1, <2>2, <2>3 DEF Process, Settings
  <2>5. proc' = [proc EXCEPT ![p] = r]
    BY <1>1, <2>1, <2>2
  <2>6. OnlyMoves(p) /\ proc'[p] = r
    BY <2>4, <2>5, Becomes
  <2> QED BY <1>1, <2>1, <2>4, <2>6 DEF Load, Runs
<1>2. CASE conf \notin Settings /\ proc[p].kind = "mcp" /\ Goes(p, "stub") /\ UNCHANGED svc
  BY <1>2, GoesOne DEF Load, Runs
<1>3. CASE conf \notin Settings /\ proc[p].kind = "cli" /\ Exit(p, FALSE)
  BY <1>3, GoneOne DEF Load, Exit, Leaves
<1> QED BY <1>1, <1>2, <1>3 DEF Load

LEMMA ConnectOne ==
  ASSUME Typed, NEW p \in Pids, Connect(p)
  PROVE  Runs(p)
<1> USE DEF Typed, TypeOK, MachineTypeOK
<1>1. PICK pc \in NextOf(p) : proc' = [proc EXCEPT ![p].link = TRUE, ![p].pc = pc]
  BY DEF Connect
<1>2. pc \in {"gateway", "register"}
  BY <1>1 DEF NextOf
<1>3. PICK old : old = proc[p]
  OBVIOUS
<1>4. PICK r : r = [old EXCEPT !.link = TRUE, !.pc = pc]
  OBVIOUS
<1>5. old \in Process
  BY <1>3
<1>6. /\ r \in Process /\ r.conf = old.conf /\ r.before = old.before /\ r.kind = old.kind
      /\ r.pc \in {"gateway", "register"}
  BY <1>2, <1>4, <1>5 DEF Process
<1>7. proc' = [proc EXCEPT ![p] = r]
  BY <1>1, <1>3, <1>4
<1>8. OnlyMoves(p) /\ proc'[p] = r
  BY <1>6, <1>7, Becomes
<1> QED BY <1>3, <1>6, <1>8 DEF Connect, Runs

LEMMA WriteOne ==
  ASSUME Typed, NEW p \in Pids, Write(p)
  PROVE  Runs(p)
<1> USE DEF Typed, TypeOK, MachineTypeOK
<1>1. PICK old : old = proc[p]
  OBVIOUS
<1>2. PICK r : r = [old EXCEPT !.pc = "up", !.serving = TRUE]
  OBVIOUS
<1>3. old \in Process
  BY <1>1
<1>4. /\ r \in Process /\ r.conf = old.conf /\ r.before = old.before /\ r.kind = old.kind
      /\ r.pc = "up"
  BY <1>2, <1>3 DEF Process
<1>5. proc' = [proc EXCEPT ![p] = r]
  BY <1>1, <1>2 DEF Write
<1>6. OnlyMoves(p) /\ proc'[p] = r
  BY <1>4, <1>5, Becomes
<1>7. proc[p].kind \in {"cli", "mcp"}
  BY DEF FreeIsOff, Alive, Write, Process
<1>8. file' \in [Pids -> {"none", "half", "cli", "mcp"}]
  BY <1>7 DEF Write
<1> QED BY <1>1, <1>4, <1>6, <1>8 DEF Write, Runs

LEMMA RunOne ==
  ASSUME Typed, NEW p \in Pids, Run(p)
  PROVE  Runs(p) \/ Leaves(p)
<1> USE DEF Typed, TypeOK, MachineTypeOK
<1>1. CASE Load(p)
  BY <1>1, LoadOne
<1>2. CASE Connect(p)
  BY <1>2, ConnectOne
<1>3. CASE EnableOpenClaw(p)
  BY <1>3, GoesOne DEF EnableOpenClaw, Runs
<1>4. CASE Truncate(p)
  BY <1>4, GoesOne DEF Truncate, Runs
<1>5. CASE Write(p)
  BY <1>5, WriteOne
<1> QED BY <1>1, <1>2, <1>3, <1>4, <1>5 DEF Run

LEMMA ConnectFailsOne ==
  ASSUME TypeOK, NEW p \in Pids, ConnectFails(p)
  PROVE  Leaves(p)
BY GoneOne, FaultCounts DEF ConnectFails, Exit, Leaves, TypeOK, MachineTypeOK

LEMMA StopOne ==
  ASSUME TypeOK, NEW p \in Pids, Stop(p)
  PROVE  Leaves(p)
BY GoneOne DEF Stop, Exit, Leaves, TypeOK, MachineTypeOK

LEMMA CrashOne ==
  ASSUME TypeOK, NEW p \in Pids, Crash(p)
  PROVE  Leaves(p)
BY GoneOne, FaultCounts DEF Crash, Exit, Leaves, TypeOK, MachineTypeOK

\* What a process does in a List.
Looks(p) ==
  /\ OnlyMoves(p) /\ proc'[p].kind = proc[p].kind /\ proc'[p].conf = proc[p].conf
  /\ proc[p].pc # "off"
  /\ file' \in [Pids -> {"none", "half", "cli", "mcp"}]
  /\ UNCHANGED <<os, conf, svc, faults>>

LEMMA ReadDirOne ==
  ASSUME Typed, NEW p \in Pids, ReadDir(p)
  PROVE  /\ Looks(p) /\ UNCHANGED file
         /\ proc[p].pc \in {"list", "up"} /\ (proc[p].pc = "up" => proc[p].kind = "mcp")
         /\ proc'[p].pc = "read" /\ proc'[p].saw = "nobody" /\ proc'[p].before = Findable
         /\ proc'[p].todo = {q \in Pids : file[q] # "none"}
<1> USE DEF Typed, TypeOK, MachineTypeOK
<1>1. PICK old : old = proc[p]
  OBVIOUS
<1>2. PICK r : r = [old EXCEPT !.pc = "read", !.saw = "nobody",
                               !.todo = {q \in Pids : file[q] # "none"}, !.before = Findable]
  OBVIOUS
<1>3. old \in Process /\ Findable \in SUBSET Pids
  BY <1>1 DEF Findable
<1>4. /\ r \in Process /\ r.kind = old.kind /\ r.conf = old.conf
      /\ r.pc = "read" /\ r.saw = "nobody" /\ r.before = Findable
      /\ r.todo = {q \in Pids : file[q] # "none"}
  BY <1>2, <1>3 DEF Process
<1>5. proc' = [proc EXCEPT ![p] = r]
  BY <1>1, <1>2 DEF ReadDir
<1>6. OnlyMoves(p) /\ proc'[p] = r
  BY <1>4, <1>5, Becomes
<1> QED BY <1>1, <1>4, <1>6 DEF ReadDir, Looks

LEMMA ReadEntryOne ==
  ASSUME Typed, NEW p \in Pids, ReadEntry(p),
         NEW q, q = Next1(p)
  PROVE  /\ Looks(p) /\ UNCHANGED file /\ q \in Pids
         /\ proc[p].pc = "read" /\ proc[p].todo # {}
         /\ proc'[p].before = proc[p].before
         /\ \/ /\ proc'[p].pc = "prune" /\ ~(file[q] = "cli" /\ Alive(q))
               /\ proc'[p].todo = proc[p].todo
               /\ proc'[p].saw = proc[p].saw \/ proc'[p].saw = Sees(p, q)
            \/ /\ proc'[p].pc = "read" /\ proc'[p].todo = proc[p].todo \ {q}
               /\ proc'[p].saw = proc[p].saw \/ proc'[p].saw = Sees(p, q)
               /\ file[q] = "cli" /\ Alive(q) => proc'[p].saw = Sees(p, q)
<1> USE DEF Typed, TypeOK, MachineTypeOK
<1> DEFINE whole == file[q] \in {"cli", "mcp"}
<1> DEFINE bad == file[q] # "none" /\ ~(whole /\ Alive(q))
<1>1. PICK old : old = proc[p]
  OBVIOUS
<1>2. old \in Process /\ old.todo \in SUBSET Pids /\ old.todo # {}
  BY <1>1 DEF Process, ReadEntry
<1>3. q \in Pids
  BY <1>1, <1>2, FirstIsOne DEF Next1
<1>4. PICK seen : seen = IF whole /\ Alive(q) THEN Sees(p, q) ELSE old.saw
  OBVIOUS
<1>5. seen \in {"nobody", "mcp", "cli"}
  BY <1>1, <1>2, <1>4 DEF Sees, Process
<1>6. PICK r : r = [old EXCEPT !.pc = IF bad THEN "prune" ELSE "read", !.saw = seen,
                               !.todo = IF bad THEN old.todo ELSE old.todo \ {q}]
  OBVIOUS
<1>7. /\ r \in Process /\ r.kind = old.kind /\ r.conf = old.conf /\ r.before = old.before
      /\ r.pc = (IF bad THEN "prune" ELSE "read") /\ r.saw = seen
      /\ r.todo = IF bad THEN old.todo ELSE old.todo \ {q}
  BY <1>2, <1>5, <1>6 DEF Process
<1>8. proc' = [proc EXCEPT ![p] = r]
  BY <1>1, <1>4, <1>6 DEF ReadEntry
<1>9. OnlyMoves(p) /\ proc'[p] = r
  BY <1>7, <1>8, Becomes
<1>10. Looks(p)
  BY <1>1, <1>7, <1>9 DEF ReadEntry, Looks
<1> QED BY <1>1, <1>3, <1>4, <1>7, <1>9, <1>10 DEF ReadEntry

LEMMA PruneOne ==
  ASSUME Typed, NEW p \in Pids, Prune(p)
  PROVE  /\ Looks(p) /\ file' = [file EXCEPT ![Next1(p)] = "none"]
         /\ proc[p].pc = "prune" /\ proc'[p].pc = "read"
         /\ proc'[p].todo = proc[p].todo \ {Next1(p)}
         /\ proc'[p].saw = proc[p].saw /\ proc'[p].before = proc[p].before
<1> USE DEF Typed, TypeOK, MachineTypeOK
<1>1. PICK old : old = proc[p]
  OBVIOUS
<1>2. PICK r : r = [old EXCEPT !.pc = "read", !.todo = old.todo \ {Next1(p)}]
  OBVIOUS
<1>3. old \in Process
  BY <1>1
<1>4. /\ r \in Process /\ r.kind = old.kind /\ r.conf = old.conf /\ r.before = old.before
      /\ r.pc = "read" /\ r.saw = old.saw /\ r.todo = old.todo \ {Next1(p)}
  BY <1>2, <1>3 DEF Process
<1>5. proc' = [proc EXCEPT ![p] = r]
  BY <1>1, <1>2 DEF Prune
<1>6. OnlyMoves(p) /\ proc'[p] = r
  BY <1>4, <1>5, Becomes
<1> QED BY <1>1, <1>4, <1>6 DEF Prune, Looks

LEMMA DecideOne ==
  ASSUME Typed, NEW p \in Pids, Decide(p)
  PROVE  /\ Looks(p) /\ UNCHANGED file
         /\ proc[p].pc = "read" /\ proc[p].todo = {}
         /\ proc'[p].pc = IF proc[p].saw = "cli" THEN "register" ELSE "connect"
         /\ proc'[p].before = {}
<1> USE DEF Typed, TypeOK, MachineTypeOK
<1>1. PICK old : old = proc[p]
  OBVIOUS
<1>2. PICK r : r = [old EXCEPT !.pc = IF old.saw = "cli" THEN "register" ELSE "connect",
                               !.before = {}]
  OBVIOUS
<1>3. old \in Process
  BY <1>1
<1>4. /\ r \in Process /\ r.kind = old.kind /\ r.conf = old.conf /\ r.before = {}
      /\ r.pc = IF old.saw = "cli" THEN "register" ELSE "connect"
  BY <1>2, <1>3 DEF Process
<1>5. proc' = [proc EXCEPT ![p] = r]
  BY <1>1, <1>2 DEF Decide
<1>6. OnlyMoves(p) /\ proc'[p] = r
  BY <1>4, <1>5, Becomes
<1> QED BY <1>1, <1>4, <1>6 DEF Decide, Listed, Looks

LEMMA ReportOne ==
  ASSUME Typed, NEW p \in Pids, Report(p)
  PROVE  /\ Looks(p) /\ UNCHANGED file
         /\ proc[p].pc = "read" /\ proc'[p].pc = "up" /\ proc'[p].before = {}
<1> USE DEF Typed, TypeOK, MachineTypeOK
<1>1. PICK old : old = proc[p]
  OBVIOUS
<1>2. PICK r : r = [old EXCEPT !.pc = "up", !.saw = "nobody", !.before = {}]
  OBVIOUS
<1>3. old \in Process
  BY <1>1
<1>4. /\ r \in Process /\ r.kind = old.kind /\ r.conf = old.conf /\ r.before = {}
      /\ r.pc = "up"
  BY <1>2, <1>3 DEF Process
<1>5. proc' = [proc EXCEPT ![p] = r]
  BY <1>1, <1>2 DEF Report
<1>6. OnlyMoves(p) /\ proc'[p] = r
  BY <1>4, <1>5, Becomes
<1> QED BY <1>1, <1>4, <1>6 DEF Report, Listed, Looks

-----------------------------------------------------------------------------
(* A List keeps sight of the daemons that it must find.                    *)

LEMMA InitWatching ==
  ASSUME Init
  PROVE  Watching
BY DEF Init, MachineInit, Free, Watching, OnlyWhileLooking, AreThere, StillThere, NotDoomed

LEMMA RunsKeepSight ==
  ASSUME Typed, Watching, NEW p \in Pids, Runs(p)
  PROVE  Watching'
<1> USE DEF Runs, OnlyMoves
<1>1. proc'[p].before = {}
  BY DEF Watching, OnlyWhileLooking
<1>2. \A a \in Pids : proc'[a].before = proc[a].before
  BY <1>1
<1>3. \A a \in Pids : \A q \in proc[a].before : q \in Pids /\ q # p /\ a # p
  BY <1>1, <1>2 DEF Watching, AreThere, StillThere, Typed, TypeOK, MachineTypeOK, Process
<1>4. OnlyWhileLooking'
  BY <1>1 DEF Watching, OnlyWhileLooking
<1>5. AreThere'
  BY <1>2, <1>3 DEF Watching, AreThere, StillThere
<1>6. NotDoomed'
  BY <1>2, <1>3 DEF Watching, NotDoomed, First
<1> QED BY <1>4, <1>5, <1>6 DEF Watching

LEMMA LeavesKeepSight ==
  ASSUME Typed, Watching, NEW p \in Pids, Leaves(p)
  PROVE  Watching'
<1>1. /\ proc'[p] = Free
      /\ \A q \in Pids \ {p} :
           /\ proc'[q].kind = proc[q].kind /\ proc'[q].pc = proc[q].pc
           /\ proc'[q].todo = proc[q].todo /\ proc'[q].saw = proc[q].saw
           /\ proc'[q].before = proc[q].before \ {p}
  BY WithoutOne DEF Leaves, Typed, TypeOK, MachineTypeOK
<1>2. proc'[p].before = {} /\ proc'[p].pc = "off"
  BY <1>1 DEF Free
<1>3. \A a \in Pids : \A q \in proc'[a].before :
        q \in Pids /\ q # p /\ a # p /\ q \in proc[a].before
  BY <1>1, <1>2 DEF Typed, TypeOK, MachineTypeOK, Process
<1>4. OnlyWhileLooking'
  BY <1>1, <1>2 DEF Watching, OnlyWhileLooking
<1>5. AreThere'
  BY <1>1, <1>3 DEF Watching, AreThere, StillThere, Leaves
<1>6. NotDoomed'
  BY <1>1, <1>2, <1>3 DEF Watching, NotDoomed, First
<1> QED BY <1>4, <1>5, <1>6 DEF Watching

LEMMA ForkKeepsSight ==
  ASSUME Typed, Watching, NEW kind \in {"cli", "mcp"}, Fork(kind), UNCHANGED file
  PROVE  Watching'
<1>1. PICK x : x = First(FreePids)
  OBVIOUS
<1>2. /\ x \in Pids /\ ~Alive(x) /\ OnlyMoves(x)
      /\ proc'[x].pc = "load" /\ proc'[x].before = {}
  BY <1>1, Forked DEF Typed, Free
<1>3. \A a \in Pids : \A q \in proc'[a].before :
        q \in Pids /\ q # x /\ a # x /\ q \in proc[a].before
  BY <1>2 DEF Watching, AreThere, StillThere, Typed, TypeOK, MachineTypeOK, Process, Alive,
              OnlyMoves
<1>4. OnlyWhileLooking'
  BY <1>2 DEF Watching, OnlyWhileLooking, OnlyMoves
<1>5. AreThere'
  BY <1>2, <1>3 DEF Watching, AreThere, StillThere, OnlyMoves
<1>6. NotDoomed'
  BY <1>2, <1>3 DEF Watching, NotDoomed, First, OnlyMoves
<1> QED BY <1>4, <1>5, <1>6 DEF Watching

LEMMA ReadDirKeepsSight ==
  ASSUME Typed, Watching, NEW p \in Pids, ReadDir(p)
  PROVE  Watching'
<1>1. /\ Looks(p) /\ UNCHANGED file
      /\ proc[p].pc \in {"list", "up"} /\ (proc[p].pc = "up" => proc[p].kind = "mcp")
      /\ proc'[p].pc = "read" /\ proc'[p].before = Findable
      /\ proc'[p].todo = {q \in Pids : file[q] # "none"}
  BY ReadDirOne
<1> USE <1>1 DEF Looks, OnlyMoves
<1>2. \A q \in Findable :
        /\ q \in Pids /\ q # p /\ q \notin Doomed
        /\ proc[q].kind = "cli" /\ proc[q].pc = "up" /\ file[q] = "cli"
  BY DEF Findable
<1>3. \A a \in Pids \ {p} : \A q \in proc'[a].before :
        q \in Pids /\ q # p /\ q \in proc[a].before
  BY DEF Watching, AreThere, StillThere, Typed, TypeOK, MachineTypeOK, Process
<1>4. OnlyWhileLooking'
  BY DEF Watching, OnlyWhileLooking
<1>5. ASSUME NEW a \in Pids
      PROVE  StillThere(a)'
  <2>1. CASE a = p
    BY <1>2, <2>1 DEF StillThere
  <2>2. CASE a # p
    BY <1>3, <2>2 DEF Watching, AreThere, StillThere
  <2> QED BY <2>1, <2>2
<1>6. ASSUME NEW a \in Pids, NEW c \in Pids, proc'[c].pc = "prune"
      PROVE  First(proc'[c].todo) \notin proc'[a].before
  <2>1. c # p /\ proc[c].pc = "prune" /\ proc'[c].todo = proc[c].todo
    BY <1>6
  <2>2. CASE a = p
    BY <1>2, <2>1, <2>2 DEF Doomed
  <2>3. CASE a # p
    BY <2>1, <2>3 DEF Watching, NotDoomed
  <2> QED BY <2>2, <2>3
<1>7. NotDoomed'
  BY <1>6 DEF NotDoomed, First
<1> QED BY <1>4, <1>5, <1>7 DEF Watching, AreThere

LEMMA ReadEntryKeepsSight ==
  ASSUME Typed, Watching, NEW p \in Pids, ReadEntry(p)
  PROVE  Watching'
<1>1. PICK q : q = Next1(p)
  OBVIOUS
<1>2. /\ Looks(p) /\ UNCHANGED file /\ q \in Pids
      /\ proc[p].pc = "read" /\ proc'[p].before = proc[p].before
      /\ \/ /\ proc'[p].pc = "prune" /\ ~(file[q] = "cli" /\ Alive(q))
            /\ proc'[p].todo = proc[p].todo
            /\ proc'[p].saw = proc[p].saw \/ proc'[p].saw = Sees(p, q)
         \/ /\ proc'[p].pc = "read" /\ proc'[p].todo = proc[p].todo \ {q}
            /\ proc'[p].saw = proc[p].saw \/ proc'[p].saw = Sees(p, q)
            /\ file[q] = "cli" /\ Alive(q) => proc'[p].saw = Sees(p, q)
  BY <1>1, ReadEntryOne
<1> USE <1>2 DEF Looks, OnlyMoves
<1>3. \A a \in Pids : proc'[a].before = proc[a].before
  OBVIOUS
<1>4. \A a \in Pids : \A x \in proc[a].before :
        /\ x \in Pids /\ x # p /\ Alive(x)
        /\ proc[x].kind = "cli" /\ proc[x].pc = "up" /\ file[x] = "cli"
        /\ x \in proc[a].todo \/ proc[a].saw = "cli"
  BY DEF Watching, AreThere, StillThere, Typed, TypeOK, MachineTypeOK, Process, Alive
<1>5. OnlyWhileLooking'
  BY DEF Watching, OnlyWhileLooking
<1>6. ASSUME NEW x \in proc[p].before
      PROVE  x \in proc'[p].todo \/ proc'[p].saw = "cli"
  <2>1. proc[p].saw = "cli" => proc'[p].saw = "cli"
    BY DEF Sees
  <2>2. CASE x = q
    <3>1. proc'[p].saw = Sees(p, q)
      BY <1>4, <1>6, <2>2
    <3> QED BY <1>4, <1>6, <2>2, <3>1 DEF Sees
  <2>3. CASE x # q
    BY <1>4, <1>6, <2>1, <2>3
  <2> QED BY <2>2, <2>3
<1>7. AreThere'
  BY <1>3, <1>4, <1>6 DEF AreThere, StillThere
<1>8. ASSUME NEW a \in Pids, NEW c \in Pids, proc'[c].pc = "prune"
      PROVE  First(proc'[c].todo) \notin proc'[a].before
  <2>1. CASE c = p
    <3>1. First(proc'[c].todo) = q /\ ~(file[q] = "cli" /\ Alive(q))
      BY <1>1, <1>8, <2>1 DEF Next1
    <3> QED BY <1>3, <1>4, <3>1
  <2>2. CASE c # p
    BY <1>3, <1>8, <2>2 DEF Watching, NotDoomed
  <2> QED BY <2>1, <2>2
<1>9. NotDoomed'
  BY <1>8 DEF NotDoomed, First
<1> QED BY <1>5, <1>7, <1>9 DEF Watching

LEMMA PruneKeepsSight ==
  ASSUME Typed, Watching, NEW p \in Pids, Prune(p)
  PROVE  Watching'
<1>1. PICK q : q = Next1(p)
  OBVIOUS
<1>2. /\ Looks(p) /\ file' = [file EXCEPT ![q] = "none"]
      /\ proc[p].pc = "prune" /\ proc'[p].pc = "read"
      /\ proc'[p].todo = proc[p].todo \ {q}
      /\ proc'[p].saw = proc[p].saw /\ proc'[p].before = proc[p].before
  BY <1>1, PruneOne
<1> USE <1>2 DEF Looks, OnlyMoves
<1>3. \A a \in Pids : q \notin proc[a].before
  BY <1>1 DEF Watching, NotDoomed, Next1
<1>4. \A a \in Pids : \A x \in proc[a].before :
        /\ x \in Pids /\ x # p /\ x # q /\ file'[x] = file[x]
        /\ proc[x].kind = "cli" /\ proc[x].pc = "up" /\ file[x] = "cli"
        /\ x \in proc[a].todo \/ proc[a].saw = "cli"
  BY <1>3 DEF Watching, AreThere, StillThere, Typed, TypeOK, MachineTypeOK, Process
<1>5. OnlyWhileLooking'
  BY DEF Watching, OnlyWhileLooking
<1>6. AreThere'
  BY <1>4 DEF AreThere, StillThere
<1>7. NotDoomed'
  BY DEF Watching, NotDoomed, First
<1> QED BY <1>5, <1>6, <1>7 DEF Watching

LEMMA EndOfListKeepsSight ==
  ASSUME Typed, Watching, NEW p \in Pids, Decide(p) \/ Report(p)
  PROVE  Watching'
<1>1. /\ Looks(p) /\ UNCHANGED file /\ proc[p].pc = "read"
      /\ proc'[p].pc \in {"register", "connect", "up"} /\ proc'[p].before = {}
  BY DecideOne, ReportOne
<1> USE <1>1 DEF Looks, OnlyMoves
<1>2. \A a \in Pids : \A x \in proc'[a].before :
        /\ x \in Pids /\ x # p /\ a # p /\ x \in proc[a].before
  BY DEF Watching, AreThere, StillThere, Typed, TypeOK, MachineTypeOK, Process
<1>3. OnlyWhileLooking'
  BY DEF Watching, OnlyWhileLooking
<1>4. AreThere'
  BY <1>2 DEF Watching, AreThere, StillThere
<1>5. NotDoomed'
  BY <1>2 DEF Watching, NotDoomed, First
<1> QED BY <1>3, <1>4, <1>5 DEF Watching

-----------------------------------------------------------------------------
(* The service has the configuration that setup saved.                     *)

\* The machine leaves the commands alone.
LEMMA MachineKeepsFresh ==
  ASSUME Installed, UNCHANGED <<os, conf, unit, job>>,
         \A q \in Pids : proc'[q].conf \in {proc[q].conf, conf, "none"},
         svc'.pid \in Pids \cup {None},
         \/ svc' = svc
         \/ svc.pid # None /\ svc'.pid = None
         \/ svc.due /\ proc'[svc'.pid].conf = "none"
  PROVE  Fresher'
<1> USE DEF Installed, Fresher
<1>1. Replaces' = Replaces
  BY DEF Replaces
<1>2. NoUnitNoService'
  BY DEF NoUnitNoService
<1>3. JobHasUnit'
  BY DEF JobHasUnit
<1>4. StartsFresh'
  BY <1>1 DEF StartsFresh
<1>5. FreshAfterSetup'
  BY <1>1 DEF FreshAfterSetup, Fresh, Readable, Loaded, Settings
<1> QED BY <1>2, <1>3, <1>4, <1>5

LEMMA RunsInstalled ==
  ASSUME Installed, NEW p \in Pids, Runs(p), UNCHANGED <<unit, job, jobs>>
  PROVE  Installed'
<1>1. TypeOK' /\ FreeIsOff'
  BY DEF Installed, Typed, TypeOK, MachineTypeOK, Runs, OnlyMoves, FreeIsOff, Alive
<1>2. Fresher'
  <2>1. \A q \in Pids : proc'[q].conf \in {proc[q].conf, conf, "none"}
    BY DEF Runs, OnlyMoves
  <2>2. svc'.pid \in Pids \cup {None}
    BY <1>1 DEF TypeOK, MachineTypeOK
  <2> QED BY <2>1, <2>2, MachineKeepsFresh DEF Runs
<1> QED BY <1>1, <1>2 DEF Installed, Typed

LEMMA LooksInstalled ==
  ASSUME Installed, NEW p \in Pids, Looks(p), UNCHANGED <<unit, job, jobs>>
  PROVE  Installed'
<1>1. TypeOK' /\ FreeIsOff'
  BY DEF Installed, Typed, TypeOK, MachineTypeOK, Looks, OnlyMoves, FreeIsOff, Alive
<1>2. Fresher'
  <2>1. \A q \in Pids : proc'[q].conf \in {proc[q].conf, conf, "none"}
    BY DEF Looks, OnlyMoves
  <2>2. svc'.pid \in Pids \cup {None}
    BY <1>1 DEF TypeOK, MachineTypeOK
  <2> QED BY <2>1, <2>2, MachineKeepsFresh DEF Looks
<1> QED BY <1>1, <1>2 DEF Installed, Typed

LEMMA LeavesTyped ==
  ASSUME Typed, NEW p \in Pids, Leaves(p)
  PROVE  /\ MachineTypeOK' /\ FreeIsOff'
         /\ \A q \in Pids : proc'[q].conf \in {proc[q].conf, "none"}
<1>1. /\ proc' \in [Pids -> Process] /\ proc'[p] = Free
      /\ \A q \in Pids \ {p} :
           /\ proc'[q].kind = proc[q].kind /\ proc'[q].pc = proc[q].pc
           /\ proc'[q].conf = proc[q].conf
  BY WithoutOne DEF Leaves, Typed, TypeOK, MachineTypeOK
<1>2. MachineTypeOK'
  BY <1>1 DEF Leaves, Typed, TypeOK, MachineTypeOK
<1>3. FreeIsOff'
  BY <1>1 DEF Free, Typed, FreeIsOff, Alive
<1>4. \A q \in Pids : proc'[q].conf \in {proc[q].conf, "none"}
  BY <1>1 DEF Free
<1> QED BY <1>2, <1>3, <1>4

LEMMA LeavesInstalled ==
  ASSUME Installed, NEW p \in Pids, Leaves(p), UNCHANGED <<unit, job, jobs>>
  PROVE  Installed'
<1>1. /\ MachineTypeOK' /\ FreeIsOff'
      /\ \A q \in Pids : proc'[q].conf \in {proc[q].conf, "none"}
  BY LeavesTyped DEF Installed
<1>2. TypeOK'
  BY <1>1 DEF Installed, Typed, TypeOK
<1>3. Fresher'
  <2>1. svc'.pid \in Pids \cup {None}
    BY <1>1 DEF MachineTypeOK
  <2> QED BY <1>1, <2>1, MachineKeepsFresh DEF Leaves
<1> QED BY <1>1, <1>2, <1>3 DEF Installed, Typed

LEMMA ForkTyped ==
  ASSUME Typed, NEW kind \in {"cli", "mcp"}, Fork(kind)
  PROVE  /\ First(FreePids) \in Pids /\ proc'[First(FreePids)].conf = "none"
         /\ proc' \in [Pids -> Process] /\ FreeIsOff'
         /\ \A q \in Pids : proc'[q].conf \in {proc[q].conf, "none"}
<1>1. PICK x : x = First(FreePids)
  OBVIOUS
<1>2. /\ x \in Pids /\ OnlyMoves(x)
      /\ proc'[x].kind = kind /\ proc'[x].conf = "none"
  BY <1>1, Forked DEF Typed, Free
<1>3. FreeIsOff'
  BY <1>2 DEF Typed, FreeIsOff, Alive, OnlyMoves
<1> QED BY <1>1, <1>2, <1>3 DEF OnlyMoves

LEMMA LaunchInstalled ==
  ASSUME Installed, Launch, UNCHANGED <<unit, job, jobs>>
  PROVE  Installed'
<1>1. PICK x : x = First(FreePids)
  OBVIOUS
<1>2. /\ x \in Pids /\ proc'[x].conf = "none"
      /\ proc' \in [Pids -> Process] /\ FreeIsOff'
      /\ \A q \in Pids : proc'[q].conf \in {proc[q].conf, "none"}
  BY <1>1, ForkTyped DEF Launch, Installed
<1>3. /\ svc' \in [pid : Pids \cup {None}, due : BOOLEAN, on : BOOLEAN]
      /\ svc'.pid = x /\ svc.due
  BY <1>1, <1>2 DEF Launch, Installed, Typed, TypeOK, MachineTypeOK
<1>4. TypeOK'
  BY <1>2, <1>3 DEF Launch, Installed, Typed, TypeOK, MachineTypeOK
<1>5. Fresher'
  BY <1>2, <1>3, MachineKeepsFresh DEF Launch
<1> QED BY <1>2, <1>4, <1>5 DEF Installed, Typed

LEMMA OpenInstalled ==
  ASSUME Installed, NEW kind \in {"cli", "mcp"}, Open(kind), UNCHANGED <<unit, job, jobs>>
  PROVE  Installed'
<1>1. /\ proc' \in [Pids -> Process] /\ FreeIsOff'
      /\ \A q \in Pids : proc'[q].conf \in {proc[q].conf, "none"}
  BY ForkTyped DEF Open, Installed
<1>2. TypeOK'
  BY <1>1 DEF Open, Installed, Typed, TypeOK, MachineTypeOK
<1>3. Fresher'
  <2>1. svc'.pid \in Pids \cup {None}
    BY <1>2 DEF TypeOK, MachineTypeOK
  <2> QED BY <1>1, <2>1, MachineKeepsFresh DEF Open
<1> QED BY <1>1, <1>2, <1>3 DEF Installed, Typed

-----------------------------------------------------------------------------
(* The commands.                                                           *)

\* What does not touch the processes and the service, and does not end setup.
LEMMA CommandKeepsFresh ==
  ASSUME Installed, UNCHANGED <<os, svc, proc>>,
         unit => unit', job'.pc \in {"stop", "start"} => unit',
         job'.pc = "start" => ~Replaces, job'.pc = "done" => job'.warned
  PROVE  FreeIsOff' /\ Fresher'
<1> USE DEF Installed, Fresher
<1>1. FreeIsOff'
  BY DEF Typed, FreeIsOff, Alive
<1>2. NoUnitNoService' /\ JobHasUnit'
  BY DEF NoUnitNoService, JobHasUnit
<1>3. StartsFresh' /\ FreshAfterSetup'
  BY DEF StartsFresh, FreshAfterSetup, Fresh, Replaces
<1> QED BY <1>1, <1>2, <1>3

LEMMA BeginInstalled ==
  ASSUME Installed, NEW pc \in {"identity", "install", "remove"}, Begin(pc)
  PROVE  Installed'
<1>1. PICK idle : idle = Idle
  OBVIOUS
<1>2. /\ job' = [idle EXCEPT !.pc = pc] /\ jobs < MaxJobs /\ jobs' = jobs + 1
      /\ UNCHANGED <<os, conf, svc, proc, file, faults, unit>>
  BY <1>1 DEF Begin, machine
<1>3. job' = [pc |-> pc, save |-> "none", then |-> "off", warned |-> FALSE]
  BY <1>1, <1>2 DEF Idle
<1>4. TypeOK' /\ job'.pc = pc
  <2>1. jobs' \in 0..MaxJobs
    BY <1>2, SetupAssumption DEF Installed, Typed, TypeOK
  <2>2. MachineTypeOK' /\ unit' \in BOOLEAN
    BY <1>2 DEF Installed, Typed, TypeOK, MachineTypeOK
  <2> QED BY <1>3, <2>1, <2>2 DEF TypeOK
<1>5. FreeIsOff' /\ Fresher'
  BY <1>2, <1>4, CommandKeepsFresh
<1> QED BY <1>4, <1>5 DEF Installed, Typed

LEMMA InitCommandInstalled ==
  ASSUME Installed, InitCommand
  PROVE  Installed'
<1>1. PICK idle : idle = Idle
  OBVIOUS
<1>2. /\ job' = [idle EXCEPT !.pc = "saving", !.save = "plain"]
      /\ jobs < MaxJobs /\ jobs' = jobs + 1 /\ conf' = "torn"
      /\ UNCHANGED <<os, svc, proc, file, faults, unit>>
  BY <1>1 DEF InitCommand
<1>3. job' = [pc |-> "saving", save |-> "plain", then |-> "off", warned |-> FALSE]
  BY <1>1, <1>2 DEF Idle
<1>4. TypeOK' /\ job'.pc = "saving"
  <2>1. jobs' \in 0..MaxJobs
    BY <1>2, SetupAssumption DEF Installed, Typed, TypeOK
  <2>2. MachineTypeOK' /\ unit' \in BOOLEAN
    BY <1>2 DEF Installed, Typed, TypeOK, MachineTypeOK
  <2> QED BY <1>3, <2>1, <2>2 DEF TypeOK, Settings
<1>5. FreeIsOff' /\ Fresher'
  BY <1>2, <1>4, CommandKeepsFresh
<1> QED BY <1>4, <1>5 DEF Installed, Typed

LEMMA IdentityInstalled ==
  ASSUME Installed, Identity
  PROVE  Installed'
<1> USE DEF Identity, Save, JobGoes
<1>1. TypeOK' /\ job'.pc \in {"saving", "openclaw"}
  BY NextSteps DEF Installed, Typed, TypeOK, MachineTypeOK, Settings
<1>2. FreeIsOff' /\ Fresher'
  BY <1>1, CommandKeepsFresh
<1> QED BY <1>1, <1>2 DEF Installed, Typed

LEMMA OpenClawInstalled ==
  ASSUME Installed, OpenClaw
  PROVE  Installed'
<1> USE DEF OpenClaw, Save, JobGoes, Warns
<1>1. job'.pc \in {"saving", "daemon"}
  BY NextSteps DEF Installed, Typed, TypeOK
<1>3. TypeOK'
  <2>1. conf' \in Settings \cup {"none", "torn"}
    BY DEF Installed, Typed, TypeOK, MachineTypeOK
  <2>2. PICK old : old = job
    OBVIOUS
  <2>3. old \in [pc : {"off", "identity", "saving", "openclaw", "daemon", "install", "stop",
                      "start", "remove", "data", "done"},
                save : Settings \cup {"none"}, then : {"off", "openclaw", "daemon"},
                warned : BOOLEAN]
    BY <2>2 DEF Installed, Typed, TypeOK
  <2>4. \/ job' = [old EXCEPT !.pc = "daemon"]
        \/ job' = [old EXCEPT !.pc = "daemon", !.warned = TRUE]
        \/ job' = [old EXCEPT !.pc = "saving", !.save = "openclaw", !.then = "daemon"]
        \/ job' = [old EXCEPT !.pc = "saving", !.save = "plain", !.then = "daemon"]
    BY <2>2, NextSteps
  <2>5. job' \in [pc : {"off", "identity", "saving", "openclaw", "daemon", "install", "stop",
                       "start", "remove", "data", "done"},
                 save : Settings \cup {"none"}, then : {"off", "openclaw", "daemon"},
                 warned : BOOLEAN]
    BY ONLY <2>3, <2>4 DEF Settings
  <2>6. UNCHANGED <<os, svc, proc, file, faults, unit, jobs>>
    OBVIOUS
  <2> QED BY <2>1, <2>5, <2>6 DEF Installed, Typed, TypeOK, MachineTypeOK
<1>2. FreeIsOff' /\ Fresher'
  BY <1>1, <1>3, CommandKeepsFresh
<1> QED BY <1>2, <1>3 DEF Installed, Typed

LEMMA SavedInstalled ==
  ASSUME Installed, Saved
  PROVE  Installed'
<1> USE DEF Saved
<1>1. TypeOK' /\ job'.pc \in {"off", "openclaw", "daemon"}
  BY DEF Installed, Typed, TypeOK, MachineTypeOK
<1>2. FreeIsOff' /\ Fresher'
  BY <1>1, CommandKeepsFresh
<1> QED BY <1>1, <1>2 DEF Installed, Typed

LEMMA SaveFailsInstalled ==
  ASSUME Installed, SaveFails
  PROVE  Installed'
<1> USE DEF SaveFails
<1>1. TypeOK' /\ job'.pc \in {"off", "openclaw", "daemon"}
  BY FaultCounts, NextSteps DEF Installed, Typed, TypeOK, MachineTypeOK, Idle
<1>2. FreeIsOff' /\ Fresher'
  BY <1>1, CommandKeepsFresh
<1> QED BY <1>1, <1>2 DEF Installed, Typed

\* Without a configuration or a unit, setup ends with no service that could differ.
LEMMA DaemonInstalled ==
  ASSUME Installed, Daemon
  PROVE  Installed'
<1> USE DEF Daemon, JobGoes, machine, ToStart
<1>1. /\ TypeOK'
      /\ \/ job'.pc = "done" /\ (~Readable \/ ~unit)
         \/ job'.pc = "install"
         \/ unit /\ job'.pc = (IF Replaces THEN "stop" ELSE "start")
  BY NextSteps DEF Installed, Typed, TypeOK, MachineTypeOK
<1>2. CASE job'.pc = "done" /\ (~Readable \/ ~unit)
  <2>1. FreeIsOff'
    BY DEF Installed, Typed, FreeIsOff, Alive
  <2>2. NoUnitNoService' /\ JobHasUnit' /\ StartsFresh'
    BY <1>2 DEF Installed, Fresher, NoUnitNoService, JobHasUnit, StartsFresh
  <2>3. FreshAfterSetup'
    BY <1>2 DEF FreshAfterSetup, Fresh, Readable, Installed, Fresher, NoUnitNoService
  <2> QED BY <1>1, <2>1, <2>2, <2>3 DEF Installed, Typed, Fresher
<1>3. CASE job'.pc # "done"
  <2>1. FreeIsOff' /\ Fresher'
    BY <1>1, <1>3, CommandKeepsFresh
  <2> QED BY <1>1, <2>1 DEF Installed, Typed
<1> QED BY <1>1, <1>2, <1>3

LEMMA InstallInstalled ==
  ASSUME Installed, Install \/ InstallFails
  PROVE  Installed'
<1> USE DEF Install, InstallFails, JobGoes, Warns, machine, ToStart
<1>1. /\ TypeOK' /\ UNCHANGED <<os, svc, proc>> /\ (unit => unit')
      /\ \/ job'.pc = "done" /\ job'.warned
         \/ unit' /\ job'.pc = (IF Replaces THEN "stop" ELSE "start")
  BY FaultCounts, NextSteps DEF Installed, Typed, TypeOK, MachineTypeOK
<1>2. FreeIsOff' /\ Fresher'
  BY <1>1, CommandKeepsFresh
<1> QED BY <1>1, <1>2 DEF Installed, Typed

LEMMA StartFailsInstalled ==
  ASSUME Installed, StartFails
  PROVE  Installed'
<1> USE DEF StartFails, Warns
<1>1. TypeOK' /\ job'.pc = "done" /\ job'.warned
  BY FaultCounts, NextSteps DEF Installed, Typed, TypeOK, MachineTypeOK
<1>2. FreeIsOff' /\ Fresher'
  BY <1>1, CommandKeepsFresh
<1> QED BY <1>1, <1>2 DEF Installed, Typed

LEMMA InterruptInstalled ==
  ASSUME Installed, Interrupt
  PROVE  Installed'
<1> USE DEF Interrupt, machine
<1>1. TypeOK' /\ job'.pc = "off"
  BY DEF Installed, Typed, TypeOK, MachineTypeOK, Idle
<1>2. FreeIsOff' /\ Fresher'
  BY <1>1, CommandKeepsFresh
<1> QED BY <1>1, <1>2 DEF Installed, Typed

\* Where the manager replaces the process, there is none when it starts one.
LEMMA StartInstalled ==
  ASSUME Installed, Start
  PROVE  Installed'
<1> USE DEF Start, JobGoes
<1>1. /\ TypeOK' /\ job'.pc = "done" /\ unit /\ unit' = unit
      /\ svc'.pid = svc.pid
  BY NextSteps DEF Installed, Typed, TypeOK, MachineTypeOK, Fresher, JobHasUnit
<1>2. FreeIsOff'
  BY DEF Installed, Typed, FreeIsOff, Alive
<1>3. NoUnitNoService' /\ JobHasUnit' /\ StartsFresh'
  BY <1>1 DEF NoUnitNoService, JobHasUnit, StartsFresh
<1>4. FreshAfterSetup'
  BY <1>1 DEF Installed, Fresher, StartsFresh, FreshAfterSetup, Fresh, Replaces
<1> QED BY <1>1, <1>2, <1>3, <1>4 DEF Installed, Typed, Fresher

\* Stopping the service is a process that leaves, or nothing.
LEMMA StopServiceOne ==
  ASSUME Typed, StopService, UNCHANGED <<os, conf, faults>>
  PROVE  /\ svc' = NoService
         /\ \/ svc.pid \in Pids /\ Leaves(svc.pid)
            \/ UNCHANGED <<proc, file>>
<1> USE DEF Typed, TypeOK, MachineTypeOK
<1>1. NoService \in [pid : Pids \cup {None}, due : BOOLEAN, on : BOOLEAN]
  BY DEF NoService
<1>2. CASE svc.pid = None
  BY <1>2 DEF StopService
<1>3. CASE svc.pid # None
  <2>1. PICK p \in Pids : p = svc.pid
    BY <1>3
  <2>2. /\ file' \in [Pids -> {"none", "half", "cli", "mcp"}]
        /\ \A q \in Pids \ {p} : file'[q] = file[q]
    BY <1>3, <2>1 DEF StopService
  <2>3. Leaves(p)
    BY <1>1, <1>3, <2>1, <2>2 DEF StopService, Leaves, NoService
  <2> QED BY <2>1, <2>3 DEF StopService
<1> QED BY <1>2, <1>3

LEMMA StoppedTyped ==
  ASSUME Typed, StopService, UNCHANGED <<os, conf, faults>>
  PROVE  MachineTypeOK' /\ FreeIsOff' /\ svc'.pid = None /\ ~svc'.due
<1>1. svc'.pid = None /\ ~svc'.due
  BY StopServiceOne DEF NoService
<1>2. CASE svc.pid \in Pids /\ Leaves(svc.pid)
  BY <1>1, <1>2, LeavesTyped
<1>3. CASE UNCHANGED <<proc, file>>
  <2>1. FreeIsOff'
    BY <1>3 DEF Typed, FreeIsOff, Alive
  <2>2. svc' \in [pid : Pids \cup {None}, due : BOOLEAN, on : BOOLEAN]
    <3>1. svc' = NoService
      BY StopServiceOne
    <3> QED BY <3>1 DEF NoService
  <2> QED BY <1>1, <1>3, <2>1, <2>2 DEF Typed, TypeOK, MachineTypeOK
<1> QED BY <1>1, <1>2, <1>3, StopServiceOne

LEMMA BootoutInstalled ==
  ASSUME Installed, Bootout
  PROVE  Installed'
<1>1. MachineTypeOK' /\ FreeIsOff' /\ svc'.pid = None /\ ~svc'.due
  BY StoppedTyped DEF Installed, Bootout
<1>2. TypeOK' /\ job'.pc = "start" /\ unit'
  BY <1>1 DEF Installed, Typed, TypeOK, Fresher, JobHasUnit, Bootout, JobGoes
<1>3. Fresher'
  BY <1>1, <1>2 DEF Fresher, NoUnitNoService, JobHasUnit, StartsFresh, FreshAfterSetup, Fresh
<1> QED BY <1>1, <1>2, <1>3 DEF Installed, Typed

LEMMA RemoveInstalled ==
  ASSUME Installed, Remove
  PROVE  Installed'
<1> USE DEF Installed, Fresher
<1>1. MachineTypeOK' /\ FreeIsOff' /\ svc'.pid = None /\ ~svc'.due
  <2>1. CASE unit
    BY <2>1, StoppedTyped DEF Remove
  <2>2. CASE ~unit
    BY <2>2 DEF Remove, NoUnitNoService, Typed, TypeOK, MachineTypeOK, FreeIsOff, Alive
  <2> QED BY <2>1, <2>2
<1>2. TypeOK' /\ job'.pc \in {"off", "data"}
  BY <1>1 DEF Typed, TypeOK, Remove, JobGoes
<1>3. Fresher'
  BY <1>1, <1>2 DEF NoUnitNoService, JobHasUnit, StartsFresh, FreshAfterSetup, Fresh
<1> QED BY <1>1, <1>2, <1>3 DEF Typed

\* What is removed are the pidfiles: the processes go on.
LEMMA RemoveDataOne ==
  ASSUME Typed, RemoveData
  PROVE  /\ proc' \in [Pids -> Process]
         /\ \A q \in Pids :
              /\ proc'[q].kind = proc[q].kind /\ proc'[q].pc = proc[q].pc
              /\ proc'[q].conf = proc[q].conf /\ proc'[q].before = {}
<1>1. proc' = [q \in Pids |-> [proc[q] EXCEPT !.before = {}]]
  BY DEF RemoveData
<1>2. ASSUME NEW q \in Pids
      PROVE  /\ proc'[q] \in Process
             /\ proc'[q].kind = proc[q].kind /\ proc'[q].pc = proc[q].pc
             /\ proc'[q].conf = proc[q].conf /\ proc'[q].before = {}
  <2>1. PICK old : old = proc[q]
    OBVIOUS
  <2>2. PICK r : r = [old EXCEPT !.before = {}]
    OBVIOUS
  <2>3. proc'[q] = r /\ old \in Process
    BY <1>1, <2>1, <2>2 DEF Typed, TypeOK, MachineTypeOK
  <2> QED BY <2>1, <2>2, <2>3 DEF Process
<1>3. proc' \in [Pids -> Process]
  BY <1>1, <1>2
<1> QED BY <1>2, <1>3

LEMMA RemoveDataInstalled ==
  ASSUME Installed, RemoveData
  PROVE  Installed'
<1> USE DEF Installed, Fresher
<1>1. /\ proc' \in [Pids -> Process]
      /\ \A q \in Pids : proc'[q].kind = proc[q].kind /\ proc'[q].pc = proc[q].pc
  BY RemoveDataOne
<1>2. TypeOK' /\ job'.pc = "off"
  BY <1>1 DEF Typed, TypeOK, MachineTypeOK, RemoveData, JobGoes
<1>3. FreeIsOff'
  BY <1>1 DEF Typed, FreeIsOff, Alive
<1>4. Fresher'
  BY <1>2 DEF NoUnitNoService, JobHasUnit, StartsFresh, FreshAfterSetup, Fresh, RemoveData
<1> QED BY <1>2, <1>3, <1>4 DEF Typed

LEMMA LogInInstalled ==
  ASSUME Installed, LogIn
  PROVE  Installed'
<1> USE DEF Installed, Fresher
<1>1. proc' \in [Pids -> Process] /\ \A q \in Pids : proc'[q].pc = "off"
  BY DEF LogIn, Process, Free
<1>2. TypeOK' /\ job'.pc = "off"
  BY <1>1, FaultCounts DEF Typed, TypeOK, MachineTypeOK, LogIn, Idle
<1>3. FreeIsOff'
  BY <1>1 DEF FreeIsOff
<1>4. Fresher'
  BY <1>2 DEF NoUnitNoService, JobHasUnit, StartsFresh, FreshAfterSetup, Fresh, LogIn
<1> QED BY <1>2, <1>3, <1>4 DEF Typed

-----------------------------------------------------------------------------
(* Every step.                                                             *)

\* What the machine can do.
LEMMA MachineCases ==
  ASSUME Typed, MachineNext
  PROVE  \/ Launch
         \/ \E kind \in {"cli", "mcp"} : Open(kind)
         \/ \E p \in Pids :
              \/ Runs(p) \/ Leaves(p)
              \/ ReadDir(p) \/ ReadEntry(p) \/ Prune(p) \/ Decide(p) \/ Report(p)
<1>1. ASSUME NEW p \in Pids, Run(p) \/ Look(p) \/ Stop(p) \/ Crash(p) \/ ConnectFails(p)
      PROVE  \/ Runs(p) \/ Leaves(p)
             \/ ReadDir(p) \/ ReadEntry(p) \/ Prune(p) \/ Decide(p) \/ Report(p)
  BY <1>1, RunOne, StopOne, CrashOne, ConnectFailsOne DEF Look, Typed
<1> QED BY <1>1 DEF MachineNext

LEMMA InitInstalled ==
  ASSUME Init
  PROVE  Installed
<1>1. PICK free : free = Free
  OBVIOUS
<1>2. free \in Process /\ free.kind = "free" /\ free.pc = "off"
  BY <1>1 DEF Free, Process
<1>3. proc \in [Pids -> Process] /\ FreeIsOff
  BY <1>1, <1>2 DEF Init, MachineInit, FreeIsOff
<1>4. svc \in [pid : Pids \cup {None}, due : BOOLEAN, on : BOOLEAN]
  BY DEF Init, MachineInit, NoService
<1>5. MachineTypeOK
  BY <1>3, <1>4, MachineAssumption DEF Init, MachineInit, MachineTypeOK
<1>6. TypeOK
  <2>1. job = Idle /\ unit \in BOOLEAN
    BY DEF Init
  <2>2. jobs \in 0..MaxJobs
    BY SetupAssumption DEF Init
  <2> QED BY <1>5, <2>1, <2>2 DEF TypeOK, Idle
<1>7. Fresher
  BY DEF Init, MachineInit, Fresher, NoUnitNoService, JobHasUnit, StartsFresh,
         FreshAfterSetup, Fresh, NoService, Idle
<1> QED BY <1>3, <1>6, <1>7 DEF Installed, Typed

LEMMA NextInstalled ==
  ASSUME Installed, [Next]_vars
  PROVE  Installed'
<1>1. CASE MachineNext /\ UNCHANGED <<unit, job, jobs>>
  <2>1. CASE Launch
    BY <1>1, <2>1, LaunchInstalled
  <2>2. CASE \E kind \in {"cli", "mcp"} : Open(kind)
    BY <1>1, <2>2, OpenInstalled
  <2>3. ASSUME NEW p \in Pids,
               \/ Runs(p) \/ Leaves(p)
               \/ ReadDir(p) \/ ReadEntry(p) \/ Prune(p) \/ Decide(p) \/ Report(p)
        PROVE  Installed'
    <3>1. Runs(p) \/ Leaves(p) \/ Looks(p)
      BY <2>3, ReadDirOne, ReadEntryOne, PruneOne, DecideOne, ReportOne DEF Installed
    <3> QED BY <1>1, <3>1, RunsInstalled, LeavesInstalled, LooksInstalled
  <2> QED BY <1>1, <2>1, <2>2, <2>3, MachineCases DEF Installed
<1>2. CASE Commands
  BY <1>2, BeginInstalled, InitCommandInstalled, IdentityInstalled, SavedInstalled,
     SaveFailsInstalled, OpenClawInstalled, DaemonInstalled, InstallInstalled,
     BootoutInstalled, StartInstalled, StartFailsInstalled, RemoveInstalled,
     RemoveDataInstalled, InterruptInstalled, LogInInstalled DEF Commands
<1>3. CASE UNCHANGED vars
  BY <1>3 DEF vars, machine, Installed, Typed, TypeOK, MachineTypeOK, FreeIsOff, Alive,
              Fresher, NoUnitNoService, JobHasUnit, StartsFresh, FreshAfterSetup, Fresh,
              Replaces, Readable, Loaded
<1> QED BY <1>1, <1>2, <1>3 DEF Next

\* A command leaves the Lists alone, ends a process, or takes the pidfiles away.
LEMMA CommandCases ==
  ASSUME Typed, Commands
  PROVE  \/ UNCHANGED <<proc, file>>
         \/ \E p \in Pids : Leaves(p)
         \/ RemoveData \/ LogIn
<1>1. CASE Bootout
  BY <1>1, StopServiceOne DEF Bootout
<1>2. CASE Remove
  <2>1. CASE unit
    BY <1>2, <2>1, StopServiceOne DEF Remove
  <2>2. CASE ~unit
    BY <1>2, <2>2 DEF Remove
  <2> QED BY <2>1, <2>2
<1>3. CASE \/ Begin("identity") \/ Begin("install") \/ Begin("remove") \/ InitCommand
           \/ Identity \/ Saved \/ SaveFails \/ OpenClaw \/ Daemon
           \/ Install \/ InstallFails \/ Start \/ StartFails \/ Interrupt
  BY <1>3 DEF Begin, InitCommand, Identity, Saved, SaveFails, OpenClaw, Daemon, Install,
              InstallFails, Start, StartFails, Interrupt, machine
<1> QED BY <1>1, <1>2, <1>3 DEF Commands

LEMMA SameKeepsSight ==
  ASSUME Watching, UNCHANGED <<proc, file>>
  PROVE  Watching'
BY DEF Watching, OnlyWhileLooking, AreThere, StillThere, NotDoomed, First

LEMMA NobodyLooks ==
  ASSUME \A p \in Pids : proc'[p].before = {}
  PROVE  Watching'
BY DEF Watching, OnlyWhileLooking, AreThere, StillThere, NotDoomed

LEMMA NextWatching ==
  ASSUME Typed, Watching, [Next]_vars
  PROVE  Watching'
<1>1. CASE MachineNext
  <2>1. CASE Launch
    BY <2>1, ForkKeepsSight DEF Launch
  <2>2. CASE \E kind \in {"cli", "mcp"} : Open(kind)
    BY <2>2, ForkKeepsSight DEF Open
  <2>3. CASE \E p \in Pids : Runs(p)
    BY <2>3, RunsKeepSight
  <2>4. CASE \E p \in Pids : Leaves(p)
    BY <2>4, LeavesKeepSight
  <2>5. CASE \E p \in Pids : ReadDir(p) \/ ReadEntry(p) \/ Prune(p) \/ Decide(p) \/ Report(p)
    BY <2>5, ReadDirKeepsSight, ReadEntryKeepsSight, PruneKeepsSight, EndOfListKeepsSight
  <2> QED BY <1>1, <2>1, <2>2, <2>3, <2>4, <2>5, MachineCases
<1>2. CASE Commands
  <2>1. CASE RemoveData
    BY <2>1, RemoveDataOne, NobodyLooks
  <2>2. CASE LogIn
    <3>1. \A p \in Pids : proc'[p].before = {}
      BY <2>2 DEF LogIn, Free
    <3> QED BY <3>1, NobodyLooks
  <2>3. CASE \E p \in Pids : Leaves(p)
    BY <2>3, LeavesKeepSight
  <2> QED BY <1>2, <2>1, <2>2, <2>3, SameKeepsSight, CommandCases
<1>3. CASE UNCHANGED vars
  BY <1>3, SameKeepsSight DEF vars, machine
<1> QED BY <1>1, <1>2, <1>3 DEF Next

-----------------------------------------------------------------------------
(* The theorems.                                                           *)

\* The unit and the service agree, and setup's last step starts no second process.
THEOREM InstalledHolds == Spec => []Installed
<1>1. Init => Installed
  BY InitInstalled
<1>2. Installed /\ [Next]_vars => Installed'
  BY NextInstalled
<1> QED BY <1>1, <1>2, PTL DEF Spec

\* The variables have their types.
THEOREM TypeCorrect == Spec => []TypeOK
<1>1. Installed => TypeOK
  BY DEF Installed, Typed
<1> QED BY <1>1, InstalledHolds, PTL

\* Where the manager replaces the process, what runs after setup has the
\* configuration that was saved (cmd_setup.go: the daemon's step runs last).
THEOREM SetupIsFresh == Spec => []FreshAfterSetup
<1>1. Installed => FreshAfterSetup
  BY DEF Installed, Fresher
<1> QED BY <1>1, InstalledHolds, PTL

\* While a List looks, the daemons that it must find stay up and registered, and
\* are still to be read or have been seen.
THEOREM WatchingHolds == Spec => []Watching
<1>1. Init => Watching
  BY InitWatching
<1>2. Installed /\ Watching /\ [Next]_vars => Watching'
  BY NextWatching DEF Installed
<1> QED BY <1>1, <1>2, InstalledHolds, PTL DEF Spec

\* An MCP server that starts its node has found no daemon, and none was there to
\* be found (listenerreg.go: List; main.go: daemonStateForNode).
THEOREM ServersDefer == Spec => Defers
<1> DEFINE NoneBefore(p) ==
      proc[p].pc = "read" /\ proc'[p].pc = "connect" =>
        ~\E q \in proc[p].before : proc[q].kind = "cli"
<1>1. ASSUME Typed, Watching, Next, NEW p \in Pids
      PROVE  NoneBefore(p)
  <2>1. SUFFICES ASSUME proc[p].pc = "read", proc'[p].pc = "connect"
                 PROVE  proc[p].before = {}
    OBVIOUS
  <2>2. CASE MachineNext
    <3>1. CASE Launch \/ \E kind \in {"cli", "mcp"} : Open(kind)
      <4>1. PICK x \in Pids : OnlyMoves(x) /\ proc'[x].pc = "load"
        BY <1>1, <3>1, Forked DEF Launch, Open, Typed, Free
      <4> QED BY <2>1, <4>1 DEF OnlyMoves
    <3>2. CASE \E a \in Pids : Runs(a)
      BY <2>1, <3>2 DEF Runs, OnlyMoves
    <3>3. CASE \E a \in Pids : Leaves(a)
      BY <1>1, <2>1, <3>3, WithoutOne DEF Leaves, Free, Typed, TypeOK, MachineTypeOK
    <3>4. CASE \E a \in Pids : Decide(a)
      <4>1. PICK a \in Pids :
              /\ OnlyMoves(a) /\ proc[a].todo = {}
              /\ proc'[a].pc = IF proc[a].saw = "cli" THEN "register" ELSE "connect"
        BY <1>1, <3>4, DecideOne DEF Looks
      <4>2. p = a /\ proc[a].saw # "cli"
        BY <2>1, <4>1 DEF OnlyMoves
      <4> QED BY <1>1, <4>1, <4>2 DEF Watching, AreThere, StillThere
    <3>5. CASE \E a \in Pids : ReadDir(a) \/ ReadEntry(a) \/ Prune(a) \/ Report(a)
      <4>1. PICK a \in Pids : OnlyMoves(a) /\ proc'[a].pc \in {"read", "prune", "up"}
        BY <1>1, <3>5, ReadDirOne, ReadEntryOne, PruneOne, ReportOne DEF Looks
      <4> QED BY <2>1, <4>1 DEF OnlyMoves
    <3> QED BY <1>1, <2>2, <3>1, <3>2, <3>3, <3>4, <3>5, MachineCases
  <2>3. CASE Commands
    <3>1. CASE RemoveData
      BY <1>1, <2>1, <3>1, RemoveDataOne
    <3>2. CASE LogIn
      BY <2>1, <3>2 DEF LogIn, Free
    <3>3. CASE \E a \in Pids : Leaves(a)
      BY <1>1, <2>1, <3>3, WithoutOne DEF Leaves, Free, Typed, TypeOK, MachineTypeOK
    <3>4. CASE UNCHANGED <<proc, file>>
      BY <2>1, <3>4
    <3> QED BY <1>1, <2>3, <3>1, <3>2, <3>3, <3>4, CommandCases
  <2> QED BY <1>1, <2>2, <2>3 DEF Next
<1>2. Installed /\ Watching /\ [Next]_vars =>
        [\A p \in Pids : proc[p].pc = "read" /\ proc'[p].pc = "connect" =>
           ~\E q \in proc[p].before : proc[q].kind = "cli"]_vars
  BY <1>1 DEF Installed
<1> QED BY <1>2, InstalledHolds, WatchingHolds, PTL DEF Spec, Defers
=============================================================================

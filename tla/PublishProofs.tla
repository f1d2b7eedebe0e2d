---------------------------- MODULE PublishProofs ----------------------------
(***************************************************************************)
(* That an undisturbed publish whose clear was carried out leaves its      *)
(* directory with the files of its build, and a static site served where   *)
(* it is published from one directory, for any number of publishes,        *)
(* builds, directories, ports and processes.                               *)
(***************************************************************************)
EXTENDS Publish, TLAPS

JobRecords ==
  [pc : Steps, build : Builds \cup {None}, dir : Dirs \cup {None}, port : Ports \cup {None},
   ok : BOOLEAN]

Processes ==
  [kind : {"none", "supervisor", "starting", "up"}, code : Builds \cup {None},
   boss : Pids \cup {None}, dir : Dirs \cup {None}, port : Ports \cup {None}]

Orders == [name : {"stop", "clean", "start"}, build : Builds, dir : Dirs, port : Ports]

\* The type invariant, part by part; and a publish that runs has a build and a place.
HandlersTyped ==
  /\ job \in [Jobs -> JobRecords]
  /\ profile \in Profiles
  /\ stale \subseteq Jobs /\ record \in [Builds -> {"none", "ok", "failed"}]
  /\ keys \subseteq Jobs
  /\ \A j \in Jobs : j \in keys <=> job[j].pc \notin {"idle", "report"}
  /\ \A j \in Jobs : job[j].pc # "idle" =>
       job[j].build \in Builds /\ job[j].dir \in Dirs /\ job[j].port \in Ports

DirectoryTyped ==
  /\ entry \in [Dirs -> Builds \cup {None}] /\ leftover \in [Dirs -> SUBSET Builds]
  /\ late \subseteq Orders

ProcessesTyped ==
  /\ proc \in [Pids -> Processes]
  /\ appPid \in [Dirs -> Pids \cup {None}] /\ port \in [Ports -> Pids \cup {None}]
  /\ \A p \in Pids : proc[p].kind # "none" => proc[p].dir \in Dirs /\ proc[p].port \in Ports
  /\ \A d \in Dirs : appPid[d] # None =>
       proc[appPid[d]].kind \in {"starting", "up"} /\ proc[appPid[d]].dir = d
  /\ \A p \in Pids, q \in Ports :
       port[q] = p <=> proc[p].kind = "up" /\ proc[p].port = q

CountersTyped ==
  /\ disturbed \subseteq Jobs /\ uncleared \subseteq Jobs /\ mixed \in BOOLEAN
  /\ roots \in [Ports -> SUBSET Dirs]
  /\ publishes \in 0..MaxPublishes /\ moves \in 0..MaxMishaps /\ faults \in 0..MaxMishaps
  /\ exits \in 0..MaxMishaps /\ turns \in 0..MaxMishaps

\* A publish that nothing disturbed is the only one; and unless its clear was passed over, no
\* clear is to come and its directory is what its own steps made of it.
JobHolds(j) ==
  /\ job[j].pc # "report" => ~job[j].ok
  /\ job[j].pc # "idle" /\ j \notin disturbed =>
       /\ \A k \in Jobs \ {j} : job[k].pc = "idle"
       /\ j \notin uncleared =>
            /\ \A o \in late : o.name # "clean"
            /\ job[j].pc = "put" => entry[job[j].dir] = None /\ leftover[job[j].dir] = {}
            /\ job[j].pc \in {"start", "verify"} \/ job[j].ok =>
                 entry[job[j].dir] = job[j].build /\ leftover[job[j].dir] = {}

\* What runs, is to run or is being started serves a directory published with its port.
RootsHold ==
  /\ \A j \in Jobs : job[j].pc # "idle" => job[j].dir \in roots[job[j].port]
  /\ \A o \in late : o.dir \in roots[o.port]
  /\ \A p \in Pids : proc[p].kind # "none" => proc[p].dir \in roots[proc[p].port]

\* With static sites only, no supervisor runs and no pid file names a process, so that
\* nothing but a crash ends the server that answers on a port.
StaticHolds ==
  ~mixed =>
    /\ \A d \in Dirs : appPid[d] = None
    /\ \A p \in Pids : proc[p].kind # "supervisor" /\ proc[p].boss = None
    /\ \A j \in Jobs : job[j].pc # "idle" => job[j].build \in Static
    /\ \A o \in late : o.build \in Static
    /\ exits = 0 => \A j \in Jobs : job[j].ok => port[job[j].port] # None

Deployed == (\A j \in Jobs : JobHolds(j)) /\ RootsHold /\ StaticHolds

Typed == HandlersTyped /\ DirectoryTyped /\ ProcessesTyped /\ CountersTyped

LEMMA TypedIsTypeOK == Typed => TypeOK
<1>1. ASSUME Typed PROVE keys = {j \in Active : job[j].pc # "report"}
  BY <1>1 DEF Typed, HandlersTyped, Active
<1>2. ASSUME Typed
      PROVE  /\ job \in [Jobs -> [pc : Steps, build : Builds \cup {None}, dir : Dirs \cup {None},
                                  port : Ports \cup {None}, ok : BOOLEAN]]
             /\ profile \in Profiles
             /\ stale \subseteq Jobs /\ record \in [Builds -> {"none", "ok", "failed"}]
  BY <1>2 DEF Typed, HandlersTyped, JobRecords
<1>3. ASSUME Typed
      PROVE  /\ entry \in [Dirs -> Builds \cup {None}] /\ leftover \in [Dirs -> SUBSET Builds]
             /\ late \subseteq [name : {"stop", "clean", "start"}, build : Builds, dir : Dirs,
                                port : Ports]
  BY <1>3 DEF Typed, DirectoryTyped, Orders
<1>4. ASSUME Typed
      PROVE  /\ proc \in [Pids -> [kind : {"none", "supervisor", "starting", "up"},
                          code : Builds \cup {None}, boss : Pids \cup {None},
                          dir : Dirs \cup {None}, port : Ports \cup {None}]]
             /\ appPid \in [Dirs -> Pids \cup {None}] /\ port \in [Ports -> Pids \cup {None}]
             /\ \A d \in Dirs : appPid[d] # None =>
                  proc[appPid[d]].kind \in {"starting", "up"} /\ proc[appPid[d]].dir = d
             /\ \A p \in Pids, q \in Ports :
                  port[q] = p <=> proc[p].kind = "up" /\ proc[p].port = q
  BY <1>4 DEF Typed, ProcessesTyped, Processes
<1>5. ASSUME Typed PROVE CountersTyped
  BY <1>5 DEF Typed
<1> QED
  BY <1>1, <1>2, <1>3, <1>4, <1>5, Zenon DEF TypeOK, CountersTyped

-----------------------------------------------------------------------------
(* The server's processes                                                  *)

\* An end takes one process away and leaves the others as they were.
LEMMA EndStep ==
  ASSUME ProcessesTyped, NEW p \in Pids, End(p)
  PROVE  /\ ProcessesTyped'
         /\ proc'[p] = NoProc /\ \A r \in Pids \ {p} : proc'[r] = proc[r]
<1>1. NoProc \in Processes /\ NoProc.kind = "none"
  BY DEF NoProc, Processes
<1>2. proc' \in [Pids -> Processes] /\ proc'[p] = NoProc
      /\ \A r \in Pids \ {p} : proc'[r] = proc[r]
  BY <1>1 DEF End, ProcessesTyped
<1>3. /\ appPid' \in [Dirs -> Pids \cup {None}] /\ port' \in [Ports -> Pids \cup {None}]
      /\ \A d \in Dirs : appPid'[d] = IF appPid[d] = p THEN None ELSE appPid[d]
      /\ \A q \in Ports : port'[q] = IF port[q] = p THEN None ELSE port[q]
  BY DEF End, ProcessesTyped
<1>4. \A d \in Dirs : appPid'[d] # None =>
        proc'[appPid'[d]].kind \in {"starting", "up"} /\ proc'[appPid'[d]].dir = d
  BY <1>2, <1>3 DEF ProcessesTyped
<1>5. \A r \in Pids, q \in Ports : port'[q] = r <=> proc'[r].kind = "up" /\ proc'[r].port = q
  <2> SUFFICES ASSUME NEW r \in Pids, NEW q \in Ports
               PROVE  port'[q] = r <=> proc'[r].kind = "up" /\ proc'[r].port = q
    OBVIOUS
  <2>1. CASE r = p
    BY <1>1, <1>2, <1>3, <2>1, PublishAssumption
  <2>2. CASE r # p
    BY <1>2, <1>3, <2>2, PublishAssumption DEF ProcessesTyped
  <2> QED
    BY <2>1, <2>2
<1>6. \A r \in Pids : proc'[r].kind # "none" => proc'[r].dir \in Dirs /\ proc'[r].port \in Ports
  BY <1>1, <1>2 DEF ProcessesTyped
<1> QED
  BY <1>2, <1>3, <1>4, <1>5, <1>6 DEF ProcessesTyped

\* A kill ends a process that a pid file names, or nothing.
LEMMA KillStep ==
  ASSUME ProcessesTyped, NEW d \in Dirs, Kill(d)
  PROVE  /\ ProcessesTyped'
         /\ \A r \in Pids : proc'[r] \in {NoProc, proc[r]}
         /\ appPid[d] = None => UNCHANGED processes
<1>1. CASE appPid[d] = None
  BY <1>1 DEF Kill, processes, ProcessesTyped
<1>2. CASE appPid[d] # None
  <2>1. PICK p \in Pids : p = appPid[d]
    BY <1>2 DEF ProcessesTyped
  <2>2. End(p)
    BY <1>2, <2>1 DEF Kill, End
  <2> QED
    BY <1>2, <2>2, EndStep
<1> QED
  BY <1>1, <1>2

\* A free pid becomes a process that has yet to come up.
LEMMA ForkStep ==
  ASSUME ProcessesTyped, NEW p \in Free, NEW x \in Processes, x.kind \in {"supervisor", "starting"},
         x.dir \in Dirs, x.port \in Ports,
         proc' = [proc EXCEPT ![p] = x], UNCHANGED port,
         \/ UNCHANGED appPid
         \/ appPid' = [appPid EXCEPT ![x.dir] = p] /\ x.kind = "starting"
  PROVE  ProcessesTyped' /\ \A r \in Pids : proc'[r] = IF r = p THEN x ELSE proc[r]
<1>1. p \in Pids /\ proc[p].kind = "none"
  BY DEF Free
<1>2. proc' \in [Pids -> Processes] /\ proc'[p] = x /\ \A r \in Pids \ {p} : proc'[r] = proc[r]
  BY <1>1 DEF ProcessesTyped
<1>3. appPid' \in [Dirs -> Pids \cup {None}]
      /\ \A d \in Dirs : appPid'[d] = appPid[d] \/ (d = x.dir /\ appPid'[d] = p /\ x.kind = "starting")
  BY <1>1 DEF ProcessesTyped
<1>4. \A d \in Dirs : appPid'[d] # None =>
        proc'[appPid'[d]].kind \in {"starting", "up"} /\ proc'[appPid'[d]].dir = d
  <2> SUFFICES ASSUME NEW d \in Dirs, appPid'[d] # None
               PROVE  proc'[appPid'[d]].kind \in {"starting", "up"} /\ proc'[appPid'[d]].dir = d
    OBVIOUS
  <2>1. CASE appPid'[d] = appPid[d]
    BY <1>1, <1>2, <2>1 DEF ProcessesTyped
  <2>2. CASE d = x.dir /\ appPid'[d] = p /\ x.kind = "starting"
    BY <1>2, <2>2
  <2> QED
    BY <1>3, <2>1, <2>2
<1>5. \A r \in Pids, q \in Ports : port'[q] = r <=> proc'[r].kind = "up" /\ proc'[r].port = q
  <2> SUFFICES ASSUME NEW r \in Pids, NEW q \in Ports
               PROVE  port'[q] = r <=> proc'[r].kind = "up" /\ proc'[r].port = q
    OBVIOUS
  <2>1. port'[q] = port[q] /\ (port[q] = r <=> proc[r].kind = "up" /\ proc[r].port = q)
    BY DEF ProcessesTyped
  <2> QED
    BY <1>1, <1>2, <2>1
<1>6. \A r \in Pids : proc'[r].kind # "none" => proc'[r].dir \in Dirs /\ proc'[r].port \in Ports
  BY <1>2 DEF ProcessesTyped
<1> QED
  BY <1>2, <1>3, <1>4, <1>5, <1>6 DEF ProcessesTyped

LEMMA ListenStep ==
  ASSUME ProcessesTyped, NEW p \in Pids, Listen(p)
  PROVE  /\ ProcessesTyped'
         /\ \/ End(p)
            \/ /\ UNCHANGED appPid /\ \A q \in Ports : port[q] # None => port'[q] # None
               /\ \A r \in Pids : /\ proc'[r].kind # "none" => proc[r].kind # "none"
                                  /\ proc'[r].kind = "supervisor" => proc[r].kind = "supervisor"
                                  /\ proc'[r].boss = proc[r].boss
                                  /\ proc'[r].dir = proc[r].dir /\ proc'[r].port = proc[r].port
<1>1. CASE port[proc[p].port] = None /\ proc[p].code # None
  <2> DEFINE x == [proc[p] EXCEPT !.kind = "up"]
  <2>1. /\ x \in Processes /\ x.kind = "up" /\ proc[p].kind = "starting"
        /\ x.boss = proc[p].boss /\ x.dir = proc[p].dir /\ x.port = proc[p].port
    BY DEF ProcessesTyped, Processes, Listen
  <2>2. proc' = [proc EXCEPT ![p] = x] /\ port' = [port EXCEPT ![proc[p].port] = p]
        /\ UNCHANGED appPid
    BY <1>1 DEF Listen, ProcessesTyped
  <2> HIDE DEF x
  <2>3. proc' \in [Pids -> Processes] /\ proc'[p] = x /\ \A r \in Pids \ {p} : proc'[r] = proc[r]
    BY <2>1, <2>2 DEF ProcessesTyped
  <2>4. PICK q \in Ports : q = proc[p].port
    BY <2>1 DEF ProcessesTyped
  <2>5. /\ port' \in [Ports -> Pids \cup {None}] /\ port'[q] = p /\ port[q] = None
        /\ \A s \in Ports \ {q} : port'[s] = port[s]
    BY <1>1, <2>2, <2>4 DEF ProcessesTyped
  <2>6. \A r \in Pids, s \in Ports : port'[s] = r <=> proc'[r].kind = "up" /\ proc'[r].port = s
    <3> SUFFICES ASSUME NEW r \in Pids, NEW s \in Ports
                 PROVE  port'[s] = r <=> proc'[r].kind = "up" /\ proc'[r].port = s
      OBVIOUS
    <3>1. port[s] = r <=> proc[r].kind = "up" /\ proc[r].port = s
      BY DEF ProcessesTyped
    <3>2. CASE r = p
      BY <2>1, <2>3, <2>4, <2>5, <3>1, <3>2
    <3>3. CASE r # p
      BY <2>3, <2>5, <3>1, <3>3, PublishAssumption
    <3> QED
      BY <3>2, <3>3
  <2>7. \A d \in Dirs : appPid'[d] # None =>
          proc'[appPid'[d]].kind \in {"starting", "up"} /\ proc'[appPid'[d]].dir = d
    BY <2>1, <2>2, <2>3 DEF ProcessesTyped
  <2>8. \A r \in Pids : proc'[r].kind # "none" => proc'[r].dir \in Dirs /\ proc'[r].port \in Ports
    BY <2>1, <2>3 DEF ProcessesTyped
  <2>9. ProcessesTyped'
    BY <2>2, <2>3, <2>5, <2>6, <2>7, <2>8 DEF ProcessesTyped
  <2>10. \A s \in Ports : port[s] # None => port'[s] # None
    BY <2>5
  <2>11. \A r \in Pids : /\ proc'[r].kind # "none" => proc[r].kind # "none"
                         /\ proc'[r].kind = "supervisor" => proc[r].kind = "supervisor"
                         /\ proc'[r].boss = proc[r].boss
                         /\ proc'[r].dir = proc[r].dir /\ proc'[r].port = proc[r].port
    BY <2>1, <2>3
  <2> QED
    BY <2>2, <2>9, <2>10, <2>11
<1>2. CASE ~(port[proc[p].port] = None /\ proc[p].code # None)
  BY <1>2, EndStep DEF Listen
<1> QED
  BY <1>1, <1>2

LEMMA RespawnStep ==
  ASSUME ProcessesTyped, DirectoryTyped, NEW s \in Pids, Respawn(s)
  PROVE  /\ ProcessesTyped'
         /\ proc[s].kind = "supervisor"
         /\ \A r \in Pids : \/ proc'[r] = proc[r]
                            \/ proc'[r].dir = proc[s].dir /\ proc'[r].port = proc[s].port
<1> DEFINE x == [kind |-> "starting", code |-> entry[proc[s].dir], boss |-> s,
                 dir |-> proc[s].dir, port |-> proc[s].port]
<1>1. PICK p \in Free : proc' = [proc EXCEPT ![p] = x] /\ appPid' = [appPid EXCEPT ![proc[s].dir] = p]
  BY DEF Respawn
<1>2. proc[s].kind = "supervisor" /\ proc[s].dir \in Dirs /\ proc[s].port \in Ports /\ UNCHANGED port
  BY DEF Respawn, ProcessesTyped
<1>3. /\ x \in Processes /\ x.kind = "starting"
      /\ x.dir = proc[s].dir /\ x.port = proc[s].port
  BY <1>2 DEF Processes, DirectoryTyped, ProcessesTyped
<1> HIDE DEF x
<1>4. appPid' = [appPid EXCEPT ![x.dir] = p]
  BY <1>1, <1>3
<1>5. ProcessesTyped' /\ \A r \in Pids : proc'[r] = IF r = p THEN x ELSE proc[r]
  BY <1>1, <1>2, <1>3, <1>4, ForkStep
<1> QED
  BY <1>2, <1>3, <1>5

\* A launcher leaves a server of its order's place, a supervisor only if the build is an app.
LEMMA LaunchStep ==
  ASSUME ProcessesTyped, NEW o, o.build \in Builds, o.dir \in Dirs, o.port \in Ports,
         Launch(o), UNCHANGED <<appPid, port>>
  PROVE  /\ ProcessesTyped'
         /\ \A r \in Pids : \/ proc'[r] = proc[r]
                            \/ /\ proc'[r].dir = o.dir /\ proc'[r].port = o.port
                               /\ proc'[r].boss = None
                               /\ o.build \in Static => proc'[r].kind # "supervisor"
<1> DEFINE x == IF o.build \in Static
                THEN [kind |-> "starting", code |-> o.build, boss |-> None,
                      dir |-> o.dir, port |-> o.port]
                ELSE [kind |-> "supervisor", code |-> None, boss |-> None,
                      dir |-> o.dir, port |-> o.port]
<1>1. PICK p \in Free : proc' = [proc EXCEPT ![p] = x]
  BY DEF Launch
<1>2. /\ x \in Processes /\ x.kind \in {"supervisor", "starting"}
      /\ x.dir = o.dir /\ x.port = o.port /\ x.boss = None
      /\ o.build \in Static => x.kind # "supervisor"
  BY DEF Processes
<1> HIDE DEF x
<1>3. ProcessesTyped' /\ \A r \in Pids : proc'[r] = IF r = p THEN x ELSE proc[r]
  BY <1>1, <1>2, ForkStep
<1> QED
  BY <1>2, <1>3

-----------------------------------------------------------------------------
(* The publishes                                                           *)

LEMMA GotoMoves ==
  ASSUME HandlersTyped, NEW j \in Jobs, NEW pc \in Steps, Goto(j, pc)
  PROVE  /\ job' \in [Jobs -> JobRecords]
         /\ job'[j].pc = pc /\ job'[j].build = job[j].build /\ job'[j].ok = job[j].ok
         /\ job'[j].dir = job[j].dir /\ job'[j].port = job[j].port
         /\ \A k \in Jobs \ {j} : job'[k] = job[k]
<1> DEFINE q == [job[j] EXCEPT !.pc = pc]
<1>1. /\ q \in JobRecords
      /\ q.pc = pc /\ q.build = job[j].build /\ q.ok = job[j].ok
      /\ q.dir = job[j].dir /\ q.port = job[j].port
  BY DEF HandlersTyped, JobRecords
<1>2. job' = [job EXCEPT ![j] = q]
  BY DEF Goto, HandlersTyped
<1> HIDE DEF q
<1> QED
  BY <1>1, <1>2 DEF HandlersTyped

\* A publish goes from one of its steps to the next, or to its report.
LEMMA StepTypes ==
  ASSUME HandlersTyped, NEW j \in Jobs, NEW pc \in Steps \ {"idle"}, Goto(j, pc),
         job[j].pc \notin {"idle", "report"}, UNCHANGED <<profile, stale, record>>,
         keys' = IF pc = "report" THEN keys \ {j} ELSE keys
  PROVE  HandlersTyped'
<1>1. /\ job' \in [Jobs -> JobRecords]
      /\ job'[j].pc = pc /\ job'[j].build = job[j].build
      /\ job'[j].dir = job[j].dir /\ job'[j].port = job[j].port
      /\ \A k \in Jobs \ {j} : job'[k] = job[k]
  BY GotoMoves
<1>2. j \in keys
  BY DEF HandlersTyped
<1> QED
  BY <1>1, <1>2 DEF HandlersTyped

LEMMA BeginMoves ==
  ASSUME HandlersTyped, NEW j \in Jobs, Begin(j)
  PROVE  /\ HandlersTyped'
         /\ job'[j].pc = "stop" /\ ~job'[j].ok
         /\ job'[j].dir = profile.dir /\ job'[j].port = profile.port
         /\ mixed' \in BOOLEAN /\ (mixed => mixed') /\ (~mixed' => job'[j].build \in Static)
         /\ \A k \in Jobs \ {j} : job'[k] = job[k]
<1>1. PICK b \in Builds :
        /\ job' = [job EXCEPT ![j] = [pc |-> "stop", build |-> b, dir |-> profile.dir,
                                      port |-> profile.port, ok |-> FALSE]]
        /\ mixed' = (mixed \/ b \notin Static)
  BY DEF Begin
<1> DEFINE q == [pc |-> "stop", build |-> b, dir |-> profile.dir, port |-> profile.port,
                 ok |-> FALSE]
<1>0. profile.dir \in Dirs /\ profile.port \in Ports
  BY DEF HandlersTyped, Profiles
<1>2. /\ q \in JobRecords /\ q.pc = "stop" /\ q.build = b /\ ~q.ok
      /\ q.dir = profile.dir /\ q.port = profile.port
  BY <1>0 DEF Steps, JobRecords
<1>3. job' = [job EXCEPT ![j] = q]
  BY <1>1
<1> HIDE DEF q
<1>4. job'[j] = q /\ \A k \in Jobs \ {j} : job'[k] = job[k]
  BY <1>3 DEF HandlersTyped
<1>5. UNCHANGED <<profile, record>> /\ stale' = stale \ {j} /\ keys' = keys \cup {j}
  BY DEF Begin
<1>6. HandlersTyped'
  BY <1>0, <1>2, <1>3, <1>4, <1>5 DEF HandlersTyped
<1> QED
  BY <1>1, <1>2, <1>4, <1>6

LEMMA VerifyMoves ==
  ASSUME HandlersTyped, NEW j \in Jobs, Verify(j)
  PROVE  /\ HandlersTyped'
         /\ job'[j].pc = "report" /\ job'[j].build = job[j].build
         /\ job'[j].dir = job[j].dir /\ job'[j].port = job[j].port
         /\ job'[j].ok => port[job[j].port] # None \/ appPid[job[j].dir] # None
         /\ \A k \in Jobs \ {j} : job'[k] = job[k]
<1> DEFINE ok == \/ port[job[j].port] # None
                 \/ job[j].build \in Static /\ appPid[job[j].dir] # None
<1>0. ok \in BOOLEAN /\ (ok => port[job[j].port] # None \/ appPid[job[j].dir] # None)
  OBVIOUS
<1>1. /\ job[j].pc = "verify" /\ keys' = keys \ {j} /\ UNCHANGED <<profile, stale, record>>
      /\ job' = [job EXCEPT ![j].pc = "report", ![j].ok = ok]
  BY DEF Verify
<1> HIDE DEF ok
<1> DEFINE q == [job[j] EXCEPT !.pc = "report", !.ok = ok]
<1>2. /\ q \in JobRecords
      /\ q.pc = "report" /\ q.build = job[j].build /\ q.ok = ok
      /\ q.dir = job[j].dir /\ q.port = job[j].port
  BY <1>0 DEF HandlersTyped, Steps, JobRecords
<1>3. job' = [job EXCEPT ![j] = q]
  BY <1>1 DEF HandlersTyped
<1> HIDE DEF q
<1>4. job'[j] = q /\ \A k \in Jobs \ {j} : job'[k] = job[k]
  BY <1>3 DEF HandlersTyped
<1>5. HandlersTyped'
  BY <1>1, <1>2, <1>3, <1>4 DEF HandlersTyped
<1> QED
  BY <1>0, <1>2, <1>4, <1>5

LEMMA ReportMoves ==
  ASSUME HandlersTyped, NEW j \in Jobs, Report(j)
  PROVE  /\ HandlersTyped'
         /\ job'[j].pc = "idle" /\ ~job'[j].ok
         /\ \A k \in Jobs \ {j} : job'[k] = job[k]
<1>1. job[j].pc = "report" /\ job' = [job EXCEPT ![j] = Quiet] /\ UNCHANGED <<profile, keys>>
  BY DEF Report
<1>2. Quiet \in JobRecords /\ Quiet.pc = "idle" /\ Quiet.ok = FALSE
  BY DEF Quiet, Steps, JobRecords
<1> HIDE DEF Quiet
<1>3. job'[j] = Quiet /\ \A k \in Jobs \ {j} : job'[k] = job[k]
  BY <1>1 DEF HandlersTyped
<1>4. stale' \subseteq Jobs /\ record' \in [Builds -> {"none", "ok", "failed"}]
  BY DEF Report, HandlersTyped, Active
<1>5. HandlersTyped'
  BY <1>1, <1>2, <1>3, <1>4 DEF HandlersTyped
<1> QED
  BY <1>2, <1>3, <1>5

\* What a clear, a part of one and an upload leave in a directory are builds' files.
LEMMA FilesStep ==
  ASSUME DirectoryTyped, NEW d \in Dirs, NEW b \in Builds,
         \/ Clear(d)
         \/ ClearPart(d)
         \/ /\ entry' = [entry EXCEPT ![d] = b]
            /\ leftover' = [leftover EXCEPT ![d] = (leftover[d] \cup {entry[d]}) \ {None, b}]
         \/ /\ leftover' = [leftover EXCEPT ![d] = leftover[d] \cup ({b} \ {entry[d]})]
            /\ UNCHANGED entry
  PROVE  entry' \in [Dirs -> Builds \cup {None}] /\ leftover' \in [Dirs -> SUBSET Builds]
<1>1. entry \in [Dirs -> Builds \cup {None}] /\ leftover \in [Dirs -> SUBSET Builds]
  BY DEF DirectoryTyped
<1>2. /\ (leftover[d] \cup {entry[d]}) \ {None} \in SUBSET Builds
      /\ (leftover[d] \cup {entry[d]}) \ {None, b} \in SUBSET Builds
      /\ leftover[d] \cup ({b} \ {entry[d]}) \in SUBSET Builds
  BY <1>1
<1> QED
  BY <1>1, <1>2 DEF Clear, ClearPart

\* The order of a step that failed is its publish's.
LEMMA OrderOf ==
  ASSUME HandlersTyped, NEW j \in Jobs, job[j].pc \in {"stop", "clean", "start"}
  PROVE  /\ Order(j) \in Orders
         /\ Order(j).name = job[j].pc /\ Order(j).build = job[j].build
         /\ Order(j).dir = job[j].dir /\ Order(j).port = job[j].port
BY DEF Order, Orders, HandlersTyped

LEMMA FaultMoves ==
  ASSUME HandlersTyped, NEW j \in Jobs, StepFails(j)
  PROVE  /\ job[j].pc \in {"stop", "clean", "start"}
         /\ \E pc \in {"check", "put", "verify"} :
              /\ Goto(j, pc)
              /\ pc = "put" <=> job[j].pc = "clean"
              /\ pc = "verify" <=> job[j].pc = "start"
         /\ uncleared' = IF job[j].pc = "clean" THEN uncleared \cup {j} ELSE uncleared
         /\ late' \in {late, late \cup {Order(j)}}
         /\ UNCHANGED files \/ (job[j].pc = "clean" /\ ClearPart(job[j].dir))
         /\ UNCHANGED <<proc, appPid, port, disturbed, mixed, roots, exits>>
         /\ UNCHANGED <<profile, stale, record, keys>>
BY DEF StepFails, processes

LEMMA NextTyped == Typed /\ [Next]_vars => Typed'
<1> SUFFICES ASSUME Typed, [Next]_vars PROVE Typed'
  OBVIOUS
<1> USE DEF Typed
<1>0. MaxPublishes \in Nat /\ MaxMishaps \in Nat
  BY PublishAssumption
<1>1. ASSUME NEW j \in Jobs, Begin(j) PROVE Typed'
  <2>1. DirectoryTyped' /\ ProcessesTyped'
    BY <1>1 DEF Begin, server, files, processes, DirectoryTyped, ProcessesTyped
  <2>2. publishes' \in 0..MaxPublishes /\ UNCHANGED <<moves, faults, exits, turns>>
    BY <1>0, <1>1 DEF Begin, CountersTyped
  <2>3. /\ roots' \in [Ports -> SUBSET Dirs] /\ disturbed' \subseteq Jobs
        /\ uncleared' \subseteq Jobs
    <3>1. profile.dir \in Dirs /\ profile.port \in Ports
      BY DEF HandlersTyped, Profiles
    <3> QED
      BY <1>1, <3>1 DEF Begin, CountersTyped, Active
  <2>4. HandlersTyped' /\ mixed' \in BOOLEAN
    BY <1>1, BeginMoves
  <2> QED
    BY <2>1, <2>2, <2>3, <2>4 DEF CountersTyped
<1>2. ASSUME NEW j \in Jobs, Fail(j) \/ Check(j) PROVE Typed'
  <2>1. DirectoryTyped' /\ ProcessesTyped' /\ CountersTyped'
    BY <1>2 DEF Fail, Check, server, files, processes, history, counters, DirectoryTyped,
                ProcessesTyped, CountersTyped
  <2> QED
    BY <1>2, <2>1, StepTypes DEF Fail, Check, Steps
<1>3. ASSUME NEW j \in Jobs, Stop(j) PROVE Typed'
  <2>1. DirectoryTyped' /\ CountersTyped'
    BY <1>3 DEF Stop, files, history, counters, DirectoryTyped, CountersTyped
  <2>2. ProcessesTyped'
    <3>1. PICK d \in Dirs : d = job[j].dir
      BY <1>3 DEF Stop, HandlersTyped
    <3>2. Kill(d)
      BY <1>3, <3>1 DEF Stop
    <3> QED
      BY <3>2, KillStep
  <2> QED
    BY <1>3, <2>1, <2>2, StepTypes DEF Stop, Steps
<1>4. ASSUME NEW j \in Jobs, Clean(j) \/ Put(j) \/ PutFails(j) PROVE Typed'
  <2>1. ProcessesTyped' /\ CountersTyped'
    BY <1>4 DEF Clean, Put, PutFails, processes, history, counters, ProcessesTyped, CountersTyped
  <2>2. DirectoryTyped'
    <3>1. PICK d \in Dirs, b \in Builds : d = job[j].dir /\ b = job[j].build
      BY <1>4 DEF Clean, Put, PutFails, HandlersTyped
    <3>2. UNCHANGED late
      BY <1>4 DEF Clean, Put, PutFails
    <3>3. \/ Clear(d)
          \/ /\ entry' = [entry EXCEPT ![d] = b]
             /\ leftover' = [leftover EXCEPT ![d] = (leftover[d] \cup {entry[d]}) \ {None, b}]
          \/ /\ leftover' = [leftover EXCEPT ![d] = leftover[d] \cup ({b} \ {entry[d]})]
             /\ UNCHANGED entry
      BY <1>4, <3>1 DEF Clean, Put, PutFails
    <3>4. entry' \in [Dirs -> Builds \cup {None}] /\ leftover' \in [Dirs -> SUBSET Builds]
      BY <3>3, FilesStep
    <3> QED
      BY <3>2, <3>4 DEF DirectoryTyped
  <2> QED
    BY <1>4, <2>1, <2>2, StepTypes DEF Clean, Put, PutFails, Steps
<1>5. ASSUME NEW j \in Jobs, StepFails(j) PROVE Typed'
  <2>1. ProcessesTyped'
    BY <1>5, FaultMoves DEF ProcessesTyped
  <2>2. CountersTyped'
    <3>1. faults' \in 0..MaxMishaps /\ UNCHANGED <<publishes, moves, exits, turns>>
      BY <1>0, <1>5 DEF StepFails, CountersTyped, Mishaps
    <3>2. uncleared' \subseteq Jobs /\ UNCHANGED <<disturbed, mixed, roots>>
      BY <1>5, FaultMoves DEF CountersTyped
    <3> QED
      BY <3>1, <3>2 DEF CountersTyped
  <2>3. DirectoryTyped'
    <3>1. PICK d \in Dirs, b \in Builds : d = job[j].dir /\ b = job[j].build
      BY <1>5, FaultMoves DEF HandlersTyped
    <3>2. UNCHANGED files \/ ClearPart(d)
      BY <1>5, <3>1, FaultMoves
    <3>3. entry' \in [Dirs -> Builds \cup {None}] /\ leftover' \in [Dirs -> SUBSET Builds]
      BY <3>2, FilesStep DEF files, DirectoryTyped
    <3>4. late' \subseteq Orders
      BY <1>5, FaultMoves, OrderOf DEF DirectoryTyped
    <3> QED
      BY <3>3, <3>4 DEF DirectoryTyped
  <2>4. HandlersTyped'
    BY <1>5, FaultMoves, StepTypes DEF Steps
  <2> QED
    BY <2>1, <2>2, <2>3, <2>4
<1>6. ASSUME NEW j \in Jobs, Start(j) PROVE Typed'
  <2>1. DirectoryTyped' /\ CountersTyped'
    BY <1>6 DEF Start, files, history, counters, DirectoryTyped, CountersTyped
  <2>2. ProcessesTyped'
    <3>1. PICK o : o = job[j]
      OBVIOUS
    <3>2. o.build \in Builds /\ o.dir \in Dirs /\ o.port \in Ports /\ UNCHANGED <<appPid, port>>
      BY <1>6, <3>1 DEF Start, HandlersTyped
    <3>3. Launch(o)
      BY <1>6, <3>1 DEF Start, Launch
    <3> QED
      BY <3>2, <3>3, LaunchStep
  <2> QED
    BY <1>6, <2>1, <2>2, StepTypes DEF Start, Steps
<1>7. ASSUME NEW j \in Jobs, Verify(j) \/ Report(j) PROVE Typed'
  <2>1. DirectoryTyped' /\ ProcessesTyped' /\ CountersTyped'
    BY <1>7 DEF Verify, Report, server, files, processes, history, counters, DirectoryTyped,
                ProcessesTyped, CountersTyped
  <2> QED
    BY <1>7, <2>1, VerifyMoves, ReportMoves
<1>8. ASSUME NEW p \in Pids, Respawn(p) \/ Listen(p) \/ Exit(p) PROVE Typed'
  <2>1. HandlersTyped' /\ DirectoryTyped'
    BY <1>8 DEF Respawn, Listen, Exit, handlers, files, HandlersTyped, DirectoryTyped
  <2>2. CountersTyped'
    BY <1>0, <1>8 DEF Respawn, Listen, Exit, history, counters, CountersTyped, Mishaps
  <2> QED
    BY <1>8, <2>1, <2>2, RespawnStep, ListenStep, EndStep DEF Exit
<1>9. ASSUME NEW o \in late, RunLate(o) PROVE Typed'
  <2>1. HandlersTyped' /\ CountersTyped'
    BY <1>9 DEF RunLate, handlers, history, counters, HandlersTyped, CountersTyped
  <2>2. o.build \in Builds /\ o.dir \in Dirs /\ o.port \in Ports
    BY DEF DirectoryTyped, Orders
  <2>3. DirectoryTyped'
    BY <1>9, <2>2, FilesStep DEF RunLate, files, DirectoryTyped
  <2>4. ProcessesTyped'
    <3>1. CASE UNCHANGED processes
      BY <3>1 DEF processes, ProcessesTyped
    <3> QED
      BY <1>9, <2>2, <3>1, KillStep, LaunchStep DEF RunLate
  <2> QED
    BY <2>1, <2>3, <2>4
<1>10. ASSUME NEW b \in Builds, Turn(b) PROVE Typed'
  <2>1. DirectoryTyped' /\ ProcessesTyped'
    BY <1>10 DEF Turn, server, files, processes, DirectoryTyped, ProcessesTyped
  <2>2. CountersTyped'
    BY <1>0, <1>10 DEF Turn, history, CountersTyped, Mishaps
  <2>3. HandlersTyped'
    BY <1>10 DEF Turn, HandlersTyped, Active
  <2> QED
    BY <2>1, <2>2, <2>3
<1>11. CASE SetProfile
  <2>1. DirectoryTyped' /\ ProcessesTyped'
    BY <1>11 DEF SetProfile, server, files, processes, DirectoryTyped, ProcessesTyped
  <2>2. CountersTyped'
    BY <1>0, <1>11 DEF SetProfile, history, CountersTyped, Mishaps
  <2>3. HandlersTyped'
    BY <1>11 DEF SetProfile, HandlersTyped
  <2> QED
    BY <2>1, <2>2, <2>3
<1>12. CASE UNCHANGED vars
  BY <1>12 DEF vars, handlers, server, files, processes, history, counters, HandlersTyped,
               DirectoryTyped, ProcessesTyped, CountersTyped
<1> QED
  BY <1>1, <1>2, <1>3, <1>4, <1>5, <1>6, <1>7, <1>8, <1>9, <1>10, <1>11, <1>12 DEF Next

LEMMA InitTyped == Init => Typed
<1> SUFFICES ASSUME Init PROVE Typed
  OBVIOUS
<1>1. Quiet \in JobRecords /\ Quiet.pc = "idle"
  BY DEF Quiet, Steps, JobRecords
<1>2. NoProc \in Processes /\ NoProc.kind = "none"
  BY DEF NoProc, Processes
<1>3. HandlersTyped
  BY <1>1 DEF Init, HandlersTyped
<1>4. ProcessesTyped
  BY <1>2, PublishAssumption DEF Init, ProcessesTyped
<1>5. DirectoryTyped
  BY DEF Init, DirectoryTyped
<1>6. CountersTyped
  <2>1. MaxPublishes \in Nat /\ MaxMishaps \in Nat
    BY PublishAssumption
  <2>2. publishes = 0 /\ moves = 0 /\ faults = 0 /\ exits = 0 /\ turns = 0
    BY DEF Init
  <2>3. /\ publishes \in 0..MaxPublishes /\ moves \in 0..MaxMishaps /\ faults \in 0..MaxMishaps
        /\ exits \in 0..MaxMishaps /\ turns \in 0..MaxMishaps
    BY <2>1, <2>2
  <2>4. /\ disturbed \subseteq Jobs /\ uncleared \subseteq Jobs /\ mixed \in BOOLEAN
        /\ roots \in [Ports -> SUBSET Dirs]
    BY DEF Init
  <2> QED
    BY <2>3, <2>4, Zenon DEF CountersTyped
<1> QED
  BY <1>3, <1>4, <1>5, <1>6 DEF Typed

\* Every variable keeps its type; a port belongs to an app that is up and was given it; a pid
\* file names an app of its directory; and a private key is in a file only while the publish
\* that brought it runs (the finally of publish() in Publisher.ts, and the dispose of
\* SshTransport.ts).
THEOREM PublishTyped == Spec => []TypeOK
BY InitTyped, NextTyped, TypedIsTypeOK, PTL DEF Spec

-----------------------------------------------------------------------------
(* What a publish leaves behind                                            *)

\* Steps of the server alone keep the directories, unless a late clear has one.
LEMMA ServerStep ==
  ASSUME Deployed, UNCHANGED <<job, disturbed, uncleared>>, late' \subseteq late,
         UNCHANGED files \/ (\E o \in late : o.name = "clean"),
         RootsHold', StaticHolds'
  PROVE  Deployed'
<1>1. \A j \in Jobs : JobHolds(j)'
  <2> SUFFICES ASSUME NEW j \in Jobs PROVE JobHolds(j)'
    OBVIOUS
  <2>1. JobHolds(j)
    BY DEF Deployed
  <2> QED
    BY <2>1 DEF JobHolds, files
<1> QED
  BY <1>1 DEF Deployed

\* A step of one publish: of the others, none is undisturbed.
LEMMA JobStep ==
  ASSUME Deployed, NEW j \in Jobs, job[j].pc # "idle", job'[j].pc # "idle",
         \A k \in Jobs \ {j} : job'[k] = job[k],
         disturbed \subseteq disturbed', JobHolds(j)', RootsHold', StaticHolds'
  PROVE  Deployed'
<1>1. ASSUME NEW k \in Jobs, k # j PROVE JobHolds(k)'
  <2>1. JobHolds(k) /\ job'[k] = job[k]
    BY <1>1 DEF Deployed
  <2>2. job[k].pc # "idle" => k \in disturbed
    BY <1>1, <2>1 DEF JobHolds
  <2> QED
    BY <2>1, <2>2 DEF JobHolds
<1> QED
  BY <1>1 DEF Deployed

\* With static sites only there is no pid file for a kill to go by.
LEMMA StandsStatic ==
  ASSUME StaticHolds, ~mixed' => ~mixed, exits' = 0 => exits = 0,
         UNCHANGED processes \/ (\E d \in Dirs : Kill(d)),
         \A j \in Jobs : ~mixed' /\ job'[j].pc # "idle" => job'[j].build \in Static,
         \A o \in late' : ~mixed' => o.build \in Static,
         \A j \in Jobs : job'[j].ok => job[j].ok /\ job'[j].port = job[j].port
  PROVE  StaticHolds'
<1> SUFFICES ASSUME ~mixed' PROVE StaticHolds'
  BY DEF StaticHolds
<1>1. UNCHANGED <<proc, appPid, port>>
  BY DEF StaticHolds, Kill, processes
<1> QED
  BY <1>1 DEF StaticHolds

\* What a step of a publish that goes on does not change.
LEMMA StepMoves ==
  ASSUME Typed, Deployed, NEW j \in Jobs, NEW pc \in Steps \ {"idle"}, Goto(j, pc),
         job[j].pc \notin {"idle", "report"}
  PROVE  /\ job'[j].pc = pc /\ job'[j].build = job[j].build /\ ~job'[j].ok
         /\ job'[j].dir = job[j].dir /\ job'[j].port = job[j].port
         /\ \A k \in Jobs \ {j} : job'[k] = job[k]
         /\ \A k \in Jobs : job'[k].ok => job[k].ok /\ job'[k].port = job[k].port
         /\ \A k \in Jobs : ~mixed /\ job'[k].pc # "idle" => job'[k].build \in Static
         /\ UNCHANGED <<roots, late>> /\ (\A p \in Pids : proc'[p] \in {NoProc, proc[p]})
              => RootsHold'
<1>1. /\ job'[j].pc = pc /\ job'[j].build = job[j].build /\ job'[j].ok = job[j].ok
      /\ job'[j].dir = job[j].dir /\ job'[j].port = job[j].port
      /\ \A k \in Jobs \ {j} : job'[k] = job[k]
  BY GotoMoves DEF Typed
<1>2. ~job[j].ok
  BY DEF Deployed, JobHolds
<1>3. ~mixed => \A k \in Jobs : job[k].pc # "idle" => job[k].build \in Static
  BY DEF Deployed, StaticHolds
<1>4. ASSUME UNCHANGED <<roots, late>>, \A p \in Pids : proc'[p] \in {NoProc, proc[p]}
      PROVE  RootsHold'
  <2>1. NoProc.kind = "none"
    BY DEF NoProc
  <2> QED
    BY <1>1, <1>4, <2>1 DEF Deployed, RootsHold
<1> QED
  BY <1>1, <1>2, <1>3, <1>4

LEMMA BeginDeploys ==
  ASSUME Typed, Deployed, NEW j \in Jobs, Begin(j)
  PROVE  Deployed'
<1>1. /\ job'[j].pc = "stop" /\ ~job'[j].ok
      /\ job'[j].dir = profile.dir /\ job'[j].port = profile.port
      /\ (mixed => mixed') /\ (~mixed' => job'[j].build \in Static)
      /\ \A k \in Jobs \ {j} : job'[k] = job[k]
  BY BeginMoves DEF Typed
<1>2. /\ job[j].pc = "idle"
      /\ UNCHANGED <<entry, leftover, late, proc, appPid, port, exits, processes>>
  BY DEF Begin, server, files, processes
<1>3. /\ disturbed \ {j} \subseteq disturbed' /\ Active \ {j} \subseteq disturbed'
      /\ Active # {} \/ late # {} => j \in disturbed'
  BY DEF Begin
<1>4. \A k \in Jobs : JobHolds(k)'
  <2> SUFFICES ASSUME NEW k \in Jobs PROVE JobHolds(k)'
    OBVIOUS
  <2>1. CASE k = j
    <3>1. j \notin disturbed' => Active = {} /\ late = {}
      BY <1>3
    <3>2. j \notin disturbed' => \A h \in Jobs \ {j} : job'[h].pc = "idle"
      BY <1>1, <3>1 DEF Active
    <3> QED
      BY <1>1, <1>2, <2>1, <3>1, <3>2 DEF JobHolds
  <2>2. CASE k # j
    <3>1. JobHolds(k) /\ job'[k] = job[k]
      BY <1>1, <2>2 DEF Deployed
    <3>2. job[k].pc # "idle" => k \in disturbed'
      BY <1>3, <2>2 DEF Active
    <3> QED
      BY <3>1, <3>2 DEF JobHolds
  <2> QED
    BY <2>1, <2>2
<1>5. RootsHold'
  <2>1. profile.dir \in Dirs /\ profile.port \in Ports
    BY DEF Typed, HandlersTyped, Profiles
  <2>2. /\ profile.dir \in roots'[profile.port]
        /\ \A q \in Ports : roots[q] \subseteq roots'[q]
    BY <2>1 DEF Begin, Typed, CountersTyped
  <2>3. \A k \in Jobs : job'[k].pc # "idle" => job'[k].dir \in roots'[job'[k].port]
    <3> SUFFICES ASSUME NEW k \in Jobs, job'[k].pc # "idle"
                 PROVE  job'[k].dir \in roots'[job'[k].port]
      OBVIOUS
    <3>1. CASE k = j
      BY <1>1, <2>2, <3>1
    <3>2. CASE k # j
      BY <1>1, <2>2, <3>2 DEF Typed, HandlersTyped, Deployed, RootsHold
    <3> QED
      BY <3>1, <3>2
  <2>4. \A o \in late' : o.dir \in roots'[o.port]
    BY <1>2, <2>2 DEF Typed, DirectoryTyped, Orders, Deployed, RootsHold
  <2>5. \A p \in Pids : proc'[p].kind # "none" => proc'[p].dir \in roots'[proc'[p].port]
    BY <1>2, <2>2 DEF Typed, ProcessesTyped, Deployed, RootsHold
  <2> QED
    BY <2>3, <2>4, <2>5 DEF RootsHold
<1>6. StaticHolds'
  <2>1. \A k \in Jobs : job'[k].ok => job[k].ok /\ job'[k].port = job[k].port
    BY <1>1
  <2>2. \A k \in Jobs : ~mixed' /\ job'[k].pc # "idle" => job'[k].build \in Static
    BY <1>1 DEF Deployed, StaticHolds
  <2>3. \A o \in late' : ~mixed' => o.build \in Static
    BY <1>1, <1>2 DEF Deployed, StaticHolds
  <2> QED
    BY <1>1, <1>2, <2>1, <2>2, <2>3, StandsStatic DEF Deployed
<1> QED
  BY <1>4, <1>5, <1>6 DEF Deployed

LEMMA FailDeploys ==
  ASSUME Typed, Deployed, NEW j \in Jobs, Fail(j) \/ Check(j)
  PROVE  Deployed'
<1>1. PICK pc \in {"report", "clean"} : Goto(j, pc)
  BY DEF Fail, Check
<1>2. /\ job[j].pc \notin {"idle", "report"} /\ UNCHANGED <<entry, leftover, late, proc, processes>>
      /\ UNCHANGED <<disturbed, uncleared, mixed, roots, exits>>
  BY DEF Fail, Check, server, files, processes, history, counters
<1>3. /\ job'[j].pc = pc /\ ~job'[j].ok
      /\ \A k \in Jobs \ {j} : job'[k] = job[k]
      /\ \A k \in Jobs : job'[k].ok => job[k].ok /\ job'[k].port = job[k].port
      /\ \A k \in Jobs : ~mixed /\ job'[k].pc # "idle" => job'[k].build \in Static
      /\ RootsHold'
  BY <1>1, <1>2, StepMoves DEF Steps
<1>4. StaticHolds'
  BY <1>2, <1>3, StandsStatic DEF Deployed, StaticHolds
<1>5. JobHolds(j)'
  BY <1>2, <1>3 DEF Deployed, JobHolds
<1> QED
  BY <1>2, <1>3, <1>4, <1>5, JobStep

LEMMA StopDeploys ==
  ASSUME Typed, Deployed, NEW j \in Jobs, Stop(j)
  PROVE  Deployed'
<1>1. /\ job[j].pc = "stop" /\ Goto(j, "check") /\ UNCHANGED <<entry, leftover, late>>
      /\ UNCHANGED <<disturbed, uncleared, mixed, roots, exits>>
  BY DEF Stop, files, history, counters
<1>2. PICK d \in Dirs : Kill(d)
  BY DEF Stop, Typed, HandlersTyped
<1>3. \A p \in Pids : proc'[p] \in {NoProc, proc[p]}
  BY <1>2, KillStep DEF Typed
<1>4. /\ job'[j].pc = "check" /\ ~job'[j].ok
      /\ \A k \in Jobs \ {j} : job'[k] = job[k]
      /\ \A k \in Jobs : job'[k].ok => job[k].ok /\ job'[k].port = job[k].port
      /\ \A k \in Jobs : ~mixed /\ job'[k].pc # "idle" => job'[k].build \in Static
      /\ RootsHold'
  BY <1>1, <1>3, StepMoves DEF Steps
<1>5. StaticHolds'
  BY <1>1, <1>2, <1>4, StandsStatic DEF Deployed, StaticHolds
<1>6. JobHolds(j)'
  BY <1>1, <1>4 DEF Deployed, JobHolds
<1> QED
  BY <1>1, <1>4, <1>5, <1>6, JobStep

LEMMA CleanDeploys ==
  ASSUME Typed, Deployed, NEW j \in Jobs, Clean(j)
  PROVE  Deployed'
<1>1. /\ job[j].pc = "clean" /\ Goto(j, "put")
      /\ UNCHANGED <<late, proc, processes, disturbed, uncleared, mixed, roots, exits>>
  BY DEF Clean, processes, history, counters
<1>2. /\ job'[j].pc = "put" /\ ~job'[j].ok /\ job'[j].dir = job[j].dir
      /\ \A k \in Jobs \ {j} : job'[k] = job[k]
      /\ \A k \in Jobs : job'[k].ok => job[k].ok /\ job'[k].port = job[k].port
      /\ \A k \in Jobs : ~mixed /\ job'[k].pc # "idle" => job'[k].build \in Static
      /\ RootsHold'
  BY <1>1, StepMoves DEF Steps
<1>3. StaticHolds'
  BY <1>1, <1>2, StandsStatic DEF Deployed, StaticHolds
<1>4. PICK d \in Dirs : d = job[j].dir
  BY <1>1 DEF Typed, HandlersTyped
<1>5. entry'[d] = None /\ leftover'[d] = {}
  BY <1>4 DEF Clean, Clear, Typed, DirectoryTyped
<1>6. JobHolds(j)'
  BY <1>1, <1>2, <1>4, <1>5 DEF Deployed, JobHolds
<1> QED
  BY <1>1, <1>2, <1>3, <1>6, JobStep

\* A clear that failed is noted; other steps that fail leave the files alone.
LEMMA FaultDeploys ==
  ASSUME Typed, Deployed, NEW j \in Jobs, StepFails(j)
  PROVE  Deployed'
<1>1. /\ job[j].pc \in {"stop", "clean", "start"}
      /\ uncleared' = IF job[j].pc = "clean" THEN uncleared \cup {j} ELSE uncleared
      /\ late' \in {late, late \cup {Order(j)}}
      /\ UNCHANGED files \/ job[j].pc = "clean"
      /\ UNCHANGED <<proc, appPid, port, disturbed, mixed, roots, exits>>
  BY FaultMoves DEF Typed
<1>2. PICK pc \in {"check", "put", "verify"} :
        /\ Goto(j, pc)
        /\ pc = "put" <=> job[j].pc = "clean"
        /\ pc = "verify" <=> job[j].pc = "start"
  BY FaultMoves DEF Typed
<1>3. /\ job'[j].pc = pc /\ job'[j].build = job[j].build /\ ~job'[j].ok
      /\ job'[j].dir = job[j].dir /\ job'[j].port = job[j].port
      /\ \A k \in Jobs \ {j} : job'[k] = job[k]
      /\ \A k \in Jobs : job'[k].ok => job[k].ok /\ job'[k].port = job[k].port
      /\ \A k \in Jobs : ~mixed /\ job'[k].pc # "idle" => job'[k].build \in Static
  BY <1>1, <1>2, StepMoves DEF Steps
<1>4. PICK o : o = Order(j)
  OBVIOUS
<1>5. o.name = job[j].pc /\ o.build = job[j].build /\ o.dir = job[j].dir /\ o.port = job[j].port
  BY <1>1, <1>4, OrderOf DEF Typed
<1>6. \A l \in late' : l \in late \/ l = o
  BY <1>1, <1>4
<1>7. RootsHold'
  BY <1>1, <1>3, <1>5, <1>6 DEF Deployed, RootsHold
<1>8. StaticHolds'
  <2>1. \A l \in late' : ~mixed' => l.build \in Static
    BY <1>1, <1>5, <1>6 DEF Deployed, StaticHolds
  <2> QED
    BY <1>1, <1>3, <2>1, StandsStatic DEF Deployed, processes
<1>9. JobHolds(j)'
  <2> SUFFICES ASSUME j \notin disturbed', j \notin uncleared'
               PROVE  /\ \A l \in late' : l.name # "clean"
                      /\ job'[j].pc = "put" => entry'[job'[j].dir] = None /\ leftover'[job'[j].dir] = {}
                      /\ job'[j].pc \in {"start", "verify"} \/ job'[j].ok =>
                           entry'[job'[j].dir] = job'[j].build /\ leftover'[job'[j].dir] = {}
    BY <1>1, <1>3 DEF Deployed, JobHolds
  <2>1. j \notin disturbed /\ j \notin uncleared /\ job[j].pc # "clean" /\ pc # "put"
    BY <1>1, <1>2
  <2>2. \A l \in late' : l.name # "clean"
    BY <1>1, <1>5, <1>6, <2>1 DEF Deployed, JobHolds
  <2>3. job'[j].pc \in {"start", "verify"} =>
          entry'[job'[j].dir] = job'[j].build /\ leftover'[job'[j].dir] = {}
    BY <1>1, <1>2, <1>3, <2>1 DEF Deployed, JobHolds, files
  <2> QED
    BY <1>3, <2>1, <2>2, <2>3
<1> QED
  BY <1>1, <1>2, <1>3, <1>7, <1>8, <1>9, JobStep

\* The upload starts from a directory that is empty.
LEMMA PutDeploys ==
  ASSUME Typed, Deployed, NEW j \in Jobs, Put(j) \/ PutFails(j)
  PROVE  Deployed'
<1>1. PICK d \in Dirs, b \in Builds : d = job[j].dir /\ b = job[j].build
  BY DEF Put, PutFails, Typed, HandlersTyped
<1>2. PICK pc \in {"start", "report"} :
        /\ Goto(j, pc)
        /\ pc = "start" =>
             /\ entry' = [entry EXCEPT ![d] = b]
             /\ leftover' = [leftover EXCEPT ![d] = (leftover[d] \cup {entry[d]}) \ {None, b}]
  BY <1>1 DEF Put, PutFails
<1>3. job[j].pc = "put"
      /\ UNCHANGED <<late, proc, processes, disturbed, uncleared, mixed, roots, exits>>
  BY DEF Put, PutFails, processes, history, counters
<1>4. /\ job'[j].pc = pc /\ job'[j].build = job[j].build /\ ~job'[j].ok
      /\ job'[j].dir = job[j].dir
      /\ \A k \in Jobs \ {j} : job'[k] = job[k]
      /\ \A k \in Jobs : job'[k].ok => job[k].ok /\ job'[k].port = job[k].port
      /\ \A k \in Jobs : ~mixed /\ job'[k].pc # "idle" => job'[k].build \in Static
      /\ RootsHold'
  BY <1>2, <1>3, StepMoves DEF Steps
<1>5. StaticHolds'
  BY <1>3, <1>4, StandsStatic DEF Deployed, StaticHolds
<1>6. JobHolds(j)'
  <2>1. j \notin disturbed /\ j \notin uncleared => entry[d] = None /\ leftover[d] = {}
    BY <1>1, <1>3 DEF Deployed, JobHolds
  <2>2. entry \in [Dirs -> Builds \cup {None}] /\ leftover \in [Dirs -> SUBSET Builds]
    BY DEF Typed, DirectoryTyped
  <2>3. j \notin disturbed /\ j \notin uncleared /\ pc = "start" => entry'[d] = b /\ leftover'[d] = {}
    BY <1>2, <2>1, <2>2
  <2> QED
    BY <1>1, <1>3, <1>4, <2>3 DEF Deployed, JobHolds
<1> QED
  BY <1>3, <1>4, <1>5, <1>6, JobStep

\* What a launcher of a publish, or of an order of one, leaves to the invariants.
LEMMA LaunchKeeps ==
  ASSUME Typed, Deployed, NEW o, o.build \in Builds, o.dir \in Dirs, o.port \in Ports, Launch(o),
         o.dir \in roots[o.port], ~mixed => o.build \in Static,
         UNCHANGED <<appPid, port, roots, mixed, exits>>, late' \subseteq late
  PROVE  /\ \A p \in Pids : proc'[p].kind # "none" => proc'[p].dir \in roots'[proc'[p].port]
         /\ ~mixed' => \A p \in Pids : proc'[p].kind # "supervisor" /\ proc'[p].boss = None
<1>1. \A r \in Pids : \/ proc'[r] = proc[r]
                      \/ /\ proc'[r].dir = o.dir /\ proc'[r].port = o.port
                         /\ proc'[r].boss = None
                         /\ o.build \in Static => proc'[r].kind # "supervisor"
  BY LaunchStep DEF Typed
<1> QED
  BY <1>1 DEF Deployed, RootsHold, StaticHolds

LEMMA StartDeploys ==
  ASSUME Typed, Deployed, NEW j \in Jobs, Start(j)
  PROVE  Deployed'
<1>1. /\ job[j].pc = "start" /\ Goto(j, "verify")
      /\ UNCHANGED <<entry, leftover, appPid, port, late>>
      /\ UNCHANGED <<disturbed, uncleared, mixed, roots, exits>>
  BY DEF Start, files, history, counters
<1>2. /\ job'[j].pc = "verify" /\ job'[j].build = job[j].build /\ ~job'[j].ok
      /\ job'[j].dir = job[j].dir /\ job'[j].port = job[j].port
      /\ \A k \in Jobs \ {j} : job'[k] = job[k]
      /\ \A k \in Jobs : job'[k].ok => job[k].ok /\ job'[k].port = job[k].port
      /\ \A k \in Jobs : ~mixed /\ job'[k].pc # "idle" => job'[k].build \in Static
  BY <1>1, StepMoves DEF Steps
<1>3. PICK o : o = job[j]
  OBVIOUS
<1>4. Launch(o)
  BY <1>3 DEF Start, Launch
<1>5. /\ o.build \in Builds /\ o.dir \in Dirs /\ o.port \in Ports
      /\ o.dir \in roots[o.port] /\ (~mixed => o.build \in Static)
  BY <1>1, <1>3 DEF Typed, HandlersTyped, Deployed, RootsHold, StaticHolds
<1>6. /\ \A p \in Pids : proc'[p].kind # "none" => proc'[p].dir \in roots'[proc'[p].port]
      /\ ~mixed' => \A p \in Pids : proc'[p].kind # "supervisor" /\ proc'[p].boss = None
  BY <1>1, <1>4, <1>5, LaunchKeeps
<1>7. RootsHold'
  BY <1>1, <1>2, <1>6 DEF Deployed, RootsHold
<1>8. StaticHolds'
  BY <1>1, <1>2, <1>6 DEF Deployed, StaticHolds
<1>9. JobHolds(j)'
  BY <1>1, <1>2 DEF Deployed, JobHolds
<1> QED
  BY <1>1, <1>2, <1>7, <1>8, <1>9, JobStep

\* With static sites only, a publish verified finds the port answered.
LEMMA VerifyDeploys ==
  ASSUME Typed, Deployed, NEW j \in Jobs, Verify(j)
  PROVE  Deployed'
<1>1. /\ job[j].pc = "verify" /\ UNCHANGED <<entry, leftover, late, proc, appPid, port>>
      /\ UNCHANGED <<disturbed, uncleared, mixed, roots, exits>>
  BY DEF Verify, server, files, processes, history, counters
<1>2. /\ job'[j].pc = "report" /\ job'[j].build = job[j].build
      /\ job'[j].dir = job[j].dir /\ job'[j].port = job[j].port
      /\ job'[j].ok => port[job[j].port] # None \/ appPid[job[j].dir] # None
      /\ \A k \in Jobs \ {j} : job'[k] = job[k]
  BY VerifyMoves DEF Typed
<1>3. RootsHold'
  BY <1>1, <1>2 DEF Deployed, RootsHold
<1>4. StaticHolds'
  <2> SUFFICES ASSUME ~mixed, exits = 0, NEW k \in Jobs, job'[k].ok
               PROVE  port[job'[k].port] # None
    BY <1>1, <1>2 DEF Deployed, StaticHolds
  <2>1. CASE k = j
    <3>1. job[j].dir \in Dirs
      BY <1>1 DEF Typed, HandlersTyped
    <3> QED
      BY <1>2, <2>1, <3>1 DEF Deployed, StaticHolds
  <2>2. CASE k # j
    BY <1>2, <2>2 DEF Deployed, StaticHolds
  <2> QED
    BY <2>1, <2>2
<1>5. JobHolds(j)'
  BY <1>1, <1>2 DEF Deployed, JobHolds
<1> QED
  BY <1>1, <1>2, <1>3, <1>4, <1>5, JobStep

LEMMA ReportDeploys ==
  ASSUME Typed, Deployed, NEW j \in Jobs, Report(j)
  PROVE  Deployed'
<1>1. /\ UNCHANGED <<entry, leftover, late, proc, appPid, port>>
      /\ UNCHANGED <<disturbed, uncleared, mixed, roots, exits>>
  BY DEF Report, server, files, processes, history, counters
<1>2. job'[j].pc = "idle" /\ ~job'[j].ok /\ \A k \in Jobs \ {j} : job'[k] = job[k]
  BY ReportMoves DEF Typed
<1>3. StaticHolds' /\ RootsHold'
  BY <1>1, <1>2 DEF Deployed, StaticHolds, RootsHold
<1>4. \A k \in Jobs : JobHolds(k)'
  <2> SUFFICES ASSUME NEW k \in Jobs PROVE JobHolds(k)'
    OBVIOUS
  <2>1. CASE k = j
    BY <1>2, <2>1 DEF JobHolds
  <2>2. CASE k # j
    BY <1>1, <1>2, <2>2 DEF Deployed, JobHolds
  <2> QED
    BY <2>1, <2>2
<1> QED
  BY <1>3, <1>4 DEF Deployed

LEMMA ProcessDeploys ==
  ASSUME Typed, Deployed, NEW p \in Pids, Respawn(p) \/ Listen(p) \/ Exit(p)
  PROVE  Deployed'
<1>1. UNCHANGED <<job, disturbed, uncleared, mixed, roots, files, late>>
  BY DEF Respawn, Listen, Exit, handlers, history
<1>2. NoProc.kind = "none" /\ NoProc.boss = None
  BY DEF NoProc
<1>3. CASE End(p) /\ (Listen(p) \/ Exit(p))
  <2>1. \A r \in Pids : proc'[r] \in {NoProc, proc[r]}
    BY <1>3, EndStep DEF Typed
  <2>2. RootsHold'
    BY <1>1, <1>2, <2>1 DEF Deployed, RootsHold
  <2>3. ~mixed => \A d \in Dirs : appPid'[d] = None
    BY <1>3 DEF End, Deployed, StaticHolds, Typed, ProcessesTyped
  <2>4. exits' = 0 => exits = 0 /\ \A q \in Ports : port'[q] = port[q]
    <3>1. CASE Exit(p)
      BY <3>1 DEF Exit, Typed, CountersTyped
    <3>2. CASE Listen(p)
      <4>1. proc[p].kind = "starting" /\ UNCHANGED exits
        BY <3>2 DEF Listen, counters
      <4>2. \A q \in Ports : port[q] # p
        BY <4>1 DEF Typed, ProcessesTyped
      <4> QED
        BY <1>3, <4>1, <4>2 DEF End, Typed, ProcessesTyped
    <3> QED
      BY <1>3, <3>1, <3>2
  <2>5. \A j \in Jobs : job[j].ok => job[j].port \in Ports
    BY DEF Deployed, JobHolds, Typed, HandlersTyped
  <2>6. StaticHolds'
    BY <1>1, <1>2, <2>1, <2>3, <2>4, <2>5 DEF Deployed, StaticHolds
  <2> QED
    BY <1>1, <2>2, <2>6, ServerStep
<1>4. CASE Listen(p) /\ ~End(p)
  <2>1. /\ UNCHANGED appPid /\ \A q \in Ports : port[q] # None => port'[q] # None
        /\ \A r \in Pids : /\ proc'[r].kind # "none" => proc[r].kind # "none"
                           /\ proc'[r].kind = "supervisor" => proc[r].kind = "supervisor"
                           /\ proc'[r].boss = proc[r].boss
                           /\ proc'[r].dir = proc[r].dir /\ proc'[r].port = proc[r].port
    BY <1>4, ListenStep DEF Typed
  <2>2. UNCHANGED exits
    BY <1>4 DEF Listen, counters
  <2>3. RootsHold'
    BY <1>1, <2>1 DEF Deployed, RootsHold
  <2>4. \A j \in Jobs : job[j].ok => job[j].port \in Ports
    BY DEF Deployed, JobHolds, Typed, HandlersTyped
  <2>5. StaticHolds'
    BY <1>1, <2>1, <2>2, <2>4 DEF Deployed, StaticHolds
  <2> QED
    BY <1>1, <2>3, <2>5, ServerStep
<1>5. CASE Respawn(p)
  <2>1. /\ proc[p].kind = "supervisor"
        /\ \A r \in Pids : \/ proc'[r] = proc[r]
                           \/ proc'[r].dir = proc[p].dir /\ proc'[r].port = proc[p].port
    BY <1>5, RespawnStep DEF Typed
  <2>2. RootsHold'
    BY <1>1, <2>1 DEF Deployed, RootsHold
  <2>3. StaticHolds'
    BY <1>1, <2>1 DEF Deployed, StaticHolds
  <2> QED
    BY <1>1, <2>2, <2>3, ServerStep
<1> QED
  BY <1>3, <1>4, <1>5 DEF Exit

LEMMA RunLateDeploys ==
  ASSUME Typed, Deployed, NEW o \in late, RunLate(o)
  PROVE  Deployed'
<1>1. /\ late' \subseteq late /\ UNCHANGED <<job, disturbed, uncleared, mixed, roots, exits>>
      /\ UNCHANGED files \/ o.name = "clean"
  BY DEF RunLate, handlers, history, counters
<1>2. /\ o.build \in Builds /\ o.dir \in Dirs /\ o.port \in Ports
      /\ o.dir \in roots[o.port] /\ (~mixed => o.build \in Static)
  BY DEF Typed, DirectoryTyped, Orders, Deployed, RootsHold, StaticHolds
<1>3. RootsHold' /\ StaticHolds'
  <2>1. CASE Launch(o) /\ UNCHANGED <<appPid, port>>
    <3>1. /\ \A p \in Pids : proc'[p].kind # "none" => proc'[p].dir \in roots'[proc'[p].port]
          /\ ~mixed' => \A p \in Pids : proc'[p].kind # "supervisor" /\ proc'[p].boss = None
      BY <1>1, <1>2, <2>1, LaunchKeeps
    <3> QED
      BY <1>1, <2>1, <3>1 DEF Deployed, RootsHold, StaticHolds
  <2>2. CASE UNCHANGED processes \/ Kill(o.dir)
    <3>1. \A p \in Pids : proc'[p] \in {NoProc, proc[p]}
      BY <1>2, <2>2, KillStep DEF Typed, processes
    <3>2. NoProc.kind = "none"
      BY DEF NoProc
    <3>3. RootsHold'
      BY <1>1, <3>1, <3>2 DEF Deployed, RootsHold
    <3>4. UNCHANGED processes \/ \E d \in Dirs : Kill(d)
      BY <1>2, <2>2
    <3>5. StaticHolds'
      BY <1>1, <3>4, StandsStatic DEF Deployed, StaticHolds
    <3> QED
      BY <3>3, <3>5
  <2> QED
    BY <2>1, <2>2 DEF RunLate
<1> QED
  BY <1>1, <1>3, ServerStep

LEMMA NextDeploys == Typed /\ Deployed /\ [Next]_vars => Deployed'
<1> SUFFICES ASSUME Typed, Deployed, [Next]_vars PROVE Deployed'
  OBVIOUS
<1>1. ASSUME NEW j \in Jobs,
             \/ Begin(j) \/ Fail(j) \/ Stop(j) \/ Check(j) \/ Clean(j) \/ StepFails(j)
             \/ Put(j) \/ PutFails(j) \/ Start(j) \/ Verify(j) \/ Report(j)
      PROVE  Deployed'
  BY <1>1, BeginDeploys, FailDeploys, StopDeploys, CleanDeploys, FaultDeploys,
     PutDeploys, StartDeploys, VerifyDeploys, ReportDeploys
<1>2. ASSUME SetProfile \/ (\E b \in Builds : Turn(b)) \/ UNCHANGED vars
      PROVE  Deployed'
  <2>1. /\ UNCHANGED <<job, files, late, proc, appPid, port>>
        /\ UNCHANGED <<disturbed, uncleared, mixed, roots, exits>>
    BY <1>2 DEF SetProfile, Turn, vars, handlers, server, files, processes, history, counters
  <2> QED
    BY <2>1, ServerStep DEF RootsHold, StaticHolds, Deployed
<1> QED
  BY <1>1, <1>2, ProcessDeploys, RunLateDeploys DEF Next

LEMMA DeployedHolds == Spec => [](Typed /\ Deployed)
<1>1. Init => Deployed
  <2> SUFFICES ASSUME Init PROVE Deployed
    OBVIOUS
  <2>1. \A j \in Jobs : job[j].pc = "idle" /\ ~job[j].ok
    BY DEF Init, Quiet
  <2>2. \A p \in Pids : proc[p].kind = "none" /\ proc[p].boss = None
    BY DEF Init, NoProc
  <2>3. late = {} /\ \A d \in Dirs : appPid[d] = None
    BY DEF Init
  <2> QED
    BY <2>1, <2>2, <2>3 DEF Deployed, JobHolds, RootsHold, StaticHolds
<1> QED
  BY <1>1, InitTyped, NextTyped, NextDeploys, PTL DEF Spec

\* A publish that succeeds undisturbed, its clear carried out, leaves its directory with the
\* files of its build and no others (the clear and the upload of publish() in Publisher.ts).
THEOREM FilesArePublished == Spec => []FilesAreTheBuilds
<1>1. Typed /\ Deployed => FilesAreTheBuilds
  <2> SUFFICES ASSUME Typed, Deployed, NEW j \in Jobs, Succeeds(j), j \notin uncleared
               PROVE  entry[job[j].dir] = job[j].build /\ leftover[job[j].dir] = {}
    BY DEF FilesAreTheBuilds
  <2> QED
    BY DEF Deployed, JobHolds, Succeeds
<1> QED
  BY <1>1, DeployedHolds, PTL

\* As long as only static sites are published, and to its port always from the one directory,
\* such a success means that the port serves the new site: the server that took the port first
\* reads the directory on each request (verify() in Publisher.ts, staticServe.ts).
THEOREM StaticIsPublished == Spec => []StaticIsServed
<1>1. Typed /\ Deployed => StaticIsServed
  <2> SUFFICES ASSUME Typed, Deployed, NEW j \in Jobs, Succeeds(j), j \notin uncleared,
                      ~mixed, roots[job[j].port] = {job[j].dir}, exits = 0
               PROVE  Served(job[j].port) = job[j].build
    BY DEF StaticIsServed
  <2>1. entry[job[j].dir] = job[j].build
    BY DEF Deployed, JobHolds, Succeeds
  <2>2. PICK q \in Ports : q = job[j].port
    BY DEF Succeeds, Typed, HandlersTyped
  <2>3. port[q] # None
    BY <2>2 DEF Deployed, StaticHolds, Succeeds
  <2>4. PICK p \in Pids : p = port[q]
    BY <2>3 DEF Typed, ProcessesTyped
  <2>5. proc[p].kind = "up" /\ proc[p].port = q
    BY <2>4 DEF Typed, ProcessesTyped
  <2>6. proc[p].boss = None /\ proc[p].dir = job[j].dir
    BY <2>2, <2>5 DEF Deployed, StaticHolds, RootsHold
  <2> QED
    BY <2>1, <2>2, <2>3, <2>4, <2>6 DEF Served
<1> QED
  BY <1>1, DeployedHolds, PTL

=============================================================================

------------------------------ MODULE Publish ------------------------------
(***************************************************************************)
(* Publishing finished sessions to their owner's own server over SSH       *)
(* (backend/src/publish/Publisher.ts, SshTransport.ts, and the route POST  *)
(* /sessions/:id/publish), and that server: the files in the target        *)
(* directories, the processes the launchers left there, and the ports.     *)
(*                                                                         *)
(* A build is a done session's files; of a directory the model keeps whose *)
(* files are in it.  Directories do not contain one another, and another   *)
(* server is another directory and another port.  Nothing keeps two        *)
(* publishes from running at once: the profile belongs to the owner, who   *)
(* may change it between two.                                              *)
(***************************************************************************)
EXTENDS Naturals, FiniteSets

CONSTANTS
  Jobs,         \* publish requests the server may handle at once
  Builds,       \* the owner's done sessions
  Static,       \* the builds served by static-serve.mjs; the others run `node .`
  Dirs,         \* the target directories the owner may name
  Ports,        \* the ports the owner may name
  None,
  Pids,         \* bound: processes alive on the server at once
  MaxPublishes, \* bound: publishes made
  MaxMishaps    \* bound: in all, changes of the profile, SSH steps that fail and are
                \* passed over, apps that exit, and other writes of a session's row

ASSUME PublishAssumption ==
  /\ Static \subseteq Builds
  /\ None \notin Builds \cup Dirs \cup Ports \cup Pids
  /\ MaxPublishes \in Nat /\ MaxMishaps \in Nat

VARIABLES
  job,       \* each publish: its step, its build, where to, its verdict
  profile,   \* the owner's target directory and port
  stale,     \* publishes whose session's row was written after they read it
  record,    \* the verdict each session's row keeps of its last publish
  keys,      \* publishes whose private key is in a file
  entry,     \* of each directory, the build uploaded last, on top of all others
  leftover,  \* builds that have other files in it
  appPid,    \* the process that its app.pid names
  proc,      \* the processes on the server
  port,      \* the process listening on each port
  late,      \* commands given up by the client and still running on the server
  disturbed, \* history: publishes that overlapped another, or a late command
  uncleared, \* history: publishes whose clear failed and was passed over
  mixed,     \* history: an app other than a static site was published
  roots,     \* history: the directories published with each port
  publishes, moves, faults, exits, turns

handlers == <<job, profile, stale, record, keys>>
files == <<entry, leftover>>
processes == <<proc, appPid, port>>
server == <<files, processes, late>>
history == <<disturbed, uncleared, mixed, roots>>
counters == <<publishes, moves, faults, exits, turns>>
vars == <<handlers, server, history, counters>>

Quiet == [pc |-> "idle", build |-> None, dir |-> None, port |-> None, ok |-> FALSE]
NoProc == [kind |-> "none", code |-> None, boss |-> None, dir |-> None, port |-> None]
Profiles == [dir : Dirs, port : Ports]

Init ==
  /\ job = [j \in Jobs |-> Quiet] /\ stale = {} /\ keys = {}
  /\ profile \in Profiles /\ record = [b \in Builds |-> "none"]
  /\ entry = [d \in Dirs |-> None] /\ leftover = [d \in Dirs |-> {}]
  /\ proc = [p \in Pids |-> NoProc]
  /\ appPid = [d \in Dirs |-> None] /\ port = [q \in Ports |-> None] /\ late = {}
  /\ disturbed = {} /\ uncleared = {} /\ mixed = FALSE /\ roots = [q \in Ports |-> {}]
  /\ publishes = 0 /\ moves = 0 /\ faults = 0 /\ exits = 0 /\ turns = 0

Active == {j \in Jobs : job[j].pc # "idle"}
Mishaps == moves + faults + exits + turns
Free == {p \in Pids : proc[p].kind = "none"}

-----------------------------------------------------------------------------
(* The server                                                              *)

\* A process ends: a pid file that names it names nothing, and its port is free.
End(p) ==
  /\ proc' = [proc EXCEPT ![p] = NoProc]
  /\ appPid' = [d \in Dirs |-> IF appPid[d] = p THEN None ELSE appPid[d]]
  /\ port' = [q \in Ports |-> IF port[q] = p THEN None ELSE port[q]]

\* run.sh restarts an app that has ended, on the files as they are, and notes its pid.
Respawn(s) ==
  /\ proc[s].kind = "supervisor" /\ \A p \in Pids : proc[p].boss # s
  /\ \E p \in Free :
       /\ proc' = [proc EXCEPT ![p] = [kind |-> "starting", code |-> entry[proc[s].dir],
                                       boss |-> s, dir |-> proc[s].dir, port |-> proc[s].port]]
       /\ appPid' = [appPid EXCEPT ![proc[s].dir] = p]
  /\ UNCHANGED <<handlers, files, port, late, history, counters>>

\* An app that starts takes its port; one that finds it taken, or no files, ends.
Listen(p) ==
  /\ proc[p].kind = "starting"
  /\ IF port[proc[p].port] = None /\ proc[p].code # None
     THEN /\ port' = [port EXCEPT ![proc[p].port] = p]
          /\ proc' = [proc EXCEPT ![p].kind = "up"] /\ UNCHANGED appPid
     ELSE End(p)
  /\ UNCHANGED <<handlers, files, late, history, counters>>

\* An app crashes.
Exit(p) ==
  /\ proc[p].kind = "up" /\ Mishaps < MaxMishaps
  /\ exits' = exits + 1
  /\ End(p)
  /\ UNCHANGED <<handlers, files, late, history, publishes, moves, faults, turns>>

\* `kill` on the pid files of the target directory.  run.pid is not among them: the
\* launchers put it, and a static server's app.pid, where the login shell starts.
Kill(d) == IF appPid[d] = None THEN UNCHANGED processes ELSE End(appPid[d])

\* The payload of earlier publishes is deleted; the database, pid files and logs stay.
Clear(d) ==
  /\ entry' = [entry EXCEPT ![d] = None]
  /\ leftover' = [leftover EXCEPT ![d] = {}]

\* A static server starts, or the supervisor of a node app: detached, so that nothing
\* of how it fares is heard.
Launch(o) ==
  \E p \in Free :
    proc' = [proc EXCEPT ![p] =
               IF o.build \in Static
               THEN [kind |-> "starting", code |-> o.build, boss |-> None,
                     dir |-> o.dir, port |-> o.port]
               ELSE [kind |-> "supervisor", code |-> None, boss |-> None,
                     dir |-> o.dir, port |-> o.port]]

\* A command whose client gave up runs all the same; a launcher may be gone by then.
RunLate(o) ==
  /\ late' = late \ {o}
  /\ \/ o.name = "stop" /\ Kill(o.dir) /\ UNCHANGED files
     \/ o.name = "clean" /\ Clear(o.dir) /\ UNCHANGED processes
     \/ o.name = "start" /\ Launch(o) /\ UNCHANGED <<files, appPid, port>>
     \/ o.name = "start" /\ UNCHANGED <<files, processes>>
  /\ UNCHANGED <<handlers, history, counters>>

-----------------------------------------------------------------------------
(* A publish                                                               *)

Goto(j, pc) == job' = [job EXCEPT ![j].pc = pc]

\* The owner names another directory or port.
SetProfile ==
  /\ Mishaps < MaxMishaps /\ moves' = moves + 1
  /\ profile' \in Profiles \ {profile}
  /\ UNCHANGED <<job, stale, record, keys, server, history, publishes, faults, exits, turns>>

\* The route reads the row of a done session and the profile, and the publisher opens
\* its transport.
Begin(j) ==
  /\ job[j].pc = "idle" /\ publishes < MaxPublishes
  /\ publishes' = publishes + 1
  /\ \E b \in Builds :
       /\ job' = [job EXCEPT ![j] = [pc |-> "stop", build |-> b, dir |-> profile.dir,
                                     port |-> profile.port, ok |-> FALSE]]
       /\ mixed' = (mixed \/ b \notin Static)
  /\ roots' = [roots EXCEPT ![profile.port] = @ \cup {profile.dir}]
  /\ stale' = stale \ {j} /\ keys' = keys \cup {j}
  /\ uncleared' = uncleared \ {j}
  /\ disturbed' = IF Active # {} THEN disturbed \cup Active \cup {j}
                  ELSE IF late # {} THEN disturbed \cup {j}
                  ELSE disturbed \ {j}
  /\ UNCHANGED <<profile, record, server, moves, faults, exits, turns>>

\* Mutant: an early return leaves the transport, and its key file, behind.
FailKeepingKey(j) ==
  /\ job[j].pc \in {"stop", "check", "clean", "put", "start", "verify"}
  /\ Goto(j, "report")
  /\ UNCHANGED <<profile, stale, record, keys, server, history, counters>>

\* An honest ok:false: the transport throws, as it may at every step; past the stop, the
\* total deadline is over; or the answer of a step that is looked at is not as it should
\* be: no usable node or npm, a directory that cannot be written, an install or a look at
\* the started app that fails, SSH errors there among them.
Fail(j) ==
  /\ job[j].pc \in {"stop", "check", "clean", "put", "start", "verify"}
  /\ Goto(j, "report") /\ keys' = keys \ {j}
  /\ UNCHANGED <<profile, stale, record, server, history, counters>>

\* The prior app is stopped, as far as its pid file is there.
Stop(j) ==
  /\ job[j].pc = "stop"
  /\ Kill(job[j].dir) /\ Goto(j, "check")
  /\ UNCHANGED <<profile, stale, record, keys, files, late, history, counters>>

\* The preflight: node is there and recent enough, and the directory can be written.
Check(j) ==
  /\ job[j].pc = "check"
  /\ Goto(j, "clean")
  /\ UNCHANGED <<profile, stale, record, keys, server, history, counters>>

\* Mutant: the upload merges with what an earlier publish left.
CleanNothing(j) ==
  /\ job[j].pc = "clean"
  /\ Goto(j, "put")
  /\ UNCHANGED <<profile, stale, record, keys, server, history, counters>>

Clean(j) ==
  /\ job[j].pc = "clean"
  /\ Clear(job[j].dir) /\ Goto(j, "put")
  /\ UNCHANGED <<profile, stale, record, keys, processes, late, history, counters>>

\* Of what a failed clear was to delete, part is gone.
ClearPart(d) ==
  \E kept \in SUBSET ((leftover[d] \cup {entry[d]}) \ {None}) :
    /\ entry' = [entry EXCEPT ![d] = None]
    /\ leftover' = [leftover EXCEPT ![d] = kept]

Order(j) ==
  [name |-> job[j].pc, build |-> job[j].build, dir |-> job[j].dir, port |-> job[j].port]

\* Of three steps nobody looks at the exit code: with an SSH error, a command that fails
\* before its `true` or a time-out the publish goes on, while the command never ran, ran
\* in part, or, with its client killed, runs later.
StepFails(j) ==
  /\ Mishaps < MaxMishaps /\ faults' = faults + 1
  /\ \/ job[j].pc = "stop" /\ Goto(j, "check") /\ UNCHANGED uncleared
     \/ job[j].pc = "clean" /\ Goto(j, "put") /\ uncleared' = uncleared \cup {j}
     \/ job[j].pc = "start" /\ Goto(j, "verify") /\ UNCHANGED uncleared
  /\ \/ late' \in {late, late \cup {Order(j)}} /\ UNCHANGED files
     \/ job[j].pc = "clean" /\ ClearPart(job[j].dir) /\ UNCHANGED late
  /\ UNCHANGED <<profile, stale, record, keys, processes, disturbed, mixed, roots,
                 publishes, moves, exits, turns>>

\* scp puts the build's files over what is there...
Put(j) ==
  LET d == job[j].dir IN
  /\ job[j].pc = "put"
  /\ entry' = [entry EXCEPT ![d] = job[j].build]
  /\ leftover' = [leftover EXCEPT ![d] = (@ \cup {entry[d]}) \ {None, job[j].build}]
  /\ Goto(j, "start")
  /\ UNCHANGED <<profile, stale, record, keys, processes, late, history, counters>>

\* ...or ends halfway, and throws.
PutFails(j) ==
  LET d == job[j].dir IN
  /\ job[j].pc = "put"
  /\ leftover' = [leftover EXCEPT ![d] = @ \cup ({job[j].build} \ {entry[d]})]
  /\ Goto(j, "report") /\ keys' = keys \ {j}
  /\ UNCHANGED <<profile, stale, record, entry, processes, late, history, counters>>

Start(j) ==
  /\ job[j].pc = "start"
  /\ Launch(job[j]) /\ Goto(j, "verify")
  /\ UNCHANGED <<profile, stale, record, keys, files, appPid, port, late, history, counters>>

\* Mutant: the launch is trusted.
VerifyNothing(j) ==
  /\ job[j].pc = "verify"
  /\ job' = [job EXCEPT ![j].pc = "report", ![j].ok = TRUE]
  /\ keys' = keys \ {j}
  /\ UNCHANGED <<profile, stale, record, server, history, counters>>

\* The start took if the target directory's pid file names a live process (run.pid is
\* not there, app.pid may be) or anything listens on the port.
Verify(j) ==
  /\ job[j].pc = "verify"
  /\ job' = [job EXCEPT ![j].pc = "report",
               ![j].ok = \/ port[job[j].port] # None
                         \/ job[j].build \in Static /\ appPid[job[j].dir] # None]
  /\ keys' = keys \ {j}
  /\ UNCHANGED <<profile, stale, record, server, history, counters>>

\* The record is stored at the version read at first: a row written since refuses it.
Report(j) ==
  /\ job[j].pc = "report"
  /\ IF j \in stale
     THEN UNCHANGED <<record, stale>>
     ELSE /\ record' = [record EXCEPT ![job[j].build] = IF job[j].ok THEN "ok" ELSE "failed"]
          /\ stale' = stale \cup {k \in Active \ {j} : job[k].build = job[j].build}
  /\ job' = [job EXCEPT ![j] = Quiet]
  /\ UNCHANGED <<profile, keys, server, history, counters>>

\* A chat turn writes the row of a session.
Turn(b) ==
  /\ Mishaps < MaxMishaps /\ \E j \in Active \ stale : job[j].build = b
  /\ turns' = turns + 1
  /\ stale' = stale \cup {j \in Active : job[j].build = b}
  /\ UNCHANGED <<job, profile, record, keys, server, history, publishes, moves, faults, exits>>

-----------------------------------------------------------------------------
Next ==
  \/ SetProfile
  \/ \E j \in Jobs : \/ Begin(j) \/ Fail(j) \/ Stop(j) \/ Check(j) \/ Clean(j)
                     \/ StepFails(j) \/ Put(j) \/ PutFails(j) \/ Start(j)
                     \/ Verify(j) \/ Report(j)
  \/ \E p \in Pids : Respawn(p) \/ Listen(p) \/ Exit(p)
  \/ \E o \in late : RunLate(o)
  \/ \E b \in Builds : Turn(b)

Spec == Init /\ [][Next]_vars

-----------------------------------------------------------------------------
(* Properties                                                              *)

Steps == {"idle", "stop", "check", "clean", "put", "start", "verify", "report"}

\* Every variable keeps its type; a port belongs to an app that is up and was given it, and
\* a pid file names an app of its directory; and a private key is in a file only while the
\* publish that brought it runs.
TypeOK ==
  /\ job \in [Jobs -> [pc : Steps, build : Builds \cup {None}, dir : Dirs \cup {None},
                       port : Ports \cup {None}, ok : BOOLEAN]]
  /\ profile \in Profiles
  /\ stale \subseteq Jobs /\ record \in [Builds -> {"none", "ok", "failed"}]
  /\ keys = {j \in Active : job[j].pc # "report"}
  /\ entry \in [Dirs -> Builds \cup {None}] /\ leftover \in [Dirs -> SUBSET Builds]
  /\ proc \in [Pids -> [kind : {"none", "supervisor", "starting", "up"},
                        code : Builds \cup {None}, boss : Pids \cup {None},
                        dir : Dirs \cup {None}, port : Ports \cup {None}]]
  /\ appPid \in [Dirs -> Pids \cup {None}] /\ port \in [Ports -> Pids \cup {None}]
  /\ \A d \in Dirs : appPid[d] # None =>
       proc[appPid[d]].kind \in {"starting", "up"} /\ proc[appPid[d]].dir = d
  /\ \A p \in Pids, q \in Ports :
       port[q] = p <=> proc[p].kind = "up" /\ proc[p].port = q
  /\ late \subseteq [name : {"stop", "clean", "start"}, build : Builds, dir : Dirs, port : Ports]
  /\ disturbed \subseteq Jobs /\ uncleared \subseteq Jobs /\ mixed \in BOOLEAN
  /\ roots \in [Ports -> SUBSET Dirs]
  /\ publishes \in 0..MaxPublishes
  /\ moves \in 0..MaxMishaps /\ faults \in 0..MaxMishaps
  /\ exits \in 0..MaxMishaps /\ turns \in 0..MaxMishaps

\* What a visitor gets at a port: a static server reads its directory on each request, an
\* app serves the code it was started on.
Served(q) ==
  IF port[q] = None THEN None
  ELSE LET p == proc[port[q]] IN IF p.boss = None THEN entry[p.dir] ELSE p.code

\* A publish that is about to report success, with no other publish and no command of an
\* earlier one in its way.
Succeeds(j) == job[j].pc = "report" /\ job[j].ok /\ j \notin disturbed

\* A successful publish whose own clear was carried out leaves the directory with the files
\* of its build and no others, whatever earlier ones left there: unfinished, not cleared, or
\* made elsewhere in between.
FilesAreTheBuilds ==
  \A j \in Jobs : Succeeds(j) /\ j \notin uncleared =>
    entry[job[j].dir] = job[j].build /\ leftover[job[j].dir] = {}

\* As long as an owner publishes static sites only, and to a port always from the same
\* directory, a success serves the new site: though the server that answers may be the first
\* one ever started, and the stop or the start of this publish may have failed.
StaticIsServed ==
  \A j \in Jobs :
    Succeeds(j) /\ j \notin uncleared /\ ~mixed /\ roots[job[j].port] = {job[j].dir} /\ exits = 0
      => Served(job[j].port) = job[j].build

\* A success means that what earlier builds had and this one has not is gone.
RemovedIsGone == \A j \in Jobs : Succeeds(j) => leftover[job[j].dir] = {}

\* A new static server that finds its port taken is noticed: a success of a static site, of
\* an owner who has published nothing else, is not the old server still serving its own.
TakenPortIsNoticed ==
  \A j \in Jobs : Succeeds(j) /\ ~mixed /\ faults = 0 /\ exits = 0 =>
    Served(job[j].port) = job[j].build

\* A success means that the port serves the build just deployed.
PublishedIsServed ==
  \A j \in Jobs : Succeeds(j) /\ exits = 0 => Served(job[j].port) \in {job[j].build, None}

=============================================================================

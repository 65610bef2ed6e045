------------------------------ MODULE Lifecycle ------------------------------
(***************************************************************************)
(* The processes of a run and the files they share (marshal/, mix/mod.rs,  *)
(* config.rs, the binaries).  Each mix writes its address to a file and    *)
(* polls the folder until all addresses are there; the config process does *)
(* the same, asks every mix for its output, and at the end merges the      *)
(* logs, deletes the address files and creates a shutdown file for every   *)
(* mix.  What the mixes do to get their output is MixRounds; here a mix    *)
(* has it once all of them serve and know each other.                      *)
(*                                                                         *)
(* A process may die at any point.  The operator then stops what is left   *)
(* and starts another run; the README asks to empty the folder of address  *)
(* files first, which may be forgotten.  Every run has other addresses: an *)
(* address is the number of its run.                                       *)
(***************************************************************************)
EXTENDS Integers, FiniteSets

CONSTANTS N,            \* NUM_MIXES
          Remote,       \* the modes considered: TRUE with address files
          MaxRuns, MaxCrashes,
          None, Empty   \* no file, and a file with nothing in it

ASSUME LifecycleAssumption ==
  /\ N \in Nat \ {0} /\ MaxRuns \in Nat \ {0} /\ MaxCrashes \in Nat
  /\ Remote \subseteq BOOLEAN
  /\ None \notin Int /\ Empty \notin Int /\ None # Empty

Mixes == 0..(N - 1)
Config == N             \* the config process
Procs == 0..N

VARIABLES
  remote,       \* how the processes were started
  run,          \* the number of the run
  careless,     \* the run began on address files of a stopped one
  crashes,
  pc,           \* where each process is
  failure,      \* why it failed, or None
  ipFile,       \* per mix: None, Empty, or the address in the file
  pending,      \* the files a process has listed and not read yet
  found,        \* the addresses it has read, by id, or None
  served,       \* mixes whose server has started in this run
  next,         \* config: the mix to connect to, or to stop
  shutdownFile, \* per mix: None, or the run that created the file
  queue,        \* per mix: result lines its logger has not written yet
  logFile,      \* per mix: the lines in its log file
  attached,     \* the mix writes to the file that is in the folder
  merged,       \* the lines in the final logs
  due           \* lines that were in a file when a merge was still to come

ipVars == <<ipFile, pending, found>>
logVars == <<queue, logFile, attached, merged, due>>
vars == <<remote, run, careless, crashes, pc, failure, ipVars, served, next,
          shutdownFile, logVars>>

FirstPc(rem) == [p \in Procs |-> IF rem THEN (IF p = Config THEN "list" ELSE "create_ip")
                                 ELSE (IF p = Config THEN "connect" ELSE "bind")]

Fresh == /\ pc' = FirstPc(remote)
         /\ failure' = [p \in Procs |-> None]
         /\ pending' = [p \in Procs |-> {}]
         /\ found' = [p \in Procs |-> [m \in Mixes |-> None]]
         /\ served' = {} /\ next' = 0
         /\ queue' = [m \in Mixes |-> {}]
         /\ attached' = [m \in Mixes |-> TRUE]

Init == /\ remote \in Remote /\ run = 1 /\ careless = FALSE /\ crashes = 0
        /\ pc = FirstPc(remote)
        /\ failure = [p \in Procs |-> None]
        /\ ipFile = [m \in Mixes |-> None]
        /\ pending = [p \in Procs |-> {}]
        /\ found = [p \in Procs |-> [m \in Mixes |-> None]]
        /\ served = {} /\ next = 0
        /\ shutdownFile = [m \in Mixes |-> None]
        /\ queue = [m \in Mixes |-> {}]
        /\ logFile = [m \in Mixes |-> {}]
        /\ attached = [m \in Mixes |-> TRUE]
        /\ merged = {} /\ due = {}

Goto(p, label) == pc' = [pc EXCEPT ![p] = label]
Fail(p, why) == /\ Goto(p, "failed")
                /\ failure' = [failure EXCEPT ![p] = why]

------------------------------------------------------------------------------
(* write_my_ip_to_file: File::create empties the file, write_all fills it. *)
CreateIpFile(m) ==
  /\ pc[m] = "create_ip"
  /\ ipFile' = [ipFile EXCEPT ![m] = Empty]
  /\ Goto(m, "write_ip")
  /\ UNCHANGED <<remote, run, careless, crashes, failure, pending, found, served, next,
                 shutdownFile, logVars>>

WriteIpFile(m) ==
  /\ pc[m] = "write_ip"
  /\ ipFile' = [ipFile EXCEPT ![m] = run]
  /\ Goto(m, "list")
  /\ UNCHANGED <<remote, run, careless, crashes, failure, pending, found, served, next,
                 shutdownFile, logVars>>

(* get_cur_ip_files: list the folder, then open and read file after file. *)
ListIpFiles(p) ==
  /\ pc[p] = "list"
  /\ pending' = [pending EXCEPT ![p] = {m \in Mixes : ipFile[m] # None}]
  /\ found' = [found EXCEPT ![p] = [m \in Mixes |-> None]]
  /\ Goto(p, "read")
  /\ UNCHANGED <<remote, run, careless, crashes, failure, ipFile, served, next,
                 shutdownFile, logVars>>

(* A file that is gone, or has no address in it, panics. *)
ReadIpFile(p) ==
  /\ pc[p] = "read"
  /\ \E m \in pending[p] :
       \/ /\ ipFile[m] \notin {None, Empty}
          /\ found' = [found EXCEPT ![p][m] = ipFile[m]]
          /\ pending' = [pending EXCEPT ![p] = @ \ {m}]
          /\ UNCHANGED <<pc, failure>>
       \/ /\ ipFile[m] \in {None, Empty}
          /\ Fail(p, IF ipFile[m] = None THEN "gone" ELSE "half-written")
          /\ UNCHANGED <<found, pending>>
  /\ UNCHANGED <<remote, run, careless, crashes, ipFile, served, next,
                 shutdownFile, logVars>>

(* Mutant: the logs are deleted before they are merged. *)
AfterSwapped ==
  [read |-> "connect",
   join |-> "delete_ips",
   delete_ips |-> "delete_logs",
   delete_logs |-> "merge",
   merge |-> "create"]

(* Mutant: the address files are deleted once the config process has them. *)
AfterEarly ==
  [read |-> "delete_ips",
   delete_ips |-> "connect",
   join |-> "merge",
   merge |-> "delete_logs",
   delete_logs |-> "create"]

(* The config process: run_config, then manage_files, in their order. *)
After ==
  [read |-> "connect",
   join |-> "merge",
   merge |-> "delete_ips",
   delete_ips |-> "delete_logs",
   delete_logs |-> "create"]

(* get_all_ips_from_files: poll until all are found (ids are in range, so as
   many as mixes are all of them); init_mix_ips asserts that its own is among
   them. *)
FoundAll(p) == \A m \in Mixes : found[p][m] # None

AllIpsRead(p) ==
  /\ pc[p] = "read" /\ pending[p] = {}
  /\ \/ /\ ~FoundAll(p)
        /\ Goto(p, "list") /\ UNCHANGED failure
     \/ /\ FoundAll(p) /\ p = Config
        /\ Goto(p, After.read) /\ UNCHANGED failure
     \/ /\ FoundAll(p) /\ p # Config
        /\ IF found[p][p] = run THEN Goto(p, "bind") /\ UNCHANGED failure
           ELSE Fail(p, "not my address")
  /\ UNCHANGED <<remote, run, careless, crashes, ipVars, served, next,
                 shutdownFile, logVars>>

------------------------------------------------------------------------------
(* start_server: from here on connections are accepted. *)
BindServer(m) ==
  /\ pc[m] = "bind"
  /\ Goto(m, "bound")
  /\ UNCHANGED <<remote, run, careless, crashes, failure, ipVars, served, next,
                 shutdownFile, logVars>>

(* Mutant: what an earlier run left is kept. *)
LeftoverRemovedNot(m) == shutdownFile

(* wait_for_shutdown: a leftover file is removed first. *)
LeftoverRemoved(m) == [shutdownFile EXCEPT ![m] = None]

ServeAndWait(m) ==
  /\ pc[m] = "bound"
  /\ shutdownFile' = LeftoverRemoved(m)
  /\ served' = served \union {m}
  /\ Goto(m, "serving")
  /\ UNCHANGED <<remote, run, careless, crashes, failure, ipVars, next, logVars>>

(* A mix can be reached by one who has its address. *)
Knows(p, m) == remote => found[p][m] = run

(* connect_to_server is repeated until it succeeds; the get request is sent in a
   task of its own, and the loop goes on. *)
ConnectAndGet ==
  /\ pc[Config] = "connect"
  /\ pc[next] \in {"bound", "serving"} /\ Knows(Config, next)
  /\ next' = next + 1
  /\ Goto(Config, IF next + 1 = N THEN "join" ELSE "connect")
  /\ UNCHANGED <<remote, run, careless, crashes, failure, ipVars, served,
                 shutdownFile, logVars>>

(* Rounds are run as soon as every mix serves and can reach the others. *)
RoundsRun == served = Mixes /\ \A i, j \in Mixes : Knows(i, j)

(* The get handler has run all its rounds, logged the result and answered. *)
AnswerGet(m) ==
  /\ pc[m] = "serving"
  /\ m < next
  /\ RoundsRun
  /\ queue' = [queue EXCEPT ![m] = @ \union {<<run, m>>}]
  /\ Goto(m, "answered")
  /\ UNCHANGED <<remote, run, careless, crashes, failure, ipVars, served, next,
                 shutdownFile, logFile, attached, merged, due>>

(* The get handler panics, or its call breaks, before the last round or after
   it: the task of the config process ends with an error, and the mix lives. *)
GetErrs(m) ==
  /\ pc[m] = "serving"
  /\ m < next
  /\ \E lines \in SUBSET {<<run, m>>} :
       /\ lines # {} => RoundsRun
       /\ queue' = [queue EXCEPT ![m] = @ \union lines]
  /\ Goto(m, "erred")
  /\ UNCHANGED <<remote, run, careless, crashes, failure, ipVars, served, next,
                 shutdownFile, logFile, attached, merged, due>>

(* Mutants: the tasks are not waited for; or only until one ends with an      *)
(* error, as with try_join_all.                                               *)
GetsDoneAtOnce == TRUE
GetsDoneOnError ==
  \/ \E m \in Mixes : pc[m] = "erred"
  \/ \A m \in Mixes : pc[m] \in {"answered", "failed"}

(* join_all: a task that failed is as good as one that got its answer. *)
GetsDone == \A m \in Mixes : pc[m] \in {"answered", "erred", "failed"}

JoinGets ==
  /\ pc[Config] = "join" /\ GetsDone
  /\ Goto(Config, After.join)
  /\ UNCHANGED <<remote, run, careless, crashes, failure, ipVars, served, next,
                 shutdownFile, logVars>>

MergeLogFiles ==
  /\ pc[Config] = "merge"
  /\ merged' = merged \union UNION {logFile[m] : m \in Mixes}
  /\ next' = 0
  /\ Goto(Config, After.merge)
  /\ UNCHANGED <<remote, run, careless, crashes, failure, ipVars, served,
                 shutdownFile, queue, logFile, attached, due>>

(* Mutant: the address files stay. *)
IpFilesDeletedNot == ipFile

IpFilesDeleted == [m \in Mixes |-> None]

DeleteIpFiles ==
  /\ pc[Config] = "delete_ips"
  /\ ipFile' = IpFilesDeleted
  /\ Goto(Config, After.delete_ips)
  /\ UNCHANGED <<remote, run, careless, crashes, failure, pending, found, served, next,
                 shutdownFile, logVars>>

(* A mix goes on writing to the file that was removed. *)
DeleteOldLogFiles ==
  /\ pc[Config] = "delete_logs"
  /\ logFile' = [m \in Mixes |-> {}]
  /\ attached' = [m \in Mixes |-> FALSE]
  /\ Goto(Config, After.delete_logs)
  /\ UNCHANGED <<remote, run, careless, crashes, failure, ipVars, served, next,
                 shutdownFile, queue, merged, due>>

(* Mutant: one file too many. *)
LastShutdownFileOver == N

(* Mutant: the last mix gets no file. *)
LastShutdownFileOff == N - 2

LastShutdownFile == N - 1

CreateShutdownFile ==
  /\ pc[Config] = "create"
  /\ shutdownFile' = [shutdownFile EXCEPT ![next] = run]
  /\ next' = next + 1
  /\ Goto(Config, IF next >= LastShutdownFile THEN "done" ELSE "create")
  /\ UNCHANGED <<remote, run, careless, crashes, failure, ipVars, served, logVars>>

(* wait_for_shutdown finds the file, removes it, and the server stops. *)
ShutDown(m) ==
  /\ pc[m] \in {"serving", "answered", "erred"} /\ shutdownFile[m] # None
  /\ shutdownFile' = [shutdownFile EXCEPT ![m] = None]
  /\ Goto(m, "stopped")
  /\ UNCHANGED <<remote, run, careless, crashes, failure, ipVars, served, next, logVars>>

(* The non-blocking logger writes what it was given, at some time. *)
WriteLog(m) ==
  /\ queue[m] # {} /\ pc[m] # "failed"
  /\ queue' = [queue EXCEPT ![m] = {}]
  /\ logFile' = IF attached[m] THEN [logFile EXCEPT ![m] = @ \union queue[m]] ELSE logFile
  /\ due' = IF attached[m] /\ pc[Config] \notin {"delete_ips", "delete_logs"}
            THEN due \union queue[m] ELSE due
  /\ UNCHANGED <<remote, run, careless, crashes, pc, failure, ipVars, served, next,
                 shutdownFile, attached, merged>>

------------------------------------------------------------------------------
(* A process dies. *)
Crash(p) ==
  /\ crashes < MaxCrashes /\ pc[p] \notin {"stopped", "done", "failed"}
  /\ crashes' = crashes + 1
  /\ Fail(p, "crash")
  /\ UNCHANGED <<remote, run, careless, ipVars, served, next, shutdownFile, logVars>>

Ended == pc[Config] = "done" /\ \A m \in Mixes : pc[m] = "stopped"
Broken == careless \/ \E p \in Procs : pc[p] \in {"erred", "failed"}

(* The operator stops what is left of the run and starts the next one, on the
   files there are, or after the address files were deleted. *)
NewRun ==
  /\ run < MaxRuns /\ (Ended \/ Broken)
  /\ run' = run + 1
  /\ \/ ipFile' = ipFile
     \/ ipFile' = [m \in Mixes |-> None]
  /\ careless' = (pc[Config] # "done" /\ \E m \in Mixes : ipFile'[m] # None)
  /\ Fresh
  /\ UNCHANGED <<remote, crashes, shutdownFile, logFile, merged, due>>

(* What a process does by itself. *)
MixStep(m) == \/ CreateIpFile(m) \/ WriteIpFile(m)
              \/ ListIpFiles(m) \/ ReadIpFile(m) \/ AllIpsRead(m)
              \/ BindServer(m) \/ ServeAndWait(m) \/ AnswerGet(m) \/ ShutDown(m)

ConfigStep == \/ ListIpFiles(Config) \/ ReadIpFile(Config) \/ AllIpsRead(Config)
              \/ ConnectAndGet \/ JoinGets
              \/ MergeLogFiles \/ DeleteIpFiles \/ DeleteOldLogFiles
              \/ CreateShutdownFile

Next == \/ \E m \in Mixes : MixStep(m) \/ WriteLog(m)
        \/ ConfigStep
        \/ \E p \in Procs : Crash(p)
        \/ \E m \in Mixes : GetErrs(m)
        \/ NewRun

Spec == Init /\ [][Next]_vars

(* Polls, connection attempts and rounds are repeated until they succeed. *)
FairSpec == Spec /\ WF_vars(ConfigStep) /\ \A m \in Mixes : WF_vars(MixStep(m))

------------------------------------------------------------------------------
Labels == {"create_ip", "write_ip", "list", "read", "bind", "bound", "serving", "answered",
           "erred", "stopped", "connect", "join", "merge", "delete_ips", "delete_logs", "create",
           "done", "failed"}
Lines == (1..MaxRuns) \X Mixes

(* Type invariant. *)
LifecycleTypeOK ==
  /\ remote \in BOOLEAN /\ careless \in BOOLEAN
  /\ run \in 1..MaxRuns /\ crashes \in Nat /\ next \in 0..N
  /\ pc \in [Procs -> Labels]
  /\ failure \in [Procs -> {None, "gone", "half-written", "not my address", "crash"}]
  /\ ipFile \in [Mixes -> Nat \union {None, Empty}]
  /\ pending \in [Procs -> SUBSET Mixes]
  /\ found \in [Procs -> [Mixes -> Nat \union {None}]]
  /\ served \subseteq Mixes
  /\ shutdownFile \in [Mixes -> Nat \union {None}]
  /\ attached \in [Mixes -> BOOLEAN]
  /\ due \subseteq Lines /\ merged \subseteq Lines
  /\ logFile \in [Mixes -> SUBSET Lines] /\ queue \in [Mixes -> SUBSET Lines]

(* Whoever goes on with a list of addresses has those of its own run, unless  *)
(* the operator left the files of a run that was stopped: a run that ends     *)
(* leaves none for the next one, and a crash whose files were deleted by hand *)
(* does no harm either (ips.rs, README.md "must be deleted manually").        *)
IpsCurrent ==
  ~careless =>
    \A p \in Procs : pc[p] # "failed" /\ FoundAll(p) =>
      \A m \in Mixes : found[p][m] = run

(* No process finds a file that it has listed gone, and each mix finds its    *)
(* own address in its own place, even on the files of another run: the config *)
(* process deletes the files only when every mix has all addresses.  What can *)
(* fail at the start is to read the file of a mix that is just writing it.    *)
FilesKeptWhileNeeded ==
  \A p \in Procs : failure[p] \in {None, "half-written", "crash"}

(* The shutdown file that is meant for a mix is not taken for a leftover of   *)
(* an earlier run and removed: it is created only after the mix has removed   *)
(* those (mix/mod.rs wait_for_shutdown, config.rs join_all).                  *)
ShutdownNotLost ==
  \A m \in Mixes : pc[m] \in {"create_ip", "write_ip", "list", "read", "bind", "bound"}
                     => shutdownFile[m] # run

(* No mix stops before every mix of this run has answered, answered with an   *)
(* error or died, whatever shutdown files crashed mixes of earlier runs have  *)
(* left: one that failed does not end the run for those that still work.      *)
StopOnlyAfterAll ==
  \A m \in Mixes : pc[m] = "stopped" =>
    \A i \in Mixes : pc[i] \in {"answered", "erred", "stopped", "failed"}

(* A result that was in a log file when the logs were still to be merged is   *)
(* in the final logs, or still in its file, over all runs and crashes         *)
(* (marshal/mod.rs manage_files).                                             *)
ResultsKept == due \subseteq merged \union UNION {logFile[m] : m \in Mixes}

(* A run in which nothing fails ends: the config process is done and every    *)
(* mix has been stopped.                                                      *)
AllStop == ~(Ended \/ Broken) ~> (Ended \/ Broken)
==============================================================================

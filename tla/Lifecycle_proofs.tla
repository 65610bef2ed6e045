--------------------------- MODULE Lifecycle_proofs ---------------------------
(***************************************************************************)
(* Proofs about Lifecycle, for any number of mixes, runs and crashes:      *)
(* nothing stops too early, no stop is lost, no address file is deleted    *)
(* too early, no stale address is used after a run that ended, and no      *)
(* result is lost.  The invariants are in three parts, each inductive over *)
(* the ones before it.                                                     *)
(***************************************************************************)
EXTENDS Lifecycle, TLAPS

(* The steps of manage_files, and the end. *)
Managing == {"merge", "delete_ips", "delete_logs", "create", "done"}
Starting == {"create_ip", "write_ip", "list", "read", "bind", "bound"}
AllDone == \A m \in Mixes : pc[m] \in {"answered", "erred", "stopped", "failed"}

NextInRange ==
  pc[Config] \in {"list", "read", "connect", "delete_ips", "delete_logs", "create"} => next # N

TypeInv == LifecycleTypeOK /\ NextInRange

(* The parts of the type invariant that the steps change one at a time. *)
RunTypes == /\ remote \in BOOLEAN /\ careless \in BOOLEAN
            /\ run \in 1..MaxRuns /\ crashes \in Nat /\ next \in 0..N
            /\ served \subseteq Mixes
PcTypes == /\ pc \in [Procs -> Labels]
           /\ failure \in [Procs -> {None, "gone", "half-written", "not my address", "crash"}]
FileTypes == /\ ipFile \in [Mixes -> Nat \union {None, Empty}]
             /\ pending \in [Procs -> SUBSET Mixes]
             /\ found \in [Procs -> [Mixes -> Nat \union {None}]]
             /\ shutdownFile \in [Mixes -> Nat \union {None}]
LogTypes == /\ attached \in [Mixes -> BOOLEAN]
            /\ due \subseteq Lines /\ merged \subseteq Lines
            /\ logFile \in [Mixes -> SUBSET Lines] /\ queue \in [Mixes -> SUBSET Lines]

(* Shutdown files of this run exist only once all mixes are done. *)
StopInv ==
  /\ pc[Config] \in Managing => AllDone
  /\ \A m \in Mixes :
       /\ shutdownFile[m] = run => AllDone
       /\ shutdownFile[m] # None => shutdownFile[m] <= run
       /\ pc[m] \in {"serving", "answered", "erred"} => shutdownFile[m] \in {None, run}
       /\ pc[m] = "stopped" => AllDone

(* Address files stay while somebody reads, and are current unless the
   operator was careless. *)
FilesListed ==
  \A p \in Procs : pc[p] = "read" => \A m \in pending[p] : ipFile[m] # None
OwnFile ==
  \A m \in Mixes : /\ pc[m] \in {"list", "read"} => ipFile[m] = run
                   /\ pc[m] = "read" /\ found[m][m] # None => found[m][m] = run
FilesGone ==
  pc[Config] \in {"delete_logs", "create", "done"} => \A m \in Mixes : ipFile[m] = None
FilesCurrent == ~careless => \A m \in Mixes : ipFile[m] \in {None, Empty, run}
FoundCurrent ==
  ~careless => \A p \in Procs : \A m \in Mixes : found[p][m] \in {None, run}

FilesInv == /\ FilesListed /\ OwnFile /\ FilesGone /\ FilesCurrent /\ FoundCurrent
            /\ FilesKeptWhileNeeded

LogsInv ==
  /\ ResultsKept
  /\ pc[Config] \in {"delete_ips", "delete_logs"} => due \subseteq merged

LEMMA ProcsFacts == /\ Config \in Procs /\ Mixes \subseteq Procs
                    /\ \A m \in Mixes : m # Config
                    /\ \A p \in Procs : p # Config => p \in Mixes
                    /\ N \in Nat /\ N # 0 /\ N - 1 \in Mixes /\ 0 \in Mixes
                    /\ None # Empty /\ None \notin Nat /\ Empty \notin Nat
  BY LifecycleAssumption DEF Config, Procs, Mixes

------------------------------------------------------------------------------
LEMMA TypeParts == TypeInv <=> RunTypes /\ NextInRange /\ PcTypes /\ FileTypes /\ LogTypes
  BY DEF TypeInv, LifecycleTypeOK, RunTypes, PcTypes, FileTypes, LogTypes

LEMMA InitType == Init => TypeInv
  <1> SUFFICES ASSUME Init PROVE RunTypes /\ NextInRange /\ PcTypes /\ FileTypes /\ LogTypes
    BY TypeParts
  <1> USE ProcsFacts, LifecycleAssumption DEF Init
  <1>1. PcTypes
    BY DEF PcTypes, FirstPc, Labels
  <1>2. RunTypes
    <2>1. remote \in BOOLEAN /\ careless \in BOOLEAN
      OBVIOUS
    <2>2. run \in 1..MaxRuns /\ crashes \in Nat /\ next \in 0..N /\ served \subseteq Mixes
      BY SMT
    <2>3. QED
      BY <2>1, <2>2 DEF RunTypes
  <1>3. FileTypes /\ LogTypes
    BY DEF FileTypes, LogTypes
  <1>4. NextInRange
    BY DEF NextInRange
  <1>5. QED
    BY <1>1, <1>2, <1>3, <1>4

LEMMA TypeStep == TypeInv /\ [Next]_vars => TypeInv'
  <1> SUFFICES ASSUME RunTypes, NextInRange, PcTypes, FileTypes, LogTypes, [Next]_vars
               PROVE  RunTypes' /\ NextInRange' /\ PcTypes' /\ FileTypes' /\ LogTypes'
    BY DEF TypeInv, LifecycleTypeOK, RunTypes, PcTypes, FileTypes, LogTypes
  <1> USE ProcsFacts, LifecycleAssumption
  <1>1. ASSUME NEW m \in Mixes, CreateIpFile(m)
        PROVE  RunTypes' /\ NextInRange' /\ PcTypes' /\ FileTypes' /\ LogTypes'
    <2> USE <1>1 DEF CreateIpFile, Goto
    <2>1. PcTypes'
      BY DEF PcTypes, Labels
    <2>2. RunTypes'
      BY DEF RunTypes
    <2>3. FileTypes'
      BY DEF FileTypes, RunTypes, ipVars
    <2>4. LogTypes'
      BY DEF LogTypes, RunTypes, logVars
    <2>5. NextInRange'
      BY DEF NextInRange, PcTypes, RunTypes
    <2>6. QED
      BY <2>1, <2>2, <2>3, <2>4, <2>5
  <1>2. ASSUME NEW m \in Mixes, WriteIpFile(m)
        PROVE  RunTypes' /\ NextInRange' /\ PcTypes' /\ FileTypes' /\ LogTypes'
    <2> USE <1>2 DEF WriteIpFile, Goto
    <2>1. PcTypes'
      BY DEF PcTypes, Labels
    <2>2. RunTypes'
      BY DEF RunTypes
    <2>3. FileTypes'
      BY DEF FileTypes, RunTypes, ipVars
    <2>4. LogTypes'
      BY DEF LogTypes, RunTypes, logVars
    <2>5. NextInRange'
      BY DEF NextInRange, PcTypes, RunTypes
    <2>6. QED
      BY <2>1, <2>2, <2>3, <2>4, <2>5
  <1>3. ASSUME NEW m \in Mixes, BindServer(m)
        PROVE  RunTypes' /\ NextInRange' /\ PcTypes' /\ FileTypes' /\ LogTypes'
    <2> USE <1>3 DEF BindServer, Goto
    <2>1. PcTypes'
      BY DEF PcTypes, Labels
    <2>2. RunTypes'
      BY DEF RunTypes
    <2>3. FileTypes'
      BY DEF FileTypes, RunTypes, ipVars
    <2>4. LogTypes'
      BY DEF LogTypes, RunTypes, logVars
    <2>5. NextInRange'
      BY DEF NextInRange, PcTypes, RunTypes
    <2>6. QED
      BY <2>1, <2>2, <2>3, <2>4, <2>5
  <1>4. ASSUME NEW m \in Mixes, ServeAndWait(m)
        PROVE  RunTypes' /\ NextInRange' /\ PcTypes' /\ FileTypes' /\ LogTypes'
    <2> USE <1>4 DEF ServeAndWait, Goto, LeftoverRemoved
    <2>1. PcTypes'
      BY DEF PcTypes, Labels
    <2>2. RunTypes'
      BY DEF RunTypes
    <2>3. FileTypes'
      BY DEF FileTypes, RunTypes, ipVars
    <2>4. LogTypes'
      BY DEF LogTypes, RunTypes, logVars
    <2>5. NextInRange'
      BY DEF NextInRange, PcTypes, RunTypes
    <2>6. QED
      BY <2>1, <2>2, <2>3, <2>4, <2>5
  <1>5. ASSUME NEW m \in Mixes, AnswerGet(m)
        PROVE  RunTypes' /\ NextInRange' /\ PcTypes' /\ FileTypes' /\ LogTypes'
    <2> USE <1>5 DEF AnswerGet, Goto, Lines
    <2>1. PcTypes'
      BY DEF PcTypes, Labels
    <2>2. RunTypes'
      BY DEF RunTypes
    <2>3. FileTypes'
      BY DEF FileTypes, RunTypes, ipVars
    <2>4. LogTypes'
      BY DEF LogTypes, RunTypes, logVars
    <2>5. NextInRange'
      BY DEF NextInRange, PcTypes, RunTypes
    <2>6. QED
      BY <2>1, <2>2, <2>3, <2>4, <2>5
  <1>6. ASSUME NEW m \in Mixes, ShutDown(m)
        PROVE  RunTypes' /\ NextInRange' /\ PcTypes' /\ FileTypes' /\ LogTypes'
    <2> USE <1>6 DEF ShutDown, Goto
    <2>1. PcTypes'
      BY DEF PcTypes, Labels
    <2>2. RunTypes'
      BY DEF RunTypes
    <2>3. FileTypes'
      BY DEF FileTypes, RunTypes, ipVars
    <2>4. LogTypes'
      BY DEF LogTypes, RunTypes, logVars
    <2>5. NextInRange'
      BY DEF NextInRange, PcTypes, RunTypes
    <2>6. QED
      BY <2>1, <2>2, <2>3, <2>4, <2>5
  <1>7. ASSUME NEW m \in Mixes, WriteLog(m)
        PROVE  RunTypes' /\ NextInRange' /\ PcTypes' /\ FileTypes' /\ LogTypes'
    <2> USE <1>7 DEF WriteLog, Goto
    <2>1. PcTypes'
      BY DEF PcTypes, Labels
    <2>2. RunTypes'
      BY DEF RunTypes
    <2>3. FileTypes'
      BY DEF FileTypes, RunTypes, ipVars
    <2>4. LogTypes'
      BY DEF LogTypes, RunTypes, logVars
    <2>5. NextInRange'
      BY DEF NextInRange, PcTypes, RunTypes
    <2>6. QED
      BY <2>1, <2>2, <2>3, <2>4, <2>5
  <1>8. ASSUME NEW p \in Procs, ListIpFiles(p)
        PROVE  RunTypes' /\ NextInRange' /\ PcTypes' /\ FileTypes' /\ LogTypes'
    <2> USE <1>8 DEF ListIpFiles, Goto
    <2>1. PcTypes'
      BY DEF PcTypes, Labels
    <2>2. RunTypes'
      BY DEF RunTypes
    <2>3. FileTypes'
      BY DEF FileTypes, RunTypes, ipVars
    <2>4. LogTypes'
      BY DEF LogTypes, RunTypes, logVars
    <2>5. NextInRange'
      BY DEF NextInRange, PcTypes, RunTypes
    <2>6. QED
      BY <2>1, <2>2, <2>3, <2>4, <2>5
  <1>9. ASSUME NEW p \in Procs, ReadIpFile(p)
        PROVE  RunTypes' /\ NextInRange' /\ PcTypes' /\ FileTypes' /\ LogTypes'
    <2> USE <1>9 DEF ReadIpFile, Goto, Fail
    <2>1. PcTypes'
      BY DEF PcTypes, Labels
    <2>2. RunTypes'
      BY DEF RunTypes
    <2>3. FileTypes'
      <3>1. CASE UNCHANGED <<found, pending>>
        BY <3>1 DEF FileTypes
      <3>2. ASSUME NEW m \in pending[p], ipFile[m] \notin {None, Empty},
                   found' = [found EXCEPT ![p][m] = ipFile[m]],
                   pending' = [pending EXCEPT ![p] = @ \ {m}]
            PROVE  FileTypes'
        <4>1. m \in Mixes /\ ipFile[m] \in Nat
          BY <3>2 DEF FileTypes
        <4>2. found' \in [Procs -> [Mixes -> Nat \union {None}]]
          BY <3>2, <4>1 DEF FileTypes
        <4>3. pending' \in [Procs -> SUBSET Mixes]
          BY <3>2 DEF FileTypes
        <4>4. QED
          BY <4>2, <4>3 DEF FileTypes
      <3>3. QED
        BY <3>1, <3>2
    <2>4. LogTypes'
      BY DEF LogTypes, RunTypes, logVars
    <2>5. NextInRange'
      BY DEF NextInRange, PcTypes, RunTypes
    <2>6. QED
      BY <2>1, <2>2, <2>3, <2>4, <2>5
  <1>10. ASSUME NEW p \in Procs, AllIpsRead(p)
        PROVE  RunTypes' /\ NextInRange' /\ PcTypes' /\ FileTypes' /\ LogTypes'
    <2> USE <1>10 DEF AllIpsRead, Goto, Fail, After
    <2>1. PcTypes'
      BY DEF PcTypes, Labels
    <2>2. RunTypes'
      BY DEF RunTypes
    <2>3. FileTypes'
      BY DEF FileTypes, RunTypes, ipVars
    <2>4. LogTypes'
      BY DEF LogTypes, RunTypes, logVars
    <2>5. NextInRange'
      BY DEF NextInRange, PcTypes, RunTypes
    <2>6. QED
      BY <2>1, <2>2, <2>3, <2>4, <2>5
  <1>11. ASSUME NEW p \in Procs, Crash(p)
        PROVE  RunTypes' /\ NextInRange' /\ PcTypes' /\ FileTypes' /\ LogTypes'
    <2> USE <1>11 DEF Crash, Goto, Fail
    <2>1. PcTypes'
      BY DEF PcTypes, Labels
    <2>2. RunTypes'
      BY DEF RunTypes
    <2>3. FileTypes'
      BY DEF FileTypes, RunTypes, ipVars
    <2>4. LogTypes'
      BY DEF LogTypes, RunTypes, logVars
    <2>5. NextInRange'
      BY DEF NextInRange, PcTypes, RunTypes
    <2>6. QED
      BY <2>1, <2>2, <2>3, <2>4, <2>5
  <1>12. CASE ConnectAndGet
    <2> USE <1>12 DEF ConnectAndGet, Goto, Config, Mixes
    <2>1. PcTypes'
      BY DEF PcTypes, Labels
    <2>2. RunTypes'
      BY DEF RunTypes
    <2>3. FileTypes'
      BY DEF FileTypes, RunTypes, ipVars
    <2>4. LogTypes'
      BY DEF LogTypes, RunTypes, logVars
    <2>5. NextInRange'
      BY DEF NextInRange, PcTypes, RunTypes
    <2>6. QED
      BY <2>1, <2>2, <2>3, <2>4, <2>5
  <1>13. CASE JoinGets
    <2> USE <1>13 DEF JoinGets, Goto, After
    <2>1. PcTypes'
      BY DEF PcTypes, Labels
    <2>2. RunTypes'
      BY DEF RunTypes
    <2>3. FileTypes'
      BY DEF FileTypes, RunTypes, ipVars
    <2>4. LogTypes'
      BY DEF LogTypes, RunTypes, logVars
    <2>5. NextInRange'
      BY DEF NextInRange, PcTypes, RunTypes
    <2>6. QED
      BY <2>1, <2>2, <2>3, <2>4, <2>5
  <1>14. CASE MergeLogFiles
    <2> USE <1>14 DEF MergeLogFiles, Goto, After
    <2>1. PcTypes'
      BY DEF PcTypes, Labels
    <2>2. RunTypes'
      BY DEF RunTypes
    <2>3. FileTypes'
      BY DEF FileTypes, RunTypes, ipVars
    <2>4. LogTypes'
      BY DEF LogTypes, RunTypes, logVars
    <2>5. NextInRange'
      BY DEF NextInRange, PcTypes, RunTypes
    <2>6. QED
      BY <2>1, <2>2, <2>3, <2>4, <2>5
  <1>15. CASE DeleteIpFiles
    <2> USE <1>15 DEF DeleteIpFiles, Goto, After, IpFilesDeleted
    <2>1. PcTypes'
      BY DEF PcTypes, Labels
    <2>2. RunTypes'
      BY DEF RunTypes
    <2>3. FileTypes'
      BY DEF FileTypes, RunTypes, ipVars
    <2>4. LogTypes'
      BY DEF LogTypes, RunTypes, logVars
    <2>5. NextInRange'
      BY DEF NextInRange, PcTypes, RunTypes
    <2>6. QED
      BY <2>1, <2>2, <2>3, <2>4, <2>5
  <1>16. CASE DeleteOldLogFiles
    <2> USE <1>16 DEF DeleteOldLogFiles, Goto, After
    <2>1. PcTypes'
      BY DEF PcTypes, Labels
    <2>2. RunTypes'
      BY DEF RunTypes
    <2>3. FileTypes'
      BY DEF FileTypes, RunTypes, ipVars
    <2>4. LogTypes'
      BY DEF LogTypes, RunTypes, logVars
    <2>5. NextInRange'
      BY DEF NextInRange, PcTypes, RunTypes
    <2>6. QED
      BY <2>1, <2>2, <2>3, <2>4, <2>5
  <1>17. CASE CreateShutdownFile
    <2> USE <1>17 DEF CreateShutdownFile, Goto, LastShutdownFile
    <2>1. PcTypes'
      BY DEF PcTypes, Labels
    <2>2. next \in 0..(N - 1)
      BY DEF NextInRange, RunTypes
    <2>3. RunTypes'
      BY <2>2 DEF RunTypes
    <2>4. shutdownFile' \in [Mixes -> Nat \union {None}]
      BY <2>2 DEF FileTypes, RunTypes, Mixes
    <2>5. FileTypes'
      BY <2>4 DEF FileTypes, ipVars
    <2>6. LogTypes'
      BY DEF LogTypes, logVars
    <2>7. NextInRange'
      <3>1. CASE next >= N - 1
        BY <3>1 DEF NextInRange, PcTypes
      <3>2. CASE next < N - 1
        <4>1. next' = next + 1 /\ next + 1 # N
          BY <2>2, <3>2
        <4>2. QED
          BY <4>1 DEF NextInRange
      <3>3. QED
        BY <2>2, <3>1, <3>2
    <2>8. QED
      BY <2>1, <2>3, <2>5, <2>6, <2>7
  <1>18. CASE NewRun
    <2> USE <1>18 DEF NewRun, Goto, Fresh, FirstPc
    <2>1. PcTypes'
      BY DEF PcTypes, Labels
    <2>2. RunTypes'
      BY DEF RunTypes
    <2>3. FileTypes'
      BY DEF FileTypes, RunTypes, ipVars
    <2>4. LogTypes'
      BY DEF LogTypes, RunTypes, logVars
    <2>5. NextInRange'
      BY DEF NextInRange, PcTypes, RunTypes
    <2>6. QED
      BY <2>1, <2>2, <2>3, <2>4, <2>5
  <1>19. CASE UNCHANGED vars
    BY <1>19 DEF vars, ipVars, logVars, RunTypes, PcTypes, FileTypes, LogTypes, NextInRange
  <1>20. ASSUME NEW m \in Mixes, GetErrs(m)
         PROVE  RunTypes' /\ NextInRange' /\ PcTypes' /\ FileTypes' /\ LogTypes'
    <2> USE <1>20 DEF GetErrs, Goto, Lines
    <2>1. PcTypes'
      BY DEF PcTypes, Labels
    <2>2. RunTypes'
      BY DEF RunTypes
    <2>3. FileTypes'
      BY DEF FileTypes, RunTypes, ipVars
    <2>4. LogTypes'
      BY DEF LogTypes, RunTypes, logVars
    <2>5. NextInRange'
      BY DEF NextInRange, PcTypes, RunTypes
    <2>6. QED
      BY <2>1, <2>2, <2>3, <2>4, <2>5
  <1>21. QED
    BY <1>1, <1>2, <1>3, <1>4, <1>5, <1>6, <1>7, <1>8, <1>9, <1>10, <1>11, <1>12, <1>13,
       <1>14, <1>15, <1>16, <1>17, <1>18, <1>19, <1>20 DEF Next, MixStep, ConfigStep

------------------------------------------------------------------------------
LEMMA InitStop == Init => StopInv
  BY ProcsFacts, LifecycleAssumption DEF Init, StopInv, FirstPc, Managing

LEMMA StopStep == TypeInv /\ StopInv /\ [Next]_vars => StopInv'
  <1> SUFFICES ASSUME RunTypes, PcTypes, FileTypes, StopInv, [Next]_vars PROVE StopInv'
    BY DEF TypeInv, LifecycleTypeOK, RunTypes, PcTypes, FileTypes
  <1> USE ProcsFacts, LifecycleAssumption DEF StopInv, AllDone, Managing
  <1>1. ASSUME NEW m \in Mixes, CreateIpFile(m) PROVE StopInv'
    BY <1>1 DEF CreateIpFile, Goto, PcTypes, RunTypes, FileTypes
  <1>2. ASSUME NEW m \in Mixes, WriteIpFile(m) PROVE StopInv'
    BY <1>2 DEF WriteIpFile, Goto, PcTypes, RunTypes, FileTypes
  <1>3. ASSUME NEW m \in Mixes, BindServer(m) PROVE StopInv'
    BY <1>3 DEF BindServer, Goto, PcTypes, RunTypes, FileTypes
  <1>4. ASSUME NEW m \in Mixes, ServeAndWait(m) PROVE StopInv'
    <2> USE <1>4 DEF ServeAndWait, Goto, LeftoverRemoved
    <2>1. ~AllDone /\ pc[Config] \notin Managing /\ pc'[Config] = pc[Config]
      BY DEF PcTypes
    <2>2. \A i \in Mixes : shutdownFile'[i] \in {None, shutdownFile[i]}
      BY DEF FileTypes
    <2>3. \A i \in Mixes : i # m => pc'[i] = pc[i] /\ shutdownFile'[i] = shutdownFile[i]
      BY DEF PcTypes, FileTypes
    <2>4. pc'[m] = "serving" /\ shutdownFile'[m] = None
      BY DEF PcTypes, FileTypes
    <2>5. None # run
      BY DEF RunTypes
    <2>6. QED
      BY <2>1, <2>2, <2>3, <2>4, <2>5
  <1>5. ASSUME NEW m \in Mixes, AnswerGet(m) PROVE StopInv'
    BY <1>5 DEF AnswerGet, Goto, PcTypes, RunTypes, FileTypes
  <1>6. ASSUME NEW m \in Mixes, ShutDown(m) PROVE StopInv'
    BY <1>6 DEF ShutDown, Goto, PcTypes, RunTypes, FileTypes
  <1>7. ASSUME NEW m \in Mixes, WriteLog(m) PROVE StopInv'
    BY <1>7 DEF WriteLog, Goto, PcTypes, RunTypes, FileTypes
  <1>8. ASSUME NEW p \in Procs, ListIpFiles(p) PROVE StopInv'
    BY <1>8 DEF ListIpFiles, Goto, PcTypes, RunTypes, FileTypes
  <1>9. ASSUME NEW p \in Procs, ReadIpFile(p) PROVE StopInv'
    BY <1>9, ZenonT(60) DEF ReadIpFile, Goto, PcTypes, RunTypes, FileTypes, Fail
  <1>10. ASSUME NEW p \in Procs, AllIpsRead(p) PROVE StopInv'
    BY <1>10, ZenonT(60) DEF AllIpsRead, Goto, PcTypes, RunTypes, FileTypes, Fail, After
  <1>11. ASSUME NEW p \in Procs, Crash(p) PROVE StopInv'
    BY <1>11 DEF Crash, Goto, PcTypes, RunTypes, FileTypes, Fail
  <1>12. CASE ConnectAndGet
    BY <1>12 DEF ConnectAndGet, Goto, PcTypes, RunTypes, FileTypes
  <1>13. CASE JoinGets
    BY <1>13 DEF JoinGets, Goto, PcTypes, RunTypes, FileTypes, After, GetsDone
  <1>14. CASE MergeLogFiles
    BY <1>14 DEF MergeLogFiles, Goto, PcTypes, RunTypes, FileTypes, After
  <1>15. CASE DeleteIpFiles
    BY <1>15 DEF DeleteIpFiles, Goto, PcTypes, RunTypes, FileTypes, After, IpFilesDeleted
  <1>16. CASE DeleteOldLogFiles
    BY <1>16 DEF DeleteOldLogFiles, Goto, PcTypes, RunTypes, FileTypes, After
  <1>17. CASE CreateShutdownFile
    <2> USE <1>17 DEF CreateShutdownFile, Goto
    <2>1. AllDone /\ \A i \in Mixes : pc'[i] = pc[i]
      BY DEF PcTypes
    <2>2. \A i \in Mixes : shutdownFile'[i] \in {run, shutdownFile[i]}
      BY DEF FileTypes
    <2>3. run \in Nat /\ run' = run
      BY DEF RunTypes
    <2>4. QED
      BY <2>1, <2>2, <2>3
  <1>18. CASE NewRun
    <2> USE <1>18 DEF NewRun, Fresh, FirstPc
    <2>1. \A p \in Procs : pc'[p] \in {"list", "connect", "create_ip", "bind"}
      OBVIOUS
    <2>2. \A i \in Mixes : shutdownFile[i] # None => shutdownFile[i] \in Nat /\ shutdownFile[i] <= run
      BY DEF FileTypes
    <2>3. run \in Nat /\ run' = run + 1 /\ run' # None /\ shutdownFile' = shutdownFile
      BY DEF RunTypes
    <2>4. \A i \in Mixes : shutdownFile'[i] # None => shutdownFile'[i] <= run' /\ shutdownFile'[i] # run'
      BY <2>2, <2>3
    <2>5. QED
      BY <2>1, <2>3, <2>4
  <1>19. CASE UNCHANGED vars
    BY <1>19 DEF vars
  <1>20. ASSUME NEW m \in Mixes, GetErrs(m) PROVE StopInv'
    BY <1>20 DEF GetErrs, Goto, PcTypes, RunTypes, FileTypes
  <1>21. QED
    BY <1>1, <1>2, <1>3, <1>4, <1>5, <1>6, <1>7, <1>8, <1>9, <1>10, <1>11, <1>12, <1>13,
       <1>14, <1>15, <1>16, <1>17, <1>18, <1>19, <1>20 DEF Next, MixStep, ConfigStep

------------------------------------------------------------------------------
LEMMA InitFiles == Init => FilesInv
  BY ProcsFacts, LifecycleAssumption DEF Init, FilesInv, FirstPc,
     FilesListed, OwnFile, FilesGone, FilesCurrent, FoundCurrent, FilesKeptWhileNeeded

LEMMA FilesStep == TypeInv /\ StopInv /\ FilesInv /\ [Next]_vars => FilesInv'
  <1> SUFFICES ASSUME RunTypes, PcTypes, FileTypes, StopInv, FilesInv, [Next]_vars
               PROVE  FilesInv'
    BY DEF TypeInv, LifecycleTypeOK, RunTypes, PcTypes, FileTypes
  <1> USE ProcsFacts, LifecycleAssumption DEF FilesInv,
          FilesListed, OwnFile, FilesGone, FilesCurrent, FoundCurrent, FilesKeptWhileNeeded
  <1>1. ASSUME NEW m \in Mixes, CreateIpFile(m) PROVE FilesInv'
    <2> USE <1>1 DEF CreateIpFile, Goto
    <2>1. pc[Config] \notin Managing /\ pc'[Config] = pc[Config]
      BY DEF StopInv, AllDone, PcTypes
    <2>2. \A p \in Procs : pc'[p] \in {"list", "read"} => pc'[p] = pc[p] /\ p # m
      BY DEF PcTypes
    <2>3. ipFile'[m] = Empty /\ \A i \in Mixes : i # m => ipFile'[i] = ipFile[i]
      BY DEF FileTypes
    <2>4. FilesListed' /\ OwnFile'
      BY <2>2, <2>3 DEF FileTypes
    <2>5. FilesGone' /\ FilesCurrent' /\ FoundCurrent' /\ FilesKeptWhileNeeded'
      BY <2>1, <2>3 DEF Managing
    <2>6. QED
      BY <2>4, <2>5
  <1>2. ASSUME NEW m \in Mixes, WriteIpFile(m) PROVE FilesInv'
    <2> USE <1>2 DEF WriteIpFile, Goto
    <2>1. pc[Config] \notin Managing /\ pc'[Config] = pc[Config]
      BY DEF StopInv, AllDone, PcTypes
    <2>2. \A p \in Procs : pc'[p] = "read" => pc[p] = "read"
      BY DEF PcTypes
    <2>3. \A i \in Mixes : i # m => pc'[i] = pc[i]
      BY DEF PcTypes
    <2>4. ipFile'[m] = run /\ \A i \in Mixes : i # m => ipFile'[i] = ipFile[i]
      BY DEF FileTypes
    <2>5. pc'[m] = "list" /\ run # None
      <3>1. run \in Nat
        BY DEF RunTypes
      <3>2. pc'[m] = "list"
        BY DEF PcTypes
      <3>3. QED
        BY <3>1, <3>2
    <2>6. FilesListed' /\ OwnFile'
      BY <2>2, <2>3, <2>4, <2>5 DEF FileTypes
    <2>7. FilesGone' /\ FilesCurrent' /\ FoundCurrent' /\ FilesKeptWhileNeeded'
      BY <2>1, <2>4 DEF Managing
    <2>8. QED
      BY <2>6, <2>7
  <1>3. ASSUME NEW m \in Mixes, BindServer(m) PROVE FilesInv'
    BY <1>3 DEF BindServer, Goto, PcTypes, RunTypes, FileTypes, ipVars
  <1>4. ASSUME NEW m \in Mixes, ServeAndWait(m) PROVE FilesInv'
    BY <1>4 DEF ServeAndWait, Goto, PcTypes, RunTypes, FileTypes, ipVars
  <1>5. ASSUME NEW m \in Mixes, AnswerGet(m) PROVE FilesInv'
    BY <1>5 DEF AnswerGet, Goto, PcTypes, RunTypes, FileTypes, ipVars
  <1>6. ASSUME NEW m \in Mixes, ShutDown(m) PROVE FilesInv'
    BY <1>6 DEF ShutDown, Goto, PcTypes, RunTypes, FileTypes, ipVars
  <1>7. ASSUME NEW m \in Mixes, WriteLog(m) PROVE FilesInv'
    BY <1>7 DEF WriteLog, Goto, PcTypes, RunTypes, FileTypes, ipVars
  <1>8. ASSUME NEW p \in Procs, ListIpFiles(p) PROVE FilesInv'
    BY <1>8, ZenonT(60) DEF ListIpFiles, Goto, PcTypes, RunTypes, FileTypes, ipVars
  <1>9. ASSUME NEW p \in Procs, ReadIpFile(p) PROVE FilesInv'
    <2> USE <1>9 DEF ReadIpFile, Goto, Fail
    <2>1. ASSUME NEW m \in pending[p], ipFile[m] \notin {None, Empty},
                 found' = [found EXCEPT ![p][m] = ipFile[m]],
                 pending' = [pending EXCEPT ![p] = @ \ {m}],
                 UNCHANGED <<pc, failure>>
          PROVE  FilesInv'
      <3>1. m \in Mixes
        BY DEF FileTypes
      <3>2. FilesListed'
        BY <2>1 DEF FileTypes
      <3>3. found'[p][m] = ipFile[m]
        BY <2>1, <3>1 DEF FileTypes
      <3>4. \A q \in Procs : \A i \in Mixes :
              found'[q][i] \in {found[q][i], IF q = p /\ i = m THEN ipFile[m] ELSE found[q][i]}
        BY <2>1, <3>1 DEF FileTypes
      <3>5. OwnFile'
        BY <2>1, <3>4
      <3>6. FoundCurrent'
        BY <2>1, <3>1, <3>4
      <3>7. QED
        BY <2>1, <3>2, <3>5, <3>6
    <2>2. ASSUME NEW m \in pending[p], ipFile[m] = Empty, UNCHANGED <<found, pending>>,
                 pc' = [pc EXCEPT ![p] = "failed"],
                 failure' = [failure EXCEPT ![p] = "half-written"]
          PROVE  FilesInv'
      <3>1. \A q \in Procs : q # p => pc'[q] = pc[q] /\ failure'[q] = failure[q]
        BY <2>2 DEF PcTypes
      <3>2. pc'[p] = "failed" /\ failure'[p] = "half-written"
        BY <2>2 DEF PcTypes
      <3>3. FilesListed' /\ OwnFile' /\ FilesGone'
        BY <2>2, <3>1, <3>2
      <3>4. FilesCurrent' /\ FoundCurrent' /\ FilesKeptWhileNeeded'
        BY <2>2, <3>1, <3>2
      <3>5. QED
        BY <3>3, <3>4
    <2>3. \A m \in pending[p] : ipFile[m] # None
      OBVIOUS
    <2>4. QED
      BY <2>1, <2>2, <2>3
  <1>10. ASSUME NEW p \in Procs, AllIpsRead(p) PROVE FilesInv'
    <2> USE <1>10 DEF AllIpsRead, Goto, Fail, After, ipVars
    <2>1. p # Config /\ FoundAll(p) => found[p][p] = run
      BY DEF FoundAll
    <2>2. UNCHANGED failure
      BY <2>1
    <2>3. pc' \in {[pc EXCEPT ![p] = l] : l \in {"list", "connect", "bind"}}
      BY <2>1
    <2>4. \A q \in Procs : q # p => pc'[q] = pc[q]
      BY <2>3 DEF PcTypes
    <2>5. pc'[p] \in {"list", "connect", "bind"} /\ pc[p] = "read"
      BY <2>3 DEF PcTypes
    <2>6. QED
      BY <2>2, <2>4, <2>5
  <1>11. ASSUME NEW p \in Procs, Crash(p) PROVE FilesInv'
    BY <1>11 DEF Crash, Goto, PcTypes, RunTypes, FileTypes, Fail, ipVars
  <1>12. CASE ConnectAndGet
    BY <1>12 DEF ConnectAndGet, Goto, PcTypes, RunTypes, FileTypes, ipVars
  <1>13. CASE JoinGets
    BY <1>13 DEF JoinGets, Goto, PcTypes, RunTypes, FileTypes, After, ipVars
  <1>14. CASE MergeLogFiles
    BY <1>14 DEF MergeLogFiles, Goto, PcTypes, RunTypes, FileTypes, After, ipVars
  <1>15. CASE DeleteIpFiles
    <2> USE <1>15 DEF DeleteIpFiles, Goto, After, IpFilesDeleted
    <2>1. \A m \in Mixes : pc[m] \in {"answered", "erred", "stopped", "failed"}
      BY DEF StopInv, AllDone, Managing
    <2>2. \A q \in Procs : pc'[q] \notin {"list", "read"}
      <3>1. pc'[Config] = "delete_logs" /\ \A q \in Procs : q # Config => pc'[q] = pc[q]
        BY DEF PcTypes
      <3>2. QED
        BY <2>1, <3>1
    <2>3. \A m \in Mixes : ipFile'[m] = None
      OBVIOUS
    <2>4. QED
      BY <2>2, <2>3
  <1>16. CASE DeleteOldLogFiles
    BY <1>16 DEF DeleteOldLogFiles, Goto, PcTypes, RunTypes, FileTypes, After, ipVars
  <1>17. CASE CreateShutdownFile
    BY <1>17 DEF CreateShutdownFile, Goto, PcTypes, RunTypes, FileTypes, ipVars
  <1>18. CASE NewRun
    BY <1>18, ZenonT(60) DEF NewRun, Goto, PcTypes, RunTypes, FileTypes, Fresh, FirstPc, ipVars
  <1>19. CASE UNCHANGED vars
    BY <1>19 DEF vars, ipVars
  <1>20. ASSUME NEW m \in Mixes, GetErrs(m) PROVE FilesInv'
    BY <1>20 DEF GetErrs, Goto, PcTypes, RunTypes, FileTypes, ipVars
  <1>21. QED
    BY <1>1, <1>2, <1>3, <1>4, <1>5, <1>6, <1>7, <1>8, <1>9, <1>10, <1>11, <1>12, <1>13,
       <1>14, <1>15, <1>16, <1>17, <1>18, <1>19, <1>20 DEF Next, MixStep, ConfigStep

------------------------------------------------------------------------------
LEMMA InitLogs == Init => LogsInv
  BY ProcsFacts, LifecycleAssumption DEF Init, LogsInv, FirstPc, ResultsKept

LEMMA LogsStep == TypeInv /\ LogsInv /\ [Next]_vars => LogsInv'
  <1> SUFFICES ASSUME PcTypes, LogTypes, LogsInv, [Next]_vars
               PROVE  LogsInv'
    BY DEF TypeInv, LifecycleTypeOK, PcTypes, LogTypes
  <1> USE ProcsFacts DEF LogsInv, ResultsKept
  <1>1. ASSUME NEW m \in Mixes, CreateIpFile(m) PROVE LogsInv'
    BY <1>1 DEF CreateIpFile, Goto, PcTypes, LogTypes, logVars
  <1>2. ASSUME NEW m \in Mixes, WriteIpFile(m) PROVE LogsInv'
    BY <1>2 DEF WriteIpFile, Goto, PcTypes, LogTypes, logVars
  <1>3. ASSUME NEW m \in Mixes, BindServer(m) PROVE LogsInv'
    BY <1>3 DEF BindServer, Goto, PcTypes, LogTypes, logVars
  <1>4. ASSUME NEW m \in Mixes, ServeAndWait(m) PROVE LogsInv'
    BY <1>4 DEF ServeAndWait, Goto, PcTypes, LogTypes, logVars
  <1>5. ASSUME NEW m \in Mixes, AnswerGet(m) PROVE LogsInv'
    BY <1>5 DEF AnswerGet, Goto, PcTypes, LogTypes, logVars
  <1>6. ASSUME NEW m \in Mixes, ShutDown(m) PROVE LogsInv'
    BY <1>6 DEF ShutDown, Goto, PcTypes, LogTypes, logVars
  <1>7. ASSUME NEW m \in Mixes, WriteLog(m) PROVE LogsInv'
    <2> USE <1>7 DEF WriteLog
    <2>1. pc[Config] \in {"delete_ips", "delete_logs"} => due' = due
      OBVIOUS
    <2>2. \A i \in Mixes : logFile[i] \subseteq logFile'[i]
      BY DEF LogTypes
    <2>3. attached[m] => queue[m] \subseteq logFile'[m]
      BY DEF LogTypes
    <2>4. due' \subseteq due \union logFile'[m]
      BY <2>3
    <2>5. QED
      BY <2>1, <2>2, <2>4
  <1>8. ASSUME NEW p \in Procs, ListIpFiles(p) PROVE LogsInv'
    BY <1>8 DEF ListIpFiles, Goto, PcTypes, LogTypes, logVars
  <1>9. ASSUME NEW p \in Procs, ReadIpFile(p) PROVE LogsInv'
    <2> USE <1>9 DEF ReadIpFile, Goto, Fail, logVars
    <2>1. pc'[Config] \in {pc[Config], "failed"}
      BY DEF PcTypes
    <2>2. QED
      BY <2>1
  <1>10. ASSUME NEW p \in Procs, AllIpsRead(p) PROVE LogsInv'
    <2> USE <1>10 DEF AllIpsRead, Goto, Fail, After, logVars
    <2>1. pc'[Config] \in {pc[Config], "list", "connect", "bind", "failed"}
      BY DEF PcTypes
    <2>2. QED
      BY <2>1
  <1>11. ASSUME NEW p \in Procs, Crash(p) PROVE LogsInv'
    BY <1>11 DEF Crash, Goto, PcTypes, LogTypes, Fail, logVars
  <1>12. CASE ConnectAndGet
    BY <1>12 DEF ConnectAndGet, Goto, PcTypes, LogTypes, logVars
  <1>13. CASE JoinGets
    BY <1>13 DEF JoinGets, Goto, PcTypes, LogTypes, After, logVars
  <1>14. CASE MergeLogFiles
    BY <1>14 DEF MergeLogFiles, Goto, PcTypes, LogTypes, After, logVars
  <1>15. CASE DeleteIpFiles
    BY <1>15 DEF DeleteIpFiles, Goto, PcTypes, LogTypes, After, IpFilesDeleted, logVars
  <1>16. CASE DeleteOldLogFiles
    BY <1>16 DEF DeleteOldLogFiles, Goto, PcTypes, LogTypes, After, logVars
  <1>17. CASE CreateShutdownFile
    BY <1>17 DEF CreateShutdownFile, Goto, PcTypes, LogTypes, logVars
  <1>18. CASE NewRun
    <2> USE <1>18 DEF NewRun, Fresh, FirstPc
    <2>1. pc'[Config] \in {"list", "connect"} /\ UNCHANGED <<logFile, merged, due>>
      OBVIOUS
    <2>2. QED
      BY <2>1
  <1>19. CASE UNCHANGED vars
    BY <1>19 DEF vars, logVars
  <1>20. ASSUME NEW m \in Mixes, GetErrs(m) PROVE LogsInv'
    <2>1. UNCHANGED <<logFile, merged, due>>
      BY <1>20 DEF GetErrs
    <2>2. pc'[Config] = pc[Config]
      BY <1>20 DEF GetErrs, Goto, PcTypes
    <2>3. QED
      BY <2>1, <2>2
  <1>21. QED
    BY <1>1, <1>2, <1>3, <1>4, <1>5, <1>6, <1>7, <1>8, <1>9, <1>10, <1>11, <1>12, <1>13,
       <1>14, <1>15, <1>16, <1>17, <1>18, <1>19, <1>20 DEF Next, MixStep, ConfigStep

------------------------------------------------------------------------------
LEMMA Invariants == Spec => [](TypeInv /\ StopInv /\ FilesInv /\ LogsInv)
  <1>1. Init => TypeInv /\ StopInv /\ FilesInv /\ LogsInv
    BY InitType, InitStop, InitFiles, InitLogs
       DEF TypeInv, LifecycleTypeOK, RunTypes, PcTypes, FileTypes, LogTypes
  <1>2. /\ TypeInv /\ StopInv /\ FilesInv /\ LogsInv
        /\ [Next]_vars
        => TypeInv' /\ StopInv' /\ FilesInv' /\ LogsInv'
    BY TypeStep, StopStep, FilesStep, LogsStep
  <1>3. QED
    BY <1>1, <1>2, PTL DEF Spec

(* Every value stays in its type: no run creates a shutdown file too many,    *)
(* and nothing is read or created for a mix that there is not.                *)
THEOREM LifecycleTypes == Spec => []LifecycleTypeOK
  <1>1. TypeInv => LifecycleTypeOK
    BY DEF TypeInv
  <1>2. QED
    BY Invariants, <1>1, PTL

(* Shutdown files are created after the leftovers were removed, in every run  *)
(* (mix/mod.rs wait_for_shutdown, config.rs run_config).                      *)
THEOREM ShutdownsKept == Spec => []ShutdownNotLost
  <1>1. StopInv => ShutdownNotLost
    <2> SUFFICES ASSUME StopInv, NEW m \in Mixes, shutdownFile[m] = run,
                        pc[m] \in Starting
                 PROVE  FALSE
      BY DEF ShutdownNotLost, Starting
    <2>1. AllDone
      BY DEF StopInv
    <2>2. QED
      BY <2>1 DEF AllDone, Starting
  <1>2. QED
    BY Invariants, <1>1, PTL

(* A mix stops only when all have answered or died, whatever files earlier    *)
(* runs have left (mix/mod.rs wait_for_shutdown).                             *)
THEOREM StopsAfterAll == Spec => []StopOnlyAfterAll
  <1>1. StopInv => StopOnlyAfterAll
    BY DEF StopInv, StopOnlyAfterAll, AllDone
  <1>2. QED
    BY Invariants, <1>1, PTL

(* No address file goes while somebody reads it, so a start fails only on a   *)
(* file half written (marshal/ips.rs).                                        *)
THEOREM FilesKept == Spec => []FilesKeptWhileNeeded
  <1>1. FilesInv => FilesKeptWhileNeeded
    BY DEF FilesInv
  <1>2. QED
    BY Invariants, <1>1, PTL

(* After a run that ended, or once the files of one that was stopped were     *)
(* deleted, nobody goes on with an address of an earlier run.                 *)
THEOREM AddressesCurrent == Spec => []IpsCurrent
  <1>1. FilesInv => IpsCurrent
    BY DEF FilesInv, FoundCurrent, IpsCurrent, FoundAll
  <1>2. QED
    BY Invariants, <1>1, PTL

(* No result that reached a log file before the merge is lost, over any       *)
(* number of runs and crashes (marshal/mod.rs manage_files).                  *)
THEOREM NoResultLost == Spec => []ResultsKept
  <1>1. LogsInv => ResultsKept
    BY DEF LogsInv
  <1>2. QED
    BY Invariants, <1>1, PTL
==============================================================================

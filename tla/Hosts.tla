------------------------------- MODULE Hosts --------------------------------
(***************************************************************************)
(* The adapters that run a workload on a host somebody already has: as a   *)
(* local process, in a container of the local docker daemon, or over ssh.  *)
(*                                                                         *)
(* A run goes through Prepare, Execute, Logs, Status, Artifacts and        *)
(* Cleanup, the way the executor calls them, and is retried once on a      *)
(* failure that looks transient.  The process that the adapter starts (the *)
(* client) is the workload itself for a local run, and docker run or ssh   *)
(* otherwise.  Other runs use the same host at the same time and share     *)
(* what the adapters keep there: the images, the remote directory and the  *)
(* temporary files.                                                        *)
(*                                                                         *)
(* The sources of the workload are a number that an edit increments, and   *)
(* so is their digest.                                                     *)
(***************************************************************************)
EXTENDS Integers, FailureClass

CONSTANTS
  Kinds,     \* the adapters to consider
  Shared,    \* those where other runs use the host at the same time
  MaxEdits,  \* edits of the sources
  MaxOut,    \* pieces of output a workload writes
  Cap        \* pieces that fit into the output pipe

ASSUME HostsAssumption ==
  /\ Kinds \subseteq {"local", "docker", "ssh"} /\ Shared \subseteq Kinds
  /\ MaxEdits \in Nat /\ MaxOut \in Nat /\ Cap \in Nat \ {0}

VARIABLES
  kind,    \* the adapter that serves the host
  src,     \* the sources in the working directory
  setup,   \* what is fixed: whether the run needs an environment file and has a
           \* Dockerfile, and whether its output is written to a log
  images,  \* for each tag, the label of the image, the sources in it, and
           \* whether they were edited after the digest was taken
  remote,  \* whose sources the remote directory holds, and the remote image
  envFile, \* the environment file of the run in the temporary directory
  run,     \* the run as its dispatcher process sees it
  job      \* the workload of each attempt

host == <<kind, setup, src, images, remote>>
vars == <<host, envFile, run, job>>

Attempts == 1 .. 2

Latest == -1   \* the tag that is used when the digest cannot be computed
NoImage == [label |-> Latest, content |-> -1, torn |-> FALSE]
Tags == Latest .. MaxEdits

Own == "own"             \* the sources of the run,
Other == "other"         \* those of another one,
None == "none"           \* no directory or image at all,
Part == "incomplete"     \* a copy that was begun and not finished

Idle == [st |-> "none", code |-> 0, signal |-> ""]
Up == [Idle EXCEPT !.st = "up"]
Exit(c) == [st |-> "exited", code |-> c, signal |-> ""]
Signaled(s) == [st |-> "exited", code |-> -1, signal |-> s]

\* The workload of an attempt that has not started.
NoJob == [st |-> "none", left |-> MaxOut, child |-> FALSE, end |-> "", saw |-> None,
          stale |-> FALSE]

\* A run before Prepare.
NewRun ==
  [pc |-> "prepare", ctx |-> TRUE, stopped |-> FALSE,
   attempt |-> 0, tag |-> Latest, client |-> Idle, outW |-> FALSE, level |-> 0,
   claim |-> "none", eof |-> FALSE, streamed |-> FALSE, written |-> 0, logged |-> 0,
   outputs |-> "none"]

Init ==
  /\ kind \in Kinds
  /\ setup \in [env : BOOLEAN, dockerfile : BOOLEAN, logs : BOOLEAN]
  /\ setup.env => kind = "docker"
  /\ setup.dockerfile => kind # "local"
  /\ src = 0
  /\ images = [t \in Tags |-> NoImage]
  /\ remote \in [dir : {None}, image : {None, Other}]
  /\ remote.image # None => kind = "ssh" /\ setup.dockerfile
  /\ envFile = None
  /\ run = NewRun
  /\ job = [a \in Attempts |-> NoJob]

\* The workload is over, with what it has not written; only docker knows how.
Gone(j, how) == [j EXCEPT !.st = "gone", !.left = 0, !.end = IF kind = "docker" THEN how ELSE ""]

Goto(pc) == run' = [run EXCEPT !.pc = pc]
Set(s) == run' = s
SetJob(a, j) == job' = [job EXCEPT ![a] = j]

At(pc) == run.pc = pc

Ended == run.pc \in {"done", "dead"}

-----------------------------------------------------------------------------
(***************************************************************************)
(* Prepare.                                                                *)
(***************************************************************************)
\* The digest of the sources, or an error: a file that cannot be read.
buildDigest == {src, Latest}

\* Mutant: every image of the workload has the same tag.
MutdockerBuildTag(d) == Latest

\* The tag holds the digest, or is :latest without one.
dockerBuildTag(d) == d

LocalPrepare ==
  /\ At("prepare") /\ kind = "local"
  /\ Goto("execute")
  /\ UNCHANGED <<host, envFile, job>>

\* An image with the label of this digest is used as it is.
DockerPrepare ==
  /\ At("prepare") /\ kind = "docker"
  /\ IF ~setup.dockerfile THEN Goto("execute") ELSE \E d \in buildDigest :
       LET labelled == d # Latest /\ images[dockerBuildTag(d)].label = d
       IN Set([run EXCEPT !.tag = d, !.pc = IF labelled THEN "execute" ELSE "build"])
  /\ UNCHANGED <<host, envFile, job>>

\* docker build reads the sources after the digest was taken.
DockerBuild ==
  /\ At("build")
  /\ \/ /\ images' = [images EXCEPT ![dockerBuildTag(run.tag)] =
                       [label |-> run.tag, content |-> src, torn |-> run.tag # src]]
        /\ Goto("execute")
     \/ /\ Goto("done")
        /\ UNCHANGED images
  /\ UNCHANGED <<kind, setup, src, remote, envFile, job>>

\* mkdir, then rsync --delete, into the one directory of the host.
SSHPrepare ==
  /\ At("prepare") /\ kind = "ssh"
  /\ \/ /\ remote' = [remote EXCEPT !.dir = Own]
        /\ Goto("execute")
     \/ /\ remote' \in {remote, [remote EXCEPT !.dir = Part]}
        /\ Goto("done")
  /\ UNCHANGED <<kind, setup, src, images, envFile, job>>

-----------------------------------------------------------------------------
(***************************************************************************)
(* Execute.                                                                *)
(***************************************************************************)
\* The .env file and the identity of a shard go to docker run in a file.
WriteDotEnvFile == IF setup.env THEN "new" ELSE None

\* A new attempt with a new client and, unless docker keeps the output, a pipe.
Started ==
  [run EXCEPT !.pc = "logs", !.attempt = @ + 1, !.client = Up, !.level = 0,
     !.outW = kind = "local", !.claim = "none", !.eof = FALSE]

\* A command that is not known, an environment that cannot be read, a context
\* that is done: Execute fails and the run has no handle to clean up.
ExecuteFails ==
  /\ At("execute")
  /\ Goto("done")
  /\ UNCHANGED <<host, envFile, job>>

\* The workload leads a process group of its own, and may have a child.
LocalExecute ==
  /\ At("execute") /\ kind = "local" /\ run.ctx
  /\ Set(Started)
  /\ \E c \in BOOLEAN :
       SetJob(run.attempt + 1,
              [NoJob EXCEPT !.st = "up", !.child = c, !.saw = Own])
  /\ UNCHANGED <<host, envFile>>

\* The environment file of the run is removed.
envCleanup(f) == None

\* The digest is computed again for the tag to run.
DockerExecute ==
  /\ At("execute") /\ kind = "docker" /\ run.ctx
  /\ envFile' = WriteDotEnvFile
  /\ \E d \in buildDigest : Set([Started EXCEPT !.tag = d])
  /\ UNCHANGED <<host, job>>

\* The same, but docker cannot be started: the file is written and removed.
DockerExecuteFails ==
  /\ At("execute") /\ kind = "docker"
  /\ Goto("done")
  /\ envFile' = envCleanup(WriteDotEnvFile)
  /\ UNCHANGED <<host, job>>

SSHExecute ==
  /\ At("execute") /\ kind = "ssh" /\ run.ctx
  /\ Set(Started)
  /\ UNCHANGED <<host, envFile, job>>

-----------------------------------------------------------------------------
(***************************************************************************)
(* The workload.                                                           *)
(***************************************************************************)
Attempt == run.attempt

ClientUp == run.client.st = "up"

\* docker run reads its environment file and creates the container.  A file or
\* an image that is missing ends it with code 125.
ContainerStarts ==
  LET a == Attempt
      image == images[dockerBuildTag(run.tag)]
      ok == /\ setup.env => envFile # None
            /\ setup.dockerfile => image # NoImage
  IN /\ kind = "docker" /\ ClientUp /\ job[a].st = "none"
     /\ IF ok
          THEN /\ SetJob(a, [NoJob EXCEPT !.st = "up", !.saw = Own,
                               !.stale = /\ setup.dockerfile /\ run.tag # Latest
                                         /\ ~image.torn /\ image.content # run.tag])
               /\ UNCHANGED run
          ELSE /\ Set([run EXCEPT !.client = Exit(125)])
               /\ UNCHANGED job
     /\ UNCHANGED <<host, envFile>>

\* The remote shell changes to the directory, sets the environment and runs the
\* command; nothing stops it when the directory is not there.
RemoteStarts ==
  /\ kind = "ssh" /\ ClientUp /\ job[Attempt].st = "none" /\ ~setup.dockerfile
  /\ SetJob(Attempt, [NoJob EXCEPT !.st = "up", !.saw = remote.dir])
  /\ UNCHANGED <<host, envFile, run>>

\* With a Dockerfile it builds the image there, and runs what has its name,
\* also when the build has failed.
sshDockerRunScript ==
  LET built == [remote EXCEPT !.image = remote.dir]
  IN /\ kind = "ssh" /\ ClientUp /\ job[Attempt].st = "none" /\ setup.dockerfile
     /\ remote' \in {remote} \cup {b \in {built} : b.image \in {Own, Other}}
     /\ IF remote'.image = None
          THEN /\ Set([run EXCEPT !.client = Exit(125)])
               /\ UNCHANGED job
          ELSE /\ SetJob(Attempt, [NoJob EXCEPT !.st = "up", !.saw = remote'.image])
               /\ UNCHANGED run
     /\ UNCHANGED <<kind, setup, src, images, envFile>>

\* The workload writes to the pipe.  The output of a remote command without its
\* ssh client goes nowhere, and docker keeps that of a container: neither waits.
Piped(a) == a = Attempt /\ (kind = "local" \/ (kind = "ssh" /\ ClientUp))

JobWrites(a) ==
  /\ job[a].st = "up" /\ job[a].left > 0
  /\ Piped(a) /\ run.level < Cap
  /\ SetJob(a, [job[a] EXCEPT !.left = @ - 1])
  /\ Set([run EXCEPT !.level = @ + 1, !.written = IF a = 1 THEN @ + 1 ELSE @])
  /\ UNCHANGED <<host, envFile>>

\* The client as it exits with its workload: the codes that docker run and ssh
\* pass on, and a signal that only the parent of the process sees as one.
ClientExit(how) ==
  CASE how = "ok" -> Exit(0)
    [] how = "error" -> Exit(1)
    [] how = "killed" -> IF kind = "local" THEN Signaled("killed")
                         ELSE IF kind = "docker" THEN Exit(137) ELSE Exit(255)

\* The workload ends by itself, or is killed for lack of memory.
JobEnds(a) ==
  /\ job[a].st = "up"
  /\ \E how \in {"ok", "error", "killed"} :
       /\ how = "killed" \/ (Piped(a) => job[a].left = 0)
       /\ SetJob(a, Gone(job[a], how))
       /\ IF a = Attempt /\ ClientUp
            THEN Set([run EXCEPT !.client = ClientExit(how)])
            ELSE UNCHANGED run
  /\ UNCHANGED <<host, envFile>>

\* A process that the workload left behind, with the pipe open, ends.
ChildEnds(a) ==
  /\ job[a].child /\ ~Ended
  /\ SetJob(a, [job[a] EXCEPT !.child = FALSE])
  /\ UNCHANGED <<host, envFile, run>>

\* The connection breaks; the remote command does not notice.
ConnectionLost ==
  /\ kind = "ssh" /\ ClientUp /\ ~Ended
  /\ Set([run EXCEPT !.client = Exit(255)])
  /\ UNCHANGED <<host, envFile, job>>

\* The client is killed, and with it the workload of a local run.
KillClient(s) ==
  /\ Set(IF ClientUp THEN [s EXCEPT !.client = Signaled("killed")] ELSE s)
  /\ IF kind = "local" /\ ClientUp
       THEN SetJob(Attempt, Gone(job[Attempt], "killed"))
       ELSE UNCHANGED job

\* An interrupt or a timeout: exec.CommandContext kills the client.
ContextDone ==
  /\ run.ctx /\ ~Ended
  /\ KillClient([run EXCEPT !.ctx = FALSE])
  /\ UNCHANGED <<host, envFile>>

\* The sampler or the time limit ends the run.
Terminating(k) ==
  /\ run.pc \in {"logs", "stream", "status", "wait", "drain"} /\ ~run.stopped
  /\ kind = k
  /\ UNCHANGED <<host, envFile>>

\* The workload killed, with all of its process group or container.
Group == [Gone(job[Attempt], "killed") EXCEPT !.child = FALSE]

\* The process group is signalled.
terminateProcess ==
  LET s == [run EXCEPT !.stopped = TRUE]
  IN /\ Terminating("local")
     /\ SetJob(Attempt, IF ClientUp THEN Group ELSE job[Attempt])
     /\ Set(IF ClientUp THEN [s EXCEPT !.client = Signaled("terminated")] ELSE s)

\* docker stop needs a container.
DockerTerminate ==
  LET s == [run EXCEPT !.stopped = TRUE]
      up == job[Attempt].st = "up"
  IN /\ Terminating("docker")
     /\ SetJob(Attempt, IF up THEN Group ELSE job[Attempt])
     /\ Set(IF up /\ ClientUp THEN [s EXCEPT !.client = Exit(143)] ELSE s)

\* Only the client is killed.
SSHTerminate ==
  /\ Terminating("ssh")
  /\ KillClient([run EXCEPT !.stopped = TRUE])

Terminate == terminateProcess \/ DockerTerminate \/ SSHTerminate

-----------------------------------------------------------------------------
(***************************************************************************)
(* Logs and Status.  The pipe has one reader, claimed under the mutex by   *)
(* Logs or, where Logs was not called, by Status.                          *)
(***************************************************************************)
\* The executor asks for the logs of the first attempt only.
AsksForLogs == setup.logs /\ Attempt = 1

LogsOf(k, s) ==
  /\ At("logs") /\ AsksForLogs /\ kind = k
  /\ Set(s)
  /\ UNCHANGED <<host, envFile, job>>

\* A goroutine copies, and Logs returns.
LocalLogs == LogsOf("local", [run EXCEPT !.claim = "log", !.streamed = TRUE, !.pc = "status"])

SSHLogs == LogsOf("ssh", [run EXCEPT !.claim = "log", !.streamed = TRUE, !.pc = "stream"])

\* docker logs -f fails when there is no container yet.
DockerLogs ==
  LogsOf("docker", [run EXCEPT !.pc = IF job[1].st = "up" THEN "stream" ELSE "status"])

NoLogs ==
  /\ At("logs") /\ ~AsksForLogs
  /\ Goto("status")
  /\ UNCHANGED <<host, envFile, job>>

Logs == LocalLogs \/ SSHLogs \/ DockerLogs \/ NoLogs

\* ssh streams until the end of the pipe, docker logs until that of the container.
Streamed ==
  /\ At("stream")
  /\ IF kind = "ssh" THEN run.eof ELSE job[1].st # "up" \/ ~run.ctx
  /\ Goto("status")
  /\ UNCHANGED <<host, envFile, job>>

\* The goroutine, or Logs itself, that copies from the pipe.
Copy ==
  /\ run.claim # "none" /\ run.level > 0 /\ ~Ended
  /\ Set([run EXCEPT !.level = @ - 1, !.logged = IF run.claim = "log" THEN @ + 1 ELSE @])
  /\ UNCHANGED <<host, envFile, job>>

\* Nobody has the pipe open for writing.
WriteEndsClosed ==
  /\ ~ClientUp /\ ~run.outW
  /\ kind = "local" => ~job[Attempt].child

CopyEnds ==
  /\ run.claim # "none" /\ run.level = 0 /\ ~run.eof /\ ~Ended
  /\ WriteEndsClosed
  /\ Set([run EXCEPT !.eof = TRUE])
  /\ UNCHANGED <<host, envFile, job>>

\* Mutant: only Logs drains the pipe.
MutstartDiscardDrain(s) == s

\* Mutant: Status drains the pipe, whoever else does.
Mut2startDiscardDrain(s) == [s EXCEPT !.claim = "discard"]

\* Status drains a pipe that nobody has claimed.
startDiscardDrain(s) ==
  IF s.claim = "none" THEN [s EXCEPT !.claim = "discard"] ELSE s

StatusOf(k, s) ==
  /\ At("status") /\ kind = k
  /\ Set([s EXCEPT !.pc = "wait"])
  /\ UNCHANGED <<host, envFile, job>>

LocalStatus == StatusOf("local", startDiscardDrain(run))

SSHStatus == StatusOf("ssh", startDiscardDrain(run))

\* The client has no pipe: docker keeps the output.
DockerStatus == StatusOf("docker", run)

Status == LocalStatus \/ SSHStatus \/ DockerStatus

\* Mutant: Status does not wait for a reader of its own.
MutWaitsForDrain(s) == kind = "local" /\ s.claim = "log"

\* Status also waits for the reader of the pipe, unless it is Logs over ssh,
\* which has returned by then.
WaitsForDrain(s) == kind = "local" \/ (kind = "ssh" /\ s.claim = "discard")

\* cmd.Wait has returned; a local run then closes its own write end.
Waited ==
  /\ At("wait") /\ ~ClientUp
  /\ Set([run EXCEPT !.outW = FALSE,
               !.pc = IF WaitsForDrain(run) THEN "drain" ELSE "after"])
  /\ UNCHANGED <<host, envFile, job>>

Drained ==
  /\ At("drain") /\ run.eof
  /\ Goto("after")
  /\ UNCHANGED <<host, envFile, job>>

-----------------------------------------------------------------------------
(***************************************************************************)
(* The failure, and the retry.                                             *)
(***************************************************************************)
LocalFailureDetails(c) ==
  {[NoDetails EXCEPT !.code = c.code, !.signal = c.signal,
                     !.message = c.signal # "" \/ c.code # 0]}

\* docker inspect, of a container that may still be there.
parseDockerInspect(j) ==
  LET code == CASE j.end = "killed" -> 137 [] j.end = "error" -> 1 [] OTHER -> 0
  IN {[NoDetails EXCEPT !.code = code, !.oom = o, !.signal = IF o THEN "SIGKILL" ELSE "",
                        !.message = o \/ code # 0] : o \in {FALSE, j.end = "killed"}}

\* Otherwise the code of the client.
DockerFailureDetails(c, j) ==
  {[NoDetails EXCEPT !.code = c.code, !.message = c.code # 0]} \cup
  (IF j.st = "none" THEN {} ELSE parseDockerInspect(j))

\* 255 is a failure of the transport.
SSHFailureDetails(c) ==
  {[NoDetails EXCEPT !.code = c.code, !.message = c.code # 0,
                     !.signal = IF c.code = 255 THEN "SIGKILL" ELSE ""]}

FailureDetails ==
  LET c == run.client
  IN CASE kind = "local" -> LocalFailureDetails(c)
       [] kind = "docker" -> DockerFailureDetails(c, job[Attempt])
       [] kind = "ssh" -> SSHFailureDetails(c)

Succeeded == run.client.code = 0

\* docker rm -f, whose error is ignored; the file of the environment goes.
DockerCleanup ==
  /\ \/ job' = [a \in Attempts |-> IF job[a].st = "up"
                                 THEN Gone(job[a], "killed") ELSE job[a]]
     \/ UNCHANGED job
  /\ envFile' = envCleanup(envFile)
  /\ UNCHANGED remote

\* rm -rf of the remote directory, which may fail or be refused.
SSHCleanup ==
  /\ remote' \in {remote, [remote EXCEPT !.dir = None]}
  /\ UNCHANGED <<envFile, job>>

CleanupHost ==
  CASE kind = "local" -> UNCHANGED <<remote, envFile, job>>
    [] kind = "docker" -> DockerCleanup
    [] kind = "ssh" -> SSHCleanup

MayRetry == Attempt = 1 /\ ~run.stopped

\* A transient failure: the executor cleans up and executes again, without
\* another Prepare.
Retry ==
  /\ At("after") /\ ~Succeeded
  /\ MayRetry
  /\ \E d \in FailureDetails : ClassifyFailure(d) = "transient"
  /\ CleanupHost
  /\ Goto("execute")
  /\ UNCHANGED <<kind, setup, src, images>>

\* The outputs are copied from the working directory, or from the remote one.
\* Each is tried; the first error is that of the whole.
LocalArtifacts == {"got", "failed"}

SSHArtifacts == IF remote.dir = Own THEN {"got", "failed"} ELSE {"failed"}

DockerArtifacts == {"none"}

\* A successful run whose outputs cannot be copied is kept.
Artifacts ==
  /\ At("after")
  /\ \E o \in CASE kind = "local" -> LocalArtifacts
                [] kind = "docker" -> DockerArtifacts
                [] kind = "ssh" -> SSHArtifacts :
       Set([run EXCEPT !.outputs = o,
                 !.pc = IF Succeeded /\ o = "failed" THEN "done" ELSE "cleanup"])
  /\ UNCHANGED <<host, envFile, job>>

Cleanup ==
  /\ At("cleanup")
  /\ CleanupHost
  /\ Goto("done")
  /\ UNCHANGED <<kind, setup, src, images>>

-----------------------------------------------------------------------------
(***************************************************************************)
(* Crashes, edits and the sweep.                                           *)
(***************************************************************************)
\* The dispatcher dies, possibly right after it wrote the environment file, the
\* one thing that it would have removed.
Crash ==
  /\ ~Ended /\ kind = "docker"
  /\ Goto("dead")
  /\ envFile' \in {envFile} \cup (IF At("execute") THEN {WriteDotEnvFile} ELSE {})
  /\ UNCHANGED <<host, job>>

\* docker run is given less than an hour to read its file.
Unread == kind = "docker" /\ ClientUp /\ job[Attempt].st = "none"

\* The file becomes an hour old.
Ages ==
  /\ envFile = "new" /\ ~Unread
  /\ envFile' = "old"
  /\ UNCHANGED <<host, run, job>>

Stale(f) == f = "old"

\* Any dispatcher command starts with the sweep.
SweepStaleEnvFiles ==
  /\ envFile # None /\ Stale(envFile)
  /\ envFile' = None
  /\ UNCHANGED <<host, run, job>>

\* Somebody edits the sources.  Only docker looks at them twice.
Edit ==
  /\ ~Ended /\ kind = "docker" /\ src < MaxEdits
  /\ src' = src + 1
  /\ UNCHANGED <<kind, setup, images, remote, envFile, run, job>>

\* Another run of the workload has its image built: the sources are those of the
\* build, the tag is from the digest before.
OtherBuilds ==
  /\ ~Ended /\ kind = "docker" /\ kind \in Shared
  /\ \E d \in 0 .. src \cup {Latest} :
       images' = [images EXCEPT ![dockerBuildTag(d)] =
                   [label |-> d, content |-> src, torn |-> d # src]]
  /\ UNCHANGED <<kind, setup, src, remote, envFile, run, job>>

\* Another run on the ssh host prepares, or cleans up.
OtherOnRemote ==
  /\ ~Ended /\ kind = "ssh" /\ kind \in Shared
  /\ remote.dir = Own /\ remote' \in [dir : {Other, None}, image : {remote.image}]
  /\ UNCHANGED <<kind, setup, src, images, envFile, run, job>>

Dispatcher ==
  \/ LocalPrepare \/ DockerPrepare \/ DockerBuild \/ SSHPrepare
  \/ ExecuteFails \/ LocalExecute \/ DockerExecute \/ DockerExecuteFails \/ SSHExecute
  \/ Logs \/ Streamed \/ Status \/ Waited \/ Drained
  \/ Retry \/ Artifacts \/ Cleanup

Reader == Copy \/ CopyEnds

\* A workload is followed while its run lasts.
Workload ==
  /\ ~Ended
  /\ \/ ContainerStarts \/ RemoteStarts \/ sshDockerRunScript
     \/ \E a \in Attempts : JobWrites(a) \/ JobEnds(a)

Faults == ContextDone \/ Terminate \/ ConnectionLost \/ Crash

Host == Ages \/ SweepStaleEnvFiles \/ Edit \/ OtherBuilds \/ OtherOnRemote

Next ==
  \/ Dispatcher \/ Reader \/ Workload \/ Faults \/ Host
  \/ \E a \in Attempts : ChildEnds(a)

\* The threads of the dispatcher run, a workload ends once its output is
\* written, and so do its children.
Fairness ==
  /\ WF_vars(Dispatcher) /\ WF_vars(Reader) /\ WF_vars(Workload)
  /\ \A a \in Attempts : WF_vars(ChildEnds(a))

Spec == Init /\ [][Next]_vars /\ Fairness

-----------------------------------------------------------------------------
(***************************************************************************)
(* Properties.                                                             *)
(***************************************************************************)
RunType ==
  [pc : {"prepare", "build", "execute", "logs", "stream", "status", "wait", "drain", "after",
         "cleanup", "done", "dead"},
   ctx : BOOLEAN, stopped : BOOLEAN, attempt : 0 .. 2, tag : Tags,
   client : [st : {"none", "up", "exited"}, code : {-1, 0, 1, 125, 137, 143, 255},
             signal : {"", "killed", "terminated"}],
   outW : BOOLEAN, level : 0 .. Cap, claim : {"none", "log", "discard"}, eof : BOOLEAN,
   streamed : BOOLEAN, written : 0 .. MaxOut, logged : 0 .. MaxOut,
   outputs : {"none", "got", "failed"}]

\* Every variable keeps its type; a run has at most two attempts, and its pipe
\* never holds more than fits.
TypeOK ==
  /\ kind \in Kinds /\ src \in 0 .. MaxEdits
  /\ remote \in [dir : {Own, Other, None, Part}, image : {Own, Other, None}]
  /\ envFile \in {None, "new", "old"}
  /\ \A t \in Tags : images[t].content \in -1 .. MaxEdits
  /\ run \in RunType
  /\ \A a \in Attempts : job[a].st \in {"none", "up", "gone"} /\ job[a].left \in 0 .. MaxOut

\* Once Status of local.go or ssh.go has answered for the first attempt, a log
\* that was asked for has all that came out of the pipe: Logs and Status never
\* both read it, and it is not closed before its end.
LogIsComplete ==
  run.streamed /\ (run.attempt = 2 \/ run.pc \in {"after", "cleanup", "done"})
    => run.logged = run.written

Alive(a) == job[a].st = "up" \/ job[a].child

\* The retry never runs beside what is left of the first attempt: Status of
\* local.go waits for the pipe, which the children of the workload hold open,
\* and a docker client that outlives nothing but its container is killed only
\* with the context, after which Execute fails.  (Over ssh it may: the remote
\* command outlives its client.)
OneCopyAtATime ==
  kind # "ssh" => ~(Alive(1) /\ Alive(2))

\* A container runs the sources whose digest dockerRunArgs computed, whatever
\* other runs of the workload build meanwhile.  (The exception is an image built
\* while the sources were edited: its label is of the sources before the edit.)
RunsWhatItHashed == \A a \in Attempts : ~job[a].stale

\* Every run ends: Status does not wait for a workload that waits for room in
\* the pipe, on the first attempt, on the retry, or without a log.
RunEnds == []<>Ended
=============================================================================

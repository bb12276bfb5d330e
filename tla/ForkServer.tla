----------------------------- MODULE ForkServer -----------------------------
(***************************************************************************)
(* How afl-fuzz runs the target: init_forkserver, run_target and the signal*)
(* handlers of afl-fuzz.c, the fork server that afl-llvm-rt.o.c links into *)
(* the target, and the children that run one test case each or, in         *)
(* persistent mode, stop themselves after it to be woken for the next.     *)
(*                                                                         *)
(* afl-fuzz, the fork server and the current child are processes that      *)
(* interleave; signals arrive between any two steps.  The two pipes are    *)
(* sequences; a read of an empty pipe that nobody can write any more       *)
(* returns end of file.  A process id is not used twice.                   *)
(***************************************************************************)
EXTENDS Integers, Sequences

CONSTANT MaxRuns    \* bound on calls of run_target

ASSUME RunsAssumption == MaxRuns \in Nat

VARIABLES
  mode,       \* "dumb" (no fork server), "plain" or "persistent"
  fpc,        \* where afl-fuzz is
  looping,    \* the dry run is over
  runs,       \* calls of run_target so far
  child_pid, child_timed_out, prev_timed_out, stop_soon,
  timer,      \* ITIMER_REAL is armed
  status,     \* the wait status run_target has read
  fault,      \* what the last run_target returned
  spc,        \* where the fork server is; "none" before it is started
  was_killed, srv_child, child_stopped, srv_status,    \* its variables
  proc,       \* proc[c]: the state of child c
  how,        \* how the current test case came to its end
  ctl, st     \* what is in the control and the status pipe

fuzzer == <<mode, looping, runs, child_timed_out, prev_timed_out, stop_soon,
            fault>>
ServerVars == <<was_killed, srv_child, child_stopped, srv_status>>
server == <<spc, ServerVars>>
vars == <<mode, fpc, looping, runs, child_pid, child_timed_out, prev_timed_out,
          stop_soon, timer, status, fault, spc, was_killed, srv_child,
          child_stopped, srv_status, proc, how, ctl, st>>

Children == 1..MaxRuns

(* How a child ends.  "noexec" is the exit of a child whose execv failed,  *)
(* "msan" the exit code of a crash found by the memory sanitizer.          *)
Ends == {"exited", "crashed", "msan", "killed", "noexec"}
Live == {"born", "run", "stopped"}
Statuses == Ends \cup {"stopped"}

(* What the status pipe carries; on the wire these are bare numbers. *)
Hello == [hello |-> 0]
Pid(c) == [pid |-> c]
Status(s) == [status |-> s]
Pids == {Pid(c) : c \in Children}

Running == {"send", "getpid", "arm", "getstatus", "clear", "disarm", "verdict"}
FuzzerPCs == {"init", "hello", "up", "down", "idle", "leave", "ended",
              "failed"} \cup Running
ServerPCs == {"none", "boot", "read", "writeoff", "start", "tell", "wait",
              "relay", "dead"}

Init == /\ mode \in {"dumb", "plain", "persistent"}
        /\ fpc = IF mode = "dumb" THEN "idle" ELSE "init"
        /\ looping = FALSE /\ runs = 0 /\ child_pid = -1
        /\ child_timed_out = FALSE /\ prev_timed_out = FALSE
        /\ stop_soon = 0 /\ timer = FALSE
        /\ status = "exited" /\ fault = "none"
        /\ spc = "none" /\ was_killed = FALSE
        /\ srv_child = 0 /\ child_stopped = FALSE /\ srv_status = "exited"
        /\ proc = [c \in Children |-> "none"] /\ how = "none"
        /\ ctl = <<>> /\ st = <<>>

-----------------------------------------------------------------------------
(***************************************************************************)
(* The kernel                                                              *)
(***************************************************************************)
ServerUp == spc \notin {"none", "dead"}
FuzzerUp == fpc \notin {"ended", "failed"}

(* A child holds the server's ends of both pipes until it closes them.     *)
ServerEnds == ServerUp \/ \E c \in Children : proc[c] = "born"
Eof(pipe, writers) == pipe = <<>> /\ ~writers

(* SIGKILL to child c, if c is a child at all. *)
Killed(c) == IF c \in Children /\ proc[c] \in Live
             THEN [proc EXCEPT ![c] = "killed"] ELSE proc
HowKilled(c) == IF c \in Children /\ proc[c] \in {"born", "run"} THEN "killed"
                ELSE how

NextPid(c) == proc[c] = "none" /\ \A d \in 1..(c - 1) : proc[d] # "none"

-----------------------------------------------------------------------------
(***************************************************************************)
(* afl-fuzz: init_forkserver                                               *)
(***************************************************************************)
Spawn == /\ fpc = "init"
         /\ spc' = "boot" /\ timer' = TRUE
         /\ fpc' = "hello"
         /\ UNCHANGED <<fuzzer, child_pid, status, ServerVars,
                        proc, how, ctl, st>>

GetHello == /\ fpc = "hello"
            /\ \/ /\ st # <<>>
                  /\ st' = Tail(st) /\ fpc' = "up"
               \/ /\ Eof(st, ServerEnds)
                  /\ st' = st /\ fpc' = "down"
            /\ UNCHANGED <<fuzzer, child_pid, timer, status, server, proc,
                           how, ctl>>

(* Every kind of failed handshake is fatal. *)
Handshake == /\ fpc \in {"up", "down"}
             /\ timer' = FALSE
             /\ fpc' = IF fpc = "up" THEN "idle" ELSE "failed"
             /\ UNCHANGED <<fuzzer, child_pid, status, server, proc, how, ctl,
                            st>>

-----------------------------------------------------------------------------
(***************************************************************************)
(* afl-fuzz: run_target                                                    *)
(***************************************************************************)
(* Faulty variant: the timeout of the last run is not forgotten. *)
BeginRunKeeps == /\ fpc = "idle" /\ mode # "dumb" /\ runs < MaxRuns
                 /\ runs' = runs + 1 /\ how' = "none"
                 /\ fpc' = "send"
                 /\ UNCHANGED <<mode, looping, prev_timed_out, stop_soon,
                                fault, child_pid, child_timed_out, timer,
                                status, server, proc, ctl, st>>

BeginRun == /\ fpc = "idle" /\ mode # "dumb" /\ runs < MaxRuns
            /\ runs' = runs + 1 /\ how' = "none"
            /\ child_timed_out' = FALSE
            /\ fpc' = "send"
            /\ UNCHANGED <<mode, looping, prev_timed_out, stop_soon, fault,
                           child_pid, timer, status, server, proc, ctl, st>>

DumbRun == /\ fpc = "idle" /\ mode = "dumb" /\ runs < MaxRuns
           /\ runs' = runs + 1 /\ how' = "none"
           /\ child_timed_out' = FALSE
           /\ child_pid' = runs'
           /\ proc' = [proc EXCEPT ![runs'] = "run"]
           /\ fpc' = "arm"
           /\ UNCHANGED <<mode, looping, prev_timed_out, stop_soon, fault,
                          timer, status, server, ctl, st>>

(* The pipe failed: no verdict when the user stops the fuzzer, else fatal. *)
PipeFails == /\ fpc' = IF stop_soon # 0 THEN "idle" ELSE "failed"
             /\ fault' = IF stop_soon # 0 THEN "none" ELSE fault
             /\ UNCHANGED <<mode, looping, runs, child_timed_out,
                            prev_timed_out, stop_soon, child_pid, timer,
                            status, server, proc, how, ctl, st>>

(* Faulty variant: the request is written again. *)
SendTwice == /\ fpc = "send"
             /\ IF ServerEnds
                THEN /\ ctl' = ctl \o <<prev_timed_out, prev_timed_out>>
                     /\ fpc' = "getpid"
                     /\ UNCHANGED <<fuzzer, child_pid, timer, status, server,
                                    proc, how, st>>
                ELSE PipeFails

Send == /\ fpc = "send"
        /\ IF ServerEnds
           THEN /\ ctl' = Append(ctl, prev_timed_out)
                /\ fpc' = "getpid"
                /\ UNCHANGED <<fuzzer, child_pid, timer, status, server, proc,
                               how, st>>
           ELSE PipeFails

GetPid == /\ fpc = "getpid"
          /\ \/ /\ st # <<>>
                /\ child_pid' = Head(st).pid /\ st' = Tail(st)
                /\ fpc' = "arm"
                /\ UNCHANGED <<fuzzer, timer, status, server, proc, how, ctl>>
             \/ Eof(st, ServerEnds) /\ PipeFails

Arm == /\ fpc = "arm"
       /\ timer' = TRUE
       /\ fpc' = "getstatus"
       /\ UNCHANGED <<fuzzer, child_pid, status, server, proc, how, ctl, st>>

GetStatus == /\ fpc = "getstatus" /\ mode # "dumb"
             /\ \/ /\ st # <<>>
                   /\ status' = Head(st).status /\ st' = Tail(st)
                   /\ fpc' = "clear"
                   /\ UNCHANGED <<fuzzer, child_pid, timer, server, proc, how,
                                  ctl>>
                \/ Eof(st, ServerEnds) /\ PipeFails

DumbWait == /\ fpc = "getstatus" /\ mode = "dumb"
            /\ proc[child_pid] \in Ends
            /\ status' = proc[child_pid]
            /\ proc' = [proc EXCEPT ![child_pid] = "gone"]
            /\ fpc' = "clear"
            /\ UNCHANGED <<fuzzer, child_pid, timer, server, how, ctl, st>>

(* A child that is only stopped stays the one that signals go to. *)
Clear == /\ fpc = "clear"
         /\ child_pid' = IF status = "stopped" THEN child_pid ELSE 0
         /\ fpc' = "disarm"
         /\ UNCHANGED <<fuzzer, timer, status, server, proc, how, ctl, st>>

Disarm == /\ fpc = "disarm"
          /\ timer' = FALSE
          /\ fpc' = "verdict"
          /\ UNCHANGED <<fuzzer, child_pid, status, server, proc, how, ctl,
                         st>>

Outcome ==
  CASE status = "killed" /\ stop_soon = 0 /\ child_timed_out -> "tmout"
    [] status = "killed" /\ stop_soon = 0 /\ ~child_timed_out -> "crash"
    [] status = "crashed" /\ stop_soon = 0 -> "crash"
    [] status = "msan" -> "crash"
    [] status = "noexec" -> "error"
    [] OTHER -> "none"

Verdict == /\ fpc = "verdict"
           /\ prev_timed_out' = child_timed_out
           /\ fault' = Outcome
           /\ fpc' = "idle"
           /\ UNCHANGED <<mode, looping, runs, child_timed_out, stop_soon,
                          child_pid, timer, status, server, proc, how, ctl,
                          st>>

-----------------------------------------------------------------------------
(***************************************************************************)
(* afl-fuzz: the signal handlers and the end                               *)
(***************************************************************************)
(* Faulty variant: the handler forgets about the handshake. *)
AlarmInRun == /\ timer
              /\ timer' = FALSE
              /\ IF child_pid > 0
                 THEN /\ child_timed_out' = TRUE
                      /\ proc' = Killed(child_pid)
                      /\ how' = HowKilled(child_pid)
                      /\ UNCHANGED server
                 ELSE UNCHANGED <<child_timed_out, proc, how, server>>
              /\ UNCHANGED <<mode, looping, fpc, runs, prev_timed_out,
                             stop_soon, fault, child_pid, status, ctl, st>>

(* handle_timeout, once per armed timer; the read it interrupts restarts.  *)
Alarm == /\ timer
         /\ timer' = FALSE
         /\ CASE child_pid > 0 ->
                   /\ child_timed_out' = TRUE
                   /\ proc' = Killed(child_pid) /\ how' = HowKilled(child_pid)
                   /\ UNCHANGED server
              [] child_pid = -1 /\ spc # "none" ->
                   /\ child_timed_out' = TRUE
                   /\ spc' = "dead"
                   /\ UNCHANGED <<proc, how, ServerVars>>
              [] OTHER -> UNCHANGED <<child_timed_out, proc, how, server>>
         /\ UNCHANGED <<mode, looping, fpc, runs, prev_timed_out, stop_soon,
                        fault, child_pid, status, ctl, st>>

KillBoth == /\ proc' = Killed(child_pid) /\ how' = HowKilled(child_pid)
            /\ spc' = IF spc = "none" THEN spc ELSE "dead"

(* handle_stop_sig *)
Interrupt == /\ FuzzerUp
             /\ stop_soon' = 1
             /\ KillBoth
             /\ UNCHANGED <<mode, looping, fpc, runs, child_timed_out,
                            prev_timed_out, fault, child_pid, timer, status,
                            ServerVars, ctl, st>>

(* AFL_EXIT_WHEN_DONE and the like ask for the end between two runs.       *)
AskToStop == /\ fpc = "idle" /\ stop_soon = 0 /\ looping
             /\ stop_soon' = 2
             /\ UNCHANGED <<mode, looping, fpc, runs, child_timed_out,
                            prev_timed_out, fault, child_pid, timer, status,
                            server, proc, how, ctl, st>>

(* Faulty variant: stopping by itself, afl-fuzz kills nobody. *)
StopKillsNobody == /\ fpc = "idle" /\ stop_soon # 0 /\ looping
                   /\ fpc' = "leave"
                   /\ UNCHANGED <<fuzzer, child_pid, timer, status, server,
                                  proc, how, ctl, st>>

(* Out of the main loop: nobody has killed the two after AskToStop. *)
StopFuzzing == /\ fpc = "idle" /\ stop_soon # 0 /\ looping
               /\ fpc' = "leave"
               /\ IF stop_soon = 2 THEN KillBoth
                  ELSE UNCHANGED <<proc, how, spc>>
               /\ UNCHANGED <<fuzzer, child_pid, timer, status, ServerVars,
                              ctl, st>>

EnterLoop == /\ fpc = "idle" /\ stop_soon = 0 /\ runs > 0
             /\ looping' = TRUE
             /\ UNCHANGED <<mode, fpc, runs, child_timed_out, prev_timed_out,
                            stop_soon, fault, child_pid, timer, status, server,
                            proc, how, ctl, st>>

(* Stopped in the dry run, afl-fuzz leaves at once. *)
EndDryRun == /\ fpc = "idle" /\ stop_soon # 0 /\ ~looping
             /\ fpc' = "ended"
             /\ UNCHANGED <<fuzzer, child_pid, timer, status, server, proc,
                            how, ctl, st>>

(* waitpid(forksrv_pid) *)
EndFuzzing == /\ fpc = "leave" /\ ~ServerUp
              /\ fpc' = "ended"
              /\ UNCHANGED <<fuzzer, child_pid, timer, status, server, proc,
                             how, ctl, st>>

-----------------------------------------------------------------------------
(***************************************************************************)
(* The fork server                                                         *)
(***************************************************************************)
ServerOnly == UNCHANGED <<fpc, fuzzer, child_pid, timer, status>>

(* The target starts up; it may also die, or never get to the fork server. *)
SayHello == /\ spc = "boot"
            /\ spc' = IF FuzzerUp THEN "read" ELSE "dead"
            /\ st' = IF FuzzerUp THEN Append(st, Hello) ELSE st
            /\ UNCHANGED <<ServerVars, proc, how, ctl>>
            /\ ServerOnly

BootFails == /\ spc = "boot"
             /\ spc' = "dead"
             /\ UNCHANGED <<ServerVars, proc, how, ctl, st>>
             /\ ServerOnly

(* Faulty variant: a stopped child is woken whatever became of it. *)
ReadAndWake == /\ spc = "read"
               /\ \/ /\ ctl # <<>>
                     /\ was_killed' = Head(ctl) /\ ctl' = Tail(ctl)
                     /\ spc' = "start"
                  \/ /\ Eof(ctl, FuzzerUp)
                     /\ spc' = "dead"
                     /\ UNCHANGED <<was_killed, ctl>>
               /\ UNCHANGED <<srv_child, child_stopped, srv_status, proc, how,
                              st>>
               /\ ServerOnly

ReadRequest == /\ spc = "read"
               /\ \/ /\ ctl # <<>>
                     /\ was_killed' = Head(ctl) /\ ctl' = Tail(ctl)
                     /\ spc' = IF child_stopped /\ was_killed' THEN "writeoff"
                               ELSE "start"
                  \/ /\ Eof(ctl, FuzzerUp)
                     /\ spc' = "dead"
                     /\ UNCHANGED <<was_killed, ctl>>
               /\ UNCHANGED <<srv_child, child_stopped, srv_status, proc, how,
                              st>>
               /\ ServerOnly

(* Faulty variant: the child is written off without waiting for it. *)
WriteOffUnreaped == /\ spc = "writeoff"
                    /\ child_stopped' = FALSE
                    /\ spc' = "start"
                    /\ UNCHANGED <<was_killed, srv_child, srv_status, proc,
                                   how, ctl, st>>
                    /\ ServerOnly

(* Faulty variant: the status of the old child is relayed, too. *)
WriteOffAndRelay == /\ spc = "writeoff"
                    /\ proc[srv_child] \in Ends
                    /\ proc' = [proc EXCEPT ![srv_child] = "gone"]
                    /\ st' = Append(st, Status(proc[srv_child]))
                    /\ child_stopped' = FALSE
                    /\ spc' = "start"
                    /\ UNCHANGED <<was_killed, srv_child, srv_status, how,
                                   ctl>>
                    /\ ServerOnly

(* The child stopped, and the timeout killed it all the same. *)
WriteOff == /\ spc = "writeoff"
            /\ proc[srv_child] \in Ends
            /\ proc' = [proc EXCEPT ![srv_child] = "gone"]
            /\ child_stopped' = FALSE
            /\ spc' = "start"
            /\ UNCHANGED <<was_killed, srv_child, srv_status, how, ctl, st>>
            /\ ServerOnly

Fork == /\ spc = "start" /\ ~child_stopped
        /\ \/ \E c \in Children :
                /\ NextPid(c)
                /\ proc' = [proc EXCEPT ![c] = "born"]
                /\ srv_child' = c
                /\ spc' = "tell"
           \/ spc' = "dead" /\ UNCHANGED <<proc, srv_child>>
        /\ UNCHANGED <<was_killed, child_stopped, srv_status, how, ctl, st>>
        /\ ServerOnly

(* SIGCONT *)
Wake == /\ spc = "start" /\ child_stopped
        /\ proc' = IF proc[srv_child] = "stopped"
                   THEN [proc EXCEPT ![srv_child] = "run"] ELSE proc
        /\ child_stopped' = FALSE
        /\ spc' = "tell"
        /\ UNCHANGED <<was_killed, srv_child, srv_status, how, ctl, st>>
        /\ ServerOnly

(* A write that nobody will read ends the server. *)
Write(m, from, to) == /\ spc = from
                      /\ spc' = IF FuzzerUp THEN to ELSE "dead"
                      /\ st' = IF FuzzerUp THEN Append(st, m) ELSE st
                      /\ UNCHANGED <<ServerVars, proc, how, ctl>>
                      /\ ServerOnly

TellPid == Write(Pid(srv_child), "tell", "wait")

(* waitpid, with WUNTRACED in persistent mode. *)
WaitDead == /\ spc = "wait" /\ proc[srv_child] \in Ends
            /\ srv_status' = proc[srv_child]
            /\ proc' = [proc EXCEPT ![srv_child] = "gone"]
            /\ spc' = "relay"
            /\ UNCHANGED <<was_killed, srv_child, child_stopped, how, ctl, st>>
            /\ ServerOnly

WaitStopped == /\ spc = "wait" /\ proc[srv_child] = "stopped"
               /\ srv_status' = "stopped" /\ child_stopped' = TRUE
               /\ spc' = "relay"
               /\ UNCHANGED <<was_killed, srv_child, proc, how, ctl, st>>
               /\ ServerOnly

(* Faulty variant: the next child is started ahead of the next request. *)
RelayAhead == Write(Status(srv_status), "relay", "start")

Relay == Write(Status(srv_status), "relay", "read")

ServerStep == \/ ReadRequest \/ WriteOff \/ Fork \/ Wake \/ TellPid
              \/ WaitDead \/ WaitStopped \/ Relay

-----------------------------------------------------------------------------
(***************************************************************************)
(* The children                                                            *)
(***************************************************************************)
ChildStep(c, from, to) == /\ proc[c] = from
                          /\ proc' = [proc EXCEPT ![c] = to]
                          /\ UNCHANGED <<fpc, fuzzer, child_pid, timer, status,
                                         server, ctl, st>>

(* A new child closes the server's pipes before anything else. *)
ClosePipes(c) == ChildStep(c, "born", "run") /\ UNCHANGED how

(* The test case is over: the program exits, crashes or, in __AFL_LOOP,    *)
(* stops itself.  It may also never be over.                               *)
Exit(c) == ChildStep(c, "run", "exited") /\ how' = "done"
Crash(c) == /\ \E end \in {"crashed", "msan"} : ChildStep(c, "run", end)
            /\ how' = "crashed"
ExecFails(c) == /\ mode = "dumb"
                /\ ChildStep(c, "run", "noexec") /\ how' = "noexec"
Stop(c) == /\ mode = "persistent"
           /\ ChildStep(c, "run", "stopped") /\ how' = "done"

FuzzerStep == \/ Spawn \/ GetHello \/ Handshake
              \/ Send \/ GetPid \/ Arm \/ GetStatus \/ DumbWait \/ Clear
              \/ Disarm \/ Verdict \/ EndDryRun \/ StopFuzzing \/ EndFuzzing

Next == \/ FuzzerStep \/ BeginRun \/ DumbRun \/ EnterLoop
        \/ Alarm \/ Interrupt \/ AskToStop
        \/ ServerStep \/ SayHello \/ BootFails
        \/ \E c \in Children : \/ ClosePipes(c) \/ Exit(c) \/ Crash(c)
                               \/ ExecFails(c) \/ Stop(c)

Spec == Init /\ [][Next]_vars

(* afl-fuzz and the fork server run on, an armed timer expires and a new   *)
(* child gets as far as closing its pipes; the target may hang anywhere.   *)
FairSpec == /\ Spec
            /\ WF_vars(FuzzerStep) /\ WF_vars(ServerStep) /\ WF_vars(Alarm)
            /\ \A c \in Children : WF_vars(ClosePipes(c))

-----------------------------------------------------------------------------
(***************************************************************************)
(* Properties                                                              *)
(***************************************************************************)
(* Every variable stays within its type; there is at most one request on   *)
(* its way and one pair of answers.                                        *)
TypeOK == /\ mode \in {"dumb", "plain", "persistent"} /\ looping \in BOOLEAN
          /\ fpc \in FuzzerPCs /\ spc \in ServerPCs
          /\ runs \in 0..MaxRuns /\ child_pid \in -1..MaxRuns
          /\ child_timed_out \in BOOLEAN /\ prev_timed_out \in BOOLEAN
          /\ stop_soon \in 0..2 /\ timer \in BOOLEAN
          /\ status \in Statuses /\ srv_status \in Statuses
          /\ fault \in {"none", "tmout", "crash", "error"}
          /\ was_killed \in BOOLEAN /\ child_stopped \in BOOLEAN
          /\ srv_child \in 0..MaxRuns
          /\ proc \in [Children -> {"none", "gone"} \cup Live \cup Ends]
          /\ how \in {"none", "done", "crashed", "killed", "noexec"}
          /\ ctl \in Seq(BOOLEAN) /\ Len(ctl) <= 1
          /\ st \in Seq(Pids \cup {Status(s) : s \in Statuses} \cup {Hello})
          /\ Len(st) <= 2

(* The two ends of the status pipe agree on what comes next: what afl-fuzz *)
(* reads as a process id, and sends signals to, is one, and is the child   *)
(* the fork server waits for.                                              *)
InStep ==
  /\ fpc = "hello" /\ st # <<>> => Head(st) = Hello
  /\ fpc = "getpid" /\ st # <<>> => Head(st) = Pid(srv_child)
  /\ fpc = "getstatus" /\ st # <<>> => Head(st) \notin Pids \cup {Hello}

(* What run_target returns is what became of this test case: nothing that  *)
(* was left of an earlier one, and no kill of its own, passes for a crash. *)
(* A test case that is done when the timeout comes may count as a hang.    *)
VerdictTrue ==
  fpc = "idle" /\ runs > 0 /\ stop_soon = 0 =>
    /\ fault = "crash" <=> how = "crashed"
    /\ fault = "error" <=> how = "noexec"
    /\ fault = "none" => how = "done"
    /\ fault = "tmout" => \/ how = "killed"
                          \/ how = "done" /\ mode = "persistent"

(* Between two runs, when afl-fuzz reads and clears trace_bits, no process *)
(* runs the target, and so none writes there.                              *)
LoneTracer ==
  fpc \in {"idle", "clear", "disarm", "verdict"} /\ stop_soon # 1 =>
    \A c \in Children : proc[c] \notin {"born", "run"}

(* The fork server waits for every child before it starts another one.     *)
NoneLeft == mode # "dumb" =>
              \A c \in Children \ {srv_child} : proc[c] \in {"none", "gone"}

(* A run comes to its end even if the test case never does. *)
RunEnds == (fpc \in Running) ~> (fpc \notin Running)

(* So does the start of the fork server. *)
HandshakeEnds == (fpc = "hello") ~> (fpc # "hello")

(* A fuzzer that is told to stop, or stops by itself, does end.            *)
StopEnds == (stop_soon # 0) ~> ~FuzzerUp

(* Stopped by the user or by itself, afl-fuzz has killed the fork server   *)
(* and the current runner.                                                 *)
RunnerKilled ==
  fpc = "ended" /\ looping => \A c \in Children : proc[c] \notin Live
=============================================================================

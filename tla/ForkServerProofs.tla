-------------------------- MODULE ForkServerProofs --------------------------
(***************************************************************************)
(* Proofs about ForkServer: that afl-fuzz and the fork server stay in step *)
(* on the two pipes, that no child is left behind or runs between two test *)
(* cases, and that the verdict is that of the test case, for any number of *)
(* runs and any interleaving with the signals.                             *)
(***************************************************************************)
EXTENDS ForkServer, SequenceTheorems, TLAPS

Quiet == ctl = <<>> /\ st = <<>>
Empty == \A c \in Children : proc[c] \in {"none", "gone"}
StatusMsgs == {Status(s) : s \in Statuses}

(* Where afl-fuzz is before the server is up, and where no answer of the   *)
(* server is on its way.                                                   *)
Starting == {"init", "hello", "up", "down"}
Settled == {"idle", "send", "clear", "disarm", "verdict", "leave", "ended",
            "failed"}

(* Before the server is up there is no child. *)
StartInv ==
  /\ fpc \in Starting => /\ \A c \in Children : proc[c] = "none"
                         /\ srv_child = 0 /\ ~child_stopped
                         /\ ctl = <<>> /\ runs = 0
  /\ fpc = "init" => spc = "none" /\ st = <<>>
  /\ fpc = "hello" => \/ spc = "boot" /\ st = <<>>
                      \/ spc = "read" /\ st = <<Hello>>
                      \/ spc = "dead" /\ st \in {<<>>, <<Hello>>}
  /\ fpc = "up" => spc \in {"read", "dead"} /\ st = <<>>
  /\ fpc = "down" => spc = "dead" /\ st = <<>>

(* What is in the pipes follows from where the two processes are: a request*)
(* that was not read, or the answers given to it that were not read.       *)
(* afl-fuzz is "told" when it knows the process id.                        *)
Asked == ctl \in {<<TRUE>>, <<FALSE>>} /\ st = <<>> /\ spc \in {"read", "dead"}
Starts == Quiet /\ spc \in {"writeoff", "start", "tell", "dead"}
Told == /\ ctl = <<>> /\ st = <<Pid(srv_child)>>
        /\ spc \in {"wait", "relay", "dead"} /\ srv_child \in Children
ToldAll == /\ ctl = <<>> /\ \E m \in StatusMsgs : st = <<Pid(srv_child), m>>
           /\ spc \in {"read", "dead"} /\ srv_child \in Children
Waits == Quiet /\ spc \in {"wait", "relay", "dead"}
Answered == /\ ctl = <<>> /\ \E m \in StatusMsgs : st = <<m>>
            /\ spc \in {"read", "dead"}

PipeInv ==
  /\ fpc \in Settled => /\ st = <<>> /\ spc \in {"read", "dead"}
                        /\ ctl \in {<<>>, <<TRUE>>, <<FALSE>>}
                        /\ spc = "read" => ctl = <<>>
  /\ fpc = "getpid" => Asked \/ Starts \/ Told \/ ToldAll
  /\ fpc \in {"arm", "getstatus"} => Waits \/ Answered

(* The child of the fork server. *)
ChildInv ==
  /\ spc \in {"tell", "wait"} =>
       /\ ~child_stopped /\ srv_child \in Children
       /\ proc[srv_child] \notin {"none", "gone"}
  /\ spc = "relay" => srv_child \in Children
  /\ spc = "writeoff" => child_stopped
  /\ spc \in {"read", "start", "relay"} /\ ~child_stopped => Empty
  /\ spc \in {"read", "writeoff", "start", "relay"} /\ child_stopped =>
       srv_child \in Children /\ proc[srv_child] \in {"stopped", "killed"}

(* A child that has not closed the pipes yet has told nothing. *)
BornInv ==
  \/ fpc \in Settled
  \/ fpc = "getpid" /\ ToldAll
  \/ fpc \in {"arm", "getstatus"} /\ Answered
  => \A c \in Children : proc[c] # "born"

(* Only the user can make an end of the server while a child runs. *)
DeadInv == spc = "dead" /\ stop_soon # 1 /\ fpc \notin {"leave", "ended", "failed"}
             => \A c \in Children : proc[c] \notin {"born", "run"}

ServerInv == mode # "dumb" => /\ StartInv /\ PipeInv /\ ChildInv
                              /\ BornInv /\ DeadInv

(* Without a fork server there is the child of this run, or none.          *)
DumbInv ==
  mode = "dumb" =>
    /\ spc = "none" /\ Quiet
    /\ fpc \in {"idle", "arm", "getstatus", "clear", "disarm", "verdict",
                "leave", "ended"}
    /\ \A c \in Children : proc[c] \notin {"born", "stopped"}
    /\ \A c \in Children \ {child_pid} : proc[c] \in {"none", "gone"}
    /\ IF fpc \in {"arm", "getstatus"}
       THEN child_pid \in Children /\ proc[child_pid] \notin {"none", "gone"}
       ELSE Empty

(* The timer is armed for the handshake, or with a child to kill.          *)
PidInv == /\ fpc = "arm" => child_pid \in Children
          /\ timer /\ child_pid = -1 => fpc \in {"hello", "up", "down"}

(* The types of what is not in a pipe; those of the pipes follow.          *)
ScalarsOK ==
  /\ mode \in {"dumb", "plain", "persistent"} /\ looping \in BOOLEAN
  /\ fpc \in FuzzerPCs /\ spc \in ServerPCs
  /\ runs \in 0..MaxRuns /\ child_pid \in -1..MaxRuns
  /\ child_timed_out \in BOOLEAN /\ prev_timed_out \in BOOLEAN
  /\ stop_soon \in 0..2 /\ timer \in BOOLEAN
  /\ status \in Statuses /\ srv_status \in Statuses
  /\ fault \in {"none", "tmout", "crash", "error"}
  /\ was_killed \in BOOLEAN /\ child_stopped \in BOOLEAN
  /\ srv_child \in 0..MaxRuns
  /\ proc \in [Children -> {"none", "gone"} \cup Live \cup Ends]
  /\ how \in {"none", "done", "crashed", "killed", "noexec"}

IInv == ScalarsOK /\ ServerInv /\ DumbInv /\ PidInv /\ NoneLeft

-----------------------------------------------------------------------------
(***************************************************************************)
(* The verdict.  What follows is promised while nobody stops the fuzzer.   *)
(***************************************************************************)
(* State s of a child is what became of the test case; one that is killed  *)
(* is killed by the timeout.                                               *)
Says(s) ==
  CASE s = "exited" -> how = "done"
    [] s = "stopped" -> how = "done"
    [] s \in {"crashed", "msan"} -> how = "crashed"
    [] s = "noexec" -> how = "noexec"
    [] s = "killed" -> /\ child_timed_out
                       /\ \/ how = "killed"
                          \/ how = "done" /\ mode = "persistent"
    [] OTHER -> how = "none"

(* The child, then the status of it on its way, then the status read tell  *)
(* what became of the test case; until it is started nothing has.          *)
HowInv ==
  /\ fpc = "send" => how = "none"
  /\ fpc = "getpid" /\ (ctl # <<>> \/ spc \in {"writeoff", "start"}) =>
       how = "none"
  /\ spc \in {"tell", "wait"} => Says(proc[srv_child])
  /\ spc = "relay" => Says(srv_status)
  /\ fpc = "getpid" =>
       \A s \in Statuses : st = <<Pid(srv_child), Status(s)>> => Says(s)
  /\ fpc \in {"arm", "getstatus"} =>
       \A s \in Statuses : st = <<Status(s)>> => Says(s)
  /\ fpc \in {"clear", "disarm", "verdict"} => Says(status)
  /\ mode = "dumb" /\ fpc \in {"arm", "getstatus"} => Says(proc[child_pid])

(* No timer runs from the verdict to the next process id. *)
TimerInv == timer => fpc \notin {"init", "idle", "send", "getpid", "arm", "verdict"}

(* A child that stopped and was killed all the same: afl-fuzz has noted the*)
(* timeout and will tell the server before the child would be woken.       *)
StoppedInv ==
  /\ \A c \in Children : proc[c] = "stopped" => mode = "persistent"
  /\ mode # "dumb" /\ child_stopped /\ proc[srv_child] = "killed" =>
       /\ fpc \in {"arm", "getstatus", "clear", "disarm", "verdict"} =>
            child_timed_out
       /\ fpc \in {"idle", "send"} => prev_timed_out
       /\ fpc = "getpid" => ctl = <<TRUE>> \/ spc = "writeoff"
  /\ spc = "dead" /\ child_stopped => fpc \in {"ended", "failed"}

Verdicts == HowInv /\ TimerInv /\ StoppedInv /\ VerdictTrue
VInv == stop_soon = 0 => Verdicts

-----------------------------------------------------------------------------
(* Messages of different kinds differ, and so do those with different      *)
(* contents.                                                               *)
LEMMA Messages ==
  /\ \A s : Status(s).status = s
  /\ \A c : Pid(c).pid = c
  /\ \A s, c : Status(s) # Pid(c)
  /\ \A s : Status(s) # Hello
  /\ \A c : Pid(c) # Hello
<1>1. \A s : DOMAIN Status(s) = {"status"} /\ Status(s).status = s
  BY DEF Status
<1>2. \A c : DOMAIN Pid(c) = {"pid"} /\ Pid(c).pid = c
  BY DEF Pid
<1>3. DOMAIN Hello = {"hello"}
  BY DEF Hello
<1>4. {"status"} # {"pid"} /\ {"status"} # {"hello"} /\ {"pid"} # {"hello"}
  OBVIOUS
<1> QED
  BY <1>1, <1>2, <1>3, <1>4

(* Pipes with at most two messages. *)
LEMMA Pipes ==
  /\ \A a : Append(<<>>, a) = <<a>>
  /\ \A a, b : Append(<<a>>, b) = <<a, b>>
  /\ \A a : Head(<<a>>) = a /\ Tail(<<a>>) = <<>>
  /\ \A a, b : Head(<<a, b>>) = a /\ Tail(<<a, b>>) = <<b>>
  /\ \A a : <<a>> # <<>>
  /\ \A a, b : <<a, b>> # <<>>
  /\ \A a, b, c : <<a>> # <<b, c>>
  /\ \A a, b : <<a>> = <<b>> => a = b
  /\ \A a, b, c, d : <<a, b>> = <<c, d>> => a = c /\ b = d
<1>1. \A a : Append(<<>>, a) = <<a>>
  OBVIOUS
<1>2. \A a, b : Append(<<a>>, b) = <<a, b>>
  <2> SUFFICES ASSUME NEW a, NEW b PROVE Append(<<a>>, b) = <<a, b>>
    OBVIOUS
  <2> DEFINE S == {a, b}
             s == Append(<<a>>, b)
             t == <<a, b>>
  <2>1. <<a>> \in Seq(S) /\ Len(<<a>>) = 1 /\ <<a>>[1] = a /\ b \in S
    OBVIOUS
  <2>2. /\ s \in Seq(S) /\ Len(s) = 2
        /\ \A i \in 1..2 : s[i] = IF i <= 1 THEN <<a>>[i] ELSE b
    BY <2>1, AppendProperties
  <2>3. t \in Seq(S) /\ Len(t) = 2 /\ t[1] = a /\ t[2] = b
    OBVIOUS
  <2>4. s[1] = a /\ s[2] = b
    BY <2>1, <2>2
  <2> HIDE DEF S, s, t
  <2>5. \A i \in 1..Len(s) : s[i] = t[i]
    BY <2>2, <2>3, <2>4
  <2>6. s = t
    BY <2>2, <2>3, <2>5, SeqEqual
  <2> QED
    BY <2>6 DEF s, t
<1>3. \A a : Head(<<a>>) = a /\ Tail(<<a>>) = <<>>
  OBVIOUS
<1>4. \A a, b : Head(<<a, b>>) = a /\ Tail(<<a, b>>) = <<b>>
  OBVIOUS
<1>5. \A a : <<a>> # <<>>
  OBVIOUS
<1>6. \A a, b : <<a, b>> # <<>>
  OBVIOUS
<1>7. \A a, b, c : <<a>> # <<b, c>>
  OBVIOUS
<1>8. \A a, b : <<a>> = <<b>> => a = b
  OBVIOUS
<1>9. \A a, b, c, d : <<a, b>> = <<c, d>> => a = c /\ b = d
  OBVIOUS
<1> QED
  BY <1>1, <1>2, <1>3, <1>4, <1>5, <1>6, <1>7, <1>8, <1>9

-----------------------------------------------------------------------------
LEMMA TypesFollow == ASSUME IInv PROVE TypeOK
<1> DEFINE Msgs == Pids \cup {Status(s) : s \in Statuses} \cup {Hello}
<1>1. /\ <<TRUE>> \in Seq(BOOLEAN) /\ Len(<<TRUE>>) = 1
      /\ <<FALSE>> \in Seq(BOOLEAN) /\ Len(<<FALSE>>) = 1
  OBVIOUS
<1>2. \A a \in Msgs : <<a>> \in Seq(Msgs) /\ Len(<<a>>) = 1
  OBVIOUS
<1>3. \A a, b \in Msgs : <<a, b>> \in Seq(Msgs) /\ Len(<<a, b>>) = 2
  OBVIOUS
<1>4. <<>> \in Seq(BOOLEAN) /\ <<>> \in Seq(Msgs) /\ Len(<<>>) = 0
  OBVIOUS
<1>5. /\ Hello \in Msgs /\ StatusMsgs \subseteq Msgs
      /\ \A c \in Children : Pid(c) \in Msgs
  BY DEF StatusMsgs, Pids
<1>6. ctl \in {<<>>, <<TRUE>>, <<FALSE>>}
  BY DEF IInv, ScalarsOK, FuzzerPCs, Running, ServerInv, StartInv, PipeInv,
         DumbInv, Quiet, Asked, Starts, Told, ToldAll, Waits, Answered,
         Starting, Settled
<1>7. \/ st = <<>>
      \/ \E a \in Msgs : st = <<a>>
      \/ \E a, b \in Msgs : st = <<a, b>>
  <2> HIDE DEF Msgs
  <2> QED
    BY <1>5
    DEF IInv, ScalarsOK, FuzzerPCs, Running, ServerInv, StartInv, PipeInv,
        DumbInv, Quiet, Asked, Starts, Told, ToldAll, Waits, Answered,
        Starting, Settled
<1>8. ctl \in Seq(BOOLEAN) /\ Len(ctl) <= 1
  <2>1. CASE ctl = <<>>
    BY <1>4, <2>1
  <2>2. CASE ctl = <<TRUE>>
    BY <1>1, <2>2
  <2>3. CASE ctl = <<FALSE>>
    BY <1>1, <2>3
  <2> QED
    BY <1>6, <2>1, <2>2, <2>3
<1>9. st \in Seq(Msgs) /\ Len(st) <= 2
  <2> HIDE DEF Msgs
  <2>1. CASE st = <<>>
    BY <1>4, <2>1
  <2>2. CASE \E a \in Msgs : st = <<a>>
    BY <1>2, <2>2
  <2>3. CASE \E a, b \in Msgs : st = <<a, b>>
    BY <1>3, <2>3
  <2> QED
    BY <1>7, <2>1, <2>2, <2>3
<1> QED
  BY <1>8, <1>9 DEF IInv, ScalarsOK, TypeOK

(* SIGKILL ends a child that lives, and no other process.                  *)
LEMMA KilledProc ==
  ASSUME ScalarsOK
  PROVE  /\ Killed(child_pid) \in [Children -> {"none", "gone"} \cup Live \cup Ends]
         /\ \A c \in Children :
              Killed(child_pid)[c] = IF c = child_pid /\ proc[c] \in Live
                                     THEN "killed" ELSE proc[c]
         /\ HowKilled(child_pid) \in
              {"none", "done", "crashed", "killed", "noexec"}
BY DEF ScalarsOK, Killed, HowKilled, Ends

LEMMA InitInv == Init => IInv
<1> SUFFICES ASSUME Init PROVE IInv
  OBVIOUS
<1>1. ScalarsOK
  <2>1. looping \in BOOLEAN /\ child_timed_out \in BOOLEAN
        /\ prev_timed_out \in BOOLEAN /\ timer \in BOOLEAN
        /\ was_killed \in BOOLEAN /\ child_stopped \in BOOLEAN
    BY DEF Init
  <2>2. /\ runs \in 0..MaxRuns /\ child_pid \in -1..MaxRuns
        /\ srv_child \in 0..MaxRuns /\ stop_soon \in 0..2
    BY RunsAssumption DEF Init
  <2>3. fpc \in FuzzerPCs /\ spc \in ServerPCs
    BY DEF Init, FuzzerPCs, ServerPCs
  <2>4. status \in Statuses /\ srv_status \in Statuses
    BY DEF Init, Statuses, Ends
  <2> QED
    BY <2>1, <2>2, <2>3, <2>4 DEF Init, ScalarsOK
<1>2. ServerInv
  BY DEF Init, ServerInv, StartInv, PipeInv, ChildInv, BornInv, DeadInv,
         ToldAll, Answered, Settled, Starting
<1>3. DumbInv
  BY DEF Init, DumbInv, Quiet, Empty
<1>4. PidInv /\ NoneLeft
  BY DEF Init, PidInv, NoneLeft
<1> QED
  BY <1>1, <1>2, <1>3, <1>4 DEF IInv

-----------------------------------------------------------------------------
(***************************************************************************)
(* Without a fork server                                                   *)
(***************************************************************************)
LEMMA DumbStep ==
  ASSUME IInv, mode = "dumb", Next
  PROVE  IInv'
<1> USE RunsAssumption
        DEF IInv, ScalarsOK, DumbInv, Quiet, Empty, PidInv, FuzzerPCs, Running,
            ServerPCs, fuzzer, server, ServerVars
<1>1. CASE BeginRun \/ Spawn \/ GetHello \/ Handshake \/ Send \/ GetPid
           \/ GetStatus \/ ServerStep \/ SayHello \/ BootFails
  BY <1>1 DEF BeginRun, Spawn, GetHello, Handshake, Send, GetPid, GetStatus,
              ServerStep, ReadRequest, WriteOff, Fork, Wake, TellPid, Write,
              WaitDead, WaitStopped, Relay, SayHello, BootFails
<1>2. ASSUME mode' = "dumb" PROVE ServerInv' /\ NoneLeft'
  BY <1>2 DEF ServerInv, NoneLeft
<1>3. CASE DumbRun
  <2>1. runs' = runs + 1 /\ runs' \in Children /\ child_pid' = runs'
    BY <1>3 DEF DumbRun, Children
  <2>2. proc' = [proc EXCEPT ![runs'] = "run"]
    BY <1>3 DEF DumbRun
  <2>3. /\ fpc' = "arm" /\ child_timed_out' = FALSE /\ how' = "none"
        /\ UNCHANGED <<mode, looping, prev_timed_out, stop_soon, fault,
                       timer, status, server, ctl, st>>
        /\ fpc = "idle"
    BY <1>3 DEF DumbRun
  <2>4. ScalarsOK'
    <3>1. runs' \in 0..MaxRuns /\ child_pid' \in -1..MaxRuns
      BY <2>1 DEF Children
    <3>2. proc' \in [Children -> {"none", "gone"} \cup Live \cup Ends]
      BY <2>1, <2>2 DEF Live
    <3> QED
      BY <2>3, <3>1, <3>2
  <2>5. DumbInv' /\ PidInv'
    BY <2>1, <2>2, <2>3 DEF Children
  <2> QED
    BY <1>2, <2>3, <2>4, <2>5
<1>4. CASE Arm
  BY <1>2, <1>4 DEF Arm
<1>5. CASE Clear
  BY <1>2, <1>5 DEF Clear
<1>6. CASE Disarm
  BY <1>2, <1>6, ZenonT(30) DEF Disarm
<1>7. CASE DumbWait
  BY <1>2, <1>7 DEF DumbWait, Statuses
<1>8. CASE Verdict
  BY <1>2, <1>8 DEF Verdict, Outcome
<1>9. CASE EndDryRun \/ EndFuzzing
  BY <1>2, <1>9 DEF EndDryRun, EndFuzzing
<1>10. CASE EnterLoop
  BY <1>2, <1>10 DEF EnterLoop
<1>11. CASE AskToStop
  BY <1>2, <1>11 DEF AskToStop
<1>12. CASE StopFuzzing
  BY <1>2, <1>12, KilledProc DEF StopFuzzing, KillBoth, Live
<1>13. CASE Alarm
  <2>1. /\ timer' = FALSE
        /\ UNCHANGED <<mode, looping, fpc, runs, prev_timed_out, stop_soon,
                       fault, child_pid, status, ctl, st>>
    BY <1>13 DEF Alarm
  <2>2. CASE child_pid > 0
    <3>1. /\ child_timed_out' = TRUE /\ UNCHANGED server
          /\ proc' = Killed(child_pid) /\ how' = HowKilled(child_pid)
      BY <1>13, <2>2 DEF Alarm
    <3>2. ScalarsOK'
      <4>1. timer' \in BOOLEAN /\ child_timed_out' \in BOOLEAN
        BY <2>1, <3>1
      <4>2. /\ proc' \in [Children -> {"none", "gone"} \cup Live \cup Ends]
            /\ how' \in {"none", "done", "crashed", "killed", "noexec"}
        BY <3>1, KilledProc
      <4>3. spc' = spc /\ UNCHANGED ServerVars
        BY <3>1
      <4> QED
        BY <2>1, <4>1, <4>2, <4>3
    <3>3. DumbInv' /\ PidInv'
      BY <2>1, <3>1, KilledProc DEF Live
    <3> QED
      BY <1>2, <2>1, <3>2, <3>3
  <2>3. CASE ~(child_pid > 0)
    <3>1. UNCHANGED <<child_timed_out, proc, how, server>>
      BY <1>13, <2>3 DEF Alarm
    <3>2. ScalarsOK'
      <4>1. timer' \in BOOLEAN /\ spc' = spc /\ UNCHANGED ServerVars
        BY <2>1, <3>1
      <4> QED
        BY <2>1, <3>1, <4>1
    <3>3. DumbInv' /\ PidInv'
      BY <2>1, <3>1
    <3> QED
      BY <1>2, <2>1, <3>2, <3>3
  <2> QED
    BY <2>2, <2>3
<1>14. CASE Interrupt
  BY <1>2, <1>14, KilledProc DEF Interrupt, KillBoth, Live
<1>15. ASSUME NEW c \in Children, ClosePipes(c) \/ Stop(c) PROVE IInv'
  BY <1>15 DEF ClosePipes, Stop, ChildStep
<1>16. ASSUME NEW c \in Children, Exit(c) \/ Crash(c) \/ ExecFails(c)
       PROVE IInv'
  BY <1>2, <1>16 DEF Exit, Crash, ExecFails, ChildStep, Ends, Live
<1> QED
  BY <1>1, <1>3, <1>4, <1>5, <1>6, <1>7, <1>8, <1>9, <1>10, <1>11, <1>12,
     <1>13, <1>14, <1>15, <1>16
  DEF Next, FuzzerStep

-----------------------------------------------------------------------------
(***************************************************************************)
(* With a fork server                                                      *)
(***************************************************************************)
(* What afl-fuzz finds at the head of the status pipe.                     *)
LEMMA Heads ==
  ASSUME IInv, mode # "dumb"
  PROVE  /\ fpc = "getpid" /\ st # <<>> =>
              /\ Head(st) = Pid(srv_child) /\ srv_child \in Children
              /\ \/ Told /\ Tail(st) = <<>>
                 \/ \E m \in StatusMsgs :
                      st = <<Pid(srv_child), m>> /\ ToldAll /\ Tail(st) = <<m>>
         /\ fpc = "getstatus" /\ st # <<>> =>
              /\ Head(st).status \in Statuses
              /\ st = <<Status(Head(st).status)>>
              /\ Tail(st) = <<>> /\ Answered
<1>1. ASSUME fpc = "getpid", st # <<>>
      PROVE  /\ Head(st) = Pid(srv_child) /\ srv_child \in Children
             /\ \/ Told /\ Tail(st) = <<>>
                \/ \E m \in StatusMsgs :
                     st = <<Pid(srv_child), m>> /\ ToldAll /\ Tail(st) = <<m>>
  <2>1. Told \/ ToldAll
    BY <1>1 DEF IInv, ServerInv, PipeInv, Asked, Starts, Quiet
  <2>2. CASE Told
    BY <2>2, Pipes DEF Told
  <2>3. CASE ToldAll
    BY <2>3, Pipes DEF ToldAll
  <2> QED
    BY <2>1, <2>2, <2>3
<1>2. ASSUME fpc = "getstatus", st # <<>>
      PROVE  /\ Head(st).status \in Statuses
             /\ st = <<Status(Head(st).status)>>
             /\ Tail(st) = <<>> /\ Answered
  <2>1. Answered
    BY <1>2 DEF IInv, ServerInv, PipeInv, Waits, Quiet
  <2>2. PICK s \in Statuses : st = <<Status(s)>>
    BY <2>1 DEF Answered, StatusMsgs
  <2> QED
    BY <2>1, <2>2, Pipes, Messages
<1> QED
  BY <1>1, <1>2

LEMMA FuzzerScalars ==
  ASSUME IInv, mode # "dumb", FuzzerStep \/ BeginRun \/ EnterLoop \/ AskToStop
  PROVE  ScalarsOK'
<1> USE RunsAssumption
    DEF IInv, ScalarsOK, FuzzerPCs, Running, ServerPCs, fuzzer, server,
        ServerVars
<1>1. CASE Spawn
  BY <1>1 DEF Spawn
<1>2. CASE GetHello
  BY <1>2 DEF GetHello
<1>3. CASE Handshake
  <2>1. timer' \in BOOLEAN
    BY <1>3 DEF Handshake
  <2> QED
    BY <1>3, <2>1 DEF Handshake
<1>4. CASE BeginRun
  <2>1. child_timed_out' \in BOOLEAN
    BY <1>4 DEF BeginRun
  <2>2. runs' \in 0..MaxRuns
    BY <1>4 DEF BeginRun
  <2> QED
    BY <1>4, <2>1, <2>2 DEF BeginRun
<1>5. CASE Send
  BY <1>5 DEF Send, PipeFails
<1>6. CASE GetPid
  <2>1. child_pid' \in -1..MaxRuns
    BY <1>6, Heads, Messages DEF GetPid, PipeFails, Children
  <2> QED
    BY <1>6, <2>1 DEF GetPid, PipeFails
<1>7. CASE GetStatus
  <2>1. status' \in Statuses
    BY <1>7, Heads DEF GetStatus, PipeFails
  <2> QED
    BY <1>7, <2>1 DEF GetStatus, PipeFails
<1>8. CASE Arm
  BY <1>8 DEF Arm
<1>9. CASE Clear
  BY <1>9 DEF Clear
<1>10. CASE Disarm
  <2>1. timer' \in BOOLEAN
    BY <1>10 DEF Disarm
  <2> QED
    BY <1>10, <2>1 DEF Disarm
<1>11. CASE Verdict
  BY <1>11 DEF Verdict, Outcome
<1>12. CASE EndDryRun \/ EndFuzzing
  BY <1>12 DEF EndDryRun, EndFuzzing
<1>13. CASE StopFuzzing
  BY <1>13, KilledProc DEF StopFuzzing, KillBoth
<1>14. CASE EnterLoop
  BY <1>14 DEF EnterLoop
<1>15. CASE AskToStop
  BY <1>15 DEF AskToStop
<1>16. CASE DumbWait
  BY <1>16 DEF DumbWait
<1> QED
  BY <1>1, <1>2, <1>3, <1>4, <1>5, <1>6, <1>7, <1>8, <1>9, <1>10, <1>11,
     <1>12, <1>13, <1>14, <1>15, <1>16
  DEF FuzzerStep

LEMMA SignalScalars ==
  ASSUME IInv, mode # "dumb", Alarm \/ Interrupt
  PROVE  ScalarsOK'
<1> USE DEF IInv, ScalarsOK, ServerPCs, server, ServerVars
<1>1. CASE Alarm
  <2>1. timer' = FALSE
        /\ UNCHANGED <<mode, looping, fpc, runs, prev_timed_out, stop_soon,
                       fault, child_pid, status, ctl, st>>
    BY <1>1 DEF Alarm
  <2>2. /\ UNCHANGED <<was_killed, srv_child, child_stopped, srv_status>>
        /\ child_timed_out' \in BOOLEAN
        /\ spc' \in {spc, "dead"}
        /\ proc' \in {proc, Killed(child_pid)}
        /\ how' \in {how, HowKilled(child_pid)}
    BY <1>1 DEF Alarm
  <2>3. timer' \in BOOLEAN
    BY <2>1
  <2> QED
    BY <2>1, <2>2, <2>3, KilledProc
<1>2. CASE Interrupt
  BY <1>2, KilledProc DEF Interrupt, KillBoth
<1> QED
  BY <1>1, <1>2

LEMMA ServerScalars ==
  ASSUME IInv, mode # "dumb", ServerStep \/ SayHello \/ BootFails
  PROVE  ScalarsOK'
<1> USE DEF IInv, ScalarsOK, ServerPCs, fuzzer, ServerVars, ServerOnly
<1>1. CASE ReadRequest
  <2>1. was_killed' \in BOOLEAN
    <3>1. CASE ctl # <<>>
      BY <1>1, <3>1, TypesFollow DEF ReadRequest, TypeOK, Eof
    <3>2. CASE ctl = <<>>
      BY <1>1, <3>2 DEF ReadRequest
    <3> QED
      BY <3>1, <3>2
  <2> QED
    BY <1>1, <2>1 DEF ReadRequest
<1>2. CASE WriteOff
  BY <1>2, ZenonT(30) DEF WriteOff
<1>3. CASE Fork
  BY <1>3 DEF Fork, Live, Children
<1>4. CASE Wake
  BY <1>4, ZenonT(30) DEF Wake, Live
<1>5. CASE TellPid \/ Relay \/ SayHello \/ BootFails
  BY <1>5 DEF TellPid, Relay, Write, SayHello, BootFails
<1>6. CASE WaitDead
  <2>1. srv_status' \in Statuses
    BY <1>6 DEF WaitDead, Statuses
  <2>2. proc' \in [Children -> {"none", "gone"} \cup Live \cup Ends]
    BY <1>6 DEF WaitDead
  <2> QED
    BY <1>6, <2>1, <2>2 DEF WaitDead
<1>7. CASE WaitStopped
  BY <1>7 DEF WaitStopped, Statuses
<1> QED
  BY <1>1, <1>2, <1>3, <1>4, <1>5, <1>6, <1>7 DEF ServerStep

LEMMA ChildScalars ==
  ASSUME IInv, NEW c \in Children,
         ClosePipes(c) \/ Exit(c) \/ Crash(c) \/ ExecFails(c) \/ Stop(c)
  PROVE  ScalarsOK'
BY DEF IInv, ScalarsOK, ClosePipes, Exit, Crash, ExecFails, Stop, ChildStep,
       fuzzer, server, ServerVars, Live, Ends

-----------------------------------------------------------------------------
(* An end of file means that the server is dead and no child holds a pipe. *)
LEMMA EofMeans ==
  ASSUME Eof(st, ServerEnds)
  PROVE  /\ st = <<>> /\ spc \in {"none", "dead"}
         /\ \A c \in Children : proc[c] # "born"
BY DEF Eof, ServerEnds, ServerUp

(* What afl-fuzz does does not touch the server or its child. *)
LEMMA ChildKept ==
  ASSUME ServerInv, NoneLeft, mode # "dumb",
         UNCHANGED <<mode, proc, spc, srv_child, child_stopped>>
  PROVE  ChildInv' /\ NoneLeft'
BY DEF ServerInv, NoneLeft, ChildInv, Empty

(* Nor does it, once the server is up, undo what was promised of the start *)
(* and of a server that died.                                              *)
LEMMA RunFrame ==
  ASSUME IInv, mode # "dumb", fpc \notin Starting, fpc' \notin Starting,
         fpc \notin {"leave", "ended", "failed"},
         UNCHANGED <<mode, proc, spc, srv_child, child_stopped>>,
         stop_soon' = 1 => stop_soon = 1, stop_soon = 1 => stop_soon' = 1
  PROVE  StartInv' /\ ChildInv' /\ DeadInv' /\ NoneLeft'
<1>1. ChildInv' /\ NoneLeft'
  BY ChildKept DEF IInv
<1>2. StartInv'
  BY DEF StartInv, Starting
<1>3. DeadInv'
  BY DEF IInv, ServerInv, DeadInv
<1> QED
  BY <1>1, <1>2, <1>3

(* The pipe failed: nothing is in it, and there is nobody to write to it.  *)
LEMMA FailureCore ==
  ASSUME IInv, mode # "dumb", PipeFails, fpc \in {"send", "getpid", "getstatus"},
         st = <<>>, spc \in {"none", "dead"},
         \A c \in Children : proc[c] # "born"
  PROVE  ServerInv' /\ PidInv' /\ NoneLeft'
<1>1. /\ fpc' \in {"idle", "failed"}
      /\ UNCHANGED <<mode, proc, spc, srv_child, child_stopped, stop_soon, ctl,
                     st, timer, child_pid>>
  BY DEF PipeFails, server, ServerVars
<1>2. spc = "dead" /\ ctl \in {<<>>, <<TRUE>>, <<FALSE>>}
  BY DEF IInv, ServerInv, PipeInv, Settled, Asked, Starts, Told, ToldAll,
         Waits, Answered, Quiet
<1>3. StartInv' /\ ChildInv' /\ DeadInv' /\ NoneLeft'
  BY <1>1, RunFrame DEF Starting
<1>4. PipeInv'
  BY <1>1, <1>2 DEF PipeInv, Settled
<1>5. BornInv'
  BY <1>1 DEF BornInv
<1>6. PidInv'
  BY <1>1 DEF IInv, PidInv
<1> QED
  BY <1>3, <1>4, <1>5, <1>6 DEF ServerInv

LEMMA GetHelloCore ==
  ASSUME IInv, mode # "dumb", GetHello
  PROVE  ServerInv' /\ PidInv' /\ NoneLeft'
<1>1. /\ fpc = "hello"
      /\ UNCHANGED <<mode, proc, spc, srv_child, child_stopped, stop_soon, ctl,
                     timer, child_pid, runs>>
      /\ \/ st # <<>> /\ st' = Tail(st) /\ fpc' = "up"
         \/ Eof(st, ServerEnds) /\ st' = st /\ fpc' = "down"
  BY DEF GetHello, fuzzer, server, ServerVars
<1>2. ChildInv' /\ NoneLeft'
  BY <1>1, ChildKept DEF IInv
<1>3. StartInv'
  <2>1. CASE st # <<>>
    <3>1. st = <<Hello>> /\ spc \in {"read", "dead"}
      BY <1>1, <2>1 DEF IInv, ServerInv, StartInv
    <3>2. st' = <<>> /\ fpc' = "up"
      BY <1>1, <2>1, <3>1, Pipes DEF Eof
    <3> QED
      BY <1>1, <3>1, <3>2 DEF IInv, ServerInv, StartInv, Starting
  <2>2. CASE st = <<>>
    <3>1. st' = <<>> /\ fpc' = "down" /\ spc \in {"none", "dead"}
      BY <1>1, <2>2, EofMeans
    <3> QED
      BY <1>1, <3>1 DEF IInv, ServerInv, StartInv, Starting
  <2> QED
    BY <2>1, <2>2
<1>4. PipeInv'
  BY <1>1 DEF PipeInv, Settled
<1>5. BornInv' /\ DeadInv'
  BY <1>1 DEF IInv, ServerInv, StartInv, Starting, BornInv, DeadInv
<1>6. PidInv'
  BY <1>1 DEF IInv, PidInv
<1> QED
  BY <1>2, <1>3, <1>4, <1>5, <1>6 DEF ServerInv

(* A request is on its way, or the server is found dead.                   *)
LEMMA SendCore ==
  ASSUME IInv, mode # "dumb", Send
  PROVE  ServerInv' /\ PidInv' /\ NoneLeft'
<1>1. /\ fpc = "send" /\ st = <<>> /\ spc \in {"read", "dead"}
      /\ spc = "read" => ctl = <<>>
      /\ \A c \in Children : proc[c] # "born"
  BY DEF Send, IInv, ServerInv, PipeInv, BornInv, Settled
<1>2. CASE ServerEnds
  <2>1. spc = "read" /\ ctl = <<>>
    BY <1>1, <1>2 DEF ServerEnds, ServerUp
  <2>2. /\ UNCHANGED <<mode, proc, spc, srv_child, child_stopped, stop_soon, st,
                       timer, child_pid>>
        /\ ctl' = Append(ctl, prev_timed_out) /\ fpc' = "getpid"
    BY <1>2 DEF Send, fuzzer, server, ServerVars
  <2>3. ctl' = <<TRUE>> \/ ctl' = <<FALSE>>
    BY <2>1, <2>2, Pipes DEF IInv, ScalarsOK
  <2>4. StartInv' /\ ChildInv' /\ DeadInv' /\ NoneLeft'
    BY <1>1, <2>2, RunFrame DEF Starting
  <2>5. PipeInv'
    BY <1>1, <2>1, <2>2, <2>3 DEF PipeInv, Settled, Asked
  <2>6. BornInv' /\ PidInv'
    BY <1>1, <2>2 DEF IInv, BornInv, PidInv
  <2> QED
    BY <2>4, <2>5, <2>6 DEF ServerInv
<1>3. CASE ~ServerEnds
  <2>1. PipeFails
    BY <1>3 DEF Send
  <2>2. spc = "dead"
    BY <1>1, <1>3 DEF ServerEnds, ServerUp
  <2> QED
    BY <1>1, <2>1, <2>2, FailureCore
<1> QED
  BY <1>2, <1>3

LEMMA GetPidCore ==
  ASSUME IInv, mode # "dumb", GetPid
  PROVE  ServerInv' /\ PidInv' /\ NoneLeft'
<1>1. fpc = "getpid"
  BY DEF GetPid
<1>2. CASE st # <<>>
  <2>1. /\ UNCHANGED <<mode, proc, spc, srv_child, child_stopped, stop_soon, ctl,
                       timer>>
        /\ child_pid' = Head(st).pid /\ st' = Tail(st) /\ fpc' = "arm"
    BY <1>2 DEF GetPid, Eof, fuzzer, server, ServerVars
  <2>2. StartInv' /\ ChildInv' /\ DeadInv' /\ NoneLeft'
    BY <1>1, <2>1, RunFrame DEF Starting
  <2>3. child_pid' \in Children
    BY <1>1, <1>2, <2>1, Heads, Messages
  <2>4. PidInv'
    BY <2>1, <2>3 DEF PidInv, Children
  <2>5. PipeInv' /\ BornInv'
    <3>1. CASE Told /\ Tail(st) = <<>>
      <4>1. ctl' = <<>> /\ st' = <<>> /\ spc' \in {"wait", "relay", "dead"}
        BY <2>1, <3>1 DEF Told
      <4> QED
        BY <2>1, <4>1, Pipes DEF PipeInv, BornInv, Waits, Quiet, Settled,
                                Answered, ToldAll
    <3>2. ASSUME NEW m \in StatusMsgs, ToldAll, Tail(st) = <<m>>
          PROVE  PipeInv' /\ BornInv'
      <4>1. ctl' = <<>> /\ st' = <<m>> /\ spc' \in {"read", "dead"}
        BY <2>1, <3>2 DEF ToldAll
      <4>2. \A c \in Children : proc'[c] # "born"
        BY <1>1, <2>1, <3>2 DEF IInv, ServerInv, BornInv
      <4> QED
        BY <2>1, <4>1, <4>2 DEF PipeInv, BornInv, Answered, Settled
    <3> QED
      BY <1>1, <1>2, <3>1, <3>2, Heads
  <2> QED
    BY <2>2, <2>4, <2>5 DEF ServerInv
<1>3. CASE st = <<>>
  <2>1. Eof(st, ServerEnds) /\ PipeFails
    BY <1>3 DEF GetPid
  <2> QED
    BY <1>1, <2>1, EofMeans, FailureCore
<1> QED
  BY <1>2, <1>3

LEMMA GetStatusCore ==
  ASSUME IInv, mode # "dumb", GetStatus
  PROVE  ServerInv' /\ PidInv' /\ NoneLeft'
<1>1. fpc = "getstatus"
  BY DEF GetStatus
<1>2. CASE st # <<>>
  <2>1. /\ UNCHANGED <<mode, proc, spc, srv_child, child_stopped, stop_soon, ctl,
                       timer, child_pid>>
        /\ st' = Tail(st) /\ fpc' = "clear"
    BY <1>2 DEF GetStatus, Eof, fuzzer, server, ServerVars
  <2>2. StartInv' /\ ChildInv' /\ DeadInv' /\ NoneLeft'
    BY <1>1, <2>1, RunFrame DEF Starting
  <2>3. Answered /\ Tail(st) = <<>>
    BY <1>1, <1>2, Heads
  <2>4. PipeInv'
    BY <2>1, <2>3 DEF PipeInv, Answered, Settled
  <2>5. BornInv'
    BY <1>1, <2>1, <2>3 DEF IInv, ServerInv, BornInv
  <2>6. PidInv'
    BY <1>1, <2>1 DEF IInv, PidInv
  <2> QED
    BY <2>2, <2>4, <2>5, <2>6 DEF ServerInv
<1>3. CASE st = <<>>
  <2>1. Eof(st, ServerEnds) /\ PipeFails
    BY <1>3 DEF GetStatus
  <2> QED
    BY <1>1, <2>1, EofMeans, FailureCore
<1> QED
  BY <1>2, <1>3

(* The server starts, and the handshake ends. *)
LEMMA HandshakeCore ==
  ASSUME IInv, mode # "dumb", Spawn \/ Handshake
  PROVE  ServerInv' /\ PidInv' /\ NoneLeft'
<1>1. CASE Spawn
  <2>1. /\ fpc = "init" /\ fpc' = "hello" /\ spc' = "boot"
        /\ UNCHANGED <<mode, proc, srv_child, child_stopped, ctl, st, runs,
                       child_pid>>
    BY <1>1 DEF Spawn, fuzzer, ServerVars
  <2>2. StartInv'
    BY <2>1 DEF IInv, ServerInv, StartInv, Starting
  <2>3. PipeInv' /\ BornInv' /\ DeadInv'
    BY <2>1 DEF PipeInv, BornInv, DeadInv, Settled, ToldAll
  <2>4. ChildInv' /\ PidInv'
    BY <2>1 DEF ChildInv, PidInv
  <2>5. NoneLeft'
    BY <2>1 DEF IInv, NoneLeft
  <2> QED
    BY <2>2, <2>3, <2>4, <2>5 DEF ServerInv
<1>2. CASE Handshake
  <2>1. /\ fpc \in {"up", "down"} /\ timer' = FALSE
        /\ fpc' \in {"idle", "failed"}
        /\ UNCHANGED <<mode, proc, spc, srv_child, child_stopped, ctl, st,
                       stop_soon>>
    BY <1>2 DEF Handshake, fuzzer, server, ServerVars
  <2>2. /\ \A c \in Children : proc[c] = "none"
        /\ ctl = <<>> /\ st = <<>> /\ spc \in {"read", "dead"}
    BY <2>1 DEF IInv, ServerInv, StartInv, Starting
  <2>3. ChildInv' /\ NoneLeft'
    BY <2>1, ChildKept DEF IInv
  <2>4. StartInv' /\ PipeInv'
    BY <2>1, <2>2 DEF StartInv, PipeInv, Starting, Settled
  <2>5. BornInv' /\ DeadInv'
    BY <2>1, <2>2 DEF BornInv, DeadInv
  <2>6. PidInv'
    BY <2>1 DEF PidInv
  <2> QED
    BY <2>3, <2>4, <2>5, <2>6 DEF ServerInv
<1> QED
  BY <1>1, <1>2

(* Before and after the exchange of a run afl-fuzz changes no pipe.        *)
LEMMA SettledCore ==
  ASSUME IInv, mode # "dumb",
         \/ BeginRun \/ Clear \/ Disarm \/ Verdict \/ EndDryRun \/ EnterLoop
         \/ AskToStop
  PROVE  ServerInv' /\ PidInv' /\ NoneLeft'
<1>1. /\ fpc \in {"idle", "clear", "disarm", "verdict"}
      /\ fpc' \in {"send", "idle", "disarm", "verdict", "ended"}
      /\ UNCHANGED <<mode, proc, spc, srv_child, child_stopped, ctl, st>>
  BY DEF BeginRun, Clear, Disarm, Verdict, EndDryRun, EnterLoop, AskToStop,
         fuzzer, server, ServerVars
<1>2. stop_soon' = stop_soon \/ (stop_soon = 0 /\ stop_soon' = 2)
  BY DEF BeginRun, Clear, Disarm, Verdict, EndDryRun, EnterLoop, AskToStop,
         fuzzer
<1>3. /\ timer' => timer
      /\ child_pid' = -1 => child_pid = -1
  BY DEF BeginRun, Clear, Disarm, Verdict, EndDryRun, EnterLoop, AskToStop,
         fuzzer
<1>4. StartInv' /\ ChildInv' /\ DeadInv' /\ NoneLeft'
  BY <1>1, <1>2, RunFrame DEF Starting
<1>5. PipeInv'
  BY <1>1 DEF IInv, ServerInv, PipeInv, Settled
<1>6. BornInv'
  BY <1>1 DEF IInv, ServerInv, BornInv, Settled
<1>7. PidInv'
  BY <1>1, <1>3 DEF IInv, PidInv
<1> QED
  BY <1>4, <1>5, <1>6, <1>7 DEF ServerInv

LEMMA ArmCore ==
  ASSUME IInv, mode # "dumb", Arm
  PROVE  ServerInv' /\ PidInv' /\ NoneLeft'
<1>1. /\ fpc = "arm" /\ fpc' = "getstatus"
      /\ UNCHANGED <<mode, proc, spc, srv_child, child_stopped, ctl, st,
                     stop_soon, child_pid>>
  BY DEF Arm, fuzzer, server, ServerVars
<1>2. StartInv' /\ ChildInv' /\ DeadInv' /\ NoneLeft'
  BY <1>1, RunFrame DEF Starting
<1>3. PipeInv'
  BY <1>1 DEF IInv, ServerInv, PipeInv, Waits, Answered, Quiet, Settled
<1>4. BornInv'
  BY <1>1 DEF IInv, ServerInv, BornInv, Answered, ToldAll, Settled
<1>5. PidInv'
  BY <1>1 DEF IInv, PidInv, Children
<1> QED
  BY <1>2, <1>3, <1>4, <1>5 DEF ServerInv

LEMMA EndCore ==
  ASSUME IInv, mode # "dumb", EndFuzzing
  PROVE  ServerInv' /\ PidInv' /\ NoneLeft'
<1>1. /\ fpc = "leave" /\ fpc' = "ended"
      /\ UNCHANGED <<mode, proc, spc, srv_child, child_stopped, ctl, st,
                     timer, child_pid>>
  BY DEF EndFuzzing, fuzzer, server, ServerVars
<1>2. ChildInv' /\ NoneLeft'
  BY <1>1, ChildKept DEF IInv
<1>3. StartInv' /\ DeadInv'
  BY <1>1 DEF StartInv, DeadInv, Starting
<1>4. PipeInv' /\ BornInv'
  BY <1>1 DEF IInv, ServerInv, PipeInv, BornInv, Settled
<1>5. PidInv'
  BY <1>1 DEF IInv, PidInv
<1> QED
  BY <1>2, <1>3, <1>4, <1>5 DEF ServerInv

-----------------------------------------------------------------------------
(* What holds of a child that lives, or of one that is killed.             *)
LEMMA KillKeeps ==
  ASSUME IInv, mode # "dumb", proc' = Killed(child_pid),
         UNCHANGED <<mode, srv_child, child_stopped>>
  PROVE  /\ NoneLeft'
         /\ \A c \in Children :
              /\ proc'[c] = "born" => proc[c] = "born"
              /\ proc'[c] = "run" => proc[c] = "run"
              /\ proc[c] = "none" => proc'[c] = "none"
<1>1. \A c \in Children :
        proc'[c] = IF c = child_pid /\ proc[c] \in Live THEN "killed" ELSE proc[c]
  BY KilledProc DEF IInv
<1>2. NoneLeft'
  BY <1>1 DEF IInv, NoneLeft, Live
<1> QED
  BY <1>1, <1>2 DEF Live

(* afl-fuzz kills the server and the current child. *)
LEMMA KillBothCore ==
  ASSUME IInv, mode # "dumb", KillBoth, UNCHANGED <<mode, ServerVars, ctl, st, runs>>,
         UNCHANGED <<child_pid, timer>>,
         \/ stop_soon' = 1 /\ fpc' = fpc
         \/ fpc = "idle" /\ fpc' = "leave" /\ stop_soon' = stop_soon
  PROVE  ServerInv' /\ PidInv' /\ NoneLeft'
<1>1. /\ proc' = Killed(child_pid)
      /\ spc' = IF spc = "none" THEN spc ELSE "dead"
      /\ UNCHANGED <<mode, srv_child, child_stopped>>
  BY DEF KillBoth, ServerVars
<1>2. /\ NoneLeft'
      /\ \A c \in Children :
           /\ proc'[c] = "born" => proc[c] = "born"
           /\ proc[c] = "none" => proc'[c] = "none"
  BY <1>1, KillKeeps
<1>3. UNCHANGED <<ctl, st, runs>>
  OBVIOUS
<1>4. spc' \in {"none", "dead"}
  BY <1>1
<1>5. StartInv'
  <2>1. CASE fpc' \in Starting
    <3>1. fpc' = fpc
      BY <2>1 DEF Starting
    <3> QED
      BY <1>1, <1>2, <1>3, <2>1, <3>1 DEF IInv, ServerInv, StartInv, Starting
  <2>2. CASE fpc' \notin Starting
    BY <2>2 DEF StartInv, Starting
  <2> QED
    BY <2>1, <2>2
<1>6. ChildInv'
  BY <1>4 DEF ChildInv
<1>7. DeadInv'
  BY DEF DeadInv
<1>8. PipeInv'
  <2>1. fpc' \in Settled => spc' = "dead" /\ st' = <<>>
                            /\ ctl' \in {<<>>, <<TRUE>>, <<FALSE>>}
    BY <1>1 DEF IInv, ServerInv, PipeInv, Settled
  <2>2. ASSUME fpc' = "getpid" PROVE (Asked \/ Starts \/ Told \/ ToldAll)'
    BY <1>1, <2>2 DEF IInv, ServerInv, PipeInv, Asked, Starts, Told, ToldAll, Quiet
  <2>3. ASSUME fpc' \in {"arm", "getstatus"} PROVE (Waits \/ Answered)'
    BY <1>1, <2>3 DEF IInv, ServerInv, PipeInv, Waits, Answered, Quiet
  <2> QED
    BY <2>1, <2>2, <2>3 DEF PipeInv
<1>9. BornInv'
  <2>1. fpc' \in Settled => fpc \in Settled
    BY DEF Settled
  <2>2. fpc' = "getpid" /\ ToldAll' => fpc = "getpid" /\ ToldAll
    BY <1>1, <1>3, Pipes
    DEF IInv, ServerInv, PipeInv, Asked, Starts, Told, ToldAll, Quiet
  <2>3. fpc' \in {"arm", "getstatus"} /\ Answered' =>
          fpc \in {"arm", "getstatus"} /\ Answered
    BY <1>1, <1>3, Pipes DEF IInv, ServerInv, PipeInv, Waits, Answered, Quiet
  <2>4. BornInv
    BY DEF IInv, ServerInv
  <2> QED
    BY <1>2, <2>1, <2>2, <2>3, <2>4 DEF BornInv
<1>10. PidInv'
  BY DEF IInv, PidInv
<1> QED
  BY <1>2, <1>5, <1>6, <1>7, <1>8, <1>9, <1>10 DEF ServerInv

LEMMA StopCore ==
  ASSUME IInv, mode # "dumb", StopFuzzing \/ Interrupt
  PROVE  ServerInv' /\ PidInv' /\ NoneLeft'
<1>1. CASE StopFuzzing
  <2>1. /\ fpc = "idle" /\ fpc' = "leave" /\ stop_soon' = stop_soon
        /\ UNCHANGED <<mode, ServerVars, ctl, st, runs>>
        /\ UNCHANGED <<child_pid, timer>>
    BY <1>1 DEF StopFuzzing, fuzzer
  <2>2. CASE stop_soon = 2
    <3>1. KillBoth
      BY <1>1, <2>2 DEF StopFuzzing
    <3> QED
      BY <2>1, <3>1, KillBothCore
  <2>3. CASE stop_soon # 2
    <3>1. UNCHANGED <<proc, spc, srv_child, child_stopped>>
      BY <1>1, <2>3 DEF StopFuzzing, ServerVars
    <3>2. StartInv' /\ ChildInv' /\ DeadInv' /\ NoneLeft'
      BY <2>1, <3>1, RunFrame DEF Starting
    <3>3. PipeInv' /\ BornInv'
      BY <2>1, <3>1 DEF IInv, ServerInv, PipeInv, BornInv, Settled
    <3>4. PidInv'
      BY <2>1 DEF IInv, PidInv
    <3> QED
      BY <3>2, <3>3, <3>4 DEF ServerInv
  <2> QED
    BY <2>2, <2>3
<1>2. CASE Interrupt
  <2>1. /\ stop_soon' = 1 /\ fpc' = fpc /\ KillBoth
        /\ UNCHANGED <<mode, ServerVars, ctl, st, runs>>
        /\ UNCHANGED <<child_pid, timer>>
    BY <1>2 DEF Interrupt
  <2> QED
    BY <2>1, KillBothCore
<1> QED
  BY <1>1, <1>2

(* The timeout kills the child, or the server in the handshake.            *)
LEMMA AlarmCore ==
  ASSUME IInv, mode # "dumb", Alarm
  PROVE  ServerInv' /\ PidInv' /\ NoneLeft'
<1>1. /\ timer /\ timer' = FALSE
      /\ UNCHANGED <<mode, fpc, runs, stop_soon, child_pid, ctl, st>>
      /\ UNCHANGED <<srv_child, child_stopped>>
  BY DEF Alarm, server, ServerVars
<1>2. PidInv'
  <2>1. fpc = "arm" => child_pid' \in Children
    BY <1>1 DEF IInv, PidInv
  <2> QED
    BY <1>1, <2>1 DEF PidInv
<1>3. CASE child_pid > 0
  <2>1. proc' = Killed(child_pid) /\ spc' = spc
    BY <1>3 DEF Alarm, server
  <2>2. /\ NoneLeft'
        /\ \A c \in Children :
             /\ proc'[c] = "born" => proc[c] = "born"
             /\ proc'[c] = "run" => proc[c] = "run"
             /\ proc[c] = "none" => proc'[c] = "none"
    BY <1>1, <2>1, KillKeeps
  <2>3. StartInv'
    BY <1>1, <2>1, <2>2 DEF IInv, ServerInv, StartInv
  <2>4. PipeInv'
    BY <1>1, <2>1
    DEF IInv, ServerInv, PipeInv, Asked, Starts, Told, ToldAll, Waits, Answered,
        Quiet
  <2>5. BornInv'
    <3>1. BornInv
      BY DEF IInv, ServerInv
    <3> QED
      BY <1>1, <2>1, <2>2, <3>1 DEF BornInv, ToldAll, Answered
  <2>6. DeadInv'
    <3>1. DeadInv
      BY DEF IInv, ServerInv
    <3> QED
      BY <1>1, <2>1, <2>2, <3>1 DEF DeadInv
  <2>7. ChildInv'
    <3>1. \A c \in Children :
            proc'[c] = IF c = child_pid /\ proc[c] \in Live THEN "killed"
                       ELSE proc[c]
      BY <2>1, KilledProc DEF IInv
    <3>2. ChildInv
      BY DEF IInv, ServerInv
    <3> QED
      BY <1>1, <2>1, <3>1, <3>2 DEF ChildInv, Empty, Live
  <2> QED
    BY <1>2, <2>2, <2>3, <2>4, <2>5, <2>6, <2>7 DEF ServerInv
<1>4. CASE child_pid = -1 /\ spc # "none"
  <2>1. spc' = "dead" /\ proc' = proc
    BY <1>4 DEF Alarm
  <2>2. fpc \in {"hello", "up", "down"}
    BY <1>1, <1>4 DEF IInv, PidInv
  <2>3. \A c \in Children : proc[c] = "none"
    BY <2>2 DEF IInv, ServerInv, StartInv, Starting
  <2>4. StartInv'
    BY <1>1, <2>1, <2>2 DEF IInv, ServerInv, StartInv, Starting
  <2>5. PipeInv' /\ ChildInv'
    BY <1>1, <2>1, <2>2 DEF PipeInv, ChildInv, Settled
  <2>6. BornInv' /\ DeadInv'
    BY <1>1, <2>1, <2>3 DEF BornInv, DeadInv
  <2>7. NoneLeft'
    BY <1>1, <2>1 DEF IInv, NoneLeft
  <2> QED
    BY <1>2, <2>4, <2>5, <2>6, <2>7 DEF ServerInv
<1>5. CASE ~(child_pid > 0) /\ ~(child_pid = -1 /\ spc # "none")
  <2>1. UNCHANGED <<proc, spc>>
    BY <1>5 DEF Alarm, server
  <2>2. ChildInv' /\ NoneLeft'
    BY <1>1, <2>1, ChildKept DEF IInv
  <2>3. StartInv' /\ PipeInv' /\ DeadInv'
    BY <1>1, <2>1
    DEF IInv, ServerInv, StartInv, PipeInv, DeadInv, Asked, Starts, Told,
        ToldAll, Waits, Answered, Quiet
  <2>4. BornInv'
    <3>1. BornInv
      BY DEF IInv, ServerInv
    <3> QED
      BY <1>1, <2>1, <3>1 DEF BornInv, ToldAll, Answered
  <2> QED
    BY <1>2, <2>2, <2>3, <2>4 DEF ServerInv
<1> QED
  BY <1>3, <1>4, <1>5

-----------------------------------------------------------------------------
(***************************************************************************)
(* The fork server and the children                                        *)
(***************************************************************************)
(* afl-fuzz waits for the server wherever the server is at work.           *)
LEMMA ServerAtWork ==
  ASSUME IInv, mode # "dumb"
  PROVE  /\ spc \in {"writeoff", "start", "tell"} =>
              fpc = "getpid" /\ ctl = <<>> /\ st = <<>>
         /\ spc \in {"wait", "relay"} =>
              /\ ctl = <<>>
              /\ \/ fpc = "getpid" /\ st = <<Pid(srv_child)>>
                 \/ fpc \in {"arm", "getstatus"} /\ st = <<>>
         /\ spc = "boot" => fpc = "hello" /\ st = <<>>
         /\ spc = "read" /\ ctl # <<>> => fpc = "getpid" /\ st = <<>>
BY DEF IInv, ScalarsOK, FuzzerPCs, Running, ServerInv, StartInv, PipeInv,
       Starting, Settled, Asked, Starts, Told, ToldAll, Waits, Answered, Quiet

LEMMA BootCore ==
  ASSUME IInv, mode # "dumb", SayHello \/ BootFails
  PROVE  ServerInv' /\ PidInv' /\ NoneLeft'
<1>1. /\ spc = "boot"
      /\ UNCHANGED <<mode, fpc, proc, srv_child, child_stopped, ctl, timer,
                     child_pid, runs, stop_soon>>
  BY DEF SayHello, BootFails, ServerVars, ServerOnly, fuzzer
<1>2. fpc = "hello" /\ st = <<>> /\ FuzzerUp
  BY <1>1, ServerAtWork DEF FuzzerUp
<1>3. \/ spc' = "read" /\ st' = <<Hello>>
      \/ spc' = "dead" /\ st' = <<>>
  <2>1. CASE SayHello
    <3>1. spc' = "read" /\ st' = Append(st, Hello)
      BY <1>2, <2>1 DEF SayHello
    <3>2. Append(<<>>, Hello) = <<Hello>>
      BY Pipes
    <3>3. st = <<>>
      BY <1>2
    <3>4. st' = <<Hello>>
      BY <3>1, <3>2, <3>3, Zenon
    <3> QED
      BY <3>1, <3>4
  <2>2. CASE BootFails
    BY <1>2, <2>2 DEF BootFails
  <2> QED
    BY <2>1, <2>2
<1>4. \A c \in Children : proc[c] = "none"
  BY <1>2 DEF IInv, ServerInv, StartInv, Starting
<1>5. StartInv'
  BY <1>1, <1>2, <1>3 DEF IInv, ServerInv, StartInv, Starting
<1>6. PipeInv'
  BY <1>1, <1>2 DEF PipeInv, Settled
<1>7. ChildInv'
  BY <1>1, <1>2, <1>3, <1>4
  DEF IInv, ServerInv, StartInv, Starting, ChildInv, Empty
<1>8. BornInv' /\ DeadInv'
  BY <1>1, <1>4 DEF BornInv, DeadInv
<1>9. PidInv' /\ NoneLeft'
  BY <1>1 DEF IInv, PidInv, NoneLeft
<1> QED
  BY <1>5, <1>6, <1>7, <1>8, <1>9 DEF ServerInv

(* Between two test cases the server has no child that runs.               *)
LEMMA NoneRuns ==
  ASSUME IInv, mode # "dumb", spc \in {"read", "writeoff", "start", "relay"}
  PROVE  \A c \in Children : proc[c] \notin {"born", "run"}
<1>1. ChildInv /\ NoneLeft
  BY DEF IInv, ServerInv
<1>2. CASE child_stopped
  BY <1>1, <1>2 DEF ChildInv, NoneLeft
<1>3. CASE ~child_stopped
  BY <1>1, <1>3 DEF ChildInv, Empty
<1> QED
  BY <1>2, <1>3

(* What a step of the server at work leaves to prove. *)
LEMMA ServerFrame ==
  ASSUME IInv, mode # "dumb", ServerOnly, fpc \notin Starting
  PROVE  /\ StartInv' /\ PidInv'
         /\ UNCHANGED <<fpc, mode, stop_soon, runs, child_pid, timer>>
<1>1. UNCHANGED <<fpc, mode, stop_soon, runs, child_pid, timer>>
  BY DEF ServerOnly, fuzzer
<1> QED
  BY <1>1 DEF IInv, StartInv, PidInv, Starting

LEMMA ReadRequestCore ==
  ASSUME IInv, mode # "dumb", ReadRequest
  PROVE  ServerInv' /\ PidInv' /\ NoneLeft'
<1>1. /\ spc = "read" /\ ServerOnly
      /\ UNCHANGED <<srv_child, child_stopped, proc, st>>
  BY DEF ReadRequest
<1>2. \A c \in Children : proc[c] \notin {"born", "run"}
  BY <1>1, NoneRuns
<1>3. BornInv'
  BY <1>1, <1>2 DEF BornInv
<1>4. DeadInv'
  BY <1>1, <1>2 DEF DeadInv
<1>5. NoneLeft'
  BY <1>1 DEF IInv, NoneLeft, ServerOnly, fuzzer
<1>6. CASE ctl # <<>>
  <2>1. fpc = "getpid" /\ Asked
    BY <1>1, <1>6, ServerAtWork
    DEF IInv, ServerInv, PipeInv, Starts, Told, ToldAll, Quiet
  <2>2. /\ ctl' = <<>> /\ st' = <<>>
        /\ spc' = "start" \/ (spc' = "writeoff" /\ child_stopped)
    BY <1>1, <1>6, <2>1, Pipes, ZenonT(30) DEF ReadRequest, Eof, Asked
  <2>3. /\ StartInv' /\ PidInv' /\ fpc' = "getpid"
    BY <1>1, <2>1, ServerFrame DEF Starting
  <2>4. PipeInv'
    BY <2>2, <2>3 DEF PipeInv, Starts, Quiet, Settled
  <2>5. ChildInv'
    BY <1>1, <2>2 DEF IInv, ServerInv, ChildInv, Empty
  <2> QED
    BY <1>3, <1>4, <1>5, <2>3, <2>4, <2>5 DEF ServerInv
<1>7. CASE ctl = <<>>
  <2>1. Eof(ctl, FuzzerUp) /\ spc' = "dead" /\ ctl' = ctl
    BY <1>7 DEF ReadRequest
  <2>2. fpc \in {"ended", "failed"}
    BY <2>1 DEF Eof, FuzzerUp
  <2>3. StartInv' /\ PidInv' /\ fpc' = fpc
    BY <1>1, <2>2, ServerFrame DEF Starting
  <2>4. PipeInv'
    BY <1>1, <2>1, <2>2, <2>3 DEF IInv, ServerInv, PipeInv, Settled
  <2>5. ChildInv'
    BY <2>1 DEF ChildInv
  <2> QED
    BY <1>3, <1>4, <1>5, <2>3, <2>4, <2>5 DEF ServerInv
<1> QED
  BY <1>6, <1>7

LEMMA StartChildCore ==
  ASSUME IInv, mode # "dumb", WriteOff \/ Fork \/ Wake
  PROVE  ServerInv' /\ PidInv' /\ NoneLeft'
<1>1. spc \in {"writeoff", "start"} /\ ServerOnly /\ UNCHANGED <<ctl, st>>
  BY DEF WriteOff, Fork, Wake
<1>2. fpc = "getpid" /\ ctl = <<>> /\ st = <<>>
  BY <1>1, ServerAtWork
<1>3. StartInv' /\ PidInv' /\ UNCHANGED <<fpc, mode, stop_soon>>
  BY <1>1, <1>2, ServerFrame DEF Starting
<1>4. spc' \in {"start", "tell", "dead"}
  BY DEF WriteOff, Fork, Wake
<1>5. PipeInv'
  BY <1>1, <1>2, <1>3, <1>4 DEF PipeInv, Starts, Quiet, Settled
<1>6. BornInv'
  BY <1>1, <1>2, <1>3, Pipes DEF BornInv, ToldAll, Settled
<1>7. DeadInv' /\ ChildInv' /\ NoneLeft'
  <2> USE DEF IInv, ServerInv, ChildInv, DeadInv, NoneLeft, Empty, ScalarsOK
  <2>1. CASE WriteOff
    <3>1. /\ srv_child \in Children /\ proc' = [proc EXCEPT ![srv_child] = "gone"]
          /\ spc = "writeoff" /\ spc' = "start" /\ srv_child' = srv_child
          /\ child_stopped' = FALSE
      BY <2>1 DEF WriteOff
    <3>2. \A c \in Children : proc'[c] \in {"none", "gone"}
      BY <1>1, <3>1
    <3> QED
      BY <1>3, <3>1, <3>2
  <2>2. CASE Fork
    <3>1. Empty /\ spc = "start" /\ ~child_stopped /\ child_stopped' = child_stopped
      BY <2>2 DEF Fork
    <3>2. CASE spc' = "dead"
      <4>1. UNCHANGED <<proc, srv_child>>
        BY <2>2, <3>2 DEF Fork
      <4> QED
        BY <1>3, <3>1, <3>2, <4>1
    <3>3. ASSUME NEW c \in Children, proc' = [proc EXCEPT ![c] = "born"],
                 srv_child' = c, spc' = "tell"
          PROVE  DeadInv' /\ ChildInv' /\ NoneLeft'
      BY <1>3, <3>1, <3>3
    <3> QED
      BY <2>2, <3>2, <3>3 DEF Fork
  <2>3. CASE Wake
    <3>1. /\ spc = "start" /\ child_stopped /\ srv_child' = srv_child
          /\ srv_child \in Children /\ spc' = "tell" /\ child_stopped' = FALSE
      BY <2>3 DEF Wake
    <3>2. proc' = proc \/ proc' = [proc EXCEPT ![srv_child] = "run"]
      BY <2>3 DEF Wake
    <3> QED
      BY <1>3, <3>1, <3>2
  <2> QED
    BY <2>1, <2>2, <2>3
<1> QED
  BY <1>3, <1>5, <1>6, <1>7 DEF ServerInv

LEMMA TellPidCore ==
  ASSUME IInv, mode # "dumb", TellPid
  PROVE  ServerInv' /\ PidInv' /\ NoneLeft'
<1>1. /\ spc = "tell" /\ ServerOnly
      /\ UNCHANGED <<srv_child, child_stopped, proc, ctl>>
  BY DEF TellPid, Write, ServerVars
<1>2. fpc = "getpid" /\ ctl = <<>> /\ st = <<>> /\ FuzzerUp
  BY <1>1, ServerAtWork DEF FuzzerUp
<1>3. spc' = "wait" /\ st' = <<Pid(srv_child)>>
  BY <1>2, Pipes DEF TellPid, Write
<1>4. StartInv' /\ PidInv' /\ UNCHANGED <<fpc, mode, stop_soon>>
  BY <1>1, <1>2, ServerFrame DEF Starting
<1>5. srv_child \in Children /\ ChildInv'
  BY <1>1, <1>3 DEF IInv, ServerInv, ChildInv
<1>6. PipeInv'
  BY <1>1, <1>2, <1>3, <1>4, <1>5 DEF PipeInv, Told, Settled
<1>7. BornInv' /\ DeadInv'
  BY <1>1, <1>2, <1>3, <1>4, Pipes DEF BornInv, DeadInv, ToldAll, Settled
<1>8. NoneLeft'
  BY <1>1, <1>4 DEF IInv, NoneLeft
<1> QED
  BY <1>4, <1>5, <1>6, <1>7, <1>8 DEF ServerInv

LEMMA WaitCore ==
  ASSUME IInv, mode # "dumb", WaitDead \/ WaitStopped
  PROVE  ServerInv' /\ PidInv' /\ NoneLeft'
<1>1. /\ spc = "wait" /\ spc' = "relay" /\ ServerOnly
      /\ UNCHANGED <<srv_child, ctl, st>>
  BY DEF WaitDead, WaitStopped
<1>2. /\ ctl = <<>>
      /\ \/ fpc = "getpid" /\ st = <<Pid(srv_child)>>
         \/ fpc \in {"arm", "getstatus"} /\ st = <<>>
  BY <1>1, ServerAtWork
<1>3. StartInv' /\ PidInv' /\ UNCHANGED <<fpc, mode, stop_soon>>
  BY <1>1, <1>2, ServerFrame DEF Starting
<1>4. srv_child \in Children /\ ~child_stopped
  BY <1>1 DEF IInv, ServerInv, ChildInv
<1>5. PipeInv'
  BY <1>1, <1>2, <1>3, <1>4 DEF PipeInv, Told, Waits, Quiet, Settled
<1>6. BornInv'
  BY <1>1, <1>2, <1>3, Pipes DEF BornInv, ToldAll, Answered, Settled
<1>7. DeadInv'
  BY <1>1 DEF DeadInv
<1>8. ChildInv' /\ NoneLeft'
  <2> USE DEF IInv, ServerInv, ChildInv, NoneLeft, Empty, ScalarsOK
  <2>1. CASE WaitDead
    <3>1. /\ proc' = [proc EXCEPT ![srv_child] = "gone"]
          /\ child_stopped' = child_stopped
      BY <2>1 DEF WaitDead
    <3>2. \A c \in Children : proc'[c] \in {"none", "gone"}
      BY <1>4, <3>1
    <3> QED
      BY <1>1, <1>3, <1>4, <3>1, <3>2
  <2>2. CASE WaitStopped
    <3>1. proc' = proc /\ child_stopped' = TRUE /\ proc[srv_child] = "stopped"
      BY <2>2 DEF WaitStopped
    <3> QED
      BY <1>1, <1>3, <1>4, <3>1
  <2> QED
    BY <2>1, <2>2
<1> QED
  BY <1>3, <1>5, <1>6, <1>7, <1>8 DEF ServerInv

LEMMA RelayCore ==
  ASSUME IInv, mode # "dumb", Relay
  PROVE  ServerInv' /\ PidInv' /\ NoneLeft'
<1>1. /\ spc = "relay" /\ ServerOnly
      /\ UNCHANGED <<srv_child, child_stopped, proc, ctl>>
  BY DEF Relay, Write, ServerVars
<1>2. /\ ctl = <<>>
      /\ \/ fpc = "getpid" /\ st = <<Pid(srv_child)>>
         \/ fpc \in {"arm", "getstatus"} /\ st = <<>>
  BY <1>1, ServerAtWork
<1>3. FuzzerUp
  BY <1>2 DEF FuzzerUp
<1>4. spc' = "read" /\ st' = Append(st, Status(srv_status))
  BY <1>3 DEF Relay, Write
<1>5. StartInv' /\ PidInv' /\ UNCHANGED <<fpc, mode, stop_soon>>
  BY <1>1, <1>2, ServerFrame DEF Starting
<1>6. Status(srv_status) \in StatusMsgs
  BY DEF StatusMsgs, IInv, ScalarsOK
<1>7. srv_child \in Children /\ ChildInv'
  BY <1>1, <1>4 DEF IInv, ServerInv, ChildInv, Empty
<1>8. PipeInv'
  <2>1. CASE fpc = "getpid"
    <3>1. st = <<Pid(srv_child)>>
      BY <1>2, <2>1
    <3>2. Append(<<Pid(srv_child)>>, Status(srv_status)) =
            <<Pid(srv_child), Status(srv_status)>>
      BY Pipes
    <3>3. st' = <<Pid(srv_child), Status(srv_status)>>
      BY <1>4, <3>1, <3>2
    <3> QED
      BY <1>1, <1>2, <1>4, <1>5, <1>6, <1>7, <2>1, <3>3
      DEF PipeInv, ToldAll, Settled
  <2>2. CASE fpc # "getpid"
    <3>1. st' = <<Status(srv_status)>>
      BY <1>2, <1>4, <2>2, Pipes
    <3> QED
      BY <1>1, <1>2, <1>4, <1>5, <1>6, <2>2, <3>1
      DEF PipeInv, Answered, Settled
  <2> QED
    BY <2>1, <2>2
<1>9. BornInv'
  BY <1>1, NoneRuns DEF BornInv
<1>10. DeadInv'
  BY <1>4 DEF DeadInv
<1>11. NoneLeft'
  BY <1>1, <1>5 DEF IInv, NoneLeft
<1> QED
  BY <1>5, <1>7, <1>8, <1>9, <1>10, <1>11 DEF ServerInv

(* A child goes on: only the current one can. *)
LEMMA ChildCore ==
  ASSUME IInv, mode # "dumb", NEW c \in Children,
         ClosePipes(c) \/ Exit(c) \/ Crash(c) \/ ExecFails(c) \/ Stop(c)
  PROVE  ServerInv' /\ PidInv' /\ NoneLeft'
<1>1. /\ UNCHANGED <<fpc, mode, runs, stop_soon, child_pid, timer, spc>>
      /\ UNCHANGED <<srv_child, child_stopped, ctl, st>>
  BY DEF ClosePipes, Exit, Crash, ExecFails, Stop, ChildStep, fuzzer, server,
         ServerVars
<1>2. /\ proc[c] \in {"born", "run"}
      /\ \E to \in {"run", "stopped"} \cup Ends :
           /\ proc' = [proc EXCEPT ![c] = to]
           /\ to = "run" => proc[c] = "born"
  BY DEF ClosePipes, Exit, Crash, ExecFails, Stop, ChildStep, Ends
<1>3. PICK to \in {"run", "stopped"} \cup Ends :
        proc' = [proc EXCEPT ![c] = to] /\ (to = "run" => proc[c] = "born")
  BY <1>2
<1>4. c = srv_child
  BY <1>2 DEF IInv, NoneLeft
<1>5. \A d \in Children : proc'[d] = IF d = c THEN to ELSE proc[d]
  BY <1>3 DEF IInv, ScalarsOK
<1>6. to \notin {"none", "gone", "born"}
  BY DEF Ends
<1>7. StartInv' /\ PidInv'
  BY <1>1, <1>2, <1>5 DEF IInv, ServerInv, StartInv, PidInv
<1>8. PipeInv'
  BY <1>1
  DEF IInv, ServerInv, PipeInv, Asked, Starts, Told, ToldAll, Waits, Answered,
      Quiet
<1>9. BornInv'
  <2>1. BornInv
    BY DEF IInv, ServerInv
  <2> QED
    BY <1>1, <1>5, <1>6, <2>1 DEF BornInv, ToldAll, Answered
<1>10. DeadInv'
  <2>1. DeadInv
    BY DEF IInv, ServerInv
  <2> QED
    BY <1>1, <1>2, <1>5, <2>1 DEF DeadInv
<1>11. ChildInv'
  <2>1. spc \notin {"read", "writeoff", "start", "relay"}
    BY <1>2, NoneRuns
  <2>2. ChildInv
    BY DEF IInv, ServerInv
  <2> QED
    BY <1>1, <1>5, <1>6, <2>1, <2>2 DEF ChildInv
<1>12. NoneLeft'
  BY <1>1, <1>4, <1>5 DEF IInv, NoneLeft
<1> QED
  BY <1>7, <1>8, <1>9, <1>10, <1>11, <1>12 DEF ServerInv

-----------------------------------------------------------------------------
LEMMA ServedStep == ASSUME IInv, mode # "dumb", Next PROVE IInv'
<1>1. mode' = mode
  BY DEF Next, FuzzerStep, Spawn, GetHello, Handshake, Send, PipeFails, GetPid,
         Arm, GetStatus, DumbWait, Clear, Disarm, Verdict, EndDryRun,
         StopFuzzing, EndFuzzing, BeginRun, DumbRun, EnterLoop, Alarm,
         Interrupt, AskToStop, ServerStep, ReadRequest, WriteOff, Fork, Wake,
         TellPid, WaitDead, WaitStopped, Relay, Write, SayHello, BootFails,
         ServerOnly, ClosePipes, Exit, Crash, ExecFails, Stop, ChildStep, fuzzer
<1>2. ~DumbWait /\ ~DumbRun
  BY DEF DumbWait, DumbRun
<1>3. ScalarsOK'
  BY <1>2, FuzzerScalars, SignalScalars, ServerScalars, ChildScalars DEF Next
<1>4. ServerInv' /\ PidInv' /\ NoneLeft'
  <2>1. CASE FuzzerStep \/ BeginRun \/ EnterLoop \/ AskToStop
    BY <1>2, <2>1, HandshakeCore, GetHelloCore, SendCore, GetPidCore, ArmCore,
       GetStatusCore, SettledCore, StopCore, EndCore
    DEF FuzzerStep
  <2>2. CASE Alarm \/ Interrupt
    BY <2>2, AlarmCore, StopCore
  <2>3. CASE ServerStep \/ SayHello \/ BootFails
    BY <2>3, BootCore, ReadRequestCore, StartChildCore, TellPidCore, WaitCore,
       RelayCore
    DEF ServerStep
  <2>4. ASSUME NEW c \in Children,
               \/ ClosePipes(c) \/ Exit(c) \/ Crash(c) \/ ExecFails(c)
               \/ Stop(c)
        PROVE  ServerInv' /\ PidInv' /\ NoneLeft'
    BY <2>4, ChildCore
  <2> QED
    BY <1>2, <2>1, <2>2, <2>3, <2>4 DEF Next
<1>5. DumbInv'
  BY <1>1 DEF DumbInv
<1> QED
  BY <1>3, <1>4, <1>5 DEF IInv

LEMMA StutterInv == ASSUME IInv, UNCHANGED vars PROVE IInv'
<1> USE DEF IInv, vars
<1>1. ScalarsOK'
  BY DEF ScalarsOK
<1>2. (ChildInv' /\ StartInv' /\ DeadInv') \/ mode' = "dumb"
  BY DEF ServerInv, StartInv, ChildInv, DeadInv, Empty
<1>3. PipeInv' \/ mode' = "dumb"
  BY DEF ServerInv, PipeInv, Asked, Starts, Told, ToldAll, Waits, Answered,
         Quiet
<1>4. BornInv' \/ mode' = "dumb"
  <2>1. BornInv \/ mode = "dumb"
    BY DEF ServerInv
  <2> QED
    BY <2>1 DEF BornInv, ToldAll, Answered
<1>5. DumbInv' /\ PidInv' /\ NoneLeft'
  BY DEF DumbInv, PidInv, NoneLeft, Empty, Quiet
<1> QED
  BY <1>1, <1>2, <1>3, <1>4, <1>5 DEF ServerInv

LEMMA InvSpec == Spec => []IInv
<1>1. Init => IInv
  BY InitInv
<1>2. IInv /\ [Next]_vars => IInv'
  BY DumbStep, ServedStep, StutterInv
<1> QED
  BY <1>1, <1>2, PTL DEF Spec
-----------------------------------------------------------------------------
(* Every variable stays within its type, and no pipe holds more than one   *)
(* request or one pair of answers: ForkServer!TypeOK, for run_target and   *)
(* the fork server in any interleaving with the signals.                   *)
THEOREM ForkServerTypes == Spec => []TypeOK
<1>1. IInv => TypeOK
  BY TypesFollow
<1> QED
  BY <1>1, InvSpec, PTL

(* The fork server has waited for every child but the last one.            *)
THEOREM NoChildLeft == Spec => []NoneLeft
<1>1. IInv => NoneLeft
  BY DEF IInv
<1> QED
  BY <1>1, InvSpec, PTL

(* afl-fuzz reads from the status pipe what it takes it for: the hello of  *)
(* init_forkserver, the process id and then the status in run_target, also *)
(* when a signal kills the child or the server in between.                 *)
THEOREM PipesInStep == Spec => []InStep
<1>1. ASSUME IInv PROVE InStep
  <2>1. CASE mode = "dumb"
    BY <1>1, <2>1 DEF IInv, DumbInv, Quiet, InStep
  <2>2. CASE mode # "dumb"
    <3>1. fpc = "hello" /\ st # <<>> => Head(st) = Hello
      <4>1. fpc = "hello" /\ st # <<>> => st = <<Hello>>
        BY <1>1, <2>2 DEF IInv, ServerInv, StartInv
      <4> QED
        BY <4>1, Pipes
    <3>2. fpc = "getpid" /\ st # <<>> => Head(st) = Pid(srv_child)
      BY <1>1, <2>2, Heads
    <3>3. ASSUME fpc = "getstatus", st # <<>>
          PROVE  Head(st) \notin Pids \cup {Hello}
      <4>1. st = <<Status(Head(st).status)>>
        BY <1>1, <2>2, <3>3, Heads
      <4>2. PICK s : st = <<Status(s)>>
        BY <4>1
      <4>3. Head(st) = Status(s)
        BY <4>2, Pipes
      <4> QED
        BY <4>3, Messages DEF Pids
    <3> QED
      BY <3>1, <3>2, <3>3 DEF InStep
  <2> QED
    BY <2>1, <2>2
<1> QED
  BY <1>1, InvSpec, PTL

(* Where the server is, once it is up and has nothing to answer, no child  *)
(* runs.                                                                   *)
LEMMA SettledLone ==
  ASSUME IInv, fpc \in {"idle", "send", "clear", "disarm", "verdict"},
         stop_soon # 1
  PROVE  \A c \in Children : proc[c] \notin {"born", "run"}
<1>1. CASE mode = "dumb"
  BY <1>1 DEF IInv, DumbInv, Empty
<1>2. CASE mode # "dumb"
  <2>1. spc \in {"read", "dead"}
    BY <1>2 DEF IInv, ServerInv, PipeInv, Settled
  <2>2. CASE spc = "read"
    BY <1>2, <2>2, NoneRuns
  <2>3. CASE spc = "dead"
    BY <1>2, <2>3 DEF IInv, ServerInv, DeadInv
  <2> QED
    BY <2>1, <2>2, <2>3
<1> QED
  BY <1>1, <1>2

(* No process runs the target while afl-fuzz reads or clears trace_bits.   *)
THEOREM TraceIsAlone == Spec => []LoneTracer
<1>1. IInv => LoneTracer
  BY SettledLone DEF LoneTracer
<1> QED
  BY <1>1, InvSpec, PTL
-----------------------------------------------------------------------------
(***************************************************************************)
(* The verdict                                                             *)
(***************************************************************************)
(* During the start of the server there is no test case and no verdict.    *)
LEMMA StartVerdicts ==
  ASSUME IInv, Verdicts, stop_soon = 0, Spawn \/ GetHello \/ Handshake
  PROVE  Verdicts'
<1>1. /\ fpc \in {"init", "hello", "up", "down"}
      /\ fpc' \in {"hello", "up", "down", "idle", "failed"}
      /\ timer' => fpc' # "idle"
      /\ spc' \in {spc, "boot"}
      /\ UNCHANGED <<mode, runs, proc, srv_child, child_stopped>>
  BY DEF Spawn, GetHello, Handshake, fuzzer, server, ServerVars
<1>2. mode # "dumb"
  BY <1>1 DEF IInv, DumbInv
<1>3. /\ \A c \in Children : proc[c] = "none"
      /\ ~child_stopped /\ runs = 0 /\ spc \in {"none", "boot", "read", "dead"}
  BY <1>1, <1>2 DEF IInv, ServerInv, StartInv, Starting
<1>4. HowInv'
  BY <1>1, <1>2, <1>3 DEF HowInv
<1>5. TimerInv'
  BY <1>1 DEF TimerInv
<1>6. StoppedInv'
  BY <1>1, <1>3 DEF StoppedInv
<1>7. VerdictTrue'
  BY <1>1, <1>3 DEF VerdictTrue
<1> QED
  BY <1>4, <1>5, <1>6, <1>7 DEF Verdicts

(* Where the server is between two runs. *)
LEMMA SettledServer ==
  ASSUME IInv, fpc \in Settled
  PROVE  st = <<>> /\ spc \in {"none", "read", "dead"}
BY DEF IInv, ServerInv, PipeInv, DumbInv, Quiet

LEMMA BeginVerdicts ==
  ASSUME IInv, Verdicts, stop_soon = 0, BeginRun \/ DumbRun
  PROVE  Verdicts'
<1>1. /\ fpc = "idle" /\ how' = "none" /\ runs \in 0..MaxRuns
      /\ runs' = runs + 1 /\ runs < MaxRuns
      /\ UNCHANGED <<mode, prev_timed_out, timer, spc, srv_child, child_stopped,
                     ctl, st>>
  BY DEF BeginRun, DumbRun, server, ServerVars, IInv, ScalarsOK
<1>2. st = <<>> /\ spc \in {"none", "read", "dead"}
  BY <1>1, SettledServer DEF Settled
<1>3. ~timer
  BY <1>1 DEF Verdicts, TimerInv
<1>4. StoppedInv
  BY DEF Verdicts
<1>5. CASE BeginRun
  <2>1. fpc' = "send" /\ mode # "dumb" /\ proc' = proc
    BY <1>5 DEF BeginRun
  <2>2. HowInv'
    BY <1>1, <1>2, <2>1 DEF HowInv
  <2>3. TimerInv' /\ StoppedInv'
    BY <1>1, <1>3, <1>4, <2>1 DEF TimerInv, StoppedInv
  <2>4. VerdictTrue'
    BY <2>1 DEF VerdictTrue
  <2> QED
    BY <2>2, <2>3, <2>4 DEF Verdicts
<1>6. CASE DumbRun
  <2>1. /\ fpc' = "arm" /\ mode = "dumb" /\ child_pid' = runs'
        /\ proc' = [proc EXCEPT ![runs'] = "run"]
    BY <1>6 DEF DumbRun
  <2>2. runs' \in Children
    BY <1>1, RunsAssumption DEF Children
  <2>3. /\ proc'[child_pid'] = "run"
        /\ \A c \in Children : proc'[c] = "stopped" => proc[c] = "stopped"
    BY <2>1, <2>2 DEF IInv, ScalarsOK
  <2>4. HowInv'
    <3>1. \A s \in Statuses : st' # <<Status(s)>>
      BY <1>1, <1>2, Pipes
    <3> QED
      BY <1>1, <1>2, <2>1, <2>3, <3>1 DEF HowInv, Says
  <2>5. TimerInv' /\ StoppedInv'
    BY <1>1, <1>3, <1>4, <2>1, <2>3 DEF TimerInv, StoppedInv, IInv, DumbInv
  <2>6. VerdictTrue'
    BY <2>1 DEF VerdictTrue
  <2> QED
    BY <2>4, <2>5, <2>6 DEF Verdicts
<1> QED
  BY <1>5, <1>6

(* Unless the user stops the fuzzer, a failed pipe ends it. *)
LEMMA FailedVerdicts ==
  ASSUME IInv, Verdicts, stop_soon = 0, PipeFails, mode # "dumb",
         spc \in {"none", "dead"}
  PROVE  Verdicts'
<1>1. /\ fpc' = "failed"
      /\ UNCHANGED <<mode, proc, spc, srv_child, child_stopped>>
  BY DEF PipeFails, server, ServerVars
<1>2. HowInv' /\ TimerInv' /\ VerdictTrue'
  BY <1>1 DEF HowInv, TimerInv, VerdictTrue
<1>3. StoppedInv'
  BY <1>1 DEF Verdicts, StoppedInv
<1> QED
  BY <1>2, <1>3 DEF Verdicts

LEMMA SendVerdicts ==
  ASSUME IInv, Verdicts, stop_soon = 0, Send
  PROVE  Verdicts'
<1>1. fpc = "send" /\ mode # "dumb"
  BY DEF Send, IInv, DumbInv
<1>2. st = <<>> /\ spc \in {"none", "read", "dead"}
  BY <1>1, SettledServer DEF Settled
<1>3. CASE ServerEnds
  <2>1. spc = "read" /\ ctl = <<>>
    BY <1>1, <1>3 DEF ServerEnds, ServerUp, IInv, ServerInv, PipeInv, BornInv,
                      Settled
  <2>2. /\ UNCHANGED <<mode, prev_timed_out, timer, spc, srv_child,
                       child_stopped, proc, how, st, child_timed_out>>
        /\ ctl' = Append(ctl, prev_timed_out) /\ fpc' = "getpid"
    BY <1>3 DEF Send, fuzzer, server, ServerVars
  <2>3. ctl' = <<prev_timed_out>>
    BY <2>1, <2>2, Pipes
  <2>4. HowInv'
    <3>1. \A s \in Statuses : st' # <<Pid(srv_child'), Status(s)>>
      BY <1>2, <2>2, Pipes
    <3> QED
      BY <1>1, <2>1, <2>2, <3>1 DEF Verdicts, HowInv
  <2>5. TimerInv' /\ VerdictTrue'
    BY <1>1, <2>2 DEF Verdicts, TimerInv, VerdictTrue
  <2>6. StoppedInv'
    <3>1. prev_timed_out = TRUE \/ ~prev_timed_out
      BY DEF IInv, ScalarsOK
    <3> QED
      BY <1>1, <2>1, <2>2, <2>3, <3>1 DEF Verdicts, StoppedInv
  <2> QED
    BY <2>4, <2>5, <2>6 DEF Verdicts
<1>4. CASE ~ServerEnds
  BY <1>1, <1>2, <1>4, FailedVerdicts DEF Send, ServerEnds, ServerUp
<1> QED
  BY <1>3, <1>4

LEMMA GetPidVerdicts ==
  ASSUME IInv, Verdicts, stop_soon = 0, GetPid
  PROVE  Verdicts'
<1>1. fpc = "getpid" /\ mode # "dumb"
  BY DEF GetPid, IInv, DumbInv
<1>2. CASE st = <<>>
  BY <1>1, <1>2, EofMeans, FailedVerdicts DEF GetPid
<1>3. CASE st # <<>>
  <2>1. /\ UNCHANGED <<mode, child_timed_out, timer, spc, srv_child,
                       child_stopped, srv_status, proc, how, ctl>>
        /\ st' = Tail(st) /\ fpc' = "arm"
    BY <1>3 DEF GetPid, Eof, fuzzer, server, ServerVars
  <2>2. ~timer
    BY <1>1 DEF Verdicts, TimerInv
  <2>3. \/ Told /\ Tail(st) = <<>>
        \/ \E m \in StatusMsgs :
             st = <<Pid(srv_child), m>> /\ ToldAll /\ Tail(st) = <<m>>
    BY <1>1, <1>3, Heads
  <2>4. \A s \in Statuses : st' = <<Status(s)>> => Says(s)
    <3>1. CASE Tail(st) = <<>>
      BY <2>1, <3>1, Pipes
    <3>2. ASSUME NEW m \in StatusMsgs, st = <<Pid(srv_child), m>>,
                 Tail(st) = <<m>>, NEW s \in Statuses, st' = <<Status(s)>>
          PROVE  Says(s)
      <4>1. m = Status(s)
        BY <2>1, <3>2, Pipes
      <4> QED
        BY <1>1, <3>2, <4>1 DEF Verdicts, HowInv
    <3> QED
      BY <2>3, <3>1, <3>2
  <2>5. HowInv'
    BY <1>1, <2>1, <2>4 DEF Verdicts, HowInv, Says
  <2>6. TimerInv' /\ VerdictTrue'
    BY <2>1, <2>2 DEF TimerInv, VerdictTrue
  <2>7. ~child_stopped \/ proc[srv_child] # "killed"
    <3>1. ctl = <<>> /\ spc \in {"wait", "relay", "read", "dead"}
      BY <2>3 DEF Told, ToldAll
    <3> QED
      BY <1>1, <3>1, Pipes DEF Verdicts, StoppedInv
  <2>8. StoppedInv'
    BY <1>1, <2>1, <2>7 DEF Verdicts, StoppedInv
  <2> QED
    BY <2>5, <2>6, <2>8 DEF Verdicts
<1> QED
  BY <1>2, <1>3

(* The status that is read tells what became of the test case. *)
LEMMA StatusRead ==
  ASSUME IInv, Verdicts, fpc = "getstatus", fpc' = "clear",
         NEW s \in Statuses, Says(s), status' = s,
         UNCHANGED <<mode, child_timed_out, timer, spc, srv_child,
                     child_stopped, srv_status, how>>,
         mode # "dumb" => proc' = proc,
         \A c \in Children : proc'[c] = "stopped" => proc[c] = "stopped"
  PROVE  Verdicts'
<1>1. HowInv'
  <2>1. spc' \notin {"tell", "wait"} \/ proc' = proc
    BY DEF IInv, DumbInv
  <2> QED
    BY <2>1 DEF Verdicts, HowInv, Says
<1>2. TimerInv' /\ VerdictTrue'
  BY DEF TimerInv, VerdictTrue
<1>3. StoppedInv'
  BY DEF Verdicts, StoppedInv
<1> QED
  BY <1>1, <1>2, <1>3 DEF Verdicts

LEMMA GetStatusVerdicts ==
  ASSUME IInv, Verdicts, stop_soon = 0, GetStatus \/ DumbWait
  PROVE  Verdicts'
<1>1. fpc = "getstatus"
  BY DEF GetStatus, DumbWait
<1>2. CASE GetStatus
  <2>1. mode # "dumb"
    BY <1>2 DEF GetStatus
  <2>2. CASE st = <<>>
    BY <1>2, <2>1, <2>2, EofMeans, FailedVerdicts DEF GetStatus
  <2>3. CASE st # <<>>
    <3>1. /\ UNCHANGED <<mode, child_timed_out, timer, spc, srv_child,
                         child_stopped, srv_status, how, proc>>
          /\ status' = Head(st).status /\ fpc' = "clear"
      BY <1>2, <2>3 DEF GetStatus, Eof, fuzzer, server, ServerVars
    <3>2. Head(st).status \in Statuses /\ st = <<Status(Head(st).status)>>
      BY <1>1, <2>1, <2>3, Heads
    <3>3. PICK s \in Statuses : s = Head(st).status
      BY <3>2
    <3>4. Says(s)
      BY <1>1, <3>2, <3>3 DEF Verdicts, HowInv
    <3>5. status' = s
      BY <3>1, <3>3
    <3> QED
      BY <1>1, <3>1, <3>4, <3>5, StatusRead
  <2> QED
    BY <2>2, <2>3
<1>3. CASE DumbWait
  <2>1. /\ UNCHANGED <<mode, child_timed_out, timer, spc, srv_child,
                       child_stopped, srv_status, how>>
        /\ mode = "dumb" /\ fpc' = "clear"
        /\ status' = proc[child_pid] /\ proc[child_pid] \in Statuses
        /\ proc' = [proc EXCEPT ![child_pid] = "gone"]
    BY <1>3 DEF DumbWait, fuzzer, server, ServerVars, Statuses
  <2>2. Says(proc[child_pid])
    BY <1>1, <2>1 DEF Verdicts, HowInv
  <2>3. PICK s \in Statuses : s = proc[child_pid]
    BY <2>1
  <2>4. Says(s) /\ status' = s
    BY <2>1, <2>2, <2>3
  <2>5. \A c \in Children : proc'[c] = "stopped" => proc[c] = "stopped"
    BY <2>1 DEF IInv, ScalarsOK
  <2> QED
    BY <1>1, <2>1, <2>4, <2>5, StatusRead
<1> QED
  BY <1>2, <1>3

(* From here to the verdict the run is over for the server, too.           *)
LEMMA FinishVerdicts ==
  ASSUME IInv, Verdicts, stop_soon = 0, Arm \/ Clear \/ Disarm
  PROVE  Verdicts'
<1>1. /\ UNCHANGED <<mode, child_timed_out, status, spc, srv_child,
                     child_stopped, srv_status, proc, how, st, ctl>>
      /\ \/ fpc = "arm" /\ fpc' = "getstatus"
         \/ fpc = "clear" /\ fpc' = "disarm"
         \/ fpc = "disarm" /\ fpc' = "verdict" /\ ~timer'
      /\ fpc = "arm" => child_pid' = child_pid
  BY DEF Arm, Clear, Disarm, fuzzer, server, ServerVars
<1>2. HowInv'
  BY <1>1 DEF Verdicts, HowInv, Says
<1>3. TimerInv' /\ VerdictTrue'
  BY <1>1 DEF TimerInv, VerdictTrue
<1>4. StoppedInv'
  BY <1>1 DEF Verdicts, StoppedInv
<1> QED
  BY <1>2, <1>3, <1>4 DEF Verdicts

LEMMA VerdictVerdicts ==
  ASSUME IInv, Verdicts, stop_soon = 0, Verdict
  PROVE  Verdicts'
<1>1. /\ fpc = "verdict" /\ fpc' = "idle" /\ fault' = Outcome
      /\ prev_timed_out' = child_timed_out
      /\ UNCHANGED <<mode, child_timed_out, timer, spc, srv_child, stop_soon,
                     child_stopped, srv_status, proc, how, st, ctl, status>>
  BY DEF Verdict, server, ServerVars
<1>2. /\ Says(status) /\ status \in Statuses /\ child_timed_out \in BOOLEAN
      /\ ~timer
  BY <1>1 DEF Verdicts, HowInv, TimerInv, IInv, ScalarsOK
<1>3. spc \in {"none", "read", "dead"}
  BY <1>1, SettledServer DEF Settled
<1>4. HowInv' /\ TimerInv'
  BY <1>1, <1>2, <1>3 DEF HowInv, TimerInv
<1>5. StoppedInv'
  BY <1>1 DEF Verdicts, StoppedInv
<1>6. VerdictTrue'
  <2>1. CASE status = "killed"
    <3>1. /\ child_timed_out
          /\ how = "killed" \/ (how = "done" /\ mode = "persistent")
      BY <1>2, <2>1 DEF Says
    <3>2. Outcome = "tmout"
      BY <1>2, <2>1, <3>1 DEF Outcome
    <3>3. fault' = "tmout"
      BY <1>1, <3>2
    <3> QED
      BY <1>1, <3>1, <3>3 DEF VerdictTrue
  <2>2. CASE status \in {"crashed", "msan"}
    BY <1>1, <1>2, <2>2 DEF Says, Outcome, VerdictTrue
  <2>3. CASE status = "noexec"
    BY <1>1, <1>2, <2>3 DEF Says, Outcome, VerdictTrue
  <2>4. CASE status \in {"exited", "stopped"}
    BY <1>1, <1>2, <2>4 DEF Says, Outcome, VerdictTrue
  <2> QED
    BY <1>2, <2>1, <2>2, <2>3, <2>4 DEF Statuses, Ends
<1> QED
  BY <1>4, <1>5, <1>6 DEF Verdicts

LEMMA EndVerdicts ==
  ASSUME IInv, Verdicts, stop_soon = 0, EnterLoop \/ EndFuzzing
  PROVE  Verdicts'
<1>1. /\ UNCHANGED <<mode, child_timed_out, prev_timed_out, timer, spc,
                     srv_child, stop_soon, child_stopped, srv_status, proc,
                     how, st, ctl, status, child_pid, runs, fault>>
      /\ fpc' = fpc \/ (fpc = "leave" /\ fpc' = "ended")
  BY DEF EnterLoop, EndFuzzing, fuzzer, server, ServerVars
<1>2. HowInv'
  BY <1>1 DEF Verdicts, HowInv, Says
<1>3. TimerInv' /\ VerdictTrue'
  BY <1>1 DEF Verdicts, TimerInv, VerdictTrue
<1>4. StoppedInv'
  BY <1>1 DEF Verdicts, StoppedInv
<1> QED
  BY <1>2, <1>3, <1>4 DEF Verdicts

-----------------------------------------------------------------------------
(* A child that runs is the current one, and afl-fuzz waits for it.        *)
LEMMA RunnerIsCurrent ==
  ASSUME IInv, stop_soon = 0, NEW c \in Children, proc[c] \in {"born", "run"},
         fpc \notin {"leave", "ended", "failed"}
  PROVE  /\ mode # "dumb" => c = srv_child /\ spc \in {"tell", "wait"}
         /\ mode = "dumb" => c = child_pid /\ fpc \in {"arm", "getstatus"}
<1>1. CASE mode = "dumb"
  BY <1>1 DEF IInv, DumbInv, Empty
<1>2. CASE mode # "dumb"
  <2>1. c = srv_child
    BY <1>2 DEF IInv, NoneLeft
  <2>2. spc \notin {"read", "writeoff", "start", "relay"}
    BY <1>2, NoneRuns
  <2>3. spc # "dead"
    BY <1>2 DEF IInv, ServerInv, DeadInv
  <2>4. fpc \notin Starting
    BY <1>2 DEF IInv, ServerInv, StartInv
  <2>5. spc \notin {"none", "boot"}
    BY <1>2, <2>4
    DEF IInv, ScalarsOK, FuzzerPCs, Running, ServerInv, PipeInv, Starting,
        Settled, Asked, Starts, Told, ToldAll, Waits, Answered
  <2> QED
    BY <1>2, <2>1, <2>2, <2>3, <2>5 DEF IInv, ScalarsOK, ServerPCs
<1> QED
  BY <1>1, <1>2

(* The timeout: what it kills was killed by it, and a test case that was   *)
(* done by then stays done.                                                *)
LEMMA AlarmVerdicts ==
  ASSUME IInv, Verdicts, stop_soon = 0, Alarm
  PROVE  Verdicts'
<1>1. /\ timer /\ timer' = FALSE
      /\ UNCHANGED <<mode, fpc, runs, stop_soon, child_pid, ctl, st, status>>
      /\ UNCHANGED <<srv_child, child_stopped, srv_status, prev_timed_out>>
  BY DEF Alarm, server, ServerVars
<1>2. fpc \notin {"init", "idle", "send", "getpid", "arm", "verdict"}
  BY <1>1 DEF Verdicts, TimerInv
<1>3. TimerInv' /\ VerdictTrue'
  BY <1>1, <1>2 DEF TimerInv, VerdictTrue
<1>4. CASE child_pid > 0
  <2>1. /\ child_timed_out' = TRUE /\ spc' = spc
        /\ proc' = Killed(child_pid) /\ how' = HowKilled(child_pid)
    BY <1>4 DEF Alarm, server
  <2>2. \A c \in Children :
          proc'[c] = IF c = child_pid /\ proc[c] \in Live THEN "killed"
                     ELSE proc[c]
    BY <2>1, KilledProc DEF IInv
  <2>3. StoppedInv'
    BY <1>1, <1>2, <2>1, <2>2 DEF Verdicts, StoppedInv
  <2>4. \A s \in Statuses : how' = how /\ Says(s) => Says(s)'
    BY <1>1, <2>1 DEF Says, Statuses, Ends
  <2>5. CASE fpc \in {"hello", "up", "down", "leave", "ended", "failed"}
    <3>1. mode # "dumb" => spc \notin {"tell", "wait", "relay"}
      BY <2>5, ServerAtWork
    <3> QED
      BY <1>1, <1>3, <2>1, <2>3, <2>5, <3>1
      DEF Verdicts, HowInv, IInv, DumbInv
  <2>6. CASE fpc \in {"clear", "disarm"}
    <3>1. how' = how
      BY <2>1, <2>6, SettledLone DEF HowKilled
    <3>2. Says(status)'
      BY <1>1, <2>4, <2>6, <3>1 DEF Verdicts, HowInv, IInv, ScalarsOK
    <3>3. spc \in {"none", "read", "dead"}
      BY <2>6, SettledServer DEF Settled
    <3>4. HowInv'
      BY <1>1, <2>1, <2>6, <3>2, <3>3 DEF HowInv
    <3> QED
      BY <1>3, <2>3, <3>4 DEF Verdicts
  <2>7. CASE fpc = "getstatus"
    <3>1. CASE mode = "dumb"
      <4>1. /\ child_pid \in Children /\ spc = "none" /\ st = <<>>
            /\ proc[child_pid] \notin {"none", "gone", "born", "stopped"}
            /\ Says(proc[child_pid])
        BY <2>7, <3>1 DEF IInv, DumbInv, Quiet, Verdicts, HowInv
      <4>2. Says(proc[child_pid])'
        <5>1. CASE proc[child_pid] = "run"
          BY <1>1, <2>1, <2>2, <4>1, <5>1 DEF Says, HowKilled, Live
        <5>2. CASE proc[child_pid] \in Ends
          <6>1. how' = how /\ proc'[child_pid] = proc[child_pid]
            BY <2>1, <2>2, <4>1, <5>2 DEF HowKilled, Ends, Live
          <6> QED
            BY <1>1, <2>1, <4>1, <5>2, <6>1 DEF Says, Ends
        <5> QED
          BY <4>1, <5>1, <5>2 DEF IInv, ScalarsOK, Live
      <4>3. \A s \in Statuses : st' # <<Status(s)>>
        BY <1>1, <4>1, Pipes
      <4>4. HowInv'
        BY <1>1, <2>1, <2>7, <4>1, <4>2, <4>3 DEF HowInv
      <4> QED
        BY <1>3, <2>3, <4>4 DEF Verdicts
    <3>2. CASE mode # "dumb"
      <4>1. \/ spc = "wait"
            \/ spc \notin {"tell", "wait"} /\ how' = how
        <5>1. spc # "tell"
          BY <2>7, <3>2, ServerAtWork
        <5>2. spc # "wait" => how' = how
          BY <2>1, <2>7, <3>2, <5>1, RunnerIsCurrent DEF HowKilled
        <5> QED
          BY <5>1, <5>2
      <4>2. CASE spc = "wait"
        <5>1. /\ srv_child \in Children /\ Says(proc[srv_child])
              /\ proc[srv_child] \notin {"none", "gone"} /\ st = <<>>
          BY <2>7, <3>2, <4>2, ServerAtWork
          DEF IInv, ServerInv, ChildInv, Verdicts, HowInv
        <5>2. Says(proc[srv_child])'
          <6>1. CASE srv_child = child_pid
            <7>1. CASE proc[srv_child] \in {"born", "run"}
              BY <1>1, <2>1, <2>2, <5>1, <6>1, <7>1 DEF Says, HowKilled, Live
            <7>2. CASE proc[srv_child] = "stopped"
              <8>1. mode = "persistent" /\ how = "done"
                BY <5>1, <7>2 DEF Says, Verdicts, StoppedInv
              <8> QED
                BY <1>1, <2>1, <2>2, <5>1, <6>1, <7>2, <8>1
                DEF Says, HowKilled, Live
            <7>3. CASE proc[srv_child] \in Ends
              <8>1. how' = how /\ proc'[srv_child] = proc[srv_child]
                BY <2>1, <2>2, <5>1, <6>1, <7>3 DEF HowKilled, Ends, Live
              <8> QED
                BY <1>1, <2>1, <5>1, <7>3, <8>1 DEF Says, Ends
            <7> QED
              BY <5>1, <7>1, <7>2, <7>3 DEF IInv, ScalarsOK, Live
          <6>2. CASE srv_child # child_pid
            <7>1. how' = how
              BY <2>1, <3>2, <6>2 DEF IInv, NoneLeft, HowKilled
            <7>2. proc'[srv_child] = proc[srv_child]
              BY <2>2, <5>1, <6>2
            <7> QED
              BY <1>1, <2>1, <5>1, <7>1, <7>2 DEF Says
          <6> QED
            BY <6>1, <6>2
        <5>3. \A s \in Statuses : st' # <<Status(s)>>
          BY <1>1, <5>1, Pipes
        <5>4. HowInv'
          BY <1>1, <2>1, <2>7, <3>2, <4>2, <5>2, <5>3 DEF HowInv
        <5> QED
          BY <1>3, <2>3, <5>4 DEF Verdicts
      <4>3. CASE spc \notin {"tell", "wait"} /\ how' = how
        <5>1. \A s \in Statuses : st' = <<Status(s)>> => Says(s)'
          BY <1>1, <2>4, <2>7, <4>3 DEF Verdicts, HowInv
        <5>2. spc = "relay" => Says(srv_status)'
          BY <1>1, <2>4, <4>3 DEF Verdicts, HowInv, IInv, ScalarsOK
        <5>3. HowInv'
          BY <1>1, <2>1, <2>7, <3>2, <4>3, <5>1, <5>2 DEF HowInv
        <5> QED
          BY <1>3, <2>3, <5>3 DEF Verdicts
      <4> QED
        BY <4>1, <4>2, <4>3
    <3> QED
      BY <3>1, <3>2
  <2> QED
    BY <1>2, <2>5, <2>6, <2>7 DEF IInv, ScalarsOK, FuzzerPCs, Running
<1>5. CASE child_pid = -1 /\ spc # "none"
  <2>1. spc' = "dead" /\ proc' = proc
    BY <1>5 DEF Alarm
  <2>2. fpc \in Starting
    BY <1>1, <1>5 DEF IInv, PidInv, Starting
  <2>3. mode # "dumb"
    BY <2>2 DEF IInv, DumbInv, Starting
  <2>4. ~child_stopped
    BY <2>2, <2>3 DEF IInv, ServerInv, StartInv
  <2>5. HowInv'
    BY <1>1, <2>1, <2>2, <2>3 DEF HowInv, Starting
  <2>6. StoppedInv'
    BY <1>1, <2>1, <2>4 DEF Verdicts, StoppedInv
  <2> QED
    BY <1>3, <2>5, <2>6 DEF Verdicts
<1>6. CASE ~(child_pid > 0) /\ ~(child_pid = -1 /\ spc # "none")
  <2>1. UNCHANGED <<child_timed_out, proc, how, spc>>
    BY <1>6 DEF Alarm, server
  <2>2. HowInv'
    BY <1>1, <2>1 DEF Verdicts, HowInv, Says
  <2>3. StoppedInv'
    BY <1>1, <2>1 DEF Verdicts, StoppedInv
  <2> QED
    BY <1>3, <2>2, <2>3 DEF Verdicts
<1> QED
  BY <1>4, <1>5, <1>6

(* What a step of the server leaves to prove. *)
LEMMA ServerVerdictFrame ==
  ASSUME Verdicts, ServerOnly, how' = how, HowInv', StoppedInv'
  PROVE  Verdicts'
BY DEF Verdicts, TimerInv, VerdictTrue, ServerOnly, fuzzer

LEMMA BootVerdicts ==
  ASSUME IInv, Verdicts, stop_soon = 0, SayHello \/ BootFails
  PROVE  Verdicts'
<1>1. /\ spc = "boot" /\ spc' \in {"read", "dead"} /\ ServerOnly /\ fpc' = fpc
      /\ UNCHANGED <<srv_child, child_stopped, proc, how, mode>>
  BY DEF SayHello, BootFails, ServerVars, ServerOnly, fuzzer
<1>2. mode # "dumb"
  BY <1>1 DEF IInv, DumbInv
<1>3. fpc = "hello"
  BY <1>1, <1>2, ServerAtWork
<1>4. ~child_stopped
  BY <1>2, <1>3 DEF IInv, ServerInv, StartInv, Starting
<1>5. HowInv'
  BY <1>1, <1>2, <1>3 DEF HowInv
<1>6. StoppedInv'
  BY <1>1, <1>4 DEF Verdicts, StoppedInv
<1> QED
  BY <1>1, <1>5, <1>6, ServerVerdictFrame

(* A request is read: a child that the timeout killed is written off.      *)
LEMMA ReadRequestVerdicts ==
  ASSUME IInv, Verdicts, stop_soon = 0, ReadRequest
  PROVE  Verdicts'
<1>1. /\ spc = "read" /\ ServerOnly /\ UNCHANGED <<fpc, mode, how>>
      /\ UNCHANGED <<srv_child, child_stopped, proc, st, child_timed_out,
                     prev_timed_out, status, child_pid>>
  BY DEF ReadRequest, ServerOnly, fuzzer
<1>2. mode # "dumb"
  BY <1>1 DEF IInv, DumbInv
<1>3. CASE ctl # <<>>
  <2>1. fpc = "getpid" /\ st = <<>> /\ ctl \in {<<TRUE>>, <<FALSE>>}
    BY <1>1, <1>2, <1>3, ServerAtWork
    DEF IInv, ServerInv, PipeInv, Asked, Starts, Told, ToldAll, Quiet
  <2>2. how = "none"
    BY <1>3, <2>1 DEF Verdicts, HowInv
  <2>3. was_killed' = Head(ctl)
        /\ spc' = IF child_stopped /\ was_killed' THEN "writeoff" ELSE "start"
    BY <1>3 DEF ReadRequest, Eof
  <2>4. HowInv'
    <3>1. \A s \in Statuses : st' # <<Pid(srv_child'), Status(s)>>
      BY <1>1, <2>1, Pipes
    <3> QED
      BY <1>1, <1>2, <2>1, <2>2, <2>3, <3>1 DEF HowInv
  <2>5. child_stopped /\ proc[srv_child] = "killed" => spc' = "writeoff"
    <3>1. child_stopped /\ proc[srv_child] = "killed" => ctl = <<TRUE>>
      BY <1>1, <1>2, <2>1 DEF Verdicts, StoppedInv
    <3>2. ctl = <<TRUE>> => was_killed'
      BY <2>3, Pipes
    <3> QED
      BY <2>3, <3>1, <3>2
  <2>6. StoppedInv'
    BY <1>1, <1>2, <2>1, <2>3, <2>5 DEF Verdicts, StoppedInv
  <2> QED
    BY <1>1, <2>4, <2>6, ServerVerdictFrame
<1>4. CASE ctl = <<>>
  <2>1. spc' = "dead" /\ fpc \in {"ended", "failed"}
    BY <1>4 DEF ReadRequest, Eof, FuzzerUp
  <2>2. HowInv'
    BY <1>1, <1>2, <2>1 DEF HowInv
  <2>3. StoppedInv'
    BY <1>1, <2>1 DEF Verdicts, StoppedInv
  <2> QED
    BY <1>1, <2>2, <2>3, ServerVerdictFrame
<1> QED
  BY <1>3, <1>4

(* The next test case starts in a new child, or in the one that stopped,   *)
(* which the timeout has not killed.                                       *)
LEMMA StartChildVerdicts ==
  ASSUME IInv, Verdicts, stop_soon = 0, WriteOff \/ Fork \/ Wake
  PROVE  Verdicts'
<1>1. /\ spc \in {"writeoff", "start"} /\ ServerOnly
      /\ UNCHANGED <<fpc, mode, how, ctl, st, child_timed_out, prev_timed_out>>
  BY DEF WriteOff, Fork, Wake, ServerOnly, fuzzer
<1>2. mode # "dumb"
  BY <1>1 DEF IInv, DumbInv
<1>3. fpc = "getpid" /\ ctl = <<>> /\ st = <<>>
  BY <1>1, <1>2, ServerAtWork
<1>4. how = "none"
  BY <1>1, <1>3 DEF Verdicts, HowInv
<1>5. \A s \in Statuses : st' # <<Pid(srv_child'), Status(s)>>
  BY <1>1, <1>3, Pipes
<1>6. CASE WriteOff
  <2>1. /\ spc' = "start" /\ child_stopped' = FALSE
        /\ proc' = [proc EXCEPT ![srv_child] = "gone"]
    BY <1>6 DEF WriteOff
  <2>2. HowInv'
    BY <1>1, <1>2, <1>3, <1>4, <1>5, <2>1 DEF HowInv
  <2>3. \A c \in Children : proc'[c] = "stopped" => proc[c] = "stopped"
    BY <2>1 DEF IInv, ScalarsOK
  <2>4. StoppedInv'
    BY <1>1, <2>1, <2>3 DEF Verdicts, StoppedInv
  <2> QED
    BY <1>1, <2>2, <2>4, ServerVerdictFrame
<1>7. CASE Fork
  <2>1. ~child_stopped /\ child_stopped' = child_stopped
        /\ \/ spc' = "dead" /\ proc' = proc
           \/ /\ spc' = "tell" /\ srv_child' \in Children
              /\ proc' = [proc EXCEPT ![srv_child'] = "born"]
    BY <1>7 DEF Fork
  <2>2. /\ spc' = "tell" => proc'[srv_child'] = "born"
        /\ \A c \in Children : proc'[c] = "stopped" => proc[c] = "stopped"
    BY <2>1 DEF IInv, ScalarsOK
  <2>3. HowInv'
    BY <1>1, <1>2, <1>3, <1>4, <1>5, <2>1, <2>2 DEF HowInv, Says
  <2>4. StoppedInv'
    BY <1>1, <2>1, <2>2 DEF Verdicts, StoppedInv
  <2> QED
    BY <1>1, <2>3, <2>4, ServerVerdictFrame
<1>8. CASE Wake
  <2>1. /\ spc = "start" /\ child_stopped /\ srv_child' = srv_child
        /\ spc' = "tell" /\ child_stopped' = FALSE
    BY <1>8 DEF Wake
  <2>2. srv_child \in Children /\ proc[srv_child] \in {"stopped", "killed"}
    BY <1>2, <2>1 DEF IInv, ServerInv, ChildInv
  <2>3. proc[srv_child] # "killed"
    BY <1>2, <1>3, <2>1, Pipes DEF Verdicts, StoppedInv
  <2>4. proc' = [proc EXCEPT ![srv_child] = "run"]
    BY <1>8, <2>2, <2>3 DEF Wake
  <2>5. /\ proc'[srv_child'] = "run"
        /\ \A c \in Children : proc'[c] = "stopped" => proc[c] = "stopped"
    BY <2>1, <2>2, <2>4 DEF IInv, ScalarsOK
  <2>6. HowInv'
    BY <1>1, <1>2, <1>3, <1>4, <1>5, <2>1, <2>5 DEF HowInv, Says
  <2>7. StoppedInv'
    BY <1>1, <2>1, <2>5 DEF Verdicts, StoppedInv
  <2> QED
    BY <1>1, <2>6, <2>7, ServerVerdictFrame
<1> QED
  BY <1>6, <1>7, <1>8

LEMMA TellPidVerdicts ==
  ASSUME IInv, Verdicts, stop_soon = 0, TellPid
  PROVE  Verdicts'
<1>1. /\ spc = "tell" /\ ServerOnly
      /\ UNCHANGED <<fpc, mode, how, ctl, child_timed_out, prev_timed_out,
                     srv_child, child_stopped, proc>>
  BY DEF TellPid, Write, ServerOnly, fuzzer, ServerVars
<1>2. mode # "dumb"
  BY <1>1 DEF IInv, DumbInv
<1>3. fpc = "getpid" /\ ctl = <<>> /\ st = <<>> /\ FuzzerUp
  BY <1>1, <1>2, ServerAtWork DEF FuzzerUp
<1>4. spc' = "wait" /\ st' = <<Pid(srv_child)>>
  BY <1>3, Pipes DEF TellPid, Write
<1>5. \A s \in Statuses : st' # <<Pid(srv_child'), Status(s)>>
  BY <1>4, Pipes
<1>6. HowInv'
  BY <1>1, <1>2, <1>3, <1>4, <1>5 DEF Verdicts, HowInv, Says
<1>7. ~child_stopped
  BY <1>1, <1>2 DEF IInv, ServerInv, ChildInv
<1>8. StoppedInv'
  BY <1>1, <1>7 DEF Verdicts, StoppedInv
<1> QED
  BY <1>1, <1>6, <1>8, ServerVerdictFrame

(* The status is the state of the child, and the one that is relayed.      *)
LEMMA WaitVerdicts ==
  ASSUME IInv, Verdicts, stop_soon = 0, WaitDead \/ WaitStopped
  PROVE  Verdicts'
<1>1. /\ spc = "wait" /\ spc' = "relay" /\ ServerOnly
      /\ srv_status' = proc[srv_child]
      /\ UNCHANGED <<fpc, mode, how, ctl, st, child_timed_out, prev_timed_out,
                     srv_child, status>>
  BY DEF WaitDead, WaitStopped, ServerOnly, fuzzer
<1>2. mode # "dumb"
  BY <1>1 DEF IInv, DumbInv
<1>3. fpc \in {"getpid", "arm", "getstatus"} /\ ctl = <<>>
  BY <1>1, <1>2, ServerAtWork
<1>4. /\ Says(proc[srv_child])
      /\ srv_child \in Children /\ ~child_stopped
  BY <1>1, <1>2 DEF Verdicts, HowInv, IInv, ServerInv, ChildInv
<1>5. HowInv'
  BY <1>1, <1>2, <1>3, <1>4 DEF Verdicts, HowInv, Says
<1>6. StoppedInv'
  <2>1. /\ \A c \in Children : proc'[c] = "stopped" => proc[c] = "stopped"
        /\ child_stopped' => proc'[srv_child] # "killed"
    <3>1. CASE WaitDead
      BY <1>4, <3>1 DEF WaitDead, IInv, ScalarsOK
    <3>2. CASE WaitStopped
      BY <3>2 DEF WaitStopped
    <3> QED
      BY <3>1, <3>2
  <2> QED
    BY <1>1, <2>1 DEF Verdicts, StoppedInv
<1> QED
  BY <1>1, <1>5, <1>6, ServerVerdictFrame

LEMMA RelayVerdicts ==
  ASSUME IInv, Verdicts, stop_soon = 0, Relay
  PROVE  Verdicts'
<1>1. /\ spc = "relay" /\ ServerOnly
      /\ UNCHANGED <<fpc, mode, how, ctl, child_timed_out, prev_timed_out,
                     srv_child, child_stopped, proc, status, child_pid>>
  BY DEF Relay, Write, ServerOnly, fuzzer, ServerVars
<1>2. mode # "dumb"
  BY <1>1 DEF IInv, DumbInv
<1>3. /\ ctl = <<>>
      /\ \/ fpc = "getpid" /\ st = <<Pid(srv_child)>>
         \/ fpc \in {"arm", "getstatus"} /\ st = <<>>
  BY <1>1, <1>2, ServerAtWork
<1>4. FuzzerUp
  BY <1>3 DEF FuzzerUp
<1>5. spc' = "read" /\ st' = Append(st, Status(srv_status))
  BY <1>4 DEF Relay, Write
<1>6. Says(srv_status)
  BY <1>1 DEF Verdicts, HowInv
<1>7. ASSUME fpc = "getpid", NEW s \in Statuses,
             st' = <<Pid(srv_child), Status(s)>>
      PROVE  s = srv_status
  <2>1. st = <<Pid(srv_child)>>
    BY <1>3, <1>7
  <2>2. st' = <<Pid(srv_child), Status(srv_status)>>
    BY <1>5, <2>1, Pipes
  <2>3. Status(s) = Status(srv_status)
    BY <1>7, <2>2, Pipes
  <2> QED
    BY <2>3, Messages
<1>8. ASSUME fpc \in {"arm", "getstatus"}, NEW s \in Statuses,
             st' = <<Status(s)>>
      PROVE  s = srv_status
  <2>1. st = <<>>
    BY <1>3, <1>8
  <2>2. st' = <<Status(srv_status)>>
    BY <1>5, <2>1, Pipes
  <2>3. Status(s) = Status(srv_status)
    BY <1>8, <2>2, Pipes
  <2> QED
    BY <2>3, Messages
<1>9. HowInv'
  BY <1>1, <1>2, <1>3, <1>5, <1>6, <1>7, <1>8 DEF HowInv, Says
<1>10. StoppedInv'
  BY <1>1, <1>5 DEF Verdicts, StoppedInv
<1> QED
  BY <1>1, <1>9, <1>10, ServerVerdictFrame

(* A child that goes on notes what becomes of the test case.               *)
LEMMA ChildVerdicts ==
  ASSUME IInv, Verdicts, stop_soon = 0, NEW c \in Children,
         ClosePipes(c) \/ Exit(c) \/ Crash(c) \/ ExecFails(c) \/ Stop(c)
  PROVE  Verdicts'
<1>1. /\ UNCHANGED <<fpc, mode, runs, stop_soon, child_pid, timer, spc>>
      /\ UNCHANGED <<srv_child, child_stopped, ctl, st, srv_status, status,
                     child_timed_out, prev_timed_out, fault>>
      /\ proc[c] \in {"born", "run"}
  BY DEF ClosePipes, Exit, Crash, ExecFails, Stop, ChildStep, fuzzer, server,
         ServerVars
<1>2. /\ proc' = [proc EXCEPT ![c] = proc'[c]]
      /\ \/ how' = how /\ proc[c] = "born" /\ proc'[c] = "run"
         \/ how' = "done" /\ proc'[c] = "exited"
         \/ how' = "crashed" /\ proc'[c] \in {"crashed", "msan"}
         \/ how' = "noexec" /\ proc'[c] = "noexec"
         \/ how' = "done" /\ proc'[c] = "stopped" /\ mode = "persistent"
  BY DEF ClosePipes, Exit, Crash, ExecFails, Stop, ChildStep, IInv, ScalarsOK
<1>3. TimerInv'
  BY <1>1 DEF Verdicts, TimerInv
<1>4. \A d \in Children : d # c => proc'[d] = proc[d]
  BY <1>2 DEF IInv, ScalarsOK
<1>5. fpc \in {"leave", "ended", "failed"} \/
        /\ mode # "dumb" => c = srv_child /\ spc \in {"tell", "wait"}
        /\ mode = "dumb" => c = child_pid /\ fpc \in {"arm", "getstatus"}
  BY <1>1, RunnerIsCurrent
<1>6. StoppedInv'
  <2>1. \A d \in Children : proc'[d] = "stopped" =>
          proc[d] = "stopped" \/ mode = "persistent"
    BY <1>2, <1>4
  <2>2. ~(mode # "dumb" /\ child_stopped /\ proc'[srv_child] = "killed"
          /\ proc[srv_child] # "killed")
    <3>1. mode # "dumb" => c = srv_child
      BY <1>1 DEF IInv, NoneLeft
    <3> QED
      BY <1>2, <3>1
  <2> QED
    BY <1>1, <2>1, <2>2 DEF Verdicts, StoppedInv
<1>7. CASE fpc \in {"leave", "ended", "failed"}
  <2>1. mode # "dumb" => spc \notin {"tell", "wait", "relay"}
    BY <1>7, ServerAtWork
  <2>2. HowInv'
    BY <1>1, <1>7, <2>1 DEF HowInv, IInv, DumbInv
  <2>3. VerdictTrue'
    BY <1>1, <1>7 DEF VerdictTrue
  <2> QED
    BY <1>3, <1>6, <2>2, <2>3 DEF Verdicts
<1>8. CASE mode # "dumb" /\ c = srv_child /\ spc \in {"tell", "wait"}
  <2>1. /\ ctl = <<>>
        /\ \/ fpc = "getpid" /\ st \in {<<>>, <<Pid(srv_child)>>}
           \/ fpc \in {"arm", "getstatus"} /\ st = <<>>
    BY <1>8, ServerAtWork
  <2>2. Says(proc[c])
    BY <1>8 DEF Verdicts, HowInv
  <2>3. Says(proc[c])'
    BY <1>1, <1>2, <2>2 DEF Says
  <2>4. /\ fpc = "getpid" =>
             \A s \in Statuses : st' # <<Pid(srv_child'), Status(s)>>
        /\ fpc # "getpid" => \A s \in Statuses : st' # <<Status(s)>>
    <3>1. CASE fpc = "getpid" /\ st = <<>>
      BY <1>1, <3>1, Pipes
    <3>2. CASE fpc = "getpid" /\ st = <<Pid(srv_child)>>
      BY <1>1, <3>2, Pipes
    <3>3. CASE fpc # "getpid" /\ st = <<>>
      BY <1>1, <3>3, Pipes
    <3> QED
      BY <2>1, <3>1, <3>2, <3>3
  <2>5. HowInv'
    BY <1>1, <1>8, <2>1, <2>3, <2>4 DEF HowInv
  <2>6. VerdictTrue'
    BY <1>1, <2>1 DEF VerdictTrue
  <2> QED
    BY <1>3, <1>6, <2>5, <2>6 DEF Verdicts
<1>9. CASE mode = "dumb" /\ c = child_pid /\ fpc \in {"arm", "getstatus"}
  <2>1. spc = "none" /\ st = <<>>
    BY <1>9 DEF IInv, DumbInv, Quiet
  <2>2. Says(proc[c])
    BY <1>9 DEF Verdicts, HowInv
  <2>3. Says(proc[c])'
    BY <1>1, <1>2, <2>2 DEF Says
  <2>4. \A s \in Statuses : st' # <<Status(s)>>
    BY <1>1, <2>1, Pipes
  <2>5. HowInv'
    BY <1>1, <1>9, <2>1, <2>3, <2>4 DEF HowInv
  <2>6. VerdictTrue'
    BY <1>1, <1>9 DEF VerdictTrue
  <2> QED
    BY <1>3, <1>6, <2>5, <2>6 DEF Verdicts
<1> QED
  BY <1>5, <1>7, <1>8, <1>9

-----------------------------------------------------------------------------
LEMMA VerdictsStep ==
  ASSUME IInv, VInv, Next
  PROVE  VInv'
<1> SUFFICES ASSUME stop_soon' = 0 PROVE Verdicts'
  BY DEF VInv
<1>1. ~Interrupt /\ ~AskToStop
  BY DEF Interrupt, AskToStop
<1>2. stop_soon' = stop_soon
  BY <1>1
  DEF Next, FuzzerStep, Spawn, GetHello, Handshake, Send, PipeFails, GetPid,
      Arm, GetStatus, DumbWait, Clear, Disarm, Verdict, EndDryRun,
      StopFuzzing, EndFuzzing, BeginRun, DumbRun, EnterLoop, Alarm,
      ServerStep, ReadRequest, WriteOff, Fork, Wake, TellPid, WaitDead,
      WaitStopped, Relay, Write, SayHello, BootFails, ServerOnly, ClosePipes,
      Exit, Crash, ExecFails, Stop, ChildStep, fuzzer
<1>3. stop_soon = 0 /\ Verdicts
  BY <1>2 DEF VInv
<1>4. ~StopFuzzing /\ ~EndDryRun
  BY <1>3 DEF StopFuzzing, EndDryRun
<1>5. CASE FuzzerStep \/ BeginRun \/ DumbRun \/ EnterLoop
  BY <1>3, <1>4, <1>5, StartVerdicts, BeginVerdicts, SendVerdicts,
     GetPidVerdicts, GetStatusVerdicts, FinishVerdicts, VerdictVerdicts,
     EndVerdicts
  DEF FuzzerStep
<1>6. CASE Alarm
  BY <1>3, <1>6, AlarmVerdicts
<1>7. CASE ServerStep \/ SayHello \/ BootFails
  BY <1>3, <1>7, BootVerdicts, ReadRequestVerdicts, StartChildVerdicts,
     TellPidVerdicts, WaitVerdicts, RelayVerdicts
  DEF ServerStep
<1>8. ASSUME NEW c \in Children,
             ClosePipes(c) \/ Exit(c) \/ Crash(c) \/ ExecFails(c) \/ Stop(c)
      PROVE  Verdicts'
  BY <1>3, <1>8, ChildVerdicts
<1> QED
  BY <1>1, <1>5, <1>6, <1>7, <1>8 DEF Next

(* A crash, a hang and an exec failure are reported if and only if the     *)
(* test case of this call crashed, was killed by the timeout or could not  *)
(* be run, in all three modes of run_target, unless the user stops it.     *)
THEOREM VerdictIsTrue == Spec => []VerdictTrue
<1>1. Init => VInv
  BY DEF Init, VInv, Verdicts, HowInv, TimerInv, StoppedInv, VerdictTrue
<1>2. ASSUME IInv, VInv, [Next]_vars PROVE VInv'
  <2>1. CASE Next
    BY <1>2, <2>1, VerdictsStep
  <2>2. CASE UNCHANGED vars
    BY <1>2, <2>2
    DEF VInv, Verdicts, HowInv, Says, TimerInv, StoppedInv, VerdictTrue, vars
  <2> QED
    BY <1>2, <2>1, <2>2
<1>3. VInv => VerdictTrue
  BY DEF VInv, Verdicts, VerdictTrue
<1> QED
  BY <1>1, <1>2, <1>3, InvSpec, PTL DEF Spec
=============================================================================

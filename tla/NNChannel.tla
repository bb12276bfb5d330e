----------------------------- MODULE NNChannel -----------------------------
(***************************************************************************)
(* The shared-memory channel between afl-fuzz (shmutils.c and its callers  *)
(* in afl-fuzz.c) and the network (py/nn-dom.py).  Byte 0 of the segment   *)
(* is a flag that says who owns it, byte 1 the length of the message, the  *)
(* rest its text.  Every load and store of the segment is a step of its    *)
(* own, so that an access by the wrong party shows as an overlap.  Either  *)
(* process may die between any two steps; the network may be started       *)
(* again.                                                                  *)
(***************************************************************************)
EXTENDS NNMessages

CONSTANT MaxRestarts   \* bound on deaths of the network process

ASSUME RestartsAssumption == MaxRestarts \in Nat

VARIABLES
  flag,         \* byte 0: 0 fuzzer, 1 network, 2 network is training
  msglen,       \* byte 1: the message whose length it holds
  payload,      \* bytes 2..: the message whose text is there
  fpc,          \* where afl-fuzz is
  out,          \* mywrite's argument
  sent,         \* the message last handed over
  old_edge,     \* old_edge # 0: RETRAIN was accepted once
  result,       \* what the last answered query returned
  npc,          \* where nn-dom.py is
  r_data,       \* the message the network read
  answer,       \* the answer it computed
  net,          \* the state of its model
  bfiles,       \* backup_seeds.txt and backup_bits.txt
  restarts      \* deaths of the network so far

shm == <<flag, msglen, payload>>
fuzzer == <<fpc, out, sent, old_edge, result>>
network == <<npc, r_data, answer, net>>
vars == <<flag, msglen, payload, fpc, out, sent, old_edge, result,
          npc, r_data, answer, net, bfiles, restarts>>

FuzzerPCs == {"boot", "idle", "send", "putlen", "puttext", "handover",
              "await", "copy", "backup", "gone"}
NetworkPCs == {"down", "poll", "read", "dispatch", "answer", "putlen",
               "reply", "hold", "train", "writing", "wrote", "sleep",
               "release"}

Init == /\ flag = 0 /\ msglen = None /\ payload = None
        /\ fpc = "boot" /\ out = None /\ sent = None
        /\ old_edge = FALSE /\ result = None
        /\ npc = "down" /\ r_data = None /\ answer = None
        /\ net = "untrained"
        /\ bfiles = "none" /\ restarts = 0

-----------------------------------------------------------------------------
(* What a reader makes of the segment: a text cut at another message's     *)
(* length is neither message.                                              *)
Received == IF msglen = payload THEN payload ELSE Garbled

(***************************************************************************)
(* afl-fuzz                                                                *)
(***************************************************************************)
Call(m) == /\ out' = m
           /\ fpc' = "send"

Start == /\ fpc = "boot"
         /\ Call(ST)
         /\ UNCHANGED <<shm, sent, old_edge, result, network, bfiles,
                        restarts>>

(* get_byte_to_mutate: no query while the network trains. *)
Query(s) == /\ fpc = "idle" /\ flag # 2
            /\ Call(TA(s))
            /\ UNCHANGED <<shm, sent, old_edge, result, network, bfiles,
                           restarts>>

(* The main loop: the first RETRAIN is tried without the hold check. *)
Retrain == /\ fpc = "idle"
           /\ old_edge => flag # 2
           /\ Call(RE)
           /\ UNCHANGED <<shm, sent, old_edge, result, network, bfiles,
                          restarts>>

(* Faulty variant: the flag is not looked at before writing. *)
TrySendAlways == /\ fpc = "send"
                 /\ fpc' = "putlen"
                 /\ UNCHANGED <<shm, out, sent, old_edge, result, network,
                                bfiles, restarts>>

(* mywrite gives the message up at once unless the fuzzer owns the segment. *)
TrySend == /\ fpc = "send"
           /\ fpc' = IF flag = 0 THEN "putlen" ELSE "idle"
           /\ UNCHANGED <<shm, out, sent, old_edge, result, network, bfiles,
                          restarts>>

(* Faulty variant: the flag is set before the text is there. *)
PutLengthAndFlag == /\ fpc = "putlen"
                    /\ msglen' = out /\ flag' = 1
                    /\ fpc' = "puttext"
                    /\ UNCHANGED <<payload, out, sent, old_edge, result,
                                   network, bfiles, restarts>>

PutLength == /\ fpc = "putlen"
             /\ msglen' = out
             /\ fpc' = "puttext"
             /\ UNCHANGED <<flag, payload, out, sent, old_edge, result,
                            network, bfiles, restarts>>

PutText == /\ fpc = "puttext"
           /\ payload' = out
           /\ fpc' = "handover"
           /\ UNCHANGED <<flag, msglen, out, sent, old_edge, result,
                          network, bfiles, restarts>>

Handover == /\ fpc = "handover"
            /\ flag' = 1
            /\ sent' = out
            /\ old_edge' = (old_edge \/ out = RE)
            /\ fpc' = IF out \in Queries THEN "await" ELSE "idle"
            /\ UNCHANGED <<msglen, payload, out, result, network, bfiles,
                           restarts>>

(* Faulty variant: no deadline. *)
StopWaitingOnHold == /\ fpc = "await" /\ flag = 2
                     /\ fpc' = "idle"
                     /\ UNCHANGED <<shm, out, sent, old_edge, result, network,
                                    bfiles, restarts>>

(* shm_check: flag 0 is the answer; flag 2, or flag 1 past the deadline,   *)
(* sends the caller away without one.                                      *)
SeeAnswer == /\ fpc = "await" /\ flag = 0
             /\ fpc' = "copy"
             /\ UNCHANGED <<shm, out, sent, old_edge, result, network, bfiles,
                            restarts>>

StopWaiting == /\ fpc = "await" /\ flag # 0
               /\ fpc' = "idle"
               /\ UNCHANGED <<shm, out, sent, old_edge, result, network,
                              bfiles, restarts>>

(* myread copies the answer out; -2 outside backup mode runs read_backup.  *)
CopyAnswer == /\ fpc = "copy"
              /\ result' = Received
              /\ \/ fpc' = "idle"
                 \/ /\ Received.tag = "AN"
                    /\ Received.byte = Unbalanced
                    /\ fpc' = "backup"
              /\ UNCHANGED <<shm, out, sent, old_edge, network, bfiles,
                             restarts>>

ReadBackup == /\ fpc = "backup"
              /\ fpc' = "idle"
              /\ UNCHANGED <<shm, out, sent, old_edge, result, network,
                             bfiles, restarts>>

(* The fuzzer stops or is killed, at any point. *)
Exit == /\ fpc # "gone"
        /\ fpc' = "gone"
        /\ UNCHANGED <<shm, out, sent, old_edge, result, network, bfiles,
                       restarts>>

FuzzerStep == \/ Start \/ TrySend \/ PutLength \/ PutText \/ Handover
              \/ SeeAnswer \/ StopWaiting \/ CopyAnswer \/ ReadBackup

-----------------------------------------------------------------------------
(***************************************************************************)
(* nn-dom.py                                                               *)
(***************************************************************************)
(* attach_shm accepts a segment only while its creator lives. *)
Attach == /\ npc = "down" /\ fpc # "gone"
          /\ npc' = "poll"
          /\ UNCHANGED <<shm, fuzzer, r_data, answer, net, bfiles, restarts>>

SeeRequest == /\ npc = "poll" /\ flag = 1
              /\ npc' = "read"
              /\ UNCHANGED <<shm, fuzzer, r_data, answer, net, bfiles,
                             restarts>>

(* wait_for_fuzzer leaves the process once the fuzzer is gone. *)
FuzzerDead == /\ npc = "poll" /\ flag # 1 /\ fpc = "gone"
              /\ npc' = "down"
              /\ r_data' = None /\ answer' = None /\ net' = "untrained"
              /\ UNCHANGED <<shm, fuzzer, bfiles, restarts>>

ReadRequest == /\ npc = "read"
               /\ r_data' = Received
               /\ npc' = "dispatch"
               /\ UNCHANGED <<shm, fuzzer, answer, net, bfiles, restarts>>

(* The TA branch: what it answers depends on the last training.            *)
Suggestions == CASE net = "ready" -> Bytes \cup {NoByte}
                 [] net = "unbalanced" -> {Unbalanced}
                 [] OTHER -> {NoByte}

OnQuery(b) == /\ npc = "dispatch" /\ r_data \in Queries
              /\ b \in Suggestions
              /\ answer' = Answer(r_data.seed, b)
              /\ npc' = "answer"
              /\ UNCHANGED <<shm, fuzzer, r_data, net, bfiles, restarts>>

OnRetrain == /\ npc = "dispatch" /\ r_data = RE
             /\ npc' = "hold"
             /\ UNCHANGED <<shm, fuzzer, r_data, answer, net, bfiles,
                            restarts>>

(* Faulty variant: START FUZZ needs no reply, the segment is not given back. *)
OnStartKeeps == /\ npc = "dispatch" /\ r_data = ST
                /\ npc' = "poll"
                /\ UNCHANGED <<shm, fuzzer, r_data, answer, net, bfiles,
                               restarts>>

OnStart == /\ npc = "dispatch" /\ r_data = ST
           /\ npc' = "release"
           /\ UNCHANGED <<shm, fuzzer, r_data, answer, net, bfiles, restarts>>

(* Any other tag falls through every branch, back to myread. *)
OnOther == /\ npc = "dispatch" /\ r_data \notin Requests
           /\ npc' = "poll"
           /\ UNCHANGED <<shm, fuzzer, r_data, answer, net, bfiles, restarts>>

(* Faulty variant: the flag is cleared before the length is there. *)
AnswerTextAndFlag == /\ npc = "answer" /\ flag = 1
                     /\ payload' = answer /\ flag' = 0
                     /\ npc' = "putlen"
                     /\ UNCHANGED <<msglen, fuzzer, r_data, answer, net,
                                    bfiles, restarts>>

(* mywrite: wait_for_fuzzer again, then text, length, flag, in this order. *)
AnswerText == /\ npc = "answer" /\ flag = 1
              /\ payload' = answer
              /\ npc' = "putlen"
              /\ UNCHANGED <<flag, msglen, fuzzer, r_data, answer, net,
                             bfiles, restarts>>

AnswerLength == /\ npc = "putlen"
                /\ msglen' = answer
                /\ npc' = "reply"
                /\ UNCHANGED <<flag, payload, fuzzer, r_data, answer, net,
                               bfiles, restarts>>

AnswerFlag == /\ npc = "reply"
              /\ flag' = 0
              /\ npc' = "poll"
              /\ UNCHANGED <<msglen, payload, fuzzer, r_data, answer, net,
                             bfiles, restarts>>

(* Faulty variant: the segment is given back during the training. *)
HoldNothing == /\ npc = "hold"
               /\ flag' = 0
               /\ npc' = "train"
               /\ UNCHANGED <<msglen, payload, fuzzer, r_data, answer, net,
                              bfiles, restarts>>

Hold == /\ npc = "hold"
        /\ flag' = 2
        /\ npc' = "train"
        /\ UNCHANGED <<msglen, payload, fuzzer, r_data, answer, net, bfiles,
                       restarts>>

(* retrain: init() raises, at any point of it, and is retried after 5 min. *)
InitFails == /\ npc \in {"train", "writing", "wrote"}
             /\ npc' = "sleep"
             /\ UNCHANGED <<shm, fuzzer, r_data, answer, net, bfiles,
                            restarts>>

RetryInit == /\ npc = "sleep"
             /\ npc' = "train"
             /\ UNCHANGED <<shm, fuzzer, r_data, answer, net, bfiles,
                            restarts>>

(* Faulty variant: init() returns while the files are still being written. *)
TruncateAndReturn == /\ npc = "train"
                     /\ bfiles' = "partial"
                     /\ npc' = "wrote"
                     /\ UNCHANGED <<shm, fuzzer, r_data, answer, net,
                                    restarts>>

(* init() finds the set unbalanced: it truncates and rewrites both files.  *)
TruncateBackupFiles == /\ npc = "train"
                       /\ bfiles' = "partial"
                       /\ npc' = "writing"
                       /\ UNCHANGED <<shm, fuzzer, r_data, answer, net,
                                      restarts>>

CloseBackupFiles == /\ npc = "writing"
                    /\ bfiles' = "whole"
                    /\ npc' = "wrote"
                    /\ UNCHANGED <<shm, fuzzer, r_data, answer, net, restarts>>

ReturnUnbalanced == /\ npc = "wrote"
                    /\ net' = "unbalanced"
                    /\ npc' = "release"
                    /\ UNCHANGED <<shm, fuzzer, r_data, answer, bfiles,
                                   restarts>>

(* A balanced set: the model is kept, or discarded as uninformative.       *)
ReturnTrained == /\ npc = "train"
                 /\ net' \in {"ready", "discarded"}
                 /\ npc' = "release"
                 /\ UNCHANGED <<shm, fuzzer, r_data, answer, bfiles, restarts>>

(* shm_unlock, after training and for START FUZZ. *)
Release == /\ npc = "release"
           /\ flag' = 0
           /\ npc' = "poll"
           /\ UNCHANGED <<msglen, payload, fuzzer, r_data, answer, net,
                          bfiles, restarts>>

(* The process dies: an exception outside retrain's try, or a signal. *)
Die == /\ npc # "down" /\ restarts < MaxRestarts
       /\ npc' = "down"
       /\ r_data' = None /\ answer' = None /\ net' = "untrained"
       /\ restarts' = restarts + 1
       /\ UNCHANGED <<shm, fuzzer, bfiles>>

NetworkStep ==
  \/ Attach \/ SeeRequest \/ FuzzerDead \/ ReadRequest
  \/ \E b \in Replies : OnQuery(b)
  \/ OnRetrain \/ OnStart \/ OnOther
  \/ AnswerText \/ AnswerLength \/ AnswerFlag
  \/ Hold \/ InitFails \/ RetryInit \/ TruncateBackupFiles
  \/ CloseBackupFiles \/ ReturnUnbalanced \/ ReturnTrained \/ Release

Next == \/ FuzzerStep
        \/ \E s \in Seeds : Query(s)
        \/ Retrain
        \/ Exit
        \/ NetworkStep
        \/ Die

Spec == Init /\ [][Next]_vars

(* A started afl-fuzz call goes on, and so does the network; nothing makes *)
(* the fuzzer ask, stop or die.                                            *)
FairSpec == Spec /\ WF_vars(FuzzerStep) /\ WF_vars(NetworkStep)

-----------------------------------------------------------------------------
(***************************************************************************)
(* Properties                                                              *)
(***************************************************************************)
(* Every variable stays within its type. *)
TypeOK == /\ flag \in 0..2
          /\ msglen \in Requests \cup Answers \cup {None}
          /\ payload \in Requests \cup Answers \cup {None}
          /\ fpc \in FuzzerPCs
          /\ out \in Requests \cup {None}
          /\ sent \in Requests \cup {None}
          /\ old_edge \in BOOLEAN
          /\ result \in Answers \cup {None, Garbled}
          /\ npc \in NetworkPCs
          /\ r_data \in Requests \cup Answers \cup {None, Garbled}
          /\ answer \in Answers \cup {None}
          /\ net \in {"untrained", "ready", "discarded", "unbalanced"}
          /\ bfiles \in {"none", "partial", "whole"}
          /\ restarts \in 0..MaxRestarts

(* Only the current owner touches the segment (shmutils.c): the fuzzer     *)
(* never writes or copies while the network reads, writes or trains.       *)
FuzzerAccess == fpc \in {"putlen", "puttext", "handover", "copy"}
NetworkAccess == npc \notin {"down", "poll"}
OneOwner == ~(FuzzerAccess /\ NetworkAccess)

(* The network acts on the message the fuzzer last handed over, whole;     *)
(* what a network that died while it wrote its answer left behind is       *)
(* never mistaken for a request.                                           *)
ActsOnRequest ==
  npc = "dispatch" => \/ r_data = sent
                      \/ restarts > 0 /\ r_data \notin Requests

(* An answer is only ever taken by the query it was computed for: a late   *)
(* answer to a query that timed out is never returned for the next one.    *)
OwnAnswer ==
  [][result' # result =>
       /\ sent \in Queries
       /\ \E b \in Replies : result' = Answer(sent.seed, b)]_vars

(* When read_backup opens the two backup files, they are complete and the  *)
(* network is not rewriting them.                                          *)
BackupFilesWhole == fpc = "backup" => bfiles = "whole"

(* A query, a START or a RETRAIN never blocks the fuzzer: whatever the     *)
(* network does, it is soon back at its own work.                          *)
NeverHangs == [](fpc # "idle" => <>(fpc \in {"idle", "gone"}))

(* A live network gives the segment back or says that it trains: only its  *)
(* death, or the fuzzer's, can leave a request where it is.                *)
RequestServed == (flag = 1) ~> (flag # 1 \/ restarts > 0 \/ fpc = "gone")

(* The network leaves once the fuzzer is gone. *)
LeavesAfterFuzzer == (fpc = "gone") ~> (npc = "down")

(* The channel implements the message service: flag is its phase, and the  *)
(* text counts only while the fuzzer waits for it and the flag is 0.       *)
Waiting == fpc \in {"await", "copy"}
Service == INSTANCE NNService WITH
  phase <- CASE flag = 0 -> "free"
             [] flag = 1 -> "asked"
             [] OTHER -> "training",
  request <- sent,
  waiting <- Waiting,
  box <- IF Waiting /\ flag = 0 THEN payload ELSE None,
  result <- result
ImplementsService == Service!SSpec
=============================================================================

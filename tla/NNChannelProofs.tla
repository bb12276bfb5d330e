-------------------------- MODULE NNChannelProofs --------------------------
(***************************************************************************)
(* The channel keeps its ownership discipline, and implements the message  *)
(* service, for any seeds, any answers and any number of restarts.         *)
(***************************************************************************)
EXTENDS NNChannel, TLAPS

(* The answers to the message last handed over. *)
AnswersToSent == {Answer(sent.seed, b) : b \in Replies}

(* While the network owns the segment, each cell still holds the request   *)
(* or part of an answer to it.                                             *)
Mine(m) == m = sent \/ (sent \in Queries /\ m \in AnswersToSent)

(* The flag says who is at work on the segment. *)
FlagInv ==
  /\ fpc \in {"putlen", "puttext", "handover", "copy", "backup"} => flag = 0
  /\ npc \in {"read", "dispatch", "answer", "putlen", "reply", "hold"} => flag = 1
  /\ npc \in {"train", "writing", "wrote", "sleep"} => flag = 2
  /\ npc = "release" => (flag = 2 \/ (flag = 1 /\ sent = ST))
  /\ npc = "hold" => sent = RE

(* What the fuzzer has put in the cells before it hands them over. *)
SendInv ==
  /\ fpc \in {"send", "putlen", "puttext", "handover"} => out \in Requests
  /\ fpc \in {"puttext", "handover"} => msglen = out
  /\ fpc = "handover" => payload = out

(* What the cells hold while the network owns them. *)
RequestInv ==
  /\ flag = 1 => sent \in Requests /\ Mine(payload) /\ Mine(msglen)
  /\ flag = 1 /\ restarts = 0 /\ npc \notin {"putlen", "reply"} =>
       payload = sent /\ msglen = sent
  /\ npc = "dispatch" => \/ r_data = sent
                         \/ restarts > 0 /\ r_data \notin Requests

(* The answer on its way to the fuzzer, and in the fuzzer's hands. *)
AnswerInv ==
  /\ npc \in {"answer", "putlen", "reply"} =>
       sent \in Queries /\ answer \in AnswersToSent
  /\ npc \in {"putlen", "reply"} => payload = answer
  /\ npc = "reply" => msglen = answer
  /\ fpc \in {"await", "copy"} => sent \in Queries /\ flag \in {0, 1}
  /\ fpc \in {"await", "copy"} /\ flag = 0 =>
       payload \in AnswersToSent /\ msglen = payload

(* An answer -2 exists only while the backup files are complete. *)
BackupInv ==
  /\ npc = "wrote" => bfiles = "whole"
  /\ net = "unbalanced" =>
       npc \in {"train", "writing", "sleep"} \/ bfiles = "whole"
  /\ npc \in {"answer", "putlen", "reply"} /\ answer.byte = Unbalanced =>
       bfiles = "whole"
  /\ fpc \in {"await", "copy"} /\ flag = 0 /\ payload.byte = Unbalanced =>
       bfiles = "whole"
  /\ fpc = "backup" => bfiles = "whole"

IInv == TypeOK /\ FlagInv /\ SendInv /\ RequestInv /\ AnswerInv /\ BackupInv

-----------------------------------------------------------------------------
(* The tags keep the kinds of message apart. *)
LEMMA Tags ==
  /\ \A m \in Queries : m.tag = "TA" /\ m.seed \in Seeds /\ m = TA(m.seed)
  /\ \A s \in Seeds : TA(s) \in Queries
  /\ RE.tag = "RE" /\ ST.tag = "ST"
  /\ \A m \in Answers : m.tag = "AN"
  /\ None.tag = "none" /\ Garbled.tag = "garbled"
  /\ RE \in Requests /\ ST \in Requests
  /\ RE \notin Queries /\ ST \notin Queries /\ RE # ST
  /\ Queries \subseteq Requests
  /\ \A m \in Answers : m \notin Requests /\ m # None
  /\ None \notin Requests /\ Garbled \notin Requests
  /\ None \notin Answers /\ Garbled \notin Answers
<1>1. \A s : TA(s).tag = "TA" /\ TA(s).seed = s
  BY DEF TA
<1>2. \A s, b : Answer(s, b).tag = "AN"
  BY DEF Answer
<1>3. /\ RE.tag = "RE" /\ ST.tag = "ST"
      /\ None.tag = "none" /\ Garbled.tag = "garbled"
  BY DEF RE, ST, None, Garbled
<1>4. /\ \A m \in Queries : m.tag = "TA" /\ m.seed \in Seeds /\ m = TA(m.seed)
      /\ \A s \in Seeds : TA(s) \in Queries
  BY <1>1 DEF Queries
<1>5. \A m \in Answers : m.tag = "AN"
  BY <1>2 DEF Answers
<1> QED
  BY <1>3, <1>4, <1>5 DEF Requests

LEMMA AnswerFields ==
  ASSUME NEW s, NEW b
  PROVE  Answer(s, b).seed = s /\ Answer(s, b).byte = b
BY DEF Answer

(* An answer to a query that was sent is one of the answers. *)
LEMMA AnswersToSentTyped ==
  ASSUME sent \in Queries
  PROVE  AnswersToSent \subseteq Answers
BY Tags DEF AnswersToSent, Answers

-----------------------------------------------------------------------------
(* Nothing is in the segment, and nobody is at it, when the fuzzer starts. *)
LEMMA InitInv == Init => IInv
<1> SUFFICES ASSUME Init PROVE IInv
  OBVIOUS
<1>1. TypeOK
  <2>1. restarts \in 0..MaxRestarts
    BY RestartsAssumption DEF Init, RestartsAssumption
  <2>2. old_edge \in BOOLEAN
    BY DEF Init
  <2>3. fpc \in FuzzerPCs /\ npc \in NetworkPCs
    BY DEF Init, FuzzerPCs, NetworkPCs
  <2> QED
    BY <2>1, <2>2, <2>3 DEF Init, TypeOK
<1>2. FlagInv /\ SendInv /\ RequestInv /\ AnswerInv /\ BackupInv
  BY DEF Init, FlagInv, SendInv, RequestInv, AnswerInv, BackupInv
<1> QED
  BY <1>1, <1>2 DEF IInv

(* A step of afl-fuzz writes the segment only under flag 0. *)
LEMMA FuzzerInv ==
  ASSUME IInv,
         \/ FuzzerStep \/ (\E s \in Seeds : Query(s)) \/ Retrain \/ Exit
  PROVE  IInv'
<1> USE Tags DEF IInv, TypeOK, FlagInv, SendInv, RequestInv, AnswerInv,
                 BackupInv, FuzzerPCs, Mine, AnswersToSent,
                 shm, network, Call
<1>1. CASE Start
  BY <1>1 DEF Start
<1>2. ASSUME NEW s \in Seeds, Query(s) PROVE IInv'
  BY <1>2 DEF Query
<1>3. CASE Retrain
  BY <1>3 DEF Retrain
<1>4. CASE TrySend
  BY <1>4 DEF TrySend
<1>5. CASE PutLength
  BY <1>5 DEF PutLength
<1>6. CASE PutText
  BY <1>6 DEF PutText
<1>7. CASE Handover
  BY <1>7 DEF Handover
<1>8. CASE SeeAnswer
  BY <1>8 DEF SeeAnswer
<1>9. CASE StopWaiting
  BY <1>9 DEF StopWaiting
<1>10. CASE CopyAnswer
  BY <1>10, AnswersToSentTyped DEF CopyAnswer, Received
<1>11. CASE ReadBackup
  BY <1>11 DEF ReadBackup
<1>12. CASE Exit
  BY <1>12 DEF Exit
<1> QED
  BY <1>1, <1>2, <1>3, <1>4, <1>5, <1>6, <1>7, <1>8, <1>9, <1>10, <1>11,
     <1>12 DEF FuzzerStep

(* A step of the network writes the segment only under flag 1 or 2. *)
LEMMA NetworkInv ==
  ASSUME IInv, NetworkStep
  PROVE  IInv'
<1> USE Tags DEF IInv, TypeOK, FlagInv, SendInv, RequestInv, AnswerInv,
                 BackupInv, NetworkPCs, Mine, AnswersToSent, shm, fuzzer
<1>1. CASE Attach
  BY <1>1 DEF Attach
<1>2. CASE SeeRequest
  BY <1>2 DEF SeeRequest
<1>3. CASE FuzzerDead
  BY <1>3 DEF FuzzerDead
<1>4. CASE ReadRequest
  BY <1>4, AnswersToSentTyped DEF ReadRequest, Received
<1>5. ASSUME NEW b \in Replies, OnQuery(b) PROVE IInv'
  <2>1. r_data = sent /\ sent \in Queries
    BY <1>5 DEF OnQuery
  <2>2. answer' \in AnswersToSent /\ answer' \in Answers
    BY <1>5, <2>1, AnswersToSentTyped DEF OnQuery
  <2>3. answer'.byte = b /\ (b = Unbalanced => net = "unbalanced")
    BY <1>5, AnswerFields, BytesAssumption
    DEF OnQuery, Suggestions, NoByte, Unbalanced, BytesAssumption
  <2> QED
    BY <1>5, <2>1, <2>2, <2>3 DEF OnQuery
<1>6. CASE OnRetrain
  BY <1>6 DEF OnRetrain
<1>7. CASE OnStart
  BY <1>7 DEF OnStart
<1>8. CASE OnOther
  BY <1>8 DEF OnOther
<1>9. CASE AnswerText
  BY <1>9, AnswersToSentTyped DEF AnswerText
<1>10. CASE AnswerLength
  BY <1>10, AnswersToSentTyped DEF AnswerLength
<1>11. CASE AnswerFlag
  BY <1>11 DEF AnswerFlag
<1>12. CASE Hold
  BY <1>12 DEF Hold
<1>13. CASE InitFails \/ RetryInit
  BY <1>13 DEF InitFails, RetryInit
<1>14. CASE TruncateBackupFiles \/ CloseBackupFiles
  BY <1>14 DEF TruncateBackupFiles, CloseBackupFiles
<1>15. CASE ReturnUnbalanced \/ ReturnTrained
  BY <1>15 DEF ReturnUnbalanced, ReturnTrained
<1>16. CASE Release
  BY <1>16 DEF Release
<1> QED
  BY <1>1, <1>2, <1>3, <1>4, <1>5, <1>6, <1>7, <1>8, <1>9, <1>10, <1>11,
     <1>12, <1>13, <1>14, <1>15, <1>16 DEF NetworkStep

(* The network may die anywhere: what it leaves in the cells is covered. *)
LEMMA DieInv ==
  ASSUME IInv, Die
  PROVE  IInv'
<1> USE Tags DEF IInv, Die, shm, fuzzer
<1>1. TypeOK'
  BY RestartsAssumption DEF TypeOK, NetworkPCs, RestartsAssumption
<1>2. restarts' > 0
  BY RestartsAssumption DEF TypeOK, RestartsAssumption
<1>3. FlagInv' /\ SendInv' /\ RequestInv' /\ AnswerInv' /\ BackupInv'
  BY <1>2 DEF FlagInv, SendInv, RequestInv, AnswerInv, BackupInv, Mine,
              AnswersToSent
<1> QED
  BY <1>1, <1>3

LEMMA NextInv == IInv /\ [Next]_vars => IInv'
<1> SUFFICES ASSUME IInv, [Next]_vars PROVE IInv'
  OBVIOUS
<1>1. CASE Next
  BY <1>1, FuzzerInv, NetworkInv, DieInv DEF Next
<1>2. CASE UNCHANGED vars
  BY <1>2 DEF vars, IInv, TypeOK, FlagInv, SendInv, RequestInv, AnswerInv,
              BackupInv, Mine, AnswersToSent
<1> QED
  BY <1>1, <1>2

THEOREM Invariance == Spec => []IInv
BY InitInv, NextInv, PTL DEF Spec

-----------------------------------------------------------------------------
(* Every variable stays within its type, for any constants. *)
THEOREM TypeCorrect == Spec => []TypeOK
<1>1. IInv => TypeOK
  BY DEF IInv
<1> QED
  BY <1>1, Invariance, PTL

(* afl-fuzz and nn-dom.py never access the segment at the same time. *)
THEOREM Exclusion == Spec => []OneOwner
<1>1. IInv => OneOwner
  BY DEF IInv, TypeOK, NetworkPCs, FlagInv, OneOwner, FuzzerAccess,
         NetworkAccess
<1> QED
  BY <1>1, Invariance, PTL

(* The network acts on the fuzzer's last message, whole, or on none. *)
THEOREM RequestsIntact == Spec => []ActsOnRequest
<1>1. IInv => ActsOnRequest
  BY DEF IInv, RequestInv, ActsOnRequest
<1> QED
  BY <1>1, Invariance, PTL

(* read_backup reads complete files that nobody is rewriting. *)
THEOREM BackupFilesComplete == Spec => []BackupFilesWhole
<1>1. IInv => BackupFilesWhole
  BY DEF IInv, BackupInv, BackupFilesWhole
<1> QED
  BY <1>1, Invariance, PTL

(* An answer is taken only by the query it was computed for. *)
THEOREM AnswersMatch == Spec => OwnAnswer
<1> DEFINE Own == result' # result =>
                    /\ sent \in Queries
                    /\ \E b \in Replies : result' = Answer(sent.seed, b)
<1>1. ASSUME IInv, Next, result' # result PROVE Own
  <2>1. CASE CopyAnswer
    BY <1>1, <2>1 DEF CopyAnswer, Received, IInv, FlagInv, AnswerInv,
                      AnswersToSent
  <2>2. CASE FuzzerStep /\ ~CopyAnswer
    BY <1>1, <2>2
    DEF FuzzerStep, Start, TrySend, PutLength, PutText, Handover, SeeAnswer,
        StopWaiting, ReadBackup
  <2>3. CASE (\E s \in Seeds : Query(s)) \/ Retrain \/ Exit
    BY <1>1, <2>3 DEF Query, Retrain, Exit
  <2>4. CASE NetworkStep \/ Die
    BY <1>1, <2>4
    DEF NetworkStep, Die, fuzzer, Attach, SeeRequest, FuzzerDead, ReadRequest,
        OnQuery, OnRetrain, OnStart, OnOther, AnswerText, AnswerLength,
        AnswerFlag, Hold, InitFails, RetryInit, TruncateBackupFiles,
        CloseBackupFiles, ReturnUnbalanced, ReturnTrained, Release
  <2> QED
    BY <1>1, <2>1, <2>2, <2>3, <2>4 DEF Next
<1>2. IInv /\ [Next]_vars => [Own]_vars
  BY <1>1
<1> QED
  BY <1>2, Invariance, PTL DEF Spec, OwnAnswer
-----------------------------------------------------------------------------
(* Every step of the channel is a step of the message service or none.     *)
LEMMA StepImplements ==
  ASSUME IInv, [Next]_vars
  PROVE  [Service!SNext]_(Service!svars)
<1> USE Tags DEF IInv, FlagInv, AnswerInv, Service!svars, Waiting
<1>1. CASE UNCHANGED vars
  BY <1>1 DEF vars
<1>2. CASE Start \/ TrySend \/ PutLength \/ PutText \/ ReadBackup
  BY <1>2 DEF Start, TrySend, PutLength, PutText, ReadBackup, Call, shm
<1>3. CASE Handover
  <2>1. Service!Ask(out)
    BY <1>3 DEF Handover, Service!Ask, Service!Queries, Service!TA, Queries, TA
  <2>2. Service!Requests = Requests
    BY DEF Service!Requests, Requests, Service!Queries, Service!TA, Queries,
           TA, Service!RE, Service!ST, RE, ST
  <2>3. out \in Requests
    BY <1>3 DEF Handover, SendInv
  <2> QED
    BY <2>1, <2>2, <2>3 DEF Service!SNext
<1>4. CASE SeeAnswer
  BY <1>4 DEF SeeAnswer, shm
<1>5. CASE StopWaiting
  <2>1. Service!GiveUp
    BY <1>5 DEF StopWaiting, shm, Service!GiveUp, Service!None, None
  <2> QED
    BY <2>1 DEF Service!SNext
<1>6. CASE CopyAnswer
  <2>1. payload # None /\ Received = payload
    BY <1>6, AnswersToSentTyped DEF CopyAnswer, Received
  <2>2. Service!Take
    BY <1>6, <2>1 DEF CopyAnswer, shm, Service!Take, Service!None, None
  <2> QED
    BY <2>2 DEF Service!SNext
<1>7. CASE (\E s \in Seeds : Query(s)) \/ Retrain
  BY <1>7 DEF Query, Retrain, Call, shm
<1>8. CASE Exit
  <2>1. CASE Waiting
    <3>1. Service!GiveUp
      BY <1>8, <2>1 DEF Exit, shm, Service!GiveUp, Service!None, None
    <3> QED
      BY <3>1 DEF Service!SNext
  <2>2. CASE ~Waiting
    BY <1>8, <2>2 DEF Exit, shm
  <2> QED
    BY <2>1, <2>2
<1>9. CASE Attach \/ SeeRequest \/ FuzzerDead \/ ReadRequest \/ OnRetrain
           \/ OnStart \/ OnOther \/ (\E b \in Replies : OnQuery(b)) \/ Die
  BY <1>9 DEF Attach, SeeRequest, FuzzerDead, ReadRequest, OnRetrain, OnStart,
              OnOther, OnQuery, Die, shm, fuzzer
<1>10. CASE InitFails \/ RetryInit \/ TruncateBackupFiles
            \/ CloseBackupFiles \/ ReturnUnbalanced \/ ReturnTrained
  BY <1>10 DEF InitFails, RetryInit, TruncateBackupFiles, CloseBackupFiles,
               ReturnUnbalanced, ReturnTrained, shm, fuzzer
<1>11. CASE AnswerText \/ AnswerLength
  BY <1>11 DEF AnswerText, AnswerLength, fuzzer
<1>12. CASE AnswerFlag
  <2>1. PICK b \in Replies : answer = Answer(sent.seed, b)
    BY <1>12 DEF AnswerFlag, AnswersToSent
  <2>2. Service!Reply(b)
    BY <1>12, <2>1
    DEF AnswerFlag, fuzzer, Service!Reply, Service!Queries, Service!TA,
        Queries, TA, Service!Answer, Answer, Service!None, None
  <2> QED
    BY <2>2 DEF Service!SNext, Service!Replies, Replies, Service!NoByte,
                NoByte, Service!Unbalanced, Unbalanced
<1>13. CASE Hold
  <2>1. Service!BeginTraining
    BY <1>13 DEF Hold, fuzzer, Service!BeginTraining, Service!RE, RE
  <2> QED
    BY <2>1 DEF Service!SNext
<1>14. CASE Release
  <2>1. CASE flag = 2
    <3>1. Service!EndTraining
      BY <1>14, <2>1 DEF Release, fuzzer, Service!EndTraining
    <3> QED
      BY <3>1 DEF Service!SNext
  <2>2. CASE flag = 1 /\ sent = ST
    <3>1. Service!Acknowledge
      BY <1>14, <2>2 DEF Release, fuzzer, Service!Acknowledge, Service!ST, ST
    <3> QED
      BY <3>1 DEF Service!SNext
  <2> QED
    BY <1>14, <2>1, <2>2 DEF Release
<1> QED
  BY <1>1, <1>2, <1>3, <1>4, <1>5, <1>6, <1>7, <1>8, <1>9, <1>10, <1>11,
     <1>12, <1>13, <1>14 DEF Next, FuzzerStep, NetworkStep

(* The channel implements the message service: one message at a time, each *)
(* answer delivered to its own query or to nobody.                         *)
THEOREM Implementation == Spec => ImplementsService
<1>1. Init => Service!SInit
  BY DEF Init, Service!SInit, Waiting, Service!None, None
<1>2. IInv /\ [Next]_vars => [Service!SNext]_(Service!svars)
  BY StepImplements
<1> QED
  BY <1>1, <1>2, Invariance, PTL DEF Spec, ImplementsService, Service!SSpec
=============================================================================

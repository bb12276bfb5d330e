----------------------------- MODULE NNService -----------------------------
(***************************************************************************)
(* What the shared-memory channel between afl-fuzz and nn-dom.py promises, *)
(* without the memory: the fuzzer hands over one message at a time, the    *)
(* network answers the message it was handed or trains, and a caller that  *)
(* waits is given the answer to its own question or gives up.              *)
(* NNChannel implements this specification (NNChannel!Service).            *)
(***************************************************************************)
EXTENDS NNMessages

VARIABLES phase,        \* "free", "asked" or "training"
          request,      \* the message last handed over
          waiting,      \* the fuzzer waits for the answer to request
          box,          \* the answer the waiting fuzzer has not taken yet
          result        \* what the last query that was answered returned

svars == <<phase, request, waiting, box, result>>

SInit == /\ phase = "free"
         /\ request = None
         /\ waiting = FALSE
         /\ box = None
         /\ result = None

Ask(m) == /\ phase = "free" /\ ~waiting
          /\ phase' = "asked"
          /\ request' = m
          /\ waiting' = (m \in Queries)
          /\ UNCHANGED <<box, result>>

(* An answer nobody waits for any more is dropped. *)
Reply(b) == /\ phase = "asked" /\ request \in Queries
            /\ phase' = "free"
            /\ box' = IF waiting THEN Answer(request.seed, b) ELSE None
            /\ UNCHANGED <<request, waiting, result>>

Acknowledge == /\ phase = "asked" /\ request = ST
               /\ phase' = "free"
               /\ UNCHANGED <<request, waiting, box, result>>

BeginTraining == /\ phase = "asked" /\ request = RE
                 /\ phase' = "training"
                 /\ UNCHANGED <<request, waiting, box, result>>

EndTraining == /\ phase = "training"
               /\ phase' = "free"
               /\ UNCHANGED <<request, waiting, box, result>>

Take == /\ waiting /\ box # None
        /\ waiting' = FALSE
        /\ box' = None
        /\ result' = box
        /\ UNCHANGED <<phase, request>>

(* The caller times out, or the fuzzer dies while it waits. *)
GiveUp == /\ waiting
          /\ waiting' = FALSE
          /\ box' = None
          /\ UNCHANGED <<phase, request, result>>

SNext == \/ \E m \in Requests : Ask(m)
         \/ \E b \in Replies : Reply(b)
         \/ Acknowledge \/ BeginTraining \/ EndTraining
         \/ Take \/ GiveUp

SSpec == SInit /\ [][SNext]_svars
=============================================================================

----------------------------- MODULE NNMessages -----------------------------
(***************************************************************************)
(* The messages afl-fuzz and nn-dom.py exchange.  The tag stands for the   *)
(* two letters the network switches on.  An answer carries the seed it was *)
(* computed for; the seed is not on the wire and serves only to state      *)
(* which query an answer belongs to.                                       *)
(***************************************************************************)
EXTENDS Integers

CONSTANTS Seeds,        \* names of queue entries a query can be about
          Bytes         \* byte offsets the network can answer with

ASSUME BytesAssumption == Bytes \subseteq Nat

(* An answer is a byte offset, NoByte (nothing to suggest) or Unbalanced   *)
(* (generate more samples first).                                          *)
NoByte == -1
Unbalanced == -2
Replies == Bytes \cup {NoByte, Unbalanced}

TA(s) == [tag |-> "TA", seed |-> s]
RE == [tag |-> "RE"]
ST == [tag |-> "ST"]
Answer(s, b) == [tag |-> "AN", seed |-> s, byte |-> b]

Queries == {TA(s) : s \in Seeds}
Requests == Queries \cup {RE, ST}
Answers == {Answer(s, b) : s \in Seeds, b \in Replies}

(* No message, and bytes that are no message. *)
None == [tag |-> "none"]
Garbled == [tag |-> "garbled"]
=============================================================================

------------------------------- MODULE Delivery -------------------------------
(***************************************************************************)
(* What a sender on the WebSocket may rely on, whatever connections and    *)
(* sessions come and go: a command reaches the peer at most once, success  *)
(* means that it did, and a refusal means that it never will.              *)
(***************************************************************************)
CONSTANT Commands
VARIABLES phase, delivered

vars == <<phase, delivered>>
Phases == {"new", "open", "ok", "refused", "uncertain"}

Init ==
  /\ phase = [c \in Commands |-> "new"]
  /\ delivered = [c \in Commands |-> FALSE]

Accept(c) ==
  /\ phase[c] = "new"
  /\ phase' = [phase EXCEPT ![c] = "open"]
  /\ UNCHANGED delivered

Deliver(c) ==
  /\ phase[c] \in {"open", "uncertain"} /\ ~delivered[c]
  /\ delivered' = [delivered EXCEPT ![c] = TRUE]
  /\ UNCHANGED phase

(* Confirm, refuse or give up on a set of commands: closing settles several at once *)
Settle ==
  /\ \E settled \in SUBSET Commands :
       /\ settled # {}
       /\ \A c \in Commands \ settled : phase'[c] = phase[c]
       /\ \A c \in settled :
            \/ phase[c] = "open" /\ delivered[c] /\ phase'[c] = "ok"
            \/ phase[c] \in {"new", "open"} /\ ~delivered[c] /\ phase'[c] = "refused"
            \/ phase[c] = "open" /\ phase'[c] = "uncertain"
  /\ phase' \in [Commands -> Phases]
  /\ UNCHANGED delivered

Next == Settle \/ \E c \in Commands : Accept(c) \/ Deliver(c)

Spec == Init /\ [][Next]_vars

(* A refused command never reaches the peer, a confirmed one has *)
AnswersAreTrue ==
  \A c \in Commands :
    /\ phase[c] = "refused" => ~delivered[c]
    /\ phase[c] = "ok" => delivered[c]
================================================================================

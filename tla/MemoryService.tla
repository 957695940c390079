---- MODULE MemoryService ----
(***************************************************************************)
(* What every memory server behind the evaluation promises its clients:    *)
(* a request that has arrived is answered once, from its own memory, or is  *)
(* refused with an error.  RecurrentServer, RagServer, DeltaServer and      *)
(* C2LBatch are shown to implement it.                                      *)
(***************************************************************************)
CONSTANTS
    Absent,     \* the reply of a request that has not arrived
    Asked,      \* of one that has arrived and has got none yet
    Failed      \* the error reply

VARIABLES
    own,        \* own[r]: the answers that are r's own; set once, by the deployment
    reply       \* reply[r]: Absent, Asked, Failed or an answer

vars == <<own, reply>>
Callers == DOMAIN own

Init == reply = [r \in Callers |-> Absent]

Arrive(r) ==
    /\ reply[r] = Absent
    /\ reply' = [reply EXCEPT ![r] = Asked]
    /\ UNCHANGED own

\* Replies, several at once where requests are served as one batch.
Replies ==
    /\ DOMAIN reply' = Callers
    /\ \A r \in Callers :
          \/ reply'[r] = reply[r]
          \/ reply[r] = Asked /\ reply'[r] \in own[r] \cup {Failed}
    /\ UNCHANGED own

Next == Replies \/ \E r \in Callers : Arrive(r)

\* No request that has arrived is kept waiting for good (the requests are
\* finitely many).
NoneWaits == []<>(\A r \in Callers : reply[r] # Asked)

Spec == Init /\ [][Next]_vars /\ NoneWaits
====

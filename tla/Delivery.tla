------------------------------ MODULE Delivery ------------------------------
(***************************************************************************)
(* What the laptop promises, with no process, row or request in sight:     *)
(* what the org server holds of a session was written in its transcript,   *)
(* was approved before it left, a raw transcript follows its digest, and   *)
(* an acknowledgement is never ahead of the server.  Laptop implements     *)
(* this (ImplementsDelivery there): digests and raw transcripts may be     *)
(* delivered late, in any order, again or in an older version, and an      *)
(* acknowledgement may be forgotten, but nothing else may happen.          *)
(***************************************************************************)
EXTENDS Naturals

CONSTANT Session

VARIABLES
    written,    \* turns in the transcript of a session
    approved,   \* sessions released to the org at some time
    delivered,  \* turns behind the digest the server holds (0: none)
    raw,        \* turns of the raw transcript the server holds
    acked       \* sessions the laptop takes for delivered

vars == <<written, approved, delivered, raw, acked>>

Init ==
    /\ written = [s \in Session |-> 0]
    /\ approved = {}
    /\ delivered = [s \in Session |-> 0]
    /\ raw = [s \in Session |-> 0]
    /\ acked = {}

Write(s) ==
    /\ written' = [written EXCEPT ![s] = @ + 1]
    /\ UNCHANGED <<approved, delivered, raw, acked>>

Approve(s) ==
    /\ approved' = approved \cup {s}
    /\ UNCHANGED <<written, delivered, raw, acked>>

\* A batch of digests arrives, or part of one.
Deliver ==
    /\ delivered' \in [Session -> Nat]
    /\ \A s \in Session : delivered'[s] # delivered[s] =>
          s \in approved /\ delivered'[s] \in 1 .. written[s]
    /\ UNCHANGED <<written, approved, raw, acked>>

DeliverRaw(s) ==
    /\ delivered[s] # 0
    /\ \E n \in 0 .. written[s] : raw' = [raw EXCEPT ![s] = n]
    /\ UNCHANGED <<written, approved, delivered, acked>>

Acknowledge(S) ==
    /\ \A s \in S : delivered[s] # 0
    /\ acked' = acked \cup S
    /\ UNCHANGED <<written, approved, delivered, raw>>

Forget(S) ==
    /\ acked' = acked \ S
    /\ UNCHANGED <<written, approved, delivered, raw>>

Next ==
    \/ Deliver
    \/ \E s \in Session : Write(s) \/ Approve(s) \/ DeliverRaw(s)
    \/ \E S \in SUBSET Session : Acknowledge(S) \/ Forget(S)

Spec == Init /\ [][Next]_vars

=============================================================================

------------------------------ MODULE AtomicRpc ------------------------------
(***************************************************************************)
(* What a caller of ProcClient.request may count on: a request is carried  *)
(* out at most once, it is answered only after it was carried out, and one *)
(* that raises may have been carried out, may be carried out later, or     *)
(* never.                                                                  *)
(***************************************************************************)
EXTENDS Naturals

CONSTANT Requests

VARIABLES
  outcome,   \* of each request: "none" before it is sent
  executed   \* how often the service has begun to carry out each request

rpcVars == <<outcome, executed>>

Init ==
  /\ outcome = [r \in Requests |-> "none"]
  /\ executed = [r \in Requests |-> 0]

Send(r) ==
  /\ outcome[r] = "none"
  /\ outcome' = [outcome EXCEPT ![r] = "pending"]
  /\ UNCHANGED executed

Execute(r) ==
  /\ outcome[r] \in {"pending", "raised"}
  /\ executed[r] = 0
  /\ executed' = [executed EXCEPT ![r] = 1]
  /\ UNCHANGED outcome

Answer(r) ==
  /\ outcome[r] = "pending"
  /\ executed[r] = 1
  /\ outcome' = [outcome EXCEPT ![r] = "answered"]
  /\ UNCHANGED executed

(* A request that cannot even be written raises at once. *)
Raise(r) ==
  /\ outcome[r] \in {"none", "pending"}
  /\ outcome' = [outcome EXCEPT ![r] = "raised"]
  /\ UNCHANGED executed

Next == \E r \in Requests : Send(r) \/ Execute(r) \/ Answer(r) \/ Raise(r)

Spec == Init /\ [][Next]_rpcVars
=============================================================================

---------------------------- MODULE SerialTurns -----------------------------
(***************************************************************************)
(* What the gateway's queue promises to a principal: its messages form a   *)
(* line, the one in front and no other has a turn, and a message leaves    *)
(* the line only from the front, after its turn, or with everybody else    *)
(* when the process that holds the lines dies.  Pausing, waiting and       *)
(* notification do not exist here.                                         *)
(***************************************************************************)
EXTENDS Naturals, Sequences

CONSTANTS Messages, Principals, PrincipalOf

VARIABLES
  line,    \* per principal, its messages in the order they arrived
  inTurn   \* the messages that have their turn

turnVars == <<line, inTurn>>

Init ==
  /\ line = [p \in Principals |-> <<>>]
  /\ inTurn = {}

(* A message joins at the back, once; alone in its line it may begin at once. *)
Join(m) ==
  /\ \A i \in 1..Len(line[PrincipalOf[m]]) : line[PrincipalOf[m]][i] # m
  /\ line' = [line EXCEPT ![PrincipalOf[m]] = Append(@, m)]
  /\ \/ UNCHANGED inTurn
     \/ line[PrincipalOf[m]] = <<>> /\ inTurn' = inTurn \cup {m}

Begin(p) ==
  /\ line[p] # <<>>
  /\ Head(line[p]) \notin inTurn
  /\ inTurn' = inTurn \cup {Head(line[p])}
  /\ UNCHANGED line

Finish(p) ==
  /\ line[p] # <<>>
  /\ Head(line[p]) \in inTurn
  /\ inTurn' = inTurn \ {Head(line[p])}
  /\ line' = [line EXCEPT ![p] = Tail(@)]

Forget ==
  /\ line' = [p \in Principals |-> <<>>]
  /\ inTurn' = {}

Next ==
  \/ \E m \in Messages : Join(m)
  \/ \E p \in Principals : Begin(p) \/ Finish(p)
  \/ Forget

Spec == Init /\ [][Next]_turnVars
=============================================================================

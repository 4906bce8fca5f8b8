--------------------------- MODULE AbstractVault ----------------------------
(***************************************************************************)
(* What the users of the vault may count on of what it holds: a map from   *)
(* keys to values that changes only when it is written to, and only while  *)
(* it is open; crashes and restarts change nothing in it.  Initialising it *)
(* empties it, and until an initialisation comes to its end nothing is     *)
(* promised.  When it is open is not promised here: Vault's LockHolds and  *)
(* OpenHolds say that.                                                     *)
(***************************************************************************)
CONSTANTS
  Keys,      \* what the vault holds
  Settings,  \* the keys that are written whole
  Entries    \* what a value consists of

VARIABLES
  lock,     \* "open", "locked", or "broken" by an unfinished initialisation
  contents  \* the value of each key, as a set of entries

Empty == [k \in Keys |-> {}]

Init == lock = "locked" /\ contents = Empty

Open == lock = "locked" /\ lock' = "open" /\ UNCHANGED contents

(* on request, or because a process died whose unlock did not come through *)
Close == lock = "open" /\ lock' = "locked" /\ UNCHANGED contents

Write(k, v) ==
  /\ lock = "open"
  /\ contents' = [contents EXCEPT ![k] = v]
  /\ UNCHANGED lock

Include(k, e) ==
  /\ lock = "open"
  /\ contents' = [contents EXCEPT ![k] = @ \cup {e}]
  /\ UNCHANGED lock

Exchange(k, c, e) ==
  /\ lock = "open" /\ c \in contents[k]
  /\ contents' = [contents EXCEPT ![k] = (@ \ {c}) \cup {e}]
  /\ UNCHANGED lock

Break == lock' = "broken" /\ contents' = Empty

Mend == lock = "broken" /\ lock' = "locked" /\ UNCHANGED contents

Next ==
  \/ Open \/ Close \/ Break \/ Mend
  \/ \E k \in Keys \ Settings : \E e \in Entries : \/ Include(k, e)
                                                 \/ \E c \in Entries : Exchange(k, c, e)
  \/ \E k \in Settings : \E v \in SUBSET Entries : Write(k, v)

Spec == Init /\ [][Next]_<<lock, contents>>
=============================================================================

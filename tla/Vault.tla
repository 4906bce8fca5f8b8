------------------------------- MODULE Vault --------------------------------
(***************************************************************************)
(* The vault of sheriff-secrets: SecretsState over three files.            *)
(*                                                                         *)
(*   master.json           the hash of the master password                 *)
(*   secrets.db            rows key -> value, each encrypted by the        *)
(*                         password it was written under                   *)
(*   secrets_session.json  the password, for the next process              *)
(*                                                                         *)
(* The handlers never await, so no two of them interleave; what can happen *)
(* inside one is that the process dies, or that a write fails and the      *)
(* handler raises with half of its work done.  A commit of sqlite is       *)
(* atomic; a file written in place may be left torn.  initialize is the    *)
(* only handler with more than one step that matters.                      *)
(***************************************************************************)
EXTENDS Naturals, FiniteSets

CONSTANTS
  Passwords,  \* master passwords
  None,       \* no password in memory, no file
  Torn,       \* a file that a crash left half written
  Keys,       \* rows of the database: "secrets", "identity", "llm_provider"...
  Settings,   \* those that are written whole, such as the provider and the tokens
  Entries,    \* what a row holds: handles, activation codes, bindings
  MaxFaults   \* bound: how many crashes and failed writes a behaviour has

ASSUME VaultAssumption ==
  /\ None \notin Passwords /\ Torn \notin Passwords /\ None # Torn
  /\ Settings \subseteq Keys
  /\ MaxFaults \in Nat

VARIABLES
  verifier,  \* master.json
  db,        \* secrets.db: "none", a "legacy" blob, or "sqlite"
  rows,      \* the rows of the sqlite database
  session,   \* secrets_session.json
  memory,    \* _password
  step,      \* where initialize is, "idle" outside it; "down": no process
  target,    \* the password initialize was given
  said,      \* history: how the last unlock, lock or initialize ended
  broken,    \* history: an initialize was cut short since the last whole one
  refused,   \* history: the right password was given and did not open it
  faults     \* how many faults there were

files == <<verifier, db, rows, session>>
vars == <<verifier, db, rows, session, memory, step, target, said, broken,
          refused, faults>>
-----------------------------------------------------------------------------
NoRow == [by |-> None, value |-> {}]

Row == [by : Passwords, value : SUBSET Entries] \cup {NoRow}

(* _db_get: no row, or one of another password, reads as the default. *)
Read(p, k) == IF rows[k].by = p THEN rows[k].value ELSE {}

Fault == faults < MaxFaults /\ faults' = faults + 1

(* Mutants: what the session file holds is not verified; it is read once.  *)
Loaded_Unverified == IF db # "legacy" THEN session ELSE None

(* What _load_session_unlock finds in the session file.  Opening a legacy  *)
(* file as a database raises, as does a torn file, and any error reads as  *)
(* no session.                                                             *)
Loaded ==
  IF session \in Passwords /\ session = verifier /\ db # "legacy"
  THEN session ELSE None

Load_Once ==
  \/ memory # None /\ UNCHANGED <<memory, session>>
  \/ /\ memory = None
     /\ memory' = Loaded
     /\ session' = None

(* _load_session_unlock, before every operation that needs the password *)
Load ==
  \/ memory # None /\ UNCHANGED <<memory, session>>
  \/ /\ memory = None
     /\ memory' = Loaded
     /\ session' = Loaded

Init ==
  /\ \/ verifier = None /\ db = "none"
     \/ verifier \in Passwords /\ db = "legacy"
  /\ rows = [k \in Keys |-> NoRow]
  /\ session = None /\ memory = None
  /\ step = "idle" /\ target = None
  /\ said = "locked" /\ broken = "no" /\ refused = "no" /\ faults = 0
-----------------------------------------------------------------------------
(* initialize, which asks for no password but the new one.  Line 184 *)
Initialize(p) ==
  /\ step = "idle"
  /\ verifier' = p
  /\ step' = "wipe" /\ target' = p
  /\ broken' = "yes"
  /\ UNCHANGED <<db, rows, session, memory, said, refused, faults>>

(* a file that is no database is removed *)
Unlink ==
  /\ step = "wipe" /\ db = "legacy"
  /\ db' = "none"
  /\ UNCHANGED <<verifier, rows, session, memory, step, target, said, broken,
                 refused, faults>>

(* DELETE FROM kv *)
WipeRows ==
  /\ step = "wipe" /\ db # "legacy"
  /\ db' = "sqlite"
  /\ rows' = [k \in Keys |-> NoRow]
  /\ memory' = target
  /\ step' = "fill"
  /\ UNCHANGED <<verifier, session, target, said, broken, refused, faults>>

(* one transaction for each key of the default state *)
FillRow(k) ==
  /\ step = "fill"
  /\ rows[k] = NoRow
  /\ rows' = [rows EXCEPT ![k] = [by |-> target, value |-> {}]]
  /\ UNCHANGED <<verifier, db, session, memory, step, target, said, broken,
                 refused, faults>>

(* Mutant: the session of the old password stays. *)
Initialized_SessionKept ==
  /\ step = "fill" /\ \A k \in Keys : rows[k] # NoRow
  /\ memory' = None /\ step' = "idle" /\ target' = None
  /\ said' = "locked" /\ broken' = "no"
  /\ UNCHANGED <<verifier, db, rows, session, refused, faults>>

Initialized ==
  /\ step = "fill" /\ \A k \in Keys : rows[k] # NoRow
  /\ memory' = None /\ session' = None
  /\ step' = "idle" /\ target' = None
  /\ said' = "locked" /\ broken' = "no"
  /\ UNCHANGED <<verifier, db, rows, refused, faults>>

(* The database is locked or the disk is full: initialize raises, and the  *)
(* process goes on with the password it has in memory.                     *)
InitializeFails ==
  /\ step \in {"wipe", "fill"}
  /\ Fault
  /\ step' = "idle" /\ target' = None
  /\ UNCHANGED <<verifier, db, rows, session, memory, said, broken, refused>>
-----------------------------------------------------------------------------
(* Mutant: the password is taken as it is when one is in memory already. *)
Unlock_OnceOpen(p) ==
  /\ step = "idle"
  /\ p = verifier \/ memory # None
  /\ db # "legacy"
  /\ db' = "sqlite" /\ memory' = p /\ session' = p /\ said' = "unlocked"
  /\ UNCHANGED <<verifier, rows, step, target, broken, refused, faults>>

(* unlock with the right password *)
Unlock(p) ==
  /\ step = "idle"
  /\ p = verifier
  /\ db # "legacy"
  /\ db' = "sqlite" /\ memory' = p /\ session' = p /\ said' = "unlocked"
  /\ UNCHANGED <<verifier, rows, step, target, broken, refused, faults>>

(* _migrate_legacy_if_needed opens the blob itself as a database, which    *)
(* raises before anything is migrated.                                     *)
UnlockLegacy(p) ==
  /\ step = "idle"
  /\ p = verifier
  /\ db = "legacy"
  /\ refused' = "yes"
  /\ UNCHANGED <<files, memory, step, target, said, broken, faults>>

(* unlock dies, before or while it writes the session *)
UnlockDies(p) ==
  /\ step = "idle" /\ p = verifier /\ db # "legacy"
  /\ Fault
  /\ db' = "sqlite" /\ session' \in {session, Torn}
  /\ memory' = None /\ step' = "down" /\ said' = "error"
  /\ UNCHANGED <<verifier, rows, target, broken, refused>>

(* The session cannot be written, in part or at all: unlock raises, and    *)
(* the process goes on with the password in its memory (lines 240, 241).   *)
UnlockUnsaved(p) ==
  /\ step = "idle" /\ p = verifier /\ db # "legacy"
  /\ Fault
  /\ db' = "sqlite" /\ session' \in {session, Torn}
  /\ memory' = p /\ said' = "error"
  /\ UNCHANGED <<verifier, rows, step, target, broken, refused>>

Lock ==
  /\ step = "idle"
  /\ memory' = None /\ session' = None /\ said' = "locked"
  /\ UNCHANGED <<verifier, db, rows, step, target, broken, refused, faults>>

(* is_unlocked, and every operation that only reads *)
Ask ==
  /\ step = "idle"
  /\ Load
  /\ UNCHANGED <<verifier, db, rows, step, target, said, broken, refused, faults>>

(* set_secret, create_activation_code: read the map, add, write it. *)
Add(k, e) ==
  /\ step = "idle" /\ Load /\ memory' # None
  /\ db' = "sqlite"
  /\ rows' = [rows EXCEPT ![k] = [by |-> memory', value |-> Read(memory', k) \cup {e}]]
  /\ UNCHANGED <<verifier, step, target, said, broken, refused, faults>>

(* Mutant: with the code, every other entry goes. *)
Claim_Blind(k, c, e) ==
  /\ step = "idle" /\ Load /\ memory' # None
  /\ c \in Read(memory', k)
  /\ db' = "sqlite"
  /\ rows' = [rows EXCEPT ![k] = [by |-> memory', value |-> {e}]]
  /\ UNCHANGED <<verifier, step, target, said, broken, refused, faults>>

(* activate_with_code: take the code out of the map, put the binding in. *)
Claim(k, c, e) ==
  /\ step = "idle" /\ Load /\ memory' # None
  /\ c \in Read(memory', k)
  /\ db' = "sqlite"
  /\ rows' = [rows EXCEPT ![k] = [by |-> memory',
                                 value |-> (Read(memory', k) \ {c}) \cup {e}]]
  /\ UNCHANGED <<verifier, step, target, said, broken, refused, faults>>

(* set_config and the typed setters write a whole value. *)
Put(k, v) ==
  /\ step = "idle" /\ Load /\ memory' # None
  /\ db' = "sqlite"
  /\ rows' = [rows EXCEPT ![k] = [by |-> memory', value |-> v]]
  /\ UNCHANGED <<verifier, step, target, said, broken, refused, faults>>
-----------------------------------------------------------------------------
(* The process dies; in initialize it may leave master.json torn. *)
Crash ==
  /\ step # "down"
  /\ Fault
  /\ verifier' \in IF step = "wipe" THEN {verifier, Torn} ELSE {verifier}
  /\ memory' = None /\ step' = "down" /\ target' = None
  /\ UNCHANGED <<db, rows, session, said, broken, refused>>

Start ==
  /\ step = "down"
  /\ step' = "idle"
  /\ Load
  /\ UNCHANGED <<verifier, db, rows, target, said, broken, refused, faults>>

Next ==
  \/ \E p \in Passwords : \/ Initialize(p) \/ Unlock(p) \/ UnlockLegacy(p)
                          \/ UnlockDies(p) \/ UnlockUnsaved(p)
  \/ Unlink \/ WipeRows \/ (\E k \in Keys : FillRow(k)) \/ Initialized \/ InitializeFails
  \/ Lock \/ Ask
  \/ \E k \in Keys \ Settings : \E e \in Entries : \/ Add(k, e)
                                                 \/ \E c \in Entries : Claim(k, c, e)
  \/ \E k \in Settings : \E v \in SUBSET Entries : Put(k, v)
  \/ Crash \/ Start

Spec == Init /\ [][Next]_vars
-----------------------------------------------------------------------------
TypeOK ==
  /\ verifier \in Passwords \cup {None, Torn}
  /\ db \in {"none", "legacy", "sqlite"}
  /\ rows \in [Keys -> Row]
  /\ session \in Passwords \cup {None, Torn}
  /\ memory \in Passwords \cup {None}
  /\ step \in {"idle", "wipe", "fill", "down"}
  /\ target \in Passwords \cup {None}
  /\ said \in {"locked", "unlocked", "error"}
  /\ broken \in {"no", "yes"} /\ refused \in {"no", "yes"}
  /\ faults \in 0..MaxFaults

(* The password in memory is the one that is verified, and it reads every  *)
(* row: no value silently reads as its default and is then written back    *)
(* (lines 105 to 109, 271 to 274).  Crashes and restarts do not change     *)
(* that, unless one cut an initialize short.                               *)
OpenReadsAll ==
  broken = "no" /\ memory # None =>
    /\ memory = verifier
    /\ \A k \in Keys : rows[k] = NoRow \/ rows[k].by = memory

(* A vault that was locked, or initialised, stays locked until somebody    *)
(* gives the password: no session file left by a crash opens the next      *)
(* process, whatever happens between the two.                              *)
LockHolds ==
  broken = "no" /\ said = "locked" => memory = None /\ Loaded = None

(* A vault that was unlocked stays so, through crashes and restarts, until *)
(* it is locked or initialised or another unlock fails: the next process   *)
(* finds the session that was left to it (lines 157 to 178).              *)
OpenHolds ==
  broken = "no" /\ said = "unlocked" => memory # None \/ Loaded # None

(* What a user sees: the lock, as the next process will find it, and the   *)
(* values that the verified password reads.                                *)
SeenLock ==
  IF broken = "yes" THEN "broken"
  ELSE IF memory # None \/ Loaded # None THEN "open" ELSE "locked"

SeenContents == [k \in Keys |-> IF broken = "yes" THEN {} ELSE Read(verifier, k)]

(* The vault implements its promise: an acknowledged write is there for    *)
(* whoever opens it next, whatever crashed between the two.                *)
Promise == INSTANCE AbstractVault WITH lock <- SeenLock, contents <- SeenContents

ImplementsVault == Promise!Spec

(* "extension kept for backward compatibility" (secrets_state.py:22): the  *)
(* vault of an older version opens with its password.                      *)
RightPasswordOpens == refused = "no"
=============================================================================

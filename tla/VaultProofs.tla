---------------------------- MODULE VaultProofs -----------------------------
(***************************************************************************)
(* Theorems about Vault for every set of passwords, keys and entries and   *)
(* any number of faults.                                                   *)
(***************************************************************************)
EXTENDS Vault, TLAPS

(* While initialize runs, what it has written is of the new password. *)
Initializing ==
  /\ step \in {"wipe", "fill"} =>
       broken = "yes" /\ target \in Passwords /\ target = verifier
  /\ step = "fill" =>
       /\ memory = target
       /\ \A k \in Keys : /\ rows[k] = NoRow \/ rows[k].by = target
                          /\ rows[k].value = {}

(* Outside an interrupted initialize there is one password: the one that   *)
(* is verified, that every row was written under, and that the session     *)
(* holds, which is there if the vault was left unlocked, and only then.    *)
OnePassword ==
  broken = "no" =>
    /\ memory # None => memory = verifier
    /\ \A k \in Keys : rows[k] = NoRow \/ rows[k].by = verifier
    /\ session \in Passwords => session = verifier
    /\ said = "locked" => memory = None /\ session \notin Passwords
    /\ said = "unlocked" => session \in Passwords /\ db # "legacy"

VaultInv == TypeOK /\ Initializing /\ OnePassword
-----------------------------------------------------------------------------
LEMMA LoadedTyped ==
  Loaded \in Passwords \cup {None}
BY DEF Loaded

(* The lemmas about one step leave the session's file to Load. *)
LEMMA LoadTyped ==
  ASSUME TypeOK, Load
  PROVE  /\ memory' \in Passwords \cup {None}
         /\ session' \in Passwords \cup {None, Torn}
BY DEF TypeOK, Load, Loaded

LEMMA RowTyped ==
  ASSUME TypeOK, NEW k \in Keys, NEW p \in Passwords, NEW v \in SUBSET Entries,
         rows' = [rows EXCEPT ![k] = [by |-> p, value |-> v]]
  PROVE  rows' \in [Keys -> Row]
<1>1. [by |-> p, value |-> v] \in Row
  BY DEF Row
<1> QED
  BY <1>1 DEF TypeOK

LEMMA ReadTyped ==
  ASSUME TypeOK, NEW p, NEW k \in Keys
  PROVE  Read(p, k) \in SUBSET Entries
BY DEF TypeOK, Read, Row, NoRow

LEMMA Typed ==
  ASSUME TypeOK, Initializing, [Next]_vars PROVE TypeOK'
<1>1. CASE UNCHANGED vars
  BY <1>1 DEF TypeOK, vars
<1>2. ASSUME NEW p \in Passwords, Initialize(p) PROVE TypeOK'
  BY <1>2 DEF TypeOK, Initialize
<1>3. ASSUME NEW p \in Passwords, Unlock(p) PROVE TypeOK'
  BY <1>3 DEF TypeOK, Unlock
<1>4. ASSUME NEW p \in Passwords, UnlockLegacy(p) PROVE TypeOK'
  BY <1>4 DEF TypeOK, UnlockLegacy, files
<1>5. ASSUME NEW p \in Passwords, UnlockDies(p) \/ UnlockUnsaved(p) PROVE TypeOK'
  BY <1>5, VaultAssumption DEF TypeOK, UnlockDies, UnlockUnsaved, Fault
<1>6. CASE Unlink
  BY <1>6 DEF TypeOK, Unlink
<1>7. CASE WipeRows
  <2>1. target \in Passwords
    BY <1>7 DEF WipeRows, Initializing
  <2>2. rows' \in [Keys -> Row]
    BY <1>7 DEF WipeRows, Row
  <2> QED
    BY <1>7, <2>1, <2>2 DEF TypeOK, WipeRows
<1>8. ASSUME NEW k \in Keys, FillRow(k) PROVE TypeOK'
  <2>1. target \in Passwords
    BY <1>8 DEF FillRow, Initializing
  <2>2. rows' \in [Keys -> Row]
    <3>1. {} \in SUBSET Entries
      OBVIOUS
    <3> QED
      BY <1>8, <2>1, <3>1, RowTyped DEF FillRow
  <2> QED
    BY <1>8, <2>2 DEF TypeOK, FillRow
<1>9. CASE Initialized
  BY <1>9 DEF TypeOK, Initialized
<1>10. CASE InitializeFails
  BY <1>10, VaultAssumption DEF TypeOK, InitializeFails, Fault
<1>11. CASE Lock
  BY <1>11 DEF TypeOK, Lock
<1>12. CASE Ask
  BY <1>12, LoadTyped DEF TypeOK, Ask
<1>13. ASSUME NEW k \in Keys, NEW e \in Entries, Add(k, e) PROVE TypeOK'
  <2>1. memory' \in Passwords
    BY <1>13, LoadTyped DEF Add
  <2>2. Read(memory', k) \cup {e} \in SUBSET Entries
    BY ReadTyped
  <2>3. rows' \in [Keys -> Row]
    BY <1>13, <2>1, <2>2, RowTyped DEF Add
  <2> QED
    BY <1>13, <2>3, LoadTyped DEF TypeOK, Add
<1>14. ASSUME NEW k \in Keys, NEW v \in SUBSET Entries, Put(k, v) PROVE TypeOK'
  <2>1. memory' \in Passwords
    BY <1>14, LoadTyped DEF Put
  <2>2. rows' \in [Keys -> Row]
    BY <1>14, <2>1, RowTyped DEF Put
  <2> QED
    BY <1>14, <2>2, LoadTyped DEF TypeOK, Put
<1>17. ASSUME NEW k \in Keys, NEW c \in Entries, NEW e \in Entries, Claim(k, c, e)
       PROVE  TypeOK'
  <2>1. memory' \in Passwords
    BY <1>17, LoadTyped DEF Claim
  <2>2. (Read(memory', k) \ {c}) \cup {e} \in SUBSET Entries
    BY ReadTyped
  <2>3. rows' \in [Keys -> Row]
    BY <1>17, <2>1, <2>2, RowTyped DEF Claim
  <2> QED
    BY <1>17, <2>3, LoadTyped DEF TypeOK, Claim
<1>15. CASE Crash
  BY <1>15, VaultAssumption DEF TypeOK, Crash, Fault
<1>16. CASE Start
  BY <1>16, LoadTyped DEF TypeOK, Start
<1> QED
  BY <1>1, <1>2, <1>3, <1>4, <1>5, <1>6, <1>7, <1>8, <1>9, <1>10, <1>11,
     <1>12, <1>13, <1>14, <1>15, <1>16, <1>17, VaultAssumption DEF Next
-----------------------------------------------------------------------------
LEMMA InitializingKept ==
  ASSUME TypeOK, Initializing, [Next]_vars PROVE Initializing'
<1>1. CASE UNCHANGED vars
  BY <1>1 DEF Initializing, vars
<1>2. ASSUME NEW p \in Passwords, Initialize(p) PROVE Initializing'
  BY <1>2 DEF Initializing, Initialize
<1>3. ASSUME NEW p \in Passwords,
              Unlock(p) \/ UnlockLegacy(p) \/ UnlockDies(p) \/ UnlockUnsaved(p)
      PROVE  Initializing'
  BY <1>3 DEF Initializing, Unlock, UnlockLegacy, UnlockDies, UnlockUnsaved, files
<1>4. CASE Unlink \/ WipeRows
  <2>1. CASE Unlink
    BY <2>1 DEF Initializing, Unlink
  <2>2. CASE WipeRows
    <3>1. /\ step = "wipe" /\ step' = "fill" /\ memory' = target
          /\ UNCHANGED <<verifier, target, broken>>
          /\ \A k \in Keys : rows'[k] = NoRow
      BY <2>2 DEF WipeRows
    <3>2. NoRow.value = {}
      BY DEF NoRow
    <3> QED
      BY <3>1, <3>2 DEF Initializing
  <2> QED
    BY <1>4, <2>1, <2>2
<1>5. ASSUME NEW k \in Keys, FillRow(k) PROVE Initializing'
  BY <1>5 DEF Initializing, FillRow, TypeOK
<1>6. CASE Initialized \/ InitializeFails
  BY <1>6 DEF Initializing, Initialized, InitializeFails
<1>7. CASE Lock \/ Ask \/ Crash \/ Start
  BY <1>7 DEF Initializing, Lock, Ask, Crash, Start
<1>8. ASSUME NEW k \in Keys, NEW e \in Entries, Add(k, e) PROVE Initializing'
  BY <1>8 DEF Initializing, Add
<1>9. ASSUME NEW k \in Keys, NEW v \in SUBSET Entries, Put(k, v) PROVE Initializing'
  BY <1>9 DEF Initializing, Put
<1>10. ASSUME NEW k \in Keys, NEW c \in Entries, NEW e \in Entries, Claim(k, c, e)
       PROVE  Initializing'
  BY <1>10 DEF Initializing, Claim
<1> QED
  BY <1>1, <1>2, <1>3, <1>4, <1>5, <1>6, <1>7, <1>8, <1>9, <1>10, VaultAssumption DEF Next

(* A process that loads the session finds the one password or none. *)
LEMMA LoadFindsPassword ==
  ASSUME TypeOK, OnePassword, broken = "no", Load
  PROVE  /\ memory' # None => memory' = verifier
         /\ session' \in Passwords => session' = verifier
         /\ said = "locked" => memory' = None /\ session' \notin Passwords
         /\ said = "unlocked" => session' \in Passwords /\ db # "legacy"
BY VaultAssumption DEF TypeOK, OnePassword, Load, Loaded

(* A row that is written while the vault is whole is of the one password. *)
LEMMA RowOfPassword ==
  ASSUME TypeOK, OnePassword, broken = "no", NEW k \in Keys,
         NEW v \in SUBSET Entries,
         rows' = [rows EXCEPT ![k] = [by |-> verifier, value |-> v]]
  PROVE  \A j \in Keys : rows'[j] = NoRow \/ rows'[j].by = verifier
BY DEF TypeOK, OnePassword

LEMMA OnePasswordKept ==
  ASSUME VaultInv, [Next]_vars PROVE OnePassword'
<1> SUFFICES ASSUME broken' = "no" PROVE OnePassword'
  BY DEF OnePassword
<1> USE VaultAssumption DEF VaultInv
<1>1. CASE UNCHANGED vars
  BY <1>1 DEF OnePassword, vars
<1>2. ASSUME NEW p \in Passwords, Unlock(p) PROVE OnePassword'
  BY <1>2 DEF OnePassword, Unlock
<1>3. ASSUME NEW p \in Passwords, UnlockLegacy(p) PROVE OnePassword'
  BY <1>3 DEF OnePassword, UnlockLegacy, files
<1>4. ASSUME NEW p \in Passwords, UnlockDies(p) \/ UnlockUnsaved(p)
      PROVE  OnePassword'
  BY <1>4 DEF OnePassword, UnlockDies, UnlockUnsaved
<1>5. CASE Initialized
  BY <1>5 DEF OnePassword, Initialized, Initializing
<1>6. CASE Lock
  BY <1>6 DEF OnePassword, Lock
<1>7. CASE Ask
  BY <1>7, LoadFindsPassword DEF OnePassword, Ask
<1>8. ASSUME NEW k \in Keys, NEW e \in Entries, Add(k, e) PROVE OnePassword'
  <2>1. broken = "no" /\ memory' = verifier
    BY <1>8, LoadFindsPassword DEF Add
  <2>2. Read(memory', k) \cup {e} \in SUBSET Entries
    BY ReadTyped
  <2>3. \A j \in Keys : rows'[j] = NoRow \/ rows'[j].by = verifier
    BY <1>8, <2>1, <2>2, RowOfPassword DEF Add
  <2> QED
    BY <1>8, <2>1, <2>3, LoadFindsPassword DEF OnePassword, Add
<1>9. ASSUME NEW k \in Keys, NEW v \in SUBSET Entries, Put(k, v) PROVE OnePassword'
  <2>1. broken = "no" /\ memory' = verifier
    BY <1>9, LoadFindsPassword DEF Put
  <2>2. \A j \in Keys : rows'[j] = NoRow \/ rows'[j].by = verifier
    BY <1>9, <2>1, RowOfPassword DEF Put
  <2> QED
    BY <1>9, <2>1, <2>2, LoadFindsPassword DEF OnePassword, Put
<1>15. ASSUME NEW k \in Keys, NEW c \in Entries, NEW e \in Entries, Claim(k, c, e)
       PROVE  OnePassword'
  <2>1. broken = "no" /\ memory' = verifier
    BY <1>15, LoadFindsPassword DEF Claim
  <2>2. (Read(memory', k) \ {c}) \cup {e} \in SUBSET Entries
    BY ReadTyped
  <2>3. \A j \in Keys : rows'[j] = NoRow \/ rows'[j].by = verifier
    BY <1>15, <2>1, <2>2, RowOfPassword DEF Claim
  <2> QED
    BY <1>15, <2>1, <2>3, LoadFindsPassword DEF OnePassword, Claim
<1>10. CASE Crash
  BY <1>10 DEF OnePassword, Crash, Initializing
<1>11. CASE Start
  BY <1>11, LoadFindsPassword DEF OnePassword, Start
<1>12. ~(Unlink \/ WipeRows \/ InitializeFails)
  BY DEF Unlink, WipeRows, InitializeFails, Initializing
<1>13. ASSUME NEW k \in Keys PROVE ~FillRow(k)
  BY DEF FillRow, Initializing
<1>14. ASSUME NEW p \in Passwords PROVE ~Initialize(p)
  BY DEF Initialize
<1> QED
  BY <1>1, <1>2, <1>3, <1>4, <1>5, <1>6, <1>7, <1>8, <1>9, <1>10, <1>11,
     <1>12, <1>13, <1>14, <1>15 DEF Next

LEMMA VaultInvHolds == Spec => []VaultInv
<1>1. Init => VaultInv
  BY VaultAssumption
     DEF Init, VaultInv, TypeOK, Initializing, OnePassword, Row, NoRow
<1>2. VaultInv /\ [Next]_vars => VaultInv'
  BY Typed, InitializingKept, OnePasswordKept DEF VaultInv
<1> QED
  BY <1>1, <1>2, PTL DEF Spec
-----------------------------------------------------------------------------
(* Every variable of the vault keeps its type. *)
THEOREM TypeCorrect == Spec => []TypeOK
BY VaultInvHolds, PTL DEF VaultInv

(* Whatever crashes and failed writes there are, short of one inside       *)
(* initialize, the password in memory reads every row of the database: no  *)
(* secret is taken for missing and overwritten.                            *)
THEOREM EveryRowReadable == Spec => []OpenReadsAll
<1>1. VaultInv => OpenReadsAll
  BY DEF VaultInv, OnePassword, OpenReadsAll
<1> QED
  BY <1>1, VaultInvHolds, PTL

(* A locked or freshly initialised vault opens for nobody without the      *)
(* password, and no restart opens it.                                      *)
THEOREM LockedStaysLocked == Spec => []LockHolds
<1>1. VaultInv => LockHolds
  BY DEF VaultInv, OnePassword, LockHolds, Loaded
<1> QED
  BY <1>1, VaultInvHolds, PTL

(* A vault that answered that it is unlocked is open for this process or   *)
(* the next, however often it dies.                                        *)
THEOREM OpenStaysOpen == Spec => []OpenHolds
<1>1. VaultInv => OpenHolds
  BY VaultAssumption DEF VaultInv, OnePassword, OpenHolds, Loaded
<1> QED
  BY <1>1, VaultInvHolds, PTL
-----------------------------------------------------------------------------
(* The refinement: what each step of the files and the memory does to what *)
(* a user sees of them.                                                    *)
LEMMA LoadUnseen ==
  ASSUME VaultInv, broken = "no", broken' = "no", Load, UNCHANGED <<verifier, db>>
  PROVE  SeenLock' = SeenLock
BY VaultAssumption DEF VaultInv, TypeOK, Load, Loaded, SeenLock

LEMMA ContentsUnseen ==
  ASSUME UNCHANGED <<broken, verifier, rows>>
  PROVE  SeenContents' = SeenContents
BY DEF SeenContents, Read

LEMMA BrokenContents ==
  ASSUME broken' = "yes"
  PROVE  SeenLock' = "broken" /\ SeenContents' = Promise!Empty
BY DEF SeenLock, SeenContents, Promise!Empty

(* While the vault is broken, it stays so or is mended. *)
LEMMA BrokenStep ==
  ASSUME VaultInv, [Next]_vars, broken' = "yes"
  PROVE  [Promise!Next]_<<SeenLock, SeenContents>>
BY BrokenContents DEF Promise!Next, Promise!Break

LEMMA OpenWhenLoaded ==
  ASSUME broken = "no", Load, memory' # None
  PROVE  SeenLock = "open"
BY DEF SeenLock, Load

(* A row that is written is what its key reads from now on. *)
LEMMA WrittenRow ==
  ASSUME VaultInv, broken = "no", UNCHANGED <<broken, verifier>>,
         NEW k \in Keys, NEW v \in SUBSET Entries,
         rows' = [rows EXCEPT ![k] = [by |-> verifier, value |-> v]]
  PROVE  SeenContents' = [SeenContents EXCEPT ![k] = v]
<1>1. rows' = [j \in Keys |-> IF j = k THEN [by |-> verifier, value |-> v] ELSE rows[j]]
  BY DEF VaultInv, TypeOK
<1>2. ASSUME NEW j \in Keys PROVE SeenContents'[j] = IF j = k THEN v ELSE SeenContents[j]
  BY <1>1 DEF SeenContents, Read
<1>3. SeenContents' = [j \in Keys |-> SeenContents'[j]]
  BY DEF SeenContents
<1>4. [SeenContents EXCEPT ![k] = v] = [j \in Keys |-> IF j = k THEN v ELSE SeenContents[j]]
  BY DEF SeenContents
<1> QED
  BY <1>2, <1>3, <1>4

LEMMA StepImplements ==
  ASSUME VaultInv, [Next]_vars
  PROVE  [Promise!Next]_<<SeenLock, SeenContents>>
<1> SUFFICES ASSUME broken' # "yes" PROVE [Promise!Next]_<<SeenLock, SeenContents>>
  BY BrokenStep
<1> USE VaultAssumption
<1>0. broken' = "no"
  BY Typed DEF VaultInv, TypeOK
<1>1. CASE UNCHANGED vars
  BY <1>1 DEF vars, SeenLock, SeenContents, Loaded, Read
<1>2. ASSUME NEW p \in Passwords, Unlock(p)
      PROVE  [Promise!Next]_<<SeenLock, SeenContents>>
  <2>1. SeenContents' = SeenContents
    BY <1>2, ContentsUnseen DEF Unlock
  <2>2. SeenLock' = "open" /\ SeenLock \in {"open", "locked"}
    BY <1>2, <1>0 DEF Unlock, SeenLock
  <2> QED
    BY <2>1, <2>2 DEF Promise!Next, Promise!Open
<1>3. ASSUME NEW p \in Passwords, UnlockLegacy(p)
      PROVE  [Promise!Next]_<<SeenLock, SeenContents>>
  BY <1>3, ContentsUnseen DEF UnlockLegacy, files, SeenLock, Loaded
<1>4. ASSUME NEW p \in Passwords, UnlockDies(p)
      PROVE  [Promise!Next]_<<SeenLock, SeenContents>>
  <2>1. SeenContents' = SeenContents
    BY <1>4, ContentsUnseen DEF UnlockDies
  <2>2. SeenLock' = SeenLock \/ (SeenLock = "open" /\ SeenLock' = "locked")
    <3>1. Loaded' \in {Loaded, None}
      BY <1>4 DEF UnlockDies, Loaded
    <3> QED
      BY <1>4, <1>0, <3>1 DEF UnlockDies, SeenLock
  <2> QED
    BY <2>1, <2>2 DEF Promise!Next, Promise!Close
<1>15. ASSUME NEW p \in Passwords, UnlockUnsaved(p)
       PROVE  [Promise!Next]_<<SeenLock, SeenContents>>
  <2>1. SeenContents' = SeenContents
    BY <1>15, ContentsUnseen DEF UnlockUnsaved
  <2>2. SeenLock' = "open" /\ SeenLock \in {"open", "locked"}
    BY <1>15, <1>0 DEF UnlockUnsaved, SeenLock
  <2> QED
    BY <2>1, <2>2 DEF Promise!Next, Promise!Open
<1>5. CASE Initialized
  <2>1. broken = "yes"
    BY <1>5 DEF Initialized, VaultInv, Initializing
  <2>2. SeenLock = "broken" /\ SeenLock' = "locked"
    BY <2>1, <1>5 DEF Initialized, SeenLock, Loaded
  <2>3. SeenContents' = SeenContents
    <3>1. \A k \in Keys : rows[k].value = {}
      BY <1>5 DEF Initialized, VaultInv, Initializing
    <3> QED
      BY <1>5, <1>0, <2>1, <3>1 DEF Initialized, SeenContents, Read
  <2> QED
    BY <2>2, <2>3 DEF Promise!Next, Promise!Mend
<1>6. CASE Lock
  <2>1. SeenContents' = SeenContents
    BY <1>6, ContentsUnseen DEF Lock
  <2>2. SeenLock' = "locked" /\ SeenLock \in {"open", "locked"}
    BY <1>6, <1>0 DEF Lock, SeenLock, Loaded
  <2> QED
    BY <2>1, <2>2 DEF Promise!Next, Promise!Close
<1>7. CASE Ask \/ Start
  BY <1>7, <1>0, LoadUnseen, ContentsUnseen DEF Ask, Start
<1>8. ASSUME NEW k \in Keys \ Settings, NEW e \in Entries, Add(k, e)
      PROVE  [Promise!Next]_<<SeenLock, SeenContents>>
  <2>1. broken = "no" /\ memory' = verifier /\ SeenLock = "open"
    BY <1>8, <1>0, LoadFindsPassword, OpenWhenLoaded DEF Add, VaultInv
  <2>2. SeenLock' = SeenLock
    BY <1>8, <1>0 DEF Add, SeenLock, Load
  <2>3. Read(verifier, k) \cup {e} \in SUBSET Entries
    BY ReadTyped DEF VaultInv
  <2>4. SeenContents' = [SeenContents EXCEPT ![k] = Read(verifier, k) \cup {e}]
    BY <1>8, <2>1, <2>3, WrittenRow DEF Add
  <2>5. SeenContents[k] = Read(verifier, k)
    BY <2>1 DEF SeenContents
  <2> QED
    BY <2>1, <2>2, <2>4, <2>5 DEF Promise!Next, Promise!Include
<1>14. ASSUME NEW k \in Keys \ Settings, NEW c \in Entries, NEW e \in Entries,
              Claim(k, c, e)
       PROVE  [Promise!Next]_<<SeenLock, SeenContents>>
  <2>1. broken = "no" /\ memory' = verifier /\ SeenLock = "open"
    BY <1>14, <1>0, LoadFindsPassword, OpenWhenLoaded DEF Claim, VaultInv
  <2>2. SeenLock' = SeenLock
    BY <1>14, <1>0 DEF Claim, SeenLock, Load
  <2>3. (Read(verifier, k) \ {c}) \cup {e} \in SUBSET Entries
    BY ReadTyped DEF VaultInv
  <2>4. SeenContents' = [SeenContents EXCEPT ![k] = (Read(verifier, k) \ {c}) \cup {e}]
    BY <1>14, <2>1, <2>3, WrittenRow DEF Claim
  <2>5. SeenContents[k] = Read(verifier, k) /\ c \in SeenContents[k]
    BY <1>14, <2>1 DEF SeenContents, Claim
  <2> QED
    BY <2>1, <2>2, <2>4, <2>5 DEF Promise!Next, Promise!Exchange
<1>9. ASSUME NEW k \in Settings, NEW v \in SUBSET Entries, Put(k, v)
      PROVE  [Promise!Next]_<<SeenLock, SeenContents>>
  <2>1. broken = "no" /\ memory' = verifier /\ SeenLock = "open"
    BY <1>9, <1>0, LoadFindsPassword, OpenWhenLoaded DEF Put, VaultInv
  <2>2. SeenLock' = SeenLock
    BY <2>1, <1>9, <1>0 DEF Put, SeenLock, Load
  <2>3. SeenContents' = [SeenContents EXCEPT ![k] = v]
    BY <1>9, <2>1, WrittenRow DEF Put
  <2> QED
    BY <2>1, <2>2, <2>3 DEF Promise!Next, Promise!Write
<1>10. CASE Crash
  <2>1. SeenContents' = SeenContents
    BY <1>10, <1>0 DEF Crash, VaultInv, Initializing, SeenContents, Read
  <2>2. SeenLock' = SeenLock \/ (SeenLock = "open" /\ SeenLock' = "locked")
    <3>1. Loaded' = Loaded
      BY <1>10, <1>0 DEF Crash, Loaded, VaultInv, Initializing
    <3> QED
      BY <1>10, <1>0, <3>1 DEF Crash, SeenLock
  <2> QED
    BY <2>1, <2>2 DEF Promise!Next, Promise!Close
<1>11. ~(Unlink \/ WipeRows \/ InitializeFails)
  BY <1>0 DEF Unlink, WipeRows, InitializeFails, VaultInv, Initializing
<1>12. ASSUME NEW k \in Keys PROVE ~FillRow(k)
  BY <1>0 DEF FillRow, VaultInv, Initializing
<1>13. ASSUME NEW p \in Passwords PROVE ~Initialize(p)
  BY <1>0 DEF Initialize
<1> QED
  BY <1>1, <1>2, <1>3, <1>4, <1>5, <1>6, <1>7, <1>8, <1>9, <1>10, <1>11,
     <1>12, <1>13, <1>14, <1>15 DEF Next

(* The files, the memory, the crashes and the restarts of the vault        *)
(* implement a map that changes only when it is written to while open.     *)
THEOREM VaultImplementsPromise == Spec => ImplementsVault
<1>1. Init => Promise!Init
  BY VaultAssumption
     DEF Init, Promise!Init, Promise!Empty, SeenLock, SeenContents, Loaded, Read, NoRow
<1>2. VaultInv /\ [Next]_vars => [Promise!Next]_<<SeenLock, SeenContents>>
  BY StepImplements
<1> QED
  BY <1>1, <1>2, VaultInvHolds, PTL DEF Spec, ImplementsVault, Promise!Spec
=============================================================================

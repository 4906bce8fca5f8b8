--------------------------- MODULE TelegramProofs ---------------------------
(***************************************************************************)
(* Theorems about the Telegram side: TelegramListener for every two        *)
(* inboxes and any number of faults, and at the end Activation, whose      *)
(* codes and bindings decide which of the listener's messages get turns.   *)
(***************************************************************************)
EXTENDS TelegramListener, Activation, FiniteSetTheorems, SequenceTheorems, TLAPS

(* The polls.  What has been fetched was given a task; what has not been,  *)
(* or is fetched again after a crash, has none that is active.             *)
OffsetsInv ==
  \A r \in Roles :
    /\ sent[r] \in 0..Len(Inbox[r])
    /\ offset[r] <= sent[r] + 1 /\ saved[r] <= sent[r] + 1 /\ confirmed[r] <= sent[r] + 1

Fetchable(r, i) == i >= offset[r] /\ i >= confirmed[r]

TasksInv ==
  /\ \A m \in Messages : dispatched[m] = 0 <=> task[m] = "none"
  /\ \A r \in Roles : \A i \in DOMAIN Inbox[r] :
       LET m == Inbox[r][i]
       IN  /\ i > sent[r] => dispatched[m] = 0
           /\ i <= sent[r] /\ (i < offset[r] \/ i < saved[r] \/ i < confirmed[r])
              => dispatched[m] > 0
           /\ Fetchable(r, i) => dispatched[m] <= faults.crashes /\ task[m] \notin Active
           /\ \A j \in DOMAIN Inbox[r] : i < j /\ dispatched[Inbox[r][j]] > 0 => dispatched[m] > 0

(* The gateway has not restarted: only the loop ever opens a connection,   *)
(* and nobody is in line before it has.                                    *)
QuietInv ==
  faults.restarts = 0 =>
    /\ reading = "current" /\ link \in {"up", "poisoned", "closed"}
    /\ link # "closed" => connecting = {}
    /\ link = "closed" =>
         line = <<>> /\ connecting \subseteq {Loop} /\ loop \in {"rest", "llmToken"}

(* How far the task of a message to the llm bot is on its way to a turn.   *)
Early == {"check", "status", "turn"}

Progress(m) ==
  CASE task[m] = "none" -> 0
    [] task[m] = "check" -> 1
    [] task[m] = "status" -> 2
    [] task[m] = "turn" -> 3
    [] OTHER -> 4

Ahead(s, a, b) == \A k, l \in DOMAIN s : s[k] = a /\ s[l] = b => k < l

NotOvertaken(a, b) ==
  task[b] \in Early =>
    /\ Progress(a) >= Progress(b)
    /\ Progress(a) = Progress(b) => Ahead(line, a, b)

OrderInv ==
  faults.restarts = 0 =>
    \A i, j \in DOMAIN LlmInbox : i < j => NotOvertaken(LlmInbox[i], LlmInbox[j])

ListenerInv ==
  TypeOK /\ OffsetsInv /\ TasksInv /\ OncePerProcess /\ QuietInv /\ OrderInv
-----------------------------------------------------------------------------
(* Sequences. *)
LEMMA TailIs ==
  ASSUME NEW S, NEW s \in Seq(S), s # <<>>
  PROVE  /\ Tail(s) \in Seq(S) /\ Len(Tail(s)) = Len(s) - 1 /\ Len(s) \in Nat \ {0}
         /\ \A k \in 1..(Len(s) - 1) : Tail(s)[k] = s[k + 1]
         /\ DOMAIN Tail(s) = 1..(Len(s) - 1) /\ DOMAIN s = 1..Len(s)
         /\ Head(s) = s[1] /\ Head(s) \in S
OBVIOUS

LEMMA ConcatIs ==
  ASSUME NEW S, NEW s \in Seq(S), NEW t \in Seq(S)
  PROVE  /\ s \o t \in Seq(S) /\ Len(s \o t) = Len(s) + Len(t)
         /\ Len(s) \in Nat /\ Len(t) \in Nat
         /\ \A k \in 1..Len(s) : (s \o t)[k] = s[k]
         /\ \A k \in 1..Len(t) : (s \o t)[Len(s) + k] = t[k]
         /\ \A k \in (Len(s) + 1)..(Len(s) + Len(t)) :
              (s \o t)[k] = t[k - Len(s)] /\ k - Len(s) \in 1..Len(t)
OBVIOUS

LEMMA InRange ==
  ASSUME NEW f
  PROVE  /\ \A y : y \in Range(f) <=> \E x \in DOMAIN f : y = f[x]
         /\ \A x \in DOMAIN f : f[x] \in Range(f)
BY DEF Range

LEMMA TailRange ==
  ASSUME NEW S, NEW s \in Seq(S), s # <<>>, IsInjective(s)
  PROVE  /\ IsInjective(Tail(s)) /\ Range(Tail(s)) = Range(s) \ {Head(s)}
         /\ Head(s) \in Range(s)
<1>1. IsInjective(Tail(s))
  BY TailIs DEF IsInjective
<1>2. ASSUME NEW y \in Range(Tail(s)) PROVE y \in Range(s) \ {Head(s)}
  <2>1. PICK k \in 1..(Len(s) - 1) : y = s[k + 1]
    BY TailIs DEF Range
  <2>2. k + 1 \in DOMAIN s /\ 1 \in DOMAIN s /\ k + 1 # 1
    BY TailIs
  <2> QED
    BY <2>1, <2>2, TailIs DEF Range, IsInjective
<1>3. ASSUME NEW y \in Range(s), y # Head(s) PROVE y \in Range(Tail(s))
  <2>1. PICK k \in 1..Len(s) : y = s[k]
    BY TailIs DEF Range
  <2>2. k - 1 \in 1..(Len(s) - 1) /\ (k - 1) + 1 = k
    BY <1>3, <2>1, TailIs
  <2>3. Tail(s)[k - 1] = y
    BY <2>1, <2>2, TailIs
  <2> QED
    BY <2>2, <2>3, TailIs DEF Range
<1>4. Head(s) \in Range(s)
  BY TailIs DEF Range
<1> QED
  BY <1>1, <1>2, <1>3, <1>4

LEMMA ConcatRange ==
  ASSUME NEW S, NEW s \in Seq(S), NEW t \in Seq(S)
  PROVE  /\ Range(s \o t) = Range(s) \cup Range(t)
         /\ IsInjective(s) /\ IsInjective(t) /\ Range(s) \cap Range(t) = {}
            => IsInjective(s \o t)
<1>1. /\ DOMAIN s = 1..Len(s) /\ DOMAIN t = 1..Len(t)
      /\ DOMAIN (s \o t) = 1..(Len(s) + Len(t))
  BY ConcatIs
<1>2. ASSUME NEW k \in DOMAIN (s \o t)
      PROVE  \/ k \in DOMAIN s /\ (s \o t)[k] = s[k]
             \/ k - Len(s) \in DOMAIN t /\ (s \o t)[k] = t[k - Len(s)]
  BY <1>1, ConcatIs
<1>3. /\ \A k \in DOMAIN s : k \in DOMAIN (s \o t) /\ (s \o t)[k] = s[k]
      /\ \A k \in DOMAIN t : Len(s) + k \in DOMAIN (s \o t) /\ (s \o t)[Len(s) + k] = t[k]
  BY <1>1, ConcatIs
<1>4. Range(s \o t) \subseteq Range(s) \cup Range(t)
  BY <1>2 DEF Range
<1>5. Range(s) \cup Range(t) \subseteq Range(s \o t)
  BY <1>3 DEF Range
<1>6. ASSUME IsInjective(s), IsInjective(t), Range(s) \cap Range(t) = {},
             NEW j \in DOMAIN (s \o t), NEW k \in DOMAIN (s \o t), (s \o t)[j] = (s \o t)[k]
      PROVE  j = k
  <2>1. CASE j \in DOMAIN s /\ k \in DOMAIN s
    BY <1>3, <1>6, <2>1 DEF IsInjective
  <2>2. CASE j \notin DOMAIN s /\ k \notin DOMAIN s
    <3>1. j - Len(s) = k - Len(s)
      BY <1>2, <1>6, <2>2 DEF IsInjective
    <3> QED
      BY <1>1, <3>1, ConcatIs
  <2>3. CASE j \in DOMAIN s /\ k \notin DOMAIN s
    <3>1. (s \o t)[j] \in Range(s) /\ (s \o t)[k] \in Range(t)
      BY <1>2, <1>3, <2>3, InRange
    <3> QED
      BY <1>6, <3>1
  <2>4. CASE j \notin DOMAIN s /\ k \in DOMAIN s
    <3>1. (s \o t)[k] \in Range(s) /\ (s \o t)[j] \in Range(t)
      BY <1>2, <1>3, <2>4, InRange
    <3> QED
      BY <1>6, <3>1
  <2> QED
    BY <2>1, <2>2, <2>3, <2>4
<1> QED
  BY <1>4, <1>5, <1>6 DEF IsInjective

(* Join: whoever makes a request is in the line or connecting, once. *)
LEMMA JoinIs ==
  ASSUME NEW l \in Seq(Clients), IsInjective(l), connecting \in SUBSET Clients,
         Range(l) \cap connecting = {}, NEW k, NEW xs \in Seq(Clients), IsInjective(xs),
         Range(xs) \cap (Range(l) \cup connecting) = {}, Join(l, k, xs)
  PROVE  /\ line' \in Seq(Clients) /\ IsInjective(line') /\ connecting' \in SUBSET Clients
         /\ Range(line') \cap connecting' = {}
         /\ Range(line') \cup connecting' = Range(l) \cup connecting \cup Range(xs)
<1>1. Range(xs) \subseteq Clients
  BY DEF Range
<1>2. CASE k # "closed" /\ line' = l \o xs /\ UNCHANGED connecting
  <2>1. line' \in Seq(Clients) /\ IsInjective(line') /\ Range(line') = Range(l) \cup Range(xs)
    BY <1>2, ConcatIs, ConcatRange
  <2> QED
    BY <1>2, <2>1
<1>3. CASE line' = l /\ connecting' = connecting \cup Range(xs)
  BY <1>1, <1>3
<1> QED
  BY <1>2, <1>3 DEF Join

LEMMA Single ==
  ASSUME NEW S, NEW x \in S
  PROVE  <<x>> \in Seq(S) /\ IsInjective(<<x>>) /\ Range(<<x>>) = {x}
         /\ Len(<<x>>) = 1 /\ <<x>>[1] = x
BY DEF IsInjective, Range

(* The messages of a batch in its order *)
LEMMA InOrderIs ==
  ASSUME NEW batch \in Seq(Messages), IsInjective(batch), NEW S \in SUBSET Range(batch),
         NEW q \in InOrder(batch, S)
  PROVE  /\ q \in Seq(Messages) /\ IsInjective(q) /\ Range(q) = S
         /\ \A k, l \in DOMAIN q : \A i, j \in DOMAIN batch :
              q[k] = batch[i] /\ q[l] = batch[j] /\ i < j => k < l
<1> DEFINE at == {i \in DOMAIN batch : batch[i] \in S}
<1>1. DOMAIN batch = 1..Len(batch) /\ Len(batch) \in Nat /\ at \subseteq 1..Len(batch)
  OBVIOUS
<1>2. Cardinality(at) \in Nat
  <2>1. IsFiniteSet(1..Len(batch))
    BY <1>1, FS_Interval
  <2>2. IsFiniteSet(at)
    BY <1>1, <2>1, FS_Subset
  <2> QED
    BY <2>2, FS_CardinalityType
<1>3. PICK f \in [1..Cardinality(at) -> at] :
        /\ Range(f) = at /\ \A k, l \in DOMAIN f : k < l => f[k] < f[l]
        /\ q = [k \in DOMAIN f |-> batch[f[k]]]
  BY DEF InOrder
<1> DEFINE n == Cardinality(at)
<1>4. DOMAIN f = 1..n /\ n \in Nat /\ DOMAIN q = 1..n
      /\ \A k \in 1..n : f[k] \in 1..Len(batch) /\ q[k] = batch[f[k]] /\ q[k] \in S
                         /\ q[k] \in Messages
  BY <1>1, <1>2, <1>3
<1>5. \A k, l \in 1..n : k < l => f[k] < f[l]
  BY <1>3, <1>4
<1>6. \A i \in DOMAIN batch : batch[i] \in S => \E k \in 1..n : q[k] = batch[i]
  <2> SUFFICES ASSUME NEW i \in DOMAIN batch, batch[i] \in S
               PROVE  \E k \in 1..n : q[k] = batch[i]
    OBVIOUS
  <2>1. PICK k \in DOMAIN f : f[k] = i
    BY <1>3 DEF Range
  <2> QED
    BY <1>4, <2>1
<1> HIDE DEF at, n
<1>7. q \in Seq(Messages)
  <2>1. q \in [1..n -> Messages]
    BY <1>3, <1>4
  <2> QED
    BY <1>4, <2>1, SeqDef
<1>8. \A k, l \in 1..n : q[k] = q[l] => f[k] = f[l]
  BY <1>1, <1>4 DEF IsInjective
<1>9. ASSUME NEW k \in 1..n, NEW l \in 1..n, f[k] = f[l] PROVE k = l
  <2>1. ~(k < l) /\ ~(l < k)
    BY <1>1, <1>4, <1>5, <1>9
  <2> QED
    BY <1>4, <2>1
<1>10. IsInjective(q)
  BY <1>4, <1>8, <1>9 DEF IsInjective
<1>11. Range(q) = S
  <2>1. Range(q) \subseteq S
    BY <1>4 DEF Range
  <2>2. ASSUME NEW m \in S PROVE m \in Range(q)
    <3>1. PICK i \in DOMAIN batch : m = batch[i]
      BY DEF Range
    <3>2. PICK k \in 1..n : q[k] = m
      BY <1>6, <3>1
    <3> QED
      BY <1>4, <3>2 DEF Range
  <2> QED
    BY <2>1, <2>2
<1>12. ASSUME NEW k \in DOMAIN q, NEW l \in DOMAIN q, NEW i \in DOMAIN batch,
              NEW j \in DOMAIN batch, q[k] = batch[i], q[l] = batch[j], i < j
       PROVE  k < l
  <2>1. f[k] = i /\ f[l] = j
    BY <1>1, <1>4, <1>12 DEF IsInjective
  <2>2. ~(l < k) /\ k # l
    BY <1>1, <1>4, <1>5, <1>12, <2>1
  <2> QED
    BY <1>4, <2>2
<1> QED
  BY <1>7, <1>10, <1>11, <1>12
-----------------------------------------------------------------------------
LEMMA RolesAre ==
  /\ Roles = {"llm", "sheriff"}
  /\ Inbox["llm"] = LlmInbox /\ Inbox["sheriff"] = SheriffInbox
  /\ \A r \in Roles : /\ Inbox[r] \in Seq(Messages) /\ IsInjective(Inbox[r])
                      /\ Len(Inbox[r]) \in Nat /\ DOMAIN Inbox[r] = 1..Len(Inbox[r])
                      /\ \A i \in DOMAIN Inbox[r] : Inbox[r][i] \in Messages
<1>1. /\ Inbox["llm"] = LlmInbox /\ Inbox["sheriff"] = SheriffInbox
  BY DEF Inbox, Roles
<1>2. ASSUME NEW r \in Roles PROVE Inbox[r] \in Seq(Messages) /\ IsInjective(Inbox[r])
  BY <1>1, TelegramListenerAssumption DEF Roles
<1> QED
  BY <1>1, <1>2 DEF Roles

(* No message is in two places. *)
LEMMA Distinct ==
  ASSUME NEW r \in Roles, NEW s \in Roles,
         NEW i \in DOMAIN Inbox[r], NEW j \in DOMAIN Inbox[s], Inbox[r][i] = Inbox[s][j]
  PROVE  r = s /\ i = j
<1>1. CASE r = s
  BY <1>1, RolesAre DEF IsInjective
<1>2. CASE r # s
  <2>1. Inbox[r][i] \in Range(Inbox[r]) /\ Inbox[s][j] \in Range(Inbox[s])
    BY InRange
  <2> QED
    BY <1>2, <2>1, RolesAre, TelegramListenerAssumption
<1> QED
  BY <1>1, <1>2

(* What a poll fetches: the messages from some a on.                       *)
LEMMA FetchedIs ==
  ASSUME TypeOK, OffsetsInv, NEW r \in Roles
  PROVE  LET batch == Fetched(r, offset[r])
         IN  /\ batch \in Seq(Messages) /\ IsInjective(batch)
             /\ \E a \in Nat \ {0} :
                  /\ a >= offset[r] /\ a >= confirmed[r]
                  /\ a = 1 \/ a = offset[r] \/ a = confirmed[r]
                  /\ batch = <<>> <=> a > sent[r]
                  /\ a <= sent[r] + 1 /\ DOMAIN batch = 1..(sent[r] + 1 - a)
                  /\ \A k \in DOMAIN batch : batch[k] = Inbox[r][a + k - 1]
                                             /\ a + k - 1 \in a..sent[r]
                  /\ \A m : m \in Range(batch) <=> \E i \in a..sent[r] : m = Inbox[r][i]
<1>1. /\ offset[r] \in Nat /\ confirmed[r] \in Nat /\ sent[r] \in Nat
      /\ sent[r] <= Len(Inbox[r])
  BY DEF TypeOK, OffsetsInv
<1> DEFINE os == {1, offset[r], confirmed[r]}
           a == CHOOSE i \in os : \A j \in os : j <= i
           batch == SubSeq(Inbox[r], a, sent[r])
<1>2. \E i \in os : \A j \in os : j <= i
  BY <1>1
<1>3. a \in os /\ \A j \in os : j <= a
  BY <1>2
<1>4. Fetched(r, offset[r]) = batch
  BY DEF Fetched
<1> HIDE DEF a
<1>5. a \in Nat \ {0} /\ a >= offset[r] /\ a >= confirmed[r]
  BY <1>1, <1>3
<1>6. a = 1 \/ a = offset[r] \/ a = confirmed[r]
  BY <1>3
<1>7. /\ batch \in Seq(Messages)
      /\ a <= sent[r] + 1 /\ DOMAIN batch = 1..(sent[r] + 1 - a)
      /\ \A k \in DOMAIN batch : batch[k] = Inbox[r][a + k - 1] /\ a + k - 1 \in a..sent[r]
      /\ batch = <<>> <=> a > sent[r]
  <2>1. a \in 1..(Len(Inbox[r]) + 1) /\ sent[r] \in (a - 1)..Len(Inbox[r]) /\ a <= sent[r] + 1
    BY <1>1, <1>5, <1>6, RolesAre DEF OffsetsInv
  <2>2. Inbox[r] \in Seq(Messages)
    BY RolesAre
  <2>3. /\ batch \in Seq(Messages) /\ Len(batch) = sent[r] - a + 1
        /\ \A i \in 1..(sent[r] - a + 1) : batch[i] = Inbox[r][a + i - 1]
    BY <2>1, <2>2, SubSeqProperties
  <2> HIDE DEF batch
  <2>4. DOMAIN batch = 1..Len(batch) /\ (batch = <<>> <=> Len(batch) = 0)
    BY <2>3, LenProperties, EmptySeq
  <2>5. DOMAIN batch = 1..(sent[r] + 1 - a)
    BY <1>1, <1>5, <2>3, <2>4
  <2>6. ASSUME NEW k \in DOMAIN batch
        PROVE  batch[k] = Inbox[r][a + k - 1] /\ a + k - 1 \in a..sent[r]
    <3>1. k \in 1..(sent[r] - a + 1) /\ a + k - 1 \in a..sent[r]
      BY <1>1, <1>5, <2>1, <2>5, <2>6
    <3> QED
      BY <2>3, <3>1
  <2>7. batch = <<>> <=> a > sent[r]
    BY <1>1, <1>5, <2>1, <2>3, <2>4
  <2> QED
    BY <2>1, <2>3, <2>5, <2>6, <2>7
<1> HIDE DEF batch
<1>8. \A k \in DOMAIN batch : k \in Nat /\ a + k - 1 \in DOMAIN Inbox[r]
  <2> SUFFICES ASSUME NEW k \in DOMAIN batch
               PROVE  k \in Nat /\ a + k - 1 \in DOMAIN Inbox[r]
    OBVIOUS
  <2>1. k \in 1..(sent[r] + 1 - a) /\ a + k - 1 \in a..sent[r]
    BY <1>7
  <2>2. DOMAIN Inbox[r] = 1..Len(Inbox[r]) /\ Len(Inbox[r]) \in Nat
    BY RolesAre
  <2> QED
    BY <1>1, <1>5, <2>1, <2>2
<1>9. IsInjective(batch)
  <2> SUFFICES ASSUME NEW k \in DOMAIN batch, NEW l \in DOMAIN batch, batch[k] = batch[l]
               PROVE  k = l
    BY DEF IsInjective
  <2>1. a + k - 1 = a + l - 1
    BY <1>7, <1>8, Distinct
  <2> QED
    BY <1>5, <1>8, <2>1
<1>10. ASSUME NEW m PROVE m \in Range(batch) <=> \E i \in a..sent[r] : m = Inbox[r][i]
  <2>1. ASSUME NEW i \in a..sent[r], m = Inbox[r][i] PROVE m \in Range(batch)
    <3>1. i + 1 - a \in DOMAIN batch /\ a + (i + 1 - a) - 1 = i
      BY <1>1, <1>5, <1>7
    <3>2. batch[i + 1 - a] = m
      BY <1>7, <2>1, <3>1
    <3> QED
      BY <3>1, <3>2, InRange
  <2>2. ASSUME m \in Range(batch) PROVE \E i \in a..sent[r] : m = Inbox[r][i]
    BY <1>7, <2>2 DEF Range
  <2> QED
    BY <2>1, <2>2
<1> QED
  BY <1>4, <1>5, <1>6, <1>7, <1>9, <1>10
-----------------------------------------------------------------------------
(* TypeOK in two parts: shapes, and who is in the line or connecting.      *)
Shapes ==
  /\ sent \in [Roles -> Nat] /\ confirmed \in [Roles -> Nat]
  /\ offset \in [Roles -> Nat] /\ saved \in [Roles -> Nat]
  /\ loop \in {"rest"} \cup Asking \cup Blocking
  /\ live \in SUBSET Roles /\ cache \in SUBSET Roles
  /\ task \in [Messages -> TaskState]
  /\ link \in LinkState /\ reading \in {"current", "old", "dead"}
  /\ dispatched \in [Messages -> Nat]
  /\ faults \in [{"crashes", "restarts", "failures"} -> 0..MaxFaults]

Waiting ==
  {m \in Messages : task[m] \in Requesting} \cup (IF loop \in Asking THEN {Loop} ELSE {})

LineInv ==
  /\ line \in Seq(Clients) /\ IsInjective(line) /\ connecting \in SUBSET Clients
  /\ Range(line) \cap connecting = {}
  /\ Range(line) \cup connecting = Waiting

LEMMA TypesAre == TypeOK <=> Shapes /\ LineInv
BY DEF TypeOK, Shapes, LineInv, Waiting

LEMMA TypesAreNext == TypeOK' <=> Shapes' /\ LineInv'
BY DEF TypeOK, Shapes, LineInv, Waiting

LEMMA LineLeaves ==
  ASSUME LineInv, line # <<>>, Leave(Tail(line)), Waiting' = Waiting \ {Head(line)}
  PROVE  LineInv'
<1>1. /\ Tail(line) \in Seq(Clients) /\ IsInjective(Tail(line))
      /\ Range(Tail(line)) = Range(line) \ {Head(line)} /\ Head(line) \in Range(line)
  BY TailIs, TailRange DEF LineInv
<1> QED
  BY <1>1 DEF LineInv, Leave

LEMMA LineRejoins ==
  ASSUME LineInv, line # <<>>, NEW k, Join(Tail(line), k, <<Head(line)>>), Waiting' = Waiting
  PROVE  LineInv'
<1> DEFINE l == Tail(line)
           x == Head(line)
<1>1. /\ l \in Seq(Clients) /\ IsInjective(l) /\ x \in Clients
      /\ Range(l) = Range(line) \ {x} /\ x \in Range(line)
  BY TailIs, TailRange DEF LineInv
<1>2. <<x>> \in Seq(Clients) /\ IsInjective(<<x>>) /\ Range(<<x>>) = {x}
  BY <1>1, Single
<1> HIDE DEF l, x
<1>3. Range(<<x>>) \cap (Range(l) \cup connecting) = {}
  BY <1>1, <1>2 DEF LineInv
<1>4. /\ line' \in Seq(Clients) /\ IsInjective(line') /\ connecting' \in SUBSET Clients
      /\ Range(line') \cap connecting' = {}
      /\ Range(line') \cup connecting' = Range(l) \cup connecting \cup Range(<<x>>)
  <2>1. Join(l, k, <<x>>) /\ connecting \in SUBSET Clients /\ Range(l) \cap connecting = {}
    BY <1>1 DEF l, x, LineInv
  <2> QED
    BY <1>1, <1>2, <1>3, <2>1, JoinIs
<1>5. Range(line') \cup connecting' = Waiting'
  BY <1>1, <1>2, <1>4 DEF LineInv
<1> QED
  BY <1>4, <1>5 DEF LineInv

LEMMA LineJoins ==
  ASSUME LineInv, NEW k, NEW xs \in Seq(Clients), IsInjective(xs), Range(xs) \cap Waiting = {},
         Join(line, k, xs), Waiting' = Waiting \cup Range(xs)
  PROVE  LineInv'
<1>1. /\ line' \in Seq(Clients) /\ IsInjective(line') /\ connecting' \in SUBSET Clients
      /\ Range(line') \cap connecting' = {}
      /\ Range(line') \cup connecting' = Range(line) \cup connecting \cup Range(xs)
  BY JoinIs DEF LineInv
<1> QED
  BY <1>1 DEF LineInv

LEMMA LineKept ==
  ASSUME LineInv, UNCHANGED <<line, connecting>>, Waiting' = Waiting
  PROVE  LineInv'
BY DEF LineInv

LEMMA FaultIs ==
  ASSUME Shapes, NEW kind \in {"crashes", "restarts", "failures"}, Fault(kind)
  PROVE  /\ faults' \in [{"crashes", "restarts", "failures"} -> 0..MaxFaults]
         /\ faults' = [faults EXCEPT ![kind] = faults[kind] + 1]
         /\ \A k \in {"crashes", "restarts", "failures"} :
              faults'[k] = IF k = kind THEN faults[k] + 1 ELSE faults[k]
<1>1. \A k \in {"crashes", "restarts", "failures"} : faults[k] \in 0..MaxFaults
  BY DEF Shapes
<1>2. faults[kind] + 1 \in 0..MaxFaults
  BY <1>1, TelegramListenerAssumption DEF Fault
<1> QED
  BY <1>2 DEF Fault, Shapes

LEMMA GivingUp ==
  ASSUME Shapes, NEW x \in Waiting, GiveUp(x)
  PROVE  /\ loop' \in {"rest"} \cup Asking \cup Blocking /\ task' \in [Messages -> TaskState]
         /\ Waiting' = Waiting \ {x}
         /\ \A m \in Messages : task'[m] = IF m = x THEN "over" ELSE task[m]
         /\ loop' = loop \/ loop' = "rest"
<1>1. CASE x = Loop
  <2>1. x \notin Messages /\ loop' = "rest" /\ task' = task
    BY <1>1, TelegramListenerAssumption DEF GiveUp
  <2> QED
    BY <1>1, <2>1 DEF Shapes, Waiting, Asking
<1>2. CASE x # Loop
  <2>1. x \in Messages /\ loop' = loop /\ task' = [task EXCEPT ![x] = "over"]
    BY <1>2 DEF GiveUp, Waiting
  <2>2. /\ task' \in [Messages -> TaskState]
        /\ \A m \in Messages : task'[m] = IF m = x THEN "over" ELSE task[m]
    BY <2>1 DEF Shapes, TaskState
  <2>3. Waiting' = Waiting \ {x}
    BY <1>2, <2>1, <2>2 DEF Waiting, Requesting
  <2> QED
    BY <2>1, <2>2, <2>3 DEF Shapes
<1> QED
  BY <1>1, <1>2

LEMMA Holder ==
  ASSUME LineInv, NEW x, Holds(x)
  PROVE  line # <<>> /\ x = Head(line) /\ x \in Waiting /\ x \in Clients
BY TailIs, TailRange DEF LineInv, Holds
-----------------------------------------------------------------------------
LEMMA SendTypes ==
  ASSUME TypeOK, NEW r \in Roles, Send(r) PROVE TypeOK'
<1>1. sent' \in [Roles -> Nat]
  BY TypesAre DEF Shapes, Send
<1> QED
  BY <1>1, TypesAre, TypesAreNext, LineKept
  DEF Send, Shapes, Waiting, telegramVars, pollVars, clientVars

LEMMA CycleTypes ==
  ASSUME TypeOK, Cycle PROVE TypeOK'
<1>1. Shapes'
  BY TypesAre DEF Cycle, Shapes, telegramVars, pollVars, Asking
<1>2. /\ <<Loop>> \in Seq(Clients) /\ IsInjective(<<Loop>>) /\ Range(<<Loop>>) = {Loop}
      /\ Loop \notin Waiting /\ Waiting' = Waiting \cup {Loop} /\ Join(line, link, <<Loop>>)
  BY Single, TelegramListenerAssumption DEF Cycle, Waiting, Clients, Asking
<1> QED
  BY <1>1, <1>2, TypesAre, TypesAreNext, LineJoins

LEMMA ConnectedTypes ==
  ASSUME TypeOK, NEW x, Connected(x) PROVE TypeOK'
<1>1. Shapes'
  BY TypesAre DEF Connected, Shapes, telegramVars, pollVars, LinkState
<1>2. x \in Clients /\ x \notin Range(line) /\ line \in Seq(Clients) /\ IsInjective(line)
  BY TypesAre DEF Connected, LineInv
<1>3. line' = line \o <<x>> /\ connecting' = connecting \ {x} /\ Waiting' = Waiting
  BY <1>2 DEF Connected, Waiting
<1>4. <<x>> \in Seq(Clients) /\ IsInjective(<<x>>) /\ Range(<<x>>) = {x}
  BY <1>2, Single
<1>5. line' \in Seq(Clients) /\ IsInjective(line') /\ Range(line') = Range(line) \cup {x}
  <2>1. Range(line) \cap Range(<<x>>) = {}
    BY <1>2, <1>4
  <2>2. /\ line \o <<x>> \in Seq(Clients) /\ IsInjective(line \o <<x>>)
        /\ Range(line \o <<x>>) = Range(line) \cup Range(<<x>>)
    <3>1. line \o <<x>> \in Seq(Clients)
      BY <1>2, <1>4, ConcatIs
    <3> QED
      <4>1. PICK t : t = <<x>>
        OBVIOUS
      <4>2. t \in Seq(Clients) /\ IsInjective(t) /\ Range(line) \cap Range(t) = {}
        BY <1>4, <2>1, <4>1
      <4>3. IsInjective(line \o t) /\ Range(line \o t) = Range(line) \cup Range(t)
        BY <1>2, <4>2, ConcatRange
      <4> QED
        BY <3>1, <4>1, <4>3
  <2> QED
    BY <1>3, <1>4, <2>2
<1>6. LineInv'
  BY <1>2, <1>3, <1>5, TypesAre DEF LineInv, Connected
<1> QED
  BY <1>1, <1>6, TypesAreNext

LEMMA OpenFailsTypes ==
  ASSUME TypeOK, NEW x, OpenFails(x) PROVE TypeOK'
<1>1. x \in Waiting /\ x \notin Range(line)
  BY TypesAre DEF OpenFails, LineInv
<1>2. /\ loop' \in {"rest"} \cup Asking \cup Blocking /\ task' \in [Messages -> TaskState]
      /\ Waiting' = Waiting \ {x}
  BY <1>1, TypesAre, GivingUp DEF OpenFails
<1>3. faults' \in [{"crashes", "restarts", "failures"} -> 0..MaxFaults]
  BY TypesAre, FaultIs DEF OpenFails
<1>4. Shapes'
  BY <1>2, <1>3, TypesAre DEF OpenFails, Shapes, telegramVars, pollVars, LinkState
<1>5. LineInv'
  BY <1>1, <1>2, TypesAre DEF OpenFails, LineInv
<1> QED
  BY <1>4, <1>5, TypesAreNext

LEMMA TokenAnsweredTypes ==
  ASSUME TypeOK, TokenAnswered PROVE TypeOK'
<1>1. /\ LineInv /\ Shapes /\ line # <<>> /\ Loop = Head(line)
  BY TypesAre, Holder DEF TokenAnswered
<1>2. Shapes'
  BY <1>1 DEF TokenAnswered, Shapes, telegramVars, Asking, Blocking, Roles
<1>3. CASE loop = "llmToken" /\ loop' = "sheriffToken" /\ Join(Tail(line), link, <<Loop>>)
  <2>1. Waiting' = Waiting
    BY <1>3 DEF TokenAnswered, Waiting, Asking
  <2> QED
    BY <1>1, <1>2, <1>3, <2>1, LineRejoins, TypesAreNext
<1>4. CASE loop = "sheriffToken" /\ loop' = "llm" /\ Leave(Tail(line))
  <2>1. Waiting' = Waiting \ {Loop}
    BY <1>4, TelegramListenerAssumption DEF TokenAnswered, Waiting, Asking
  <2> QED
    BY <1>1, <1>2, <1>4, <2>1, LineLeaves, TypesAreNext
<1> QED
  BY <1>3, <1>4 DEF TokenAnswered

LEMMA NextRequestIs ==
  ASSUME NEW t \in Requesting, NEW n \in NextRequest(t)
  PROVE  /\ n \in Requesting \cup {"over"}
         /\ t = "check" => n \in {"status", "over"}
         /\ t = "status" => n \in {"turn", "claim", "create"}
         /\ t \notin {"check", "status"} => n \in {"over", "create"}
BY DEF NextRequest, Requesting

LEMMA TaskAnsweredTypes ==
  ASSUME TypeOK, NEW m \in Messages, TaskAnswered(m) PROVE TypeOK'
<1>1. LineInv /\ Shapes /\ line # <<>> /\ m = Head(line) /\ task[m] \in Requesting
  <2>1. m # Loop
    BY TelegramListenerAssumption
  <2> QED
    BY <2>1, TypesAre, Holder DEF TaskAnswered, Waiting
<1>2. PICK t \in NextRequest(task[m]) :
        /\ task' = [task EXCEPT ![m] = t]
        /\ IF t = "over" THEN Leave(Tail(line)) ELSE Join(Tail(line), link, <<m>>)
  BY DEF TaskAnswered
<1>3. t \in Requesting \cup {"over"}
  BY <1>1, NextRequestIs
<1>4. /\ task' \in [Messages -> TaskState]
      /\ \A n \in Messages : task'[n] = IF n = m THEN t ELSE task[n]
  BY <1>1, <1>2, <1>3 DEF Shapes, TaskState, Active
<1>5. Shapes'
  BY <1>1, <1>4 DEF TaskAnswered, Shapes, telegramVars, pollVars
<1>6. UNCHANGED loop
  BY DEF TaskAnswered
<1>7. CASE t = "over"
  <2>1. Waiting' = Waiting \ {m}
    BY <1>4, <1>6, <1>7, TelegramListenerAssumption DEF Waiting, Requesting
  <2> QED
    BY <1>1, <1>2, <1>5, <1>7, <2>1, LineLeaves, TypesAreNext
<1>8. CASE t # "over"
  <2>1. Waiting' = Waiting
    BY <1>1, <1>3, <1>4, <1>6, <1>8 DEF Waiting
  <2> QED
    BY <1>1, <1>2, <1>5, <1>8, <2>1, LineRejoins, TypesAreNext
<1> QED
  BY <1>7, <1>8

LEMMA TimeoutTypes ==
  ASSUME TypeOK, NEW x, Timeout(x) \/ RequestFails(x) PROVE TypeOK'
<1>1. /\ LineInv /\ Shapes /\ line # <<>> /\ x = Head(line) /\ x \in Waiting
  BY TypesAre, Holder DEF Timeout, RequestFails
<1>2. /\ GiveUp(x) /\ Leave(Tail(line)) /\ reading' = "current"
      /\ UNCHANGED <<live, dispatched, faults, sent, confirmed, offset, saved, cache>>
  BY DEF Timeout, RequestFails, telegramVars, pollVars
<1>3. link' \in LinkState
  BY <1>1 DEF Timeout, RequestFails, Shapes, LinkState
<1>4. /\ loop' \in {"rest"} \cup Asking \cup Blocking /\ task' \in [Messages -> TaskState]
      /\ Waiting' = Waiting \ {x}
  BY <1>1, <1>2, GivingUp
<1>5. Shapes'
  BY <1>1, <1>2, <1>3, <1>4 DEF Shapes
<1> QED
  BY <1>1, <1>2, <1>4, <1>5, LineLeaves, TypesAreNext

LEMMA GateAnsweredTypes ==
  ASSUME TypeOK, NEW m \in Messages, GateAnswered(m) PROVE TypeOK'
<1>1. /\ task' \in [Messages -> TaskState] /\ task[m] = "gate"
      /\ \A n \in Messages : task'[n] = IF n = m THEN "over" ELSE task[n]
  BY TypesAre DEF GateAnswered, Shapes, TaskState
<1>2. Shapes'
  BY <1>1, TypesAre DEF GateAnswered, Shapes, telegramVars, pollVars, clientVars
<1>3. Waiting' = Waiting
  BY <1>1 DEF GateAnswered, Waiting, Requesting
<1> QED
  BY <1>2, <1>3, TypesAre, TypesAreNext, LineKept DEF GateAnswered, clientVars

LEMMA PollsNothingTypes ==
  ASSUME TypeOK, NEW r \in Roles, PollsNothing(r) PROVE TypeOK'
<1>1. loop = r /\ loop' \in Blocking /\ UNCHANGED task
  BY DEF PollsNothing, AfterPoll, Blocking
<1>2. faults' \in [{"crashes", "restarts", "failures"} -> 0..MaxFaults]
  BY TypesAre, FaultIs DEF PollsNothing, Shapes
<1>3. Shapes'
  BY <1>1, <1>2, TypesAre DEF PollsNothing, Shapes, telegramVars, pollVars, clientVars
<1>4. Waiting' = Waiting
  BY <1>1 DEF Waiting, Asking, Blocking, Roles
<1> QED
  BY <1>3, <1>4, TypesAre, TypesAreNext, LineKept DEF PollsNothing, clientVars

LEMMA SaveTypes ==
  ASSUME TypeOK, Save PROVE TypeOK'
<1>1. Shapes'
  BY TypesAre DEF Save, Shapes, telegramVars, clientVars
<1>2. Waiting' = Waiting
  BY DEF Save, Waiting, Asking
<1> QED
  BY <1>1, <1>2, TypesAre, TypesAreNext, LineKept DEF Save, clientVars

LEMMA CrashTypes ==
  ASSUME TypeOK, Crash PROVE TypeOK'
<1>1. /\ task' \in [Messages -> TaskState]
      /\ \A m \in Messages : task'[m] \notin Active
  BY TypesAre DEF Crash, Shapes, TaskState, Active, Requesting
<1>2. faults' \in [{"crashes", "restarts", "failures"} -> 0..MaxFaults]
  BY TypesAre, FaultIs DEF Crash
<1>3. saved' \in [Roles -> Nat] /\ offset' \in [Roles -> Nat]
  <2>1. [r \in Roles |-> 0] \in [Roles -> Nat]
    OBVIOUS
  <2>2. saved' = saved \/ saved' = offset \/ saved' = [r \in Roles |-> 0]
    BY DEF Crash
  <2>3. offset' = saved'
    BY DEF Crash
  <2> QED
    BY <2>1, <2>2, <2>3, TypesAre DEF Shapes
<1>4. Shapes'
  BY <1>1, <1>2, <1>3, TypesAre DEF Crash, Shapes, telegramVars, LinkState
<1>5. Waiting' = {} /\ line' = <<>> /\ connecting' = {}
  BY <1>1 DEF Crash, Waiting, Active, Asking
<1>6. LineInv'
  BY <1>5 DEF LineInv, IsInjective, Range
<1> QED
  BY <1>4, <1>6, TypesAreNext

LEMMA GatewayRestartTypes ==
  ASSUME TypeOK, GatewayRestart PROVE TypeOK'
<1>1. faults' \in [{"crashes", "restarts", "failures"} -> 0..MaxFaults]
  BY TypesAre, FaultIs DEF GatewayRestart
<1>2. Shapes'
  BY <1>1, TypesAre DEF GatewayRestart, Shapes, telegramVars, pollVars, LinkState
<1>3. Waiting' = Waiting
  BY DEF GatewayRestart, Waiting
<1> QED
  BY <1>2, <1>3, TypesAre, TypesAreNext, LineKept DEF GatewayRestart

(* A poll, as far as the proofs look: the batch begins at a, and whoever   *)
(* has a request to make joins the line in the order of the batch.         *)
Polled(r, a, batch, first, asking) ==
  /\ loop = r /\ loop' = (IF r = "llm" THEN "sheriff" ELSE "save")
  /\ batch \in Seq(Messages) /\ IsInjective(batch)
  /\ a \in Nat \ {0} /\ a >= offset[r] /\ a >= confirmed[r] /\ a <= sent[r] + 1
  /\ a = 1 \/ a = offset[r] \/ a = confirmed[r]
  /\ DOMAIN batch = 1..(sent[r] + 1 - a)
  /\ \A k \in DOMAIN batch : batch[k] = Inbox[r][a + k - 1] /\ a + k - 1 \in a..sent[r]
  /\ \A m : m \in Range(batch) <=> \E i \in a..sent[r] : m = Inbox[r][i]
  /\ Range(batch) \subseteq Messages
  /\ first \in [Range(batch) -> FirstRequests(r)]
  /\ asking \in Seq(Messages) /\ IsInjective(asking)
  /\ Range(asking) = {m \in Range(batch) : first[m] # "gate"}
  /\ \A k, l \in DOMAIN asking : \A i, j \in DOMAIN batch :
       asking[k] = batch[i] /\ asking[l] = batch[j] /\ i < j => k < l
  /\ task' = [m \in Messages |-> IF m \in Range(batch) THEN first[m] ELSE task[m]]
  /\ dispatched' = [m \in Messages |-> dispatched[m] + IF m \in Range(batch) THEN 1 ELSE 0]
  /\ Join(line, link, asking)
  /\ offset' = [offset EXCEPT ![r] = IF a > sent[r] THEN @ ELSE sent[r] + 1]
  /\ confirmed' = [confirmed EXCEPT ![r] = IF offset[r] > @ THEN offset[r] ELSE @]
  /\ UNCHANGED <<sent, saved, live, cache, link, reading, faults>>

LEMMA PollIs ==
  ASSUME TypeOK, OffsetsInv, NEW r \in Roles, Poll(r)
  PROVE  \E a, batch, first, asking : Polled(r, a, batch, first, asking)
<1> DEFINE batch == Fetched(r, offset[r])
<1>1. batch \in Seq(Messages) /\ IsInjective(batch)
  BY FetchedIs
<1>2. PICK a \in Nat \ {0} :
        /\ a >= offset[r] /\ a >= confirmed[r]
        /\ a = 1 \/ a = offset[r] \/ a = confirmed[r]
        /\ batch = <<>> <=> a > sent[r]
        /\ a <= sent[r] + 1 /\ DOMAIN batch = 1..(sent[r] + 1 - a)
        /\ \A k \in DOMAIN batch : batch[k] = Inbox[r][a + k - 1] /\ a + k - 1 \in a..sent[r]
        /\ \A m : m \in Range(batch) <=> \E i \in a..sent[r] : m = Inbox[r][i]
  BY FetchedIs
<1>3. Range(batch) \subseteq Messages
  BY <1>1 DEF Range
<1>4. /\ loop = r /\ loop' = IF r = "llm" THEN "sheriff" ELSE "save"
      /\ UNCHANGED <<sent, saved, live, cache, link, reading, faults>>
      /\ Dispatch(r, batch, NextOffset(r))
  BY DEF Poll, Polls, AfterPoll
<1>5. NextOffset(r) = IF a > sent[r] THEN offset[r] ELSE sent[r] + 1
  BY <1>2 DEF NextOffset
<1> HIDE DEF batch
<1>6. PICK first \in [Range(batch) -> FirstRequests(r)] :
        /\ task' = [m \in Messages |-> IF m \in Range(batch) THEN first[m] ELSE task[m]]
        /\ dispatched' = [m \in Messages |-> dispatched[m] + IF m \in Range(batch) THEN 1 ELSE 0]
        /\ \E asking \in InOrder(batch, {m \in Range(batch) : first[m] # "gate"}) :
             Join(line, link, asking)
        /\ offset' = [offset EXCEPT ![r] = NextOffset(r)]
        /\ confirmed' = [confirmed EXCEPT ![r] = IF offset[r] > @ THEN offset[r] ELSE @]
  BY <1>4 DEF Dispatch
<1> DEFINE S == {m \in Range(batch) : first[m] # "gate"}
<1>7. PICK asking \in InOrder(batch, S) : Join(line, link, asking)
  BY <1>6
<1>8. S \in SUBSET Range(batch)
  OBVIOUS
<1> HIDE DEF S
<1>9. /\ asking \in Seq(Messages) /\ IsInjective(asking) /\ Range(asking) = S
      /\ \A k, l \in DOMAIN asking : \A i, j \in DOMAIN batch :
           asking[k] = batch[i] /\ asking[l] = batch[j] /\ i < j => k < l
  BY <1>1, <1>7, <1>8, InOrderIs
<1>10. offset' = [offset EXCEPT ![r] = IF a > sent[r] THEN @ ELSE sent[r] + 1]
  BY <1>5, <1>6
<1>11. Polled(r, a, batch, first, asking)
  BY <1>1, <1>2, <1>3, <1>4, <1>6, <1>7, <1>9, <1>10 DEF Polled, S
<1> QED
  BY <1>11

(* Nobody whose message comes with a poll has an active task. *)
LEMMA Unfetched ==
  ASSUME Shapes, OffsetsInv, TasksInv, NEW r \in Roles, NEW a \in Nat \ {0},
         a >= offset[r], a >= confirmed[r], NEW i \in a..sent[r]
  PROVE  /\ i \in DOMAIN Inbox[r] /\ Inbox[r][i] \in Messages
         /\ dispatched[Inbox[r][i]] <= faults.crashes
         /\ task[Inbox[r][i]] \notin Active
<1>1. /\ sent[r] \in Nat /\ sent[r] <= Len(Inbox[r]) /\ offset[r] \in Nat /\ confirmed[r] \in Nat
  BY DEF Shapes, OffsetsInv
<1>2. i \in Nat /\ i >= 1 /\ i <= Len(Inbox[r]) /\ i >= offset[r] /\ i >= confirmed[r]
  BY <1>1, RolesAre
<1>3. i \in DOMAIN Inbox[r] /\ Inbox[r][i] \in Messages
  BY <1>2, RolesAre
<1> QED
  BY <1>2, <1>3 DEF TasksInv, Fetchable

LEMMA PollTypes ==
  ASSUME TypeOK, OffsetsInv, TasksInv, NEW r \in Roles, Poll(r) PROVE TypeOK'
<1>0. Shapes /\ LineInv
  BY TypesAre
<1>1. PICK a, batch, first, asking : Polled(r, a, batch, first, asking)
  BY PollIs
<1>2. \A m \in Range(batch) : /\ m \in Messages /\ task[m] \notin Active
                              /\ first[m] \in FirstRequests(r)
  <2> SUFFICES ASSUME NEW m \in Range(batch)
               PROVE m \in Messages /\ task[m] \notin Active /\ first[m] \in FirstRequests(r)
    OBVIOUS
  <2>1. PICK i \in a..sent[r] : m = Inbox[r][i]
    BY <1>1 DEF Polled
  <2> QED
    BY <1>0, <1>1, <2>1, Unfetched DEF Polled
<1>3. /\ task' \in [Messages -> TaskState]
      /\ \A m \in Messages : task'[m] = IF m \in Range(batch) THEN first[m] ELSE task[m]
  BY <1>0, <1>1, <1>2 DEF Polled, FirstRequests, TaskState, Active, Requesting, Shapes
<1>4. dispatched' \in [Messages -> Nat]
  <2>1. \A m \in Messages : dispatched[m] + (IF m \in Range(batch) THEN 1 ELSE 0) \in Nat
    BY <1>0 DEF Shapes
  <2>2. dispatched' = [m \in Messages |-> dispatched[m] + IF m \in Range(batch) THEN 1 ELSE 0]
    BY <1>1 DEF Polled
  <2> QED
    BY <2>1, <2>2
<1>5. offset' \in [Roles -> Nat] /\ confirmed' \in [Roles -> Nat]
  <2>1. offset[r] \in Nat /\ confirmed[r] \in Nat /\ sent[r] + 1 \in Nat
    BY <1>0 DEF Shapes
  <2>2. \E n, o \in Nat : /\ offset' = [offset EXCEPT ![r] = n]
                         /\ confirmed' = [confirmed EXCEPT ![r] = o]
    BY <1>1, <2>1 DEF Polled
  <2> QED
    BY <1>0, <2>2 DEF Shapes
<1>6. Shapes'
  BY <1>0, <1>1, <1>3, <1>4, <1>5 DEF Polled, Shapes, Blocking
<1>7. /\ asking \in Seq(Clients) /\ IsInjective(asking) /\ Join(line, link, asking)
      /\ \A m : m \in Range(asking) <=> m \in Range(batch) /\ first[m] # "gate"
  BY <1>1, SeqDef DEF Polled, Clients
<1>8. Range(asking) \cap Waiting = {} /\ Waiting' = Waiting \cup Range(asking)
  <2>1. \A m \in Range(batch) : m # Loop /\ m \notin Waiting
    BY <1>2, TelegramListenerAssumption DEF Waiting, Active
  <2>2. loop \notin Asking /\ loop' \notin Asking
    BY <1>1 DEF Polled, Asking, Roles
  <2>3. \A m \in Range(batch) : first[m] # "gate" <=> first[m] \in Requesting
    BY <1>2 DEF FirstRequests, Requesting
  <2> QED
    BY <1>2, <1>3, <1>7, <2>1, <2>2, <2>3 DEF Waiting, Requesting, Active
<1> QED
  BY <1>0, <1>6, <1>7, <1>8, LineJoins, TypesAreNext

LEMMA TypesInit == Init => TypeOK
<1> SUFFICES ASSUME Init PROVE TypeOK
  OBVIOUS
<1>1. Shapes
  BY TelegramListenerAssumption DEF Init, Shapes, TaskState, LinkState
<1>2. LineInv
  BY DEF Init, LineInv, Waiting, IsInjective, Range, Requesting, Asking
<1> QED
  BY <1>1, <1>2, TypesAre
-----------------------------------------------------------------------------
(* What the polls have done is left alone by everything but a poll, a      *)
(* message, a save and a crash: tasks only go on or end.                   *)
ServesOnly ==
  /\ UNCHANGED <<sent, confirmed, offset, saved, dispatched>>
  /\ faults'.crashes = faults.crashes
  /\ \A m \in Messages : \/ task'[m] = task[m]
                         \/ task[m] \in Active /\ task'[m] \in Active \cup {"over"}

LEMMA OtherFaults ==
  ASSUME Shapes, Fault("restarts") \/ Fault("failures")
  PROVE  faults'.crashes = faults.crashes
BY FaultIs

LEMMA Serving ==
  ASSUME TypeOK, NEW x \in Clients,
         \/ Connected(x) \/ OpenFails(x) \/ Timeout(x) \/ RequestFails(x)
         \/ Cycle \/ TokenAnswered \/ GatewayRestart
         \/ x \in Messages /\ (TaskAnswered(x) \/ GateAnswered(x))
         \/ \E r \in Roles : PollsNothing(r)
  PROVE  ServesOnly
<1> USE DEF telegramVars, pollVars, clientVars
<1>0. Shapes /\ LineInv
  BY TypesAre
<1>1. CASE Connected(x) \/ Cycle \/ TokenAnswered
  BY <1>1 DEF Connected, Cycle, TokenAnswered, ServesOnly
<1>2. CASE GatewayRestart \/ \E r \in Roles : PollsNothing(r)
  BY <1>0, <1>2, OtherFaults DEF GatewayRestart, PollsNothing, ServesOnly
<1>3. ASSUME OpenFails(x) \/ Timeout(x) \/ RequestFails(x) PROVE ServesOnly
  <2>1. x \in Waiting /\ GiveUp(x)
    BY <1>0, <1>3, Holder DEF OpenFails, Timeout, RequestFails, LineInv
  <2>2. \A m \in Messages : task'[m] = IF m = x THEN "over" ELSE task[m]
    BY <1>0, <2>1, GivingUp
  <2>3. x \in Messages => task[x] \in Active
    BY <2>1, TelegramListenerAssumption DEF Waiting, Active
  <2>4. faults'.crashes = faults.crashes
    BY <1>0, <1>3, OtherFaults DEF OpenFails, Timeout, RequestFails
  <2>5. UNCHANGED <<sent, confirmed, offset, saved, dispatched>>
    BY <1>3 DEF OpenFails, Timeout, RequestFails
  <2> QED
    BY <2>2, <2>3, <2>4, <2>5 DEF ServesOnly
<1>4. ASSUME x \in Messages, TaskAnswered(x) PROVE ServesOnly
  <2>1. task[x] \in Requesting
    <3>1. x # Loop
      BY <1>4, TelegramListenerAssumption
    <3> QED
      BY <1>0, <1>4, <3>1, Holder DEF TaskAnswered, Waiting
  <2>2. PICK t \in NextRequest(task[x]) : task' = [task EXCEPT ![x] = t]
    BY <1>4 DEF TaskAnswered
  <2>3. t \in Active \cup {"over"}
    BY <2>1, <2>2, NextRequestIs DEF Active
  <2> QED
    BY <1>0, <1>4, <2>1, <2>2, <2>3 DEF TaskAnswered, ServesOnly, Shapes, Active
<1>5. ASSUME x \in Messages, GateAnswered(x) PROVE ServesOnly
  BY <1>0, <1>5 DEF GateAnswered, ServesOnly, Shapes, Active
<1> QED
  BY <1>1, <1>2, <1>3, <1>4, <1>5

LEMMA ServingKeeps ==
  ASSUME OffsetsInv, TasksInv, OncePerProcess, ServesOnly
  PROVE  OffsetsInv' /\ TasksInv' /\ OncePerProcess'
<1>1. \A m \in Messages : /\ task'[m] = "none" <=> task[m] = "none"
                          /\ task'[m] \in Active => task[m] \in Active
  BY DEF ServesOnly, Active, Requesting
<1>2. TasksInv'
  BY <1>1, RolesAre DEF TasksInv, ServesOnly, Fetchable
<1> QED
  BY <1>2 DEF OffsetsInv, OncePerProcess, ServesOnly

LEMMA SendKeeps ==
  ASSUME Shapes, OffsetsInv, TasksInv, OncePerProcess, NEW r \in Roles, Send(r)
  PROVE  OffsetsInv' /\ TasksInv' /\ OncePerProcess'
<1>1. /\ UNCHANGED <<confirmed, offset, saved, task, dispatched, faults>>
      /\ sent[r] < Len(Inbox[r])
      /\ \A q \in Roles : sent'[q] = IF q = r THEN sent[r] + 1 ELSE sent[q]
  BY DEF Send, pollVars, Shapes
<1>2. \A q \in Roles : /\ sent[q] \in Nat /\ sent'[q] \in Nat /\ sent'[q] >= sent[q]
                       /\ offset[q] \in Nat /\ saved[q] \in Nat /\ confirmed[q] \in Nat
                       /\ offset[q] <= sent[q] + 1 /\ saved[q] <= sent[q] + 1
                       /\ confirmed[q] <= sent[q] + 1
  <2>1. \A q \in Roles : /\ sent[q] \in Nat /\ offset[q] \in Nat
                         /\ saved[q] \in Nat /\ confirmed[q] \in Nat
    BY DEF Shapes
  <2>2. \A q \in Roles : sent'[q] \in Nat /\ sent'[q] >= sent[q]
    BY <1>1, <2>1
  <2> QED
    BY <2>1, <2>2 DEF OffsetsInv
<1>3. OffsetsInv'
  <2> SUFFICES ASSUME NEW q \in Roles
               PROVE  /\ sent'[q] \in 0..Len(Inbox[q])
                      /\ offset[q] <= sent'[q] + 1 /\ saved[q] <= sent'[q] + 1
                      /\ confirmed[q] <= sent'[q] + 1
    BY <1>1 DEF OffsetsInv
  <2>1. sent[q] <= Len(Inbox[q]) /\ Len(Inbox[q]) \in Nat
    BY RolesAre DEF OffsetsInv
  <2> QED
    BY <1>1, <1>2, <2>1
<1>4. TasksInv'
  <2>1. ASSUME NEW q \in Roles, NEW i \in DOMAIN Inbox[q]
        PROVE  LET m == Inbox[q][i]
               IN  /\ i > sent'[q] => dispatched[m] = 0
                   /\ i <= sent'[q] /\ (i < offset[q] \/ i < saved[q] \/ i < confirmed[q])
                      => dispatched[m] > 0
    <3>1. i \in Nat
      BY RolesAre
    <3>2. i > sent'[q] => i > sent[q]
      BY <1>2, <3>1
    <3>3. i <= sent'[q] /\ (i < offset[q] \/ i < saved[q] \/ i < confirmed[q]) => i <= sent[q]
      BY <1>2, <3>1
    <3> QED
      BY <3>2, <3>3 DEF TasksInv
  <2> QED
    BY <1>1, <2>1 DEF TasksInv, Fetchable
<1> QED
  BY <1>1, <1>3, <1>4 DEF OncePerProcess

LEMMA SaveKeeps ==
  ASSUME OffsetsInv, TasksInv, OncePerProcess, Save
  PROVE  OffsetsInv' /\ TasksInv' /\ OncePerProcess'
<1>1. saved' = offset /\ UNCHANGED <<sent, confirmed, offset, task, dispatched, faults>>
  BY DEF Save, telegramVars
<1>2. TasksInv'
  BY <1>1 DEF TasksInv, Fetchable
<1> QED
  BY <1>1, <1>2 DEF OffsetsInv, OncePerProcess

(* Every message may be fetched again. *)
LEMMA CrashKeeps ==
  ASSUME Shapes, OffsetsInv, TasksInv, OncePerProcess, Crash
  PROVE  OffsetsInv' /\ TasksInv' /\ OncePerProcess'
<1>1. /\ UNCHANGED <<sent, confirmed, dispatched>>
      /\ \A m \in Messages : task'[m] = IF task[m] \in Active THEN "lost" ELSE task[m]
      /\ faults'.crashes = faults.crashes + 1 /\ faults.crashes \in Nat
      /\ offset' = saved'
      /\ saved' = saved \/ saved' = offset \/ saved' = [r \in Roles |-> 0]
  BY FaultIs DEF Crash, telegramVars, Shapes
<1>2. \A r \in Roles : saved'[r] = saved[r] \/ saved'[r] = offset[r] \/ saved'[r] = 0
  BY <1>1
<1>3. \A r \in Roles : sent[r] \in Nat
  BY DEF Shapes
<1>4. OffsetsInv'
  BY <1>1, <1>2, <1>3 DEF OffsetsInv
<1>5. \A m \in Messages : /\ task'[m] \notin Active
                          /\ task'[m] = "none" <=> task[m] = "none"
                          /\ dispatched[m] <= faults'.crashes
                          /\ dispatched[m] <= 1 + faults'.crashes
  <2> SUFFICES ASSUME NEW m \in Messages
               PROVE  /\ task'[m] \notin Active
                      /\ task'[m] = "none" <=> task[m] = "none"
                      /\ dispatched[m] <= faults'.crashes
                      /\ dispatched[m] <= 1 + faults'.crashes
    OBVIOUS
  <2>1. task'[m] \notin Active /\ (task'[m] = "none" <=> task[m] = "none")
    BY <1>1 DEF Active, Requesting
  <2>2. dispatched[m] \in Nat /\ dispatched[m] <= 1 + faults.crashes
    BY DEF Shapes, OncePerProcess
  <2> QED
    BY <1>1, <2>1, <2>2
<1>6. ASSUME NEW r \in Roles, NEW i \in DOMAIN Inbox[r], i <= sent[r],
             i < saved'[r] \/ i < confirmed[r]
      PROVE  dispatched[Inbox[r][i]] > 0
  <2>1. i \in Nat /\ i >= 1
    BY RolesAre
  <2>2. i < saved[r] \/ i < offset[r] \/ i < confirmed[r]
    BY <1>2, <1>6, <2>1
  <2> QED
    BY <1>6, <2>2 DEF TasksInv
<1>7. TasksInv'
  <2>1. \A m \in Messages : dispatched[m] = 0 <=> task'[m] = "none"
    BY <1>5 DEF TasksInv
  <2>2. ASSUME NEW r \in Roles, NEW i \in DOMAIN Inbox[r]
        PROVE  LET m == Inbox[r][i]
               IN  /\ i > sent[r] => dispatched[m] = 0
                   /\ i <= sent[r] /\ (i < offset'[r] \/ i < saved'[r] \/ i < confirmed[r])
                      => dispatched[m] > 0
                   /\ dispatched[m] <= faults'.crashes /\ task'[m] \notin Active
                   /\ \A j \in DOMAIN Inbox[r] :
                        i < j /\ dispatched[Inbox[r][j]] > 0 => dispatched[m] > 0
    <3>1. Inbox[r][i] \in Messages
      BY RolesAre
    <3> QED
      BY <1>1, <1>5, <1>6, <3>1 DEF TasksInv
  <2> QED
    BY <1>1, <2>1, <2>2 DEF TasksInv
<1> QED
  BY <1>1, <1>4, <1>5, <1>7 DEF OncePerProcess

LEMMA PollKeeps ==
  ASSUME Shapes, OffsetsInv, TasksInv, OncePerProcess, NEW r \in Roles,
         NEW a, NEW batch, NEW first, NEW asking, Polled(r, a, batch, first, asking)
  PROVE  OffsetsInv' /\ TasksInv' /\ OncePerProcess'
<1>1. /\ a \in Nat \ {0} /\ a >= offset[r] /\ a >= confirmed[r] /\ a <= sent[r] + 1
      /\ a = 1 \/ a = offset[r] \/ a = confirmed[r]
      /\ UNCHANGED <<sent, saved, faults>>
      /\ \A q \in Roles :
           /\ offset'[q] = IF q = r THEN (IF a > sent[r] THEN offset[r] ELSE sent[r] + 1)
                           ELSE offset[q]
           /\ confirmed'[q] = IF q = r THEN (IF offset[r] > confirmed[r] THEN offset[r]
                                             ELSE confirmed[r])
                              ELSE confirmed[q]
  BY DEF Polled, Shapes
<1>2. \A q \in Roles : /\ sent[q] \in Nat /\ offset[q] \in Nat
                       /\ saved[q] \in Nat /\ confirmed[q] \in Nat
                       /\ offset[q] <= sent[q] + 1 /\ confirmed[q] <= sent[q] + 1
  BY DEF Shapes, OffsetsInv
<1> DEFINE Fetching(m) == m \in Range(batch)
<1>3. \A m \in Messages : /\ dispatched'[m] = IF Fetching(m) THEN dispatched[m] + 1
                                              ELSE dispatched[m]
                          /\ task'[m] = IF Fetching(m) THEN first[m] ELSE task[m]
                          /\ dispatched[m] \in Nat
                          /\ Fetching(m) => first[m] \in FirstRequests(r)
  <2> SUFFICES ASSUME NEW m \in Messages
               PROVE  /\ dispatched'[m] = IF Fetching(m) THEN dispatched[m] + 1 ELSE dispatched[m]
                      /\ task'[m] = IF Fetching(m) THEN first[m] ELSE task[m]
                      /\ dispatched[m] \in Nat
                      /\ Fetching(m) => first[m] \in FirstRequests(r)
    OBVIOUS
  <2>1. dispatched[m] \in Nat
    BY DEF Shapes
  <2>2. /\ dispatched'[m] = dispatched[m] + IF m \in Range(batch) THEN 1 ELSE 0
        /\ task'[m] = IF m \in Range(batch) THEN first[m] ELSE task[m]
        /\ m \in Range(batch) => first[m] \in FirstRequests(r)
    BY DEF Polled
  <2> QED
    BY <2>1, <2>2
<1>4. ASSUME NEW q \in Roles, NEW i \in DOMAIN Inbox[q]
      PROVE  Fetching(Inbox[q][i]) <=> q = r /\ i \in a..sent[r]
  <2>1. ASSUME Fetching(Inbox[q][i]) PROVE q = r /\ i \in a..sent[r]
    <3>1. PICK j \in a..sent[r] : Inbox[q][i] = Inbox[r][j]
      BY <2>1 DEF Polled
    <3>2. j \in DOMAIN Inbox[r]
      BY <1>1, <3>1, Unfetched
    <3> QED
      BY <3>1, <3>2, Distinct
  <2>2. ASSUME q = r, i \in a..sent[r] PROVE Fetching(Inbox[q][i])
    BY <2>2 DEF Polled
  <2> QED
    BY <2>1, <2>2
<1>5. ASSUME NEW m \in Messages, Fetching(m) PROVE dispatched[m] <= faults.crashes
  <2>1. PICK j \in a..sent[r] : m = Inbox[r][j]
    BY <1>5 DEF Polled
  <2> QED
    BY <1>1, <2>1, Unfetched
<1>6. \A m \in Messages : Fetching(m) => first[m] \in Active /\ first[m] # "none"
  BY <1>3 DEF FirstRequests, Active, Requesting
<1> HIDE DEF Fetching
<1>7. OffsetsInv'
  <2> SUFFICES ASSUME NEW q \in Roles
               PROVE  /\ sent[q] \in 0..Len(Inbox[q])
                      /\ offset'[q] <= sent[q] + 1 /\ saved[q] <= sent[q] + 1
                      /\ confirmed'[q] <= sent[q] + 1
    BY <1>1 DEF OffsetsInv
  <2>1. offset'[q] <= sent[q] + 1 /\ confirmed'[q] <= sent[q] + 1
    BY <1>1, <1>2
  <2> QED
    BY <2>1 DEF OffsetsInv
<1>8. OncePerProcess'
  <2>1. faults.crashes \in Nat
    BY DEF Shapes
  <2>2. ASSUME NEW m \in Messages PROVE dispatched'[m] <= 1 + faults.crashes
    BY <1>3, <1>5, <2>1 DEF OncePerProcess
  <2> QED
    BY <1>1, <2>2 DEF OncePerProcess
<1>9. \A m \in Messages : dispatched'[m] = 0 <=> task'[m] = "none"
  <2> SUFFICES ASSUME NEW m \in Messages PROVE dispatched'[m] = 0 <=> task'[m] = "none"
    OBVIOUS
  <2> QED
    BY <1>3, <1>6 DEF TasksInv
<1>10. ASSUME NEW q \in Roles, NEW i \in DOMAIN Inbox[q]
       PROVE  LET m == Inbox[q][i]
              IN  /\ i > sent[q] => dispatched'[m] = 0
                  /\ i <= sent[q] /\ (i < offset'[q] \/ i < saved[q] \/ i < confirmed'[q])
                     => dispatched'[m] > 0
                  /\ i >= offset'[q] /\ i >= confirmed'[q]
                     => dispatched'[m] <= faults.crashes /\ task'[m] \notin Active
                  /\ \A j \in DOMAIN Inbox[q] :
                       i < j /\ dispatched'[Inbox[q][j]] > 0 => dispatched'[m] > 0
  <2> DEFINE m == Inbox[q][i]
  <2>1. i \in Nat /\ i >= 1 /\ m \in Messages
    BY RolesAre
  <2>2. dispatched[m] \in Nat /\ dispatched'[m] \in Nat /\ dispatched'[m] >= dispatched[m]
    BY <1>3, <2>1
  <2>3. i > sent[q] => dispatched'[m] = 0
    <3>1. i > sent[q] => ~Fetching(m)
      BY <1>2, <1>4, <2>1
    <3> QED
      BY <1>3, <2>1, <3>1 DEF TasksInv
  <2>4. ASSUME i <= sent[q], i < offset'[q] \/ i < saved[q] \/ i < confirmed'[q]
        PROVE  dispatched'[m] > 0
    <3>1. CASE Fetching(m)
      BY <1>3, <2>1, <3>1
    <3>2. CASE ~Fetching(m)
      <4>1. i < offset[q] \/ i < saved[q] \/ i < confirmed[q]
        <5>1. CASE q = r
          <6>1. i < a
            BY <1>1, <1>2, <1>4, <2>1, <2>4, <3>2, <5>1
          <6> QED
            BY <1>1, <2>1, <5>1, <6>1
        <5>2. CASE q # r
          BY <1>1, <2>4, <5>2
        <5> QED
          BY <5>1, <5>2
      <4>2. dispatched[m] > 0
        BY <2>4, <4>1 DEF TasksInv
      <4> QED
        BY <2>2, <4>2
    <3> QED
      BY <3>1, <3>2
  <2>5. ASSUME i >= offset'[q], i >= confirmed'[q]
        PROVE  dispatched'[m] <= faults.crashes /\ task'[m] \notin Active
    <3>1. ~Fetching(m)
      <4>1. CASE q = r /\ a > sent[r]
        BY <1>1, <1>2, <1>4, <2>1, <4>1
      <4>2. CASE q = r /\ a <= sent[r]
        BY <1>1, <1>2, <1>4, <2>1, <2>5, <4>2
      <4>3. CASE q # r
        BY <1>4, <4>3
      <4> QED
        BY <1>1, <1>2, <4>1, <4>2, <4>3
    <3>2. dispatched[m] <= faults.crashes /\ task[m] \notin Active
      <4>1. i >= offset[q] /\ i >= confirmed[q]
        BY <1>1, <1>2, <2>1, <2>5
      <4> QED
        BY <4>1 DEF TasksInv, Fetchable
    <3> QED
      BY <1>3, <2>1, <3>1, <3>2
  <2>6. ASSUME NEW j \in DOMAIN Inbox[q], i < j, dispatched'[Inbox[q][j]] > 0
        PROVE  dispatched'[m] > 0
    <3>1. j \in Nat /\ Inbox[q][j] \in Messages
      BY RolesAre
    <3>2. CASE Fetching(Inbox[q][j])
      <4>1. q = r /\ j \in a..sent[r]
        BY <1>4, <3>2
      <4>2. i <= sent[q]
        BY <1>2, <2>1, <2>6, <3>1, <4>1
      <4>3. CASE i >= a
        <5>1. Fetching(m)
          BY <1>1, <1>2, <1>4, <2>1, <4>1, <4>2, <4>3
        <5> QED
          BY <1>3, <2>1, <5>1
      <4>4. CASE i < a
        <5>1. i < offset[q] \/ i < confirmed[q]
          BY <1>1, <2>1, <4>1, <4>4
        <5>2. dispatched[m] > 0
          BY <4>2, <5>1 DEF TasksInv
        <5> QED
          BY <2>2, <5>2
      <4> QED
        BY <1>1, <2>1, <4>3, <4>4
    <3>3. CASE ~Fetching(Inbox[q][j])
      <4>1. dispatched[Inbox[q][j]] > 0
        BY <1>3, <2>6, <3>1, <3>3
      <4>2. dispatched[m] > 0
        BY <2>6, <4>1 DEF TasksInv
      <4> QED
        BY <2>2, <4>2
    <3> QED
      BY <3>2, <3>3
  <2> QED
    BY <2>3, <2>4, <2>5, <2>6
<1>11. TasksInv'
  BY <1>1, <1>9, <1>10 DEF TasksInv, Fetchable
<1> QED
  BY <1>7, <1>8, <1>11
-----------------------------------------------------------------------------
(* As long as the gateway has not restarted, the loop alone connects.      *)
LEMMA OneMoreFault ==
  ASSUME Shapes
  PROVE  /\ Fault("failures") => faults'.restarts = faults.restarts
         /\ Fault("crashes") => faults'.restarts = faults.restarts
         /\ Fault("restarts") => faults'.restarts # 0
BY FaultIs DEF Shapes

LEMMA QuietSteps ==
  ASSUME TypeOK, OffsetsInv, QuietInv, Next
  PROVE  QuietInv'
<1> USE DEF telegramVars, pollVars, clientVars
<1>0. Shapes /\ LineInv
  BY TypesAre
<1>1. ASSUME NEW r \in Roles, Send(r) PROVE QuietInv'
  BY <1>1 DEF Send, QuietInv
<1>2. CASE Cycle
  BY <1>2, Single DEF Cycle, QuietInv, Join
<1>3. ASSUME NEW x \in Clients, Connected(x) PROVE QuietInv'
  <2>1. /\ connecting' = connecting \ {x} /\ x \in connecting /\ link' = "up"
        /\ UNCHANGED faults
        /\ line = <<>> => reading' = reading
    BY <1>3 DEF Connected
  <2> QED
    BY <2>1 DEF QuietInv
<1>4. ASSUME NEW x \in Clients, OpenFails(x) PROVE QuietInv'
  <2>1. /\ connecting' = connecting \ {x} /\ x \in connecting /\ link' = "closed"
        /\ faults'.restarts = faults.restarts /\ UNCHANGED <<line, reading>>
        /\ x = Loop => loop' = "rest"
    BY <1>0, <1>4, OneMoreFault DEF OpenFails, GiveUp
  <2> QED
    BY <2>1 DEF QuietInv
<1>5. ASSUME NEW x \in Clients, Timeout(x) PROVE QuietInv'
  <2>1. /\ line # <<>> /\ UNCHANGED <<connecting, faults>> /\ reading' = "current"
        /\ reading = "current" => link = "up" /\ link' = "poisoned"
    BY <1>5 DEF Timeout, Holds, Leave, Answerable
  <2> QED
    BY <2>1 DEF QuietInv
<1>6. ASSUME NEW x \in Clients, RequestFails(x) PROVE QuietInv'
  <2>1. /\ line # <<>> /\ UNCHANGED <<connecting, faults>> /\ reading' = "current"
        /\ reading = "current" => link # "up"
        /\ reading = "current" /\ link = "poisoned" => link' = "poisoned"
    BY <1>6 DEF RequestFails, Holds, Leave
  <2> QED
    BY <2>1 DEF QuietInv
<1>7. CASE TokenAnswered
  <2>1. /\ line # <<>> /\ UNCHANGED <<link, faults>> /\ reading' = "current"
        /\ link # "closed" => UNCHANGED connecting
    BY <1>7 DEF TokenAnswered, Holds, Leave, Join
  <2> QED
    BY <2>1 DEF QuietInv
<1>8. ASSUME NEW m \in Messages, TaskAnswered(m) PROVE QuietInv'
  <2>1. /\ line # <<>> /\ UNCHANGED <<link, faults>> /\ reading' = "current"
        /\ link # "closed" => UNCHANGED connecting
    BY <1>8 DEF TaskAnswered, Holds, Leave, Join
  <2> QED
    BY <2>1 DEF QuietInv
<1>9. ASSUME NEW m \in Messages, GateAnswered(m) PROVE QuietInv'
  BY <1>9 DEF GateAnswered, QuietInv
<1>10. ASSUME NEW r \in Roles, Poll(r) PROVE QuietInv'
  <2>1. PICK a, batch, first, asking : Polled(r, a, batch, first, asking)
    BY <1>10, PollIs
  <2> QED
    BY <2>1 DEF QuietInv, Polled, Join, Roles
<1>11. ASSUME NEW r \in Roles, PollsNothing(r) PROVE QuietInv'
  <2>1. loop = r /\ UNCHANGED <<line, connecting, link, reading>>
    BY <1>11 DEF PollsNothing
  <2>2. faults'.restarts = faults.restarts
    BY <1>0, <1>11, OneMoreFault DEF PollsNothing
  <2> QED
    BY <2>1, <2>2 DEF QuietInv, Roles
<1>12. CASE Save
  BY <1>12 DEF Save, QuietInv
<1>13. CASE Crash
  BY <1>13 DEF Crash, QuietInv
<1>14. CASE GatewayRestart
  BY <1>0, <1>14, OneMoreFault DEF GatewayRestart, QuietInv
<1> QED
  BY <1>1, <1>2, <1>3, <1>4, <1>5, <1>6, <1>7, <1>8, <1>9, <1>10, <1>11, <1>12, <1>13, <1>14
  DEF Next, Steps, Clients
-----------------------------------------------------------------------------
LEMMA TailAhead ==
  ASSUME NEW S, NEW s \in Seq(S), s # <<>>, NEW a, NEW b, Ahead(s, a, b)
  PROVE  Ahead(Tail(s), a, b)
<1> SUFFICES ASSUME NEW k \in DOMAIN Tail(s), NEW l \in DOMAIN Tail(s),
                    Tail(s)[k] = a, Tail(s)[l] = b
             PROVE  k < l
  BY DEF Ahead
<1>1. /\ k \in 1..(Len(s) - 1) /\ l \in 1..(Len(s) - 1) /\ Len(s) \in Nat
      /\ s[k + 1] = a /\ s[l + 1] = b /\ DOMAIN s = 1..Len(s)
  BY TailIs
<1>2. k + 1 < l + 1
  BY <1>1 DEF Ahead
<1> QED
  BY <1>1, <1>2

LEMMA ConcatAhead ==
  ASSUME NEW S, NEW s \in Seq(S), NEW t \in Seq(S), NEW a, NEW b,
         a \notin Range(t), Ahead(s, a, b)
  PROVE  Ahead(s \o t, a, b)
<1> SUFFICES ASSUME NEW k \in DOMAIN (s \o t), NEW l \in DOMAIN (s \o t),
                    (s \o t)[k] = a, (s \o t)[l] = b
             PROVE  k < l
  BY DEF Ahead
<1>1. /\ Len(s) \in Nat /\ Len(t) \in Nat /\ DOMAIN s = 1..Len(s) /\ DOMAIN t = 1..Len(t)
      /\ k \in 1..(Len(s) + Len(t)) /\ l \in 1..(Len(s) + Len(t))
  BY ConcatIs
<1>2. k \in 1..Len(s)
  <2> SUFFICES ASSUME k \notin 1..Len(s) PROVE FALSE
    OBVIOUS
  <2>1. k \in (Len(s) + 1)..(Len(s) + Len(t))
    BY <1>1
  <2>2. (s \o t)[k] = t[k - Len(s)] /\ k - Len(s) \in DOMAIN t
    BY <1>1, <2>1, ConcatIs
  <2> QED
    BY <2>2, InRange
<1>3. s[k] = a
  BY <1>2, ConcatIs
<1>4. CASE l \in 1..Len(s)
  <2>1. s[l] = b
    BY <1>4, ConcatIs
  <2> QED
    BY <1>1, <1>2, <1>3, <1>4, <2>1 DEF Ahead
<1>5. CASE l \notin 1..Len(s)
  BY <1>1, <1>2, <1>5
<1> QED
  BY <1>4, <1>5

(* The order among the messages to the llm bot *)
KeepsOrder ==
  \A a, b \in Range(LlmInbox) : Ahead(line, a, b) => Ahead(line', a, b)

LEMMA LlmMessages ==
  /\ Range(LlmInbox) \subseteq Messages /\ "llm" \in Roles
  /\ \A i \in DOMAIN LlmInbox : LlmInbox[i] \in Range(LlmInbox)
  /\ \A i, j \in DOMAIN LlmInbox : LlmInbox[i] = LlmInbox[j] => i = j
  /\ DOMAIN LlmInbox = DOMAIN Inbox["llm"]
  /\ \A i \in DOMAIN LlmInbox : LlmInbox[i] = Inbox["llm"][i] /\ i \in Nat
<1>1. DOMAIN LlmInbox = 1..Len(LlmInbox) /\ Len(LlmInbox) \in Nat
  BY TelegramListenerAssumption
<1> QED
  BY <1>1, TelegramListenerAssumption, RolesAre, InRange DEF Range, IsInjective

LEMMA LineOrder ==
  ASSUME LineInv, NEW k,
         \/ UNCHANGED line
         \/ line' = <<>>
         \/ line # <<>> /\ Leave(Tail(line))
         \/ \E x \in Clients \ Range(LlmInbox) :
              \/ Join(line, k, <<x>>) \/ line' = Append(line, x)
              \/ line # <<>> /\ Join(Tail(line), k, <<x>>)
  PROVE  KeepsOrder
<1> SUFFICES ASSUME NEW a \in Range(LlmInbox), NEW b \in Range(LlmInbox), Ahead(line, a, b)
             PROVE  Ahead(line', a, b)
  BY DEF KeepsOrder
<1>0. line \in Seq(Clients)
  BY DEF LineInv
<1>1. CASE UNCHANGED line
  BY <1>1
<1>2. CASE line' = <<>>
  BY <1>2 DEF Ahead
<1>3. line # <<>> => Tail(line) \in Seq(Clients) /\ Ahead(Tail(line), a, b)
  BY <1>0, TailIs, TailAhead
<1>4. CASE line # <<>> /\ Leave(Tail(line))
  BY <1>3, <1>4 DEF Leave
<1>5. ASSUME NEW x \in Clients \ Range(LlmInbox), NEW l \in Seq(Clients), Ahead(l, a, b)
      PROVE  Ahead(l \o <<x>>, a, b)
  <2>1. PICK t : t = <<x>>
    OBVIOUS
  <2>2. t \in Seq(Clients) /\ a \notin Range(t)
    BY <2>1, Single
  <2>3. Ahead(l \o t, a, b)
    BY <1>5, <2>2, ConcatAhead
  <2> QED
    BY <2>1, <2>3
<1>6. ASSUME NEW x \in Clients \ Range(LlmInbox),
             \/ Join(line, k, <<x>>) \/ line' = Append(line, x)
             \/ line # <<>> /\ Join(Tail(line), k, <<x>>)
      PROVE  Ahead(line', a, b)
  <2>1. Append(line, x) = line \o <<x>>
    BY <1>0
  <2> QED
    BY <1>0, <1>3, <1>5, <1>6, <2>1 DEF Join
<1> QED
  BY <1>1, <1>2, <1>4, <1>6

LEMMA ProgressIs ==
  ASSUME NEW m \in Messages
  PROVE  /\ Progress(m) \in 0..4
         /\ task[m] = "none" <=> Progress(m) = 0
         /\ task[m] = "check" <=> Progress(m) = 1
         /\ task[m] = "status" <=> Progress(m) = 2
         /\ task[m] = "turn" <=> Progress(m) = 3
         /\ task[m] \in Early <=> Progress(m) \in 1..3
BY DEF Progress, Early

LEMMA ProgressIsNext ==
  ASSUME NEW m \in Messages
  PROVE  /\ Progress(m)' \in 0..4
         /\ task'[m] = "none" <=> Progress(m)' = 0
         /\ task'[m] = "check" <=> Progress(m)' = 1
         /\ task'[m] = "status" <=> Progress(m)' = 2
         /\ task'[m] = "turn" <=> Progress(m)' = 3
         /\ task'[m] \in Early <=> Progress(m)' \in 1..3
         /\ task'[m] = task[m] => Progress(m)' = Progress(m)
BY DEF Progress, Early

(* Tasks end, and the others stay in order. *)
LEMMA OrderKept ==
  ASSUME OrderInv, faults'.restarts = 0 => faults.restarts = 0,
         faults'.restarts = 0 => KeepsOrder,
         \A m \in Range(LlmInbox) : task'[m] = task[m] \/ task'[m] \in {"over", "lost"}
  PROVE  OrderInv'
<1> SUFFICES ASSUME faults'.restarts = 0,
                    NEW i \in DOMAIN LlmInbox, NEW j \in DOMAIN LlmInbox, i < j
             PROVE  NotOvertaken(LlmInbox[i], LlmInbox[j])'
  BY DEF OrderInv
<1> DEFINE a == LlmInbox[i]
           b == LlmInbox[j]
<1>1. a \in Range(LlmInbox) /\ b \in Range(LlmInbox) /\ a \in Messages /\ b \in Messages
  BY LlmMessages
<1>2. NotOvertaken(a, b) /\ (Ahead(line, a, b) => Ahead(line', a, b))
  BY <1>1 DEF OrderInv, KeepsOrder
<1>3. /\ task'[a] = task[a] \/ task'[a] \in {"over", "lost"}
      /\ task'[b] = task[b] \/ task'[b] \in {"over", "lost"}
  BY <1>1
<1> HIDE DEF a, b
<1> SUFFICES ASSUME task'[b] \in Early
             PROVE  /\ Progress(a)' >= Progress(b)'
                    /\ Progress(a)' = Progress(b)' => Ahead(line', a, b)
  BY DEF NotOvertaken, a, b, Ahead
<1>4. task'[b] = task[b] /\ Progress(b)' = Progress(b) /\ Progress(b) \in 1..3
  BY <1>1, <1>3, ProgressIs, ProgressIsNext DEF Early
<1>5. CASE task'[a] = task[a]
  <2>1. Progress(a)' = Progress(a)
    BY <1>1, <1>5, ProgressIsNext
  <2> QED
    BY <1>2, <1>4, <2>1 DEF NotOvertaken
<1>6. CASE task'[a] \in {"over", "lost"}
  <2>1. Progress(a)' = 4
    BY <1>6 DEF Progress
  <2> QED
    BY <1>4, <2>1
<1> QED
  BY <1>3, <1>5, <1>6

(* Of the steps without an answer to a task and without a poll, none puts  *)
(* a message in line or takes a task on.                                   *)
LEMMA OthersKeepOrder ==
  ASSUME TypeOK, QuietInv, OrderInv,
         \/ \E r \in Roles : Send(r) \/ PollsNothing(r)
         \/ \E x \in Clients : Connected(x) \/ OpenFails(x) \/ Timeout(x) \/ RequestFails(x)
         \/ Cycle \/ TokenAnswered \/ Save \/ Crash \/ GatewayRestart
         \/ \E m \in Messages : GateAnswered(m)
  PROVE  OrderInv'
<1> USE DEF telegramVars, pollVars, clientVars
<1>0. /\ Shapes /\ LineInv /\ Loop \in Clients \ Range(LlmInbox)
      /\ Range(LlmInbox) \subseteq Messages
  BY TypesAre, LlmMessages, TelegramListenerAssumption DEF Clients
<1>1. ASSUME UNCHANGED <<task, line>>, faults'.restarts = faults.restarts
      PROVE  OrderInv'
  <2>1. KeepsOrder
    BY <1>1 DEF KeepsOrder
  <2> QED
    BY <1>1, <2>1, OrderKept
<1>2. ASSUME NEW r \in Roles, Send(r) \/ PollsNothing(r) PROVE OrderInv'
  <2>1. UNCHANGED <<task, line>>
    BY <1>2 DEF Send, PollsNothing
  <2>2. faults'.restarts = faults.restarts
    BY <1>0, <1>2, OneMoreFault DEF Send, PollsNothing
  <2> QED
    BY <1>1, <2>1, <2>2
<1>3. CASE Save
  BY <1>1, <1>3 DEF Save
<1>4. CASE Cycle \/ TokenAnswered
  <2>1. /\ UNCHANGED <<task, faults>>
        /\ \/ Join(line, link, <<Loop>>)
           \/ line # <<>> /\ (Leave(Tail(line)) \/ Join(Tail(line), link, <<Loop>>))
    BY <1>4 DEF Cycle, TokenAnswered, Holds
  <2>2. KeepsOrder
    BY <1>0, <2>1, LineOrder
  <2> QED
    BY <2>1, <2>2, OrderKept
<1>5. ASSUME NEW x \in Clients, Connected(x) PROVE OrderInv'
  <2>1. UNCHANGED <<task, faults>> /\ line' = Append(line, x) /\ x \in connecting
    BY <1>5 DEF Connected
  <2>2. ASSUME faults.restarts = 0 PROVE KeepsOrder
    <3>1. x = Loop
      BY <2>1, <2>2 DEF QuietInv
    <3> QED
      BY <1>0, <2>1, <3>1, LineOrder
  <2> QED
    BY <2>1, <2>2, OrderKept
<1>6. ASSUME NEW x \in Clients, OpenFails(x) \/ Timeout(x) \/ RequestFails(x) PROVE OrderInv'
  <2>1. x \in Waiting /\ GiveUp(x)
    BY <1>0, <1>6, Holder DEF OpenFails, Timeout, RequestFails, LineInv
  <2>2. \A m \in Messages : task'[m] = IF m = x THEN "over" ELSE task[m]
    BY <1>0, <2>1, GivingUp
  <2>3. faults'.restarts = faults.restarts
    BY <1>0, <1>6, OneMoreFault DEF OpenFails, Timeout, RequestFails
  <2>4. UNCHANGED line \/ (line # <<>> /\ Leave(Tail(line)))
    BY <1>6 DEF OpenFails, Timeout, RequestFails, Holds
  <2>5. KeepsOrder
    BY <1>0, <2>4, LineOrder
  <2> QED
    BY <1>0, <2>2, <2>3, <2>5, OrderKept
<1>7. CASE Crash
  <2>1. \A m \in Messages : task'[m] = task[m] \/ task'[m] = "lost"
    BY <1>7 DEF Crash
  <2>2. line' = <<>> /\ faults'.restarts = faults.restarts
    BY <1>0, <1>7, OneMoreFault DEF Crash
  <2>3. KeepsOrder
    BY <1>0, <2>2, LineOrder
  <2> QED
    BY <1>0, <2>1, <2>2, <2>3, OrderKept
<1>8. CASE GatewayRestart
  BY <1>0, <1>8, OneMoreFault DEF GatewayRestart, OrderInv
<1>9. ASSUME NEW m \in Messages, GateAnswered(m) PROVE OrderInv'
  <2>1. \A n \in Messages : task'[n] = task[n] \/ task'[n] = "over"
    BY <1>0, <1>9 DEF GateAnswered, Shapes
  <2>2. UNCHANGED <<line, faults>>
    BY <1>9 DEF GateAnswered
  <2>3. KeepsOrder
    BY <2>2 DEF KeepsOrder
  <2> QED
    BY <1>0, <2>1, <2>2, <2>3, OrderKept
<1> QED
  BY <1>2, <1>3, <1>4, <1>5, <1>6, <1>7, <1>8, <1>9

(* A task that has its answer goes on behind the others, or ends. *)
LEMMA AnswerKeepsOrder ==
  ASSUME TypeOK, QuietInv, OrderInv, NEW m \in Messages, TaskAnswered(m)
  PROVE  OrderInv'
<1>0. /\ Shapes /\ LineInv /\ Range(LlmInbox) \subseteq Messages /\ line \in Seq(Clients)
      /\ m \in Clients
  BY TypesAre, LlmMessages DEF LineInv, Clients
<1>1. /\ line # <<>> /\ m = Head(line) /\ m \in Waiting /\ task[m] \in Requesting
      /\ UNCHANGED <<faults, link>>
  <2>1. m # Loop
    BY TelegramListenerAssumption
  <2> QED
    BY <1>0, <2>1, Holder DEF TaskAnswered, Waiting
<1>2. PICK t \in NextRequest(task[m]) :
        /\ task' = [task EXCEPT ![m] = t]
        /\ IF t = "over" THEN Leave(Tail(line)) ELSE Join(Tail(line), link, <<m>>)
  BY DEF TaskAnswered
<1>3. /\ \A n \in Messages : task'[n] = IF n = m THEN t ELSE task[n]
      /\ task[m] = "check" => t \in {"status", "over"}
      /\ task[m] = "status" => t \in {"turn", "claim", "create"}
      /\ task[m] \notin {"check", "status"} => t \in {"over", "create"}
  <2>1. \A n \in Messages : task'[n] = IF n = m THEN t ELSE task[n]
    BY <1>0, <1>2 DEF Shapes
  <2> QED
    BY <1>1, <1>2, <2>1, NextRequestIs
<1> SUFFICES ASSUME faults'.restarts = 0, faults.restarts = 0,
                    NEW i \in DOMAIN LlmInbox, NEW j \in DOMAIN LlmInbox, i < j
             PROVE  NotOvertaken(LlmInbox[i], LlmInbox[j])'
  BY <1>1 DEF OrderInv
<1> DEFINE a == LlmInbox[i]
           b == LlmInbox[j]
<1>4. /\ a \in Messages /\ b \in Messages /\ a # b
  BY LlmMessages
<1>5. NotOvertaken(a, b)
  BY DEF OrderInv
<1> HIDE DEF a, b
<1> SUFFICES ASSUME task'[b] \in Early
             PROVE  /\ Progress(a)' >= Progress(b)'
                    /\ Progress(a)' = Progress(b)' => Ahead(line', a, b)
  BY DEF NotOvertaken, a, b, Ahead
<1>6. link # "closed" /\ connecting = {}
  BY <1>1 DEF QuietInv
<1>7. /\ Tail(line) \in Seq(Clients) /\ Range(Tail(line)) = Range(line) \ {m}
      /\ m \in Range(line) /\ DOMAIN line = 1..Len(line) /\ Len(line) \in Nat \ {0}
      /\ line[1] = m /\ Range(line) = Waiting
  BY <1>0, <1>1, <1>6, TailIs, TailRange DEF LineInv
<1>8. PICK s \in Seq(Clients) : line' = Tail(line) \o s /\ (Range(s) = {} \/ Range(s) = {m})
  <2>1. PICK s : s = <<m>>
    OBVIOUS
  <2>2. s \in Seq(Clients) /\ Range(s) = {m}
    BY <1>0, <2>1, Single
  <2>3. CASE line' = Tail(line)
    <3>1. PICK e : e = <<>>
      OBVIOUS
    <3>2. e \in Seq(Clients) /\ Range(e) = {} /\ Tail(line) \o e = Tail(line)
      BY <1>7, <3>1 DEF Range
    <3> QED
      BY <2>3, <3>2
  <2>4. CASE line' = Tail(line) \o s
    BY <2>2, <2>4
  <2> QED
    BY <1>2, <1>6, <2>1, <2>3, <2>4 DEF Leave, Join
<1>9. Ahead(line, a, b) => Ahead(Tail(line), a, b)
  BY <1>0, <1>1, TailAhead
<1>10. /\ Progress(a) \in 0..4 /\ Progress(b) \in 0..4
       /\ Progress(a)' \in 0..4 /\ Progress(b)' \in 1..3
  BY <1>4, ProgressIs, ProgressIsNext
<1>11. CASE b = m
  <2>1. task[b] \in {"check", "status"} /\ Progress(b)' = Progress(b) + 1 /\ task[b] \in Early
    <3>1. \/ task[b] = "check" /\ task'[b] = "status"
          \/ task[b] = "status" /\ task'[b] = "turn"
      BY <1>3, <1>4, <1>11 DEF Early
    <3>2. \/ Progress(b) = 1 /\ Progress(b)' = 2
          \/ Progress(b) = 2 /\ Progress(b)' = 3
      BY <1>4, <3>1, ProgressIs, ProgressIsNext
    <3> QED
      BY <3>1, <3>2 DEF Early
  <2>2. Progress(a)' = Progress(a)
    BY <1>3, <1>4, <1>11, ProgressIsNext
  <2>3. Progress(a) # Progress(b)
    <3> SUFFICES ASSUME Progress(a) = Progress(b) PROVE FALSE
      OBVIOUS
    <3>1. task[a] \in Requesting
      BY <1>4, <2>1, ProgressIs DEF Requesting
    <3>2. a \in Range(line)
      BY <1>4, <1>7, <3>1 DEF Waiting
    <3>3. PICK k \in DOMAIN line : a = line[k]
      BY <3>2, InRange
    <3>4. Ahead(line, a, b)
      BY <1>5, <2>1 DEF NotOvertaken
    <3>5. 1 \in DOMAIN line /\ line[1] = b
      BY <1>7, <1>11
    <3>6. k < 1
      BY <3>3, <3>4, <3>5 DEF Ahead
    <3> QED
      BY <1>7, <3>3, <3>6
  <2>4. Progress(a) >= Progress(b)
    BY <1>5, <2>1 DEF NotOvertaken
  <2>5. Progress(a)' >= Progress(b)'
    BY <1>10, <2>1, <2>2, <2>3, <2>4
  <2>6. Ahead(Tail(line), a, b)
    <3>1. b \notin Range(Tail(line))
      BY <1>7, <1>11
    <3> QED
      BY <3>1, InRange DEF Ahead
  <2>7. a \notin Range(s)
    BY <1>4, <1>8, <1>11
  <2>8. Ahead(line', a, b)
    BY <1>7, <1>8, <2>6, <2>7, ConcatAhead
  <2> QED
    BY <2>5, <2>8
<1>12. CASE b # m
  <2>1. task'[b] = task[b] /\ Progress(b)' = Progress(b) /\ task[b] \in Early
    BY <1>3, <1>4, <1>12, ProgressIsNext
  <2>2. Progress(a) >= Progress(b) /\ (Progress(a) = Progress(b) => Ahead(line, a, b))
    BY <1>5, <2>1 DEF NotOvertaken
  <2>3. CASE a = m
    <3>1. Progress(a)' = 4 \/ Progress(a)' > Progress(a)
      <4>1. CASE task[a] = "check"
        <5>1. task'[a] = "status" \/ task'[a] = "over"
          BY <1>3, <1>4, <2>3, <4>1
        <5>2. CASE task'[a] = "status"
          <6>1. Progress(a) = 1 /\ Progress(a)' = 2
            BY <1>4, <4>1, <5>2, ProgressIs, ProgressIsNext
          <6> QED
            BY <6>1
        <5>3. CASE task'[a] = "over"
          BY <5>3 DEF Progress
        <5> QED
          BY <5>1, <5>2, <5>3
      <4>2. CASE task[a] = "status"
        <5>1. task'[a] = "turn" \/ task'[a] \in {"claim", "create"}
          BY <1>3, <1>4, <2>3, <4>2
        <5>2. CASE task'[a] = "turn"
          <6>1. Progress(a) = 2 /\ Progress(a)' = 3
            BY <1>4, <4>2, <5>2, ProgressIs, ProgressIsNext
          <6> QED
            BY <6>1
        <5>3. CASE task'[a] \in {"claim", "create"}
          BY <5>3 DEF Progress
        <5> QED
          BY <5>1, <5>2, <5>3
      <4>3. CASE task[a] \notin {"check", "status"}
        <5>1. task'[a] \in {"over", "create"}
          BY <1>3, <1>4, <2>3, <4>3
        <5> QED
          BY <5>1 DEF Progress
      <4> QED
        BY <4>1, <4>2, <4>3
    <3> QED
      BY <1>10, <2>1, <2>2, <3>1
  <2>4. CASE a # m
    <3>1. Progress(a)' = Progress(a)
      BY <1>3, <1>4, <2>4, ProgressIsNext
    <3>2. a \notin Range(s)
      BY <1>8, <2>4
    <3>3. Ahead(line, a, b) => Ahead(line', a, b)
      BY <1>7, <1>8, <1>9, <3>2, ConcatAhead
    <3> QED
      BY <2>1, <2>2, <3>1, <3>3
  <2> QED
    BY <2>3, <2>4
<1> QED
  BY <1>11, <1>12

(* What a poll fetches has no task in line, and queues in its order. *)
LEMMA PollKeepsOrder ==
  ASSUME TypeOK, OffsetsInv, TasksInv, QuietInv, OrderInv, NEW r \in Roles, Poll(r)
  PROVE  OrderInv'
<1>0. Shapes /\ LineInv /\ line \in Seq(Clients)
  BY TypesAre DEF LineInv
<1>1. PICK o, batch, first, asking : Polled(r, o, batch, first, asking)
  BY PollIs
<1>2. /\ \A m \in Messages : task'[m] = IF m \in Range(batch) THEN first[m] ELSE task[m]
      /\ UNCHANGED faults /\ Join(line, link, asking) /\ asking \in Seq(Clients)
      /\ \A m : m \in Range(asking) <=> m \in Range(batch) /\ first[m] # "gate"
      /\ \A m : m \in Range(batch) <=> \E i \in o..sent[r] : m = Inbox[r][i]
      /\ o \in Nat \ {0} /\ o >= offset[r] /\ o >= confirmed[r] /\ loop = r
      /\ o = 1 \/ o = offset[r] \/ o = confirmed[r]
      /\ sent[r] \in Nat /\ offset[r] \in Nat /\ confirmed[r] \in Nat
  <2>1. asking \in Seq(Clients)
    BY <1>1, SeqDef DEF Polled, Clients
  <2>2. sent[r] \in Nat /\ offset[r] \in Nat /\ confirmed[r] \in Nat
    BY <1>0 DEF Shapes
  <2> QED
    BY <1>1, <2>1, <2>2 DEF Polled
<1>3. ASSUME NEW q \in Roles, NEW i \in DOMAIN Inbox[q]
      PROVE  Inbox[q][i] \in Range(batch) <=> q = r /\ i \in o..sent[r]
  <2>1. ASSUME Inbox[q][i] \in Range(batch) PROVE q = r /\ i \in o..sent[r]
    <3>1. PICK k \in o..sent[r] : Inbox[q][i] = Inbox[r][k]
      BY <1>2, <2>1
    <3>2. k \in DOMAIN Inbox[r]
      BY <1>0, <1>2, <3>1, Unfetched
    <3> QED
      BY <3>1, <3>2, Distinct
  <2> QED
    BY <1>2, <2>1
<1>4. ASSUME faults.restarts = 0 PROVE line' = line \o asking
  <2>1. link # "closed"
    BY <1>2, <1>4 DEF QuietInv, Roles
  <2> QED
    BY <1>2, <2>1 DEF Join
<1>5. CASE r # "llm"
  <2>1. \A m \in Range(LlmInbox) :
          m \in Messages /\ m \notin Range(batch) /\ m \notin Range(asking)
    <3> SUFFICES ASSUME NEW m \in Range(LlmInbox)
                 PROVE  m \in Messages /\ m \notin Range(batch) /\ m \notin Range(asking)
      OBVIOUS
    <3>1. PICK i \in DOMAIN LlmInbox : m = LlmInbox[i]
      BY InRange
    <3>2. m = Inbox["llm"][i] /\ i \in DOMAIN Inbox["llm"] /\ "llm" \in Roles /\ m \in Messages
      BY <3>1, LlmMessages
    <3>3. m \notin Range(batch)
      BY <1>3, <1>5, <3>2
    <3> QED
      BY <1>2, <3>2, <3>3
  <2>2. faults'.restarts = 0 => KeepsOrder
    <3> SUFFICES ASSUME faults'.restarts = 0, NEW a \in Range(LlmInbox),
                        NEW b \in Range(LlmInbox), Ahead(line, a, b)
                 PROVE  Ahead(line', a, b)
      BY DEF KeepsOrder
    <3>1. line' = line \o asking
      BY <1>2, <1>4
    <3>2. a \notin Range(asking)
      BY <2>1
    <3> QED
      BY <1>0, <1>2, <3>1, <3>2, ConcatAhead
  <2> QED
    BY <1>2, <2>1, <2>2, OrderKept
<1>6. CASE r = "llm"
  <2> SUFFICES ASSUME faults'.restarts = 0, faults.restarts = 0,
                      NEW i \in DOMAIN LlmInbox, NEW j \in DOMAIN LlmInbox, i < j
               PROVE  NotOvertaken(LlmInbox[i], LlmInbox[j])'
    BY <1>2 DEF OrderInv
  <2> DEFINE a == LlmInbox[i]
             b == LlmInbox[j]
  <2>1. /\ a = Inbox[r][i] /\ b = Inbox[r][j] /\ i \in DOMAIN Inbox[r] /\ j \in DOMAIN Inbox[r]
        /\ a \in Messages /\ b \in Messages /\ i \in Nat /\ j \in Nat /\ i >= 1
    BY <1>6, LlmMessages, RolesAre
  <2>2. NotOvertaken(a, b)
    BY DEF OrderInv
  <2>3. /\ a \in Range(batch) <=> i \in o..sent[r]
        /\ b \in Range(batch) <=> j \in o..sent[r]
    BY <1>3, <2>1
  <2>4. dispatched[b] = 0 <=> task[b] = "none"
    BY <2>1 DEF TasksInv
  <2>5. j > sent[r] => dispatched[b] = 0
    BY <2>1 DEF TasksInv
  <2>6. i <= sent[r] /\ (i < offset[r] \/ i < confirmed[r]) => task[a] # "none"
    BY <2>1 DEF TasksInv
  <2> HIDE DEF a, b
  <2> SUFFICES ASSUME task'[b] \in Early
               PROVE  /\ Progress(a)' >= Progress(b)'
                      /\ Progress(a)' = Progress(b)' => Ahead(line', a, b)
    BY DEF NotOvertaken, a, b, Ahead
  <2>7. \A m \in Range(batch) : /\ first[m] = "check" /\ m \in Range(asking)
                                /\ m \notin Range(line)
    <3> SUFFICES ASSUME NEW m \in Range(batch)
                 PROVE  first[m] = "check" /\ m \in Range(asking) /\ m \notin Range(line)
      OBVIOUS
    <3>1. first[m] = "check"
      BY <1>1, <1>6 DEF Polled, FirstRequests
    <3>2. PICK k \in o..sent[r] : m = Inbox[r][k]
      BY <1>2
    <3>3. m \in Messages /\ task[m] \notin Active
      BY <1>0, <1>2, <3>2, Unfetched
    <3>4. m \notin Waiting
      BY <3>3, TelegramListenerAssumption DEF Waiting, Active
    <3> QED
      BY <1>0, <1>2, <3>1, <3>4 DEF LineInv
  <2>8. line' = line \o asking
    BY <1>4
  <2>9. ASSUME a \notin Range(batch), Ahead(line, a, b) PROVE Ahead(line', a, b)
    <3>1. a \notin Range(asking)
      BY <1>2, <2>9
    <3> QED
      BY <1>0, <1>2, <2>8, <2>9, <3>1, ConcatAhead
  <2>10. CASE b \in Range(batch)
    <3>1. task'[b] = "check" /\ Progress(b)' = 1
      BY <1>2, <2>1, <2>7, <2>10, ProgressIsNext
    <3>2. CASE a \in Range(batch)
      <4>1. Progress(a)' = 1
        BY <1>2, <2>1, <2>7, <3>2, ProgressIsNext
      <4>2. Ahead(line', a, b)
        <5> SUFFICES ASSUME NEW k \in DOMAIN line', NEW l \in DOMAIN line',
                            line'[k] = a, line'[l] = b
                     PROVE  k < l
          BY DEF Ahead
        <5>1. /\ Len(line) \in Nat /\ Len(asking) \in Nat
              /\ DOMAIN line = 1..Len(line) /\ DOMAIN asking = 1..Len(asking)
              /\ DOMAIN line' = 1..(Len(line) + Len(asking))
          BY <1>0, <1>2, <2>8, ConcatIs
        <5>2. ASSUME NEW n \in DOMAIN line', line'[n] \in Range(batch)
              PROVE  n - Len(line) \in DOMAIN asking /\ line'[n] = asking[n - Len(line)]
          <6>1. n \notin 1..Len(line)
            <7> SUFFICES ASSUME n \in 1..Len(line) PROVE FALSE
              OBVIOUS
            <7>1. line'[n] = line[n]
              BY <1>0, <1>2, <2>8, ConcatIs
            <7> QED
              BY <2>7, <5>1, <5>2, <7>1, InRange
          <6>2. n \in (Len(line) + 1)..(Len(line) + Len(asking))
            BY <5>1, <6>1
          <6> QED
            BY <1>0, <1>2, <2>8, <5>1, <6>2, ConcatIs
        <5>3. /\ k - Len(line) \in DOMAIN asking /\ asking[k - Len(line)] = a
              /\ l - Len(line) \in DOMAIN asking /\ asking[l - Len(line)] = b
          BY <2>10, <3>2, <5>2
        <5>4. PICK x, y : x = i - o + 1 /\ y = j - o + 1
          OBVIOUS
        <5>5. /\ x \in 1..(sent[r] + 1 - o) /\ y \in 1..(sent[r] + 1 - o) /\ x < y
              /\ o + x - 1 = i /\ o + y - 1 = j
          <6>1. i \in o..sent[r] /\ j \in o..sent[r]
            BY <2>3, <2>10, <3>2
          <6>2. o \in Nat \ {0} /\ sent[r] \in Nat /\ i \in Nat /\ j \in Nat
            BY <1>2, <2>1
          <6> QED
            BY <5>4, <6>1, <6>2
        <5>6. x \in DOMAIN batch /\ y \in DOMAIN batch /\ batch[x] = a /\ batch[y] = b
          BY <1>1, <2>1, <5>5 DEF Polled
        <5>7. k - Len(line) < l - Len(line)
          BY <1>1, <5>3, <5>5, <5>6 DEF Polled
        <5> QED
          BY <5>1, <5>7
      <4> QED
        BY <3>1, <4>1, <4>2
    <3>3. CASE a \notin Range(batch)
      <4>1. i < o /\ i <= sent[r]
        BY <1>2, <2>1, <2>3, <2>10, <3>3
      <4>2. task[a] # "none"
        BY <1>2, <2>1, <2>6, <4>1
      <4>3. task'[a] = task[a] /\ Progress(a)' \in 1..4
        BY <1>2, <2>1, <3>3, <4>2, ProgressIsNext
      <4>4. Ahead(line, a, b)
        BY <2>7, <2>10, InRange DEF Ahead
      <4> QED
        BY <2>9, <3>1, <3>3, <4>3, <4>4
    <3> QED
      BY <3>2, <3>3
  <2>11. CASE b \notin Range(batch)
    <3>1. task'[b] = task[b] /\ Progress(b)' = Progress(b)
      BY <1>2, <2>1, <2>11, ProgressIsNext
    <3>2. task[b] # "none"
      BY <3>1 DEF Early
    <3>3. a \notin Range(batch)
      BY <1>2, <2>1, <2>3, <2>4, <2>5, <2>11, <3>2
    <3>4. task'[a] = task[a] /\ Progress(a)' = Progress(a)
      BY <1>2, <2>1, <3>3, ProgressIsNext
    <3> QED
      BY <2>2, <2>9, <3>1, <3>3, <3>4 DEF NotOvertaken
  <2> QED
    BY <2>10, <2>11
<1> QED
  BY <1>5, <1>6

LEMMA OrderSteps ==
  ASSUME TypeOK, OffsetsInv, TasksInv, QuietInv, OrderInv, Next
  PROVE  OrderInv'
BY OthersKeepOrder, AnswerKeepsOrder, PollKeepsOrder DEF Next, Steps, Clients
-----------------------------------------------------------------------------
LEMMA PollingSteps ==
  ASSUME TypeOK, OffsetsInv, TasksInv, OncePerProcess, Next
  PROVE  TypeOK' /\ OffsetsInv' /\ TasksInv' /\ OncePerProcess'
<1>0. Shapes
  BY TypesAre
<1>1. ASSUME NEW r \in Roles, Send(r) PROVE TypeOK' /\ OffsetsInv' /\ TasksInv' /\ OncePerProcess'
  BY <1>0, <1>1, SendTypes, SendKeeps
<1>2. ASSUME NEW r \in Roles, Poll(r) PROVE TypeOK' /\ OffsetsInv' /\ TasksInv' /\ OncePerProcess'
  <2>1. PICK a, batch, first, asking : Polled(r, a, batch, first, asking)
    BY <1>2, PollIs
  <2> QED
    BY <1>0, <1>2, <2>1, PollTypes, PollKeeps
<1>3. CASE Save
  BY <1>0, <1>3, SaveTypes, SaveKeeps
<1>4. CASE Crash
  BY <1>0, <1>4, CrashTypes, CrashKeeps
<1>5. ASSUME NEW x \in Clients,
             \/ Connected(x) \/ OpenFails(x) \/ Timeout(x) \/ RequestFails(x)
             \/ Cycle \/ TokenAnswered \/ GatewayRestart
             \/ x \in Messages /\ (TaskAnswered(x) \/ GateAnswered(x))
             \/ \E r \in Roles : PollsNothing(r)
      PROVE  TypeOK' /\ OffsetsInv' /\ TasksInv' /\ OncePerProcess'
  <2>1. TypeOK'
    BY <1>5, ConnectedTypes, OpenFailsTypes, TimeoutTypes, CycleTypes, TokenAnsweredTypes,
       GatewayRestartTypes, TaskAnsweredTypes, GateAnsweredTypes, PollsNothingTypes
  <2> QED
    BY <1>5, <2>1, Serving, ServingKeeps
<1>6. Loop \in Clients
  BY DEF Clients
<1> QED
  BY <1>1, <1>2, <1>3, <1>4, <1>5, <1>6 DEF Next, Steps, Clients

LEMMA ListenerInit == Init => ListenerInv
<1> SUFFICES ASSUME Init PROVE ListenerInv
  OBVIOUS
<1>1. OffsetsInv
  BY RolesAre DEF Init, OffsetsInv
<1>2. TasksInv
  BY RolesAre DEF Init, TasksInv, Fetchable, Active, Requesting
<1>3. OncePerProcess
  BY DEF Init, OncePerProcess
<1>4. QuietInv
  BY DEF Init, QuietInv
<1>5. OrderInv
  BY LlmMessages DEF Init, OrderInv, NotOvertaken, Early
<1> QED
  BY <1>1, <1>2, <1>3, <1>4, <1>5, TypesInit DEF ListenerInv

LEMMA ListenerStays ==
  ASSUME ListenerInv, UNCHANGED vars
  PROVE  ListenerInv'
<1>1. TypeOK'
  BY DEF ListenerInv, TypeOK, vars
<1>2. OffsetsInv' /\ TasksInv' /\ OncePerProcess' /\ QuietInv'
  BY DEF ListenerInv, vars, OffsetsInv, TasksInv, OncePerProcess, QuietInv, Fetchable
<1>3. OrderInv'
  BY DEF ListenerInv, vars, OrderInv, NotOvertaken, Progress, Ahead
<1> QED
  BY <1>1, <1>2, <1>3 DEF ListenerInv

(* The polls, the line and the order hold in every state of the listener.  *)
THEOREM ListenerInvariant == Spec => []ListenerInv
<1>1. ListenerInv /\ [Next]_vars => ListenerInv'
  <2> SUFFICES ASSUME ListenerInv, [Next]_vars PROVE ListenerInv'
    OBVIOUS
  <2>1. CASE Next
    BY <2>1, PollingSteps, QuietSteps, OrderSteps DEF ListenerInv
  <2>2. CASE UNCHANGED vars
    BY <2>2, ListenerStays
  <2> QED
    BY <2>1, <2>2
<1> QED
  BY <1>1, ListenerInit, PTL DEF Spec

(* No message is lost on the way: an update that Telegram has deleted      *)
(* because a poll asked for a later one, or that the saved offset passes   *)
(* over after a crash, was given a task (_poll_updates, run_forever).      *)
THEOREM TheForgottenWereDispatched == Spec => []ForgottenIsDispatched
<1>1. ListenerInv => ForgottenIsDispatched
  <2> SUFFICES ASSUME ListenerInv, NEW r \in Roles, NEW i \in 1..sent[r],
                      i < saved[r] \/ i < confirmed[r]
               PROVE  dispatched[Inbox[r][i]] > 0
    BY DEF ForgottenIsDispatched
  <2>1. i \in DOMAIN Inbox[r] /\ i <= sent[r]
    BY RolesAre DEF ListenerInv, OffsetsInv
  <2> QED
    BY <2>1 DEF ListenerInv, TasksInv
<1> QED
  BY <1>1, ListenerInvariant, PTL

(* One process of the listener gives a message one task, whatever fails in *)
(* its loop: only a crash between the poll and the save repeats one.       *)
THEOREM EachIsDispatchedOncePerProcess == Spec => []OncePerProcess
BY ListenerInvariant, PTL DEF ListenerInv

(* As long as the gateway has not restarted, turns go to it in the order   *)
(* of the messages, though each task makes three requests and they all     *)
(* queue for one lock with the polling loop.                               *)
THEOREM TheTurnsAreInOrder == Spec => []TurnsInOrder
<1>1. ListenerInv => TurnsInOrder
  <2> SUFFICES ASSUME ListenerInv, faults.restarts = 0,
                      NEW i \in DOMAIN LlmInbox, NEW j \in DOMAIN LlmInbox,
                      i < j, task[LlmInbox[j]] = "turn"
               PROVE  /\ task[LlmInbox[i]] \notin {"check", "status"}
                      /\ task[LlmInbox[i]] = "turn" =>
                           \A k, l \in DOMAIN line :
                             line[k] = LlmInbox[i] /\ line[l] = LlmInbox[j] => k < l
    BY DEF TurnsInOrder
  <2>1. NotOvertaken(LlmInbox[i], LlmInbox[j])
    BY DEF ListenerInv, OrderInv
  <2>2. LlmInbox[i] \in Messages /\ LlmInbox[j] \in Messages
    BY LlmMessages
  <2>3. Progress(LlmInbox[j]) = 3
    BY <2>2, ProgressIs
  <2>4. /\ Progress(LlmInbox[i]) >= 3
        /\ Progress(LlmInbox[i]) = 3 => Ahead(line, LlmInbox[i], LlmInbox[j])
    BY <2>1, <2>3 DEF NotOvertaken, Early
  <2>5. task[LlmInbox[i]] \notin {"check", "status"}
    BY <2>2, <2>4, ProgressIs
  <2>6. task[LlmInbox[i]] = "turn" => Progress(LlmInbox[i]) = 3
    BY <2>2, ProgressIs
  <2> QED
    BY <2>4, <2>5, <2>6 DEF Ahead
<1> QED
  BY <1>1, ListenerInvariant, PTL
-----------------------------------------------------------------------------
(* Activation: whose the bots are, for every set of users and of chats.    *)

VaultRight ==
  /\ lock \in {"none", "locked", "open"}
  /\ bound \in [Bots -> Users \cup {Nobody}]
  /\ typed \in [Bots -> SUBSET Users]
  /\ \A c \in pending : c.user \in Users
  /\ BoundHasTyped

ChatRight(x) ==
  /\ x = [step |-> x.step, via |-> x.via, role |-> x.role, user |-> x.user,
          says |-> x.says, code |-> x.code]
  /\ x.step # "none" => x.user \in Users /\ x.role \in Bots

ChatsRight ==
  /\ chat = [k \in Chats |-> chat[k]]
  /\ \A k \in Chats : ChatRight(chat[k])

(* From the new vault on, an onboarding is one that may be cut short. *)
SettingUp == {"unlock", "look", "poll", "type", "policy", "channel", "start"}

OnboardRight ==
  /\ onboard = [step |-> onboard.step, bots |-> onboard.bots,
                role |-> onboard.role, codes |-> onboard.codes]
  /\ onboard.step \in {"none", "load", "initialize"} \cup SettingUp
  /\ onboard.step \in SettingUp => cut = "yes"
  /\ onboard.step \in {"look", "poll", "type"} => onboard.role \in Bots

(* What ChannelIsBound says, whether or not an onboarding was cut short *)
ChannelGood ==
  channel # Nobody =>
    /\ policy = "allow"
    /\ channel \in typed["sheriff"]
    /\ typed["sheriff"] = {channel} => bound["sheriff"] = channel

(* The channel is right when the onboarding has written it, and stays so.  *)
ChannelRight == cut = "no" \/ onboard.step = "start" => ChannelGood

ActivationInv == VaultRight /\ ChatsRight /\ OnboardRight /\ ChannelRight
-----------------------------------------------------------------------------
LEMMA ChatGoes ==
  ASSUME ChatsRight, NEW k \in Chats, chat[k].step # "none", NEW s,
         Goto(k, s) \/ Past(k, s) \/ Ends(k)
  PROVE  ChatsRight'
<1>0. ChatRight(chat[k]) /\ chat = [j \in Chats |-> chat[j]]
  BY DEF ChatsRight
<1>1. PICK y : chat' = [j \in Chats |-> IF j = k THEN y ELSE chat[j]] /\ ChatRight(y)
  <2>1. CASE Goto(k, s)
    <3>1. PICK y : y = [chat[k] EXCEPT !.step = s]
      OBVIOUS
    <3>2. chat' = [j \in Chats |-> IF j = k THEN y ELSE chat[j]]
      BY <1>0, <2>1, <3>1 DEF Goto
    <3>3. y = [step |-> s, via |-> chat[k].via, role |-> chat[k].role, user |-> chat[k].user,
               says |-> chat[k].says, code |-> chat[k].code]
      BY <1>0, <3>1 DEF ChatRight
    <3> QED
      BY <1>0, <3>2, <3>3 DEF ChatRight
  <2>2. CASE Past(k, s)
    <3>1. PICK y : y = [chat[k] EXCEPT !.step = s, !.via = "none", !.says = "none",
                                       !.code = NoCode]
      OBVIOUS
    <3>2. chat' = [j \in Chats |-> IF j = k THEN y ELSE chat[j]]
      BY <1>0, <2>2, <3>1 DEF Past
    <3>3. y = [step |-> s, via |-> "none", role |-> chat[k].role, user |-> chat[k].user,
               says |-> "none", code |-> NoCode]
      BY <1>0, <3>1 DEF ChatRight
    <3> QED
      BY <1>0, <3>2, <3>3 DEF ChatRight
  <2>3. CASE Ends(k)
    <3>1. chat' = [j \in Chats |-> IF j = k THEN NoChat ELSE chat[j]]
      BY <1>0, <2>3 DEF Ends
    <3> QED
      BY <3>1 DEF NoChat, ChatRight
  <2> QED
    BY <2>1, <2>2, <2>3
<1>2. ASSUME NEW j \in Chats PROVE ChatRight(chat'[j])
  BY <1>1 DEF ChatsRight
<1> QED
  BY <1>1, <1>2 DEF ChatsRight, ChatRight

LEMMA ChatsKept == ASSUME ChatsRight, UNCHANGED chat PROVE ChatsRight'
BY DEF ChatsRight, ChatRight
-----------------------------------------------------------------------------
LEMMA VaultKept ==
  ASSUME VaultRight, UNCHANGED <<bound, typed>>, lock' \in {"none", "locked", "open"},
         \A c \in pending' : c \in pending \/ c.user \in Users
  PROVE  VaultRight'
BY DEF VaultRight, BoundHasTyped

LEMMA ChannelKept ==
  ASSUME ChannelRight, UNCHANGED <<channel, policy, typed, bound, cut>>,
         onboard.step = "start" \/ onboard'.step # "start"
  PROVE  ChannelRight'
BY DEF ChannelRight, ChannelGood

(* activate_with_code.  The sheriff bot may belong to another user now;    *)
(* then the code of more than one was typed.                               *)
LEMMA ClaimKeeps ==
  ASSUME VaultRight, ChannelRight, NEW r \in Bots, NEW c,
         Claims(r, c), UNCHANGED <<lock, channel, policy, cut>>,
         onboard.step = "start" \/ onboard'.step # "start"
  PROVE  VaultRight' /\ ChannelRight'
<1>1. CASE ~Good(r, c)
  BY <1>1, VaultKept, ChannelKept DEF Claims, VaultRight
<1>2. CASE Good(r, c)
  <2>1. /\ pending' = pending \ {c} /\ c.user \in Users
        /\ bound' = [bound EXCEPT ![r] = c.user]
        /\ typed' = [typed EXCEPT ![r] = @ \cup {c.user}]
    BY <1>2 DEF Claims, Good, VaultRight
  <2>2. /\ bound' \in [Bots -> Users \cup {Nobody}]
        /\ typed' \in [Bots -> SUBSET Users]
    BY <2>1 DEF VaultRight
  <2>3. \A q \in Bots : /\ typed'[q] = IF q = r THEN typed[q] \cup {c.user} ELSE typed[q]
                        /\ bound'[q] = IF q = r THEN c.user ELSE bound[q]
    <3>1. /\ bound = [q \in Bots |-> bound[q]]
          /\ typed = [q \in Bots |-> typed[q]]
      BY DEF VaultRight
    <3> QED
      BY <2>1, <3>1
  <2>4. VaultRight'
    BY <2>1, <2>2, <2>3 DEF VaultRight, BoundHasTyped
  <2>5. "sheriff" \in Bots
    BY DEF Bots
  <2>6. ASSUME ChannelGood PROVE ChannelGood'
    BY <2>1, <2>3, <2>5, <2>6 DEF ChannelGood
  <2> QED
    BY <2>4, <2>6 DEF ChannelRight
<1> QED
  BY <1>1, <1>2

(* What leaves the vault's bindings and the onboarding alone *)
LEMMA ChatOnly ==
  ASSUME ActivationInv, UNCHANGED <<bound, typed, channel, policy, onboard, cut>>,
         lock' \in {"none", "locked", "open"},
         \A c \in pending' : c \in pending \/ c.user \in Users
  PROVE  VaultRight' /\ OnboardRight' /\ ChannelRight'
<1>1. VaultRight'
  BY VaultKept DEF ActivationInv
<1>2. OnboardRight'
  BY DEF ActivationInv, OnboardRight
<1>3. ChannelRight'
  BY DEF ActivationInv, ChannelRight, ChannelGood
<1> QED
  BY <1>1, <1>2, <1>3

LEMMA HandleKeeps ==
  ASSUME ActivationInv, NEW k \in Chats, Handle(k)
  PROVE  ActivationInv'
<1> USE DEF chatOnly, vaultVars, files, counters
<1>0. /\ VaultRight /\ ChatsRight /\ ChatRight(chat[k])
      /\ lock \in {"none", "locked", "open"}
  BY DEF ActivationInv, ChatsRight, VaultRight
<1>1. chat[k].step # "none"
  BY DEF Handle, AskLock, AskStatus, Claim, Create, Turn, Unlock, Fail, At, UnderWay
<1>2. chat[k].user \in Users /\ chat[k].role \in Bots
  BY <1>0, <1>1 DEF ChatRight
<1>3. ChatsRight'
  <2>1. \E s : Goto(k, s) \/ Past(k, s) \/ Ends(k)
    BY DEF Handle, AskLock, AskStatus, Accept, Unbound, Claim, Create, Turn, Unlock, Fail
  <2> QED
    BY <1>0, <1>1, <2>1, ChatGoes
<1>4. CASE Claim(k)
  <2>1. OnboardRight'
    BY <1>4 DEF Claim, ActivationInv, OnboardRight
  <2>2. CASE UNCHANGED <<pending, bound, typed>>
    BY <1>0, <1>3, <1>4, <2>2, ChatOnly DEF Claim, ActivationInv
  <2>3. CASE Claims(chat[k].role, Lower(chat[k].code))
    <3>1. VaultRight' /\ ChannelRight'
      BY <1>0, <1>2, <1>4, <2>3, ClaimKeeps DEF Claim, ActivationInv
    <3> QED
      BY <1>3, <2>1, <3>1 DEF ActivationInv
  <2> QED
    BY <1>4, <2>2, <2>3 DEF Claim
<1>5. ASSUME NEW kind \in {"letters", "digits"}, Create(k, kind)
      PROVE  ActivationInv'
  <2>1. /\ UNCHANGED <<lock, bound, channel, policy, onboard, typed, cut>>
        /\ \A c \in pending' : c \in pending \/ c.user = chat[k].user
    BY <1>5 DEF Create, Code, Draws
  <2> QED
    BY <1>0, <1>2, <1>3, <2>1, ChatOnly DEF ActivationInv
<1>6. CASE AskLock(k) \/ AskStatus(k) \/ Turn(k) \/ Unlock(k) \/ Fail(k)
  <2>1. /\ UNCHANGED <<bound, pending, channel, policy, onboard, typed, cut>>
        /\ lock' \in {"none", "locked", "open"}
    BY <1>0, <1>6 DEF AskLock, AskStatus, Turn, Unlock, Opens, Fail
  <2> QED
    BY <1>3, <2>1, ChatOnly DEF ActivationInv
<1> QED
  BY <1>4, <1>5, <1>6 DEF Handle

LEMMA MessageKeeps ==
  ASSUME ActivationInv, NEW k \in Chats, NEW via, NEW r \in Bots, NEW u \in Users,
         NEW says, NEW c, Message(k, via, r, u, says, c)
  PROVE  ActivationInv'
<1>1. PICK x : chat' = [chat EXCEPT ![k] = x] /\ ChatRight(x)
  <2>1. PICK x : x = [step |-> FirstStep(via, r, says), via |-> via, role |-> r,
                      user |-> u, says |-> says, code |-> c]
    OBVIOUS
  <2>2. chat' = [chat EXCEPT ![k] = x]
    BY <2>1 DEF Message
  <2>3. /\ x.step = FirstStep(via, r, says) /\ x.via = via /\ x.role = r
        /\ x.user = u /\ x.says = says /\ x.code = c
    BY <2>1
  <2>4. ChatRight(x)
    BY <2>1, <2>3 DEF ChatRight
  <2> QED
    BY <2>2, <2>4
<1>2. UNCHANGED <<lock, bound, pending, onboard, channel, policy, typed, cut>>
  BY DEF Message, vaultVars, files, history
<1>3. ASSUME NEW j \in Chats PROVE ChatRight(chat'[j])
  BY <1>1 DEF ActivationInv, ChatsRight, ChatRight
<1>4. ChatsRight'
  BY <1>1, <1>3 DEF ActivationInv, ChatsRight, ChatRight
<1>5. lock' \in {"none", "locked", "open"}
  BY <1>2 DEF ActivationInv, VaultRight
<1> QED
  BY <1>2, <1>4, <1>5, ChatOnly DEF ActivationInv
-----------------------------------------------------------------------------
(* The onboarding is at step next, with a bot to activate if that is for one. *)
OnboardAt(step) ==
  /\ \E bots, role, codes :
       onboard' = [step |-> step, bots |-> bots, role |-> role, codes |-> codes]
  /\ step \in {"look", "poll", "type"} => onboard'.role \in Bots

(* A step of the onboarding that leaves the vault's bindings alone, and    *)
(* does not come to its end by it                                          *)
LEMMA OnboardingGoes ==
  ASSUME ActivationInv, NEW step, OnboardAt(step),
         step \in ({"none", "load", "initialize"} \cup SettingUp) \ {"start"},
         step \in SettingUp => cut = "yes",
         UNCHANGED <<cut, bound, typed, chat>>,
         step = "channel" \/ UNCHANGED policy, UNCHANGED channel,
         lock' \in {"none", "locked", "open"},
         \A c \in pending' : c \in pending \/ c.user \in Users
  PROVE  ActivationInv'
<1>1. VaultRight'
  BY VaultKept DEF ActivationInv, VaultRight
<1>2. ChatsRight'
  BY ChatsKept DEF ActivationInv
<1>3. OnboardRight' /\ onboard'.step = step
  BY DEF OnboardAt, OnboardRight
<1>4. onboard'.step # "start"
  BY <1>3
<1>5. ChannelRight'
  <2>1. CASE UNCHANGED policy
    BY <1>4, <2>1, ChannelKept DEF ActivationInv
  <2>2. CASE step = "channel"
    BY <1>3, <1>4, <2>2 DEF ChannelRight, SettingUp
  <2> QED
    BY <2>1, <2>2
<1> QED
  BY <1>1, <1>2, <1>3, <1>5 DEF ActivationInv

LEMMA AfterBotWhich ==
  ASSUME OnboardRight, AfterBot
  PROVE  OnboardAt("policy") \/ OnboardAt("look")
BY DEF AfterBot, Activates, OnboardAt, OnboardRight, Bots

LEMMA OntoWhich ==
  ASSUME OnboardRight, NEW step, Onto(step)
  PROVE  /\ onboard' = [step |-> step, bots |-> onboard.bots,
                        role |-> onboard.role, codes |-> onboard.codes]
         /\ \/ step \notin {"look", "poll", "type"}
            \/ onboard.step \in {"look", "poll", "type"}
            => OnboardAt(step)
BY DEF Onto, OnboardAt, OnboardRight

LEMMA OnboardKeeps ==
  ASSUME ActivationInv, NEW bots, NEW first \in {"load", "initialize"}, Onboard(bots, first)
  PROVE  ActivationInv'
<1>1. /\ onboard' = [step |-> first, bots |-> bots, role |-> "none", codes |-> {}]
      /\ UNCHANGED <<lock, bound, pending, chat, channel, policy, typed, cut>>
  BY DEF Onboard, NotOnboarding, vaultVars, files, history
<1>2. OnboardAt(first)
  BY <1>1 DEF OnboardAt
<1>3. lock' \in {"none", "locked", "open"}
  BY <1>1 DEF ActivationInv, VaultRight
<1> QED
  BY <1>1, <1>2, <1>3, OnboardingGoes DEF SettingUp

LEMMA InitializeKeeps ==
  ASSUME ActivationInv, Initialize
  PROVE  ActivationInv'
<1>1. /\ onboard' = [step |-> "unlock", bots |-> onboard.bots,
                     role |-> onboard.role, codes |-> onboard.codes]
      /\ lock' = "locked" /\ pending' = {} /\ cut' = "yes"
      /\ bound' = [r \in Bots |-> Nobody] /\ typed' = [r \in Bots |-> {}]
      /\ UNCHANGED <<channel, policy, chat>>
  BY OntoWhich DEF Initialize, files, ActivationInv
<1>2. VaultRight'
  BY <1>1 DEF VaultRight, BoundHasTyped
<1>3. ChatsRight'
  BY <1>1, ChatsKept DEF ActivationInv
<1>4. OnboardRight' /\ ChannelRight'
  BY <1>1 DEF OnboardRight, ChannelRight, SettingUp
<1> QED
  BY <1>2, <1>3, <1>4 DEF ActivationInv

LEMMA WriteChannelKeeps ==
  ASSUME ActivationInv, WriteChannel
  PROVE  ActivationInv'
<1>1. /\ onboard' = [step |-> "start", bots |-> onboard.bots,
                     role |-> onboard.role, codes |-> onboard.codes]
      /\ onboard.step = "channel"
      /\ channel' \in {Nobody} \cup (IF Reachable THEN {bound["sheriff"]} ELSE {})
      /\ UNCHANGED <<lock, bound, pending, chat, policy, typed, cut>>
  BY OntoWhich DEF WriteChannel, In, vaultVars, history, ActivationInv
<1>2. VaultRight' /\ ChatsRight'
  BY <1>1, VaultKept, ChatsKept DEF ActivationInv, VaultRight
<1>3. OnboardRight'
  BY <1>1 DEF ActivationInv, OnboardRight, SettingUp
<1>4. ChannelGood'
  BY <1>1 DEF ActivationInv, VaultRight, BoundHasTyped, Bots, ChannelGood, Reachable
<1> QED
  BY <1>2, <1>3, <1>4 DEF ActivationInv, ChannelRight

LEMMA StartAllKeeps ==
  ASSUME ActivationInv, StartAll
  PROVE  ActivationInv'
<1>1. /\ onboard' = NotOnboarding /\ onboard.step = "start" /\ cut' = "no"
      /\ lock' = lock \/ lock' = IF lock = "none" THEN "none" ELSE "open"
      /\ UNCHANGED <<bound, pending, chat, channel, policy, typed>>
  BY DEF StartAll, In, Opens, files
<1>2. VaultRight'
  BY <1>1, VaultKept DEF ActivationInv, VaultRight
<1>3. ChatsRight'
  BY <1>1, ChatsKept DEF ActivationInv
<1>4. OnboardRight'
  BY <1>1 DEF OnboardRight, NotOnboarding, SettingUp
<1>5. ChannelRight'
  BY <1>1 DEF ActivationInv, ChannelRight, ChannelGood
<1> QED
  BY <1>2, <1>3, <1>4, <1>5 DEF ActivationInv

LEMMA TypeKeeps ==
  ASSUME ActivationInv, Type
  PROVE  ActivationInv'
<1> DEFINE r == onboard.role
<1>1. /\ onboard.step = "type" /\ cut = "yes" /\ r \in Bots
      /\ UNCHANGED <<lock, chat, channel, policy, cut>>
      /\ lock \in {"none", "locked", "open"}
      /\ AfterBot \/ Onto("look")
  BY DEF Type, In, onboardOnly, files, counters, ActivationInv, OnboardRight, VaultRight,
         SettingUp
<1>2. PICK step \in {"policy", "look"} : OnboardAt(step)
  BY <1>1, AfterBotWhich, OntoWhich DEF ActivationInv
<1>3. CASE UNCHANGED <<bound, pending, typed>>
  BY <1>1, <1>2, <1>3, OnboardingGoes DEF SettingUp
<1>4. ASSUME NEW c \in pending, Claims(r, c)
      PROVE  ActivationInv'
  <2>0. onboard'.step # "start"
    BY <1>2 DEF OnboardAt
  <2>1. VaultRight' /\ ChannelRight'
    BY <1>1, <1>4, <2>0, ClaimKeeps DEF ActivationInv
  <2>2. ChatsRight'
    BY <1>1, ChatsKept DEF ActivationInv
  <2>3. OnboardRight'
    BY <1>1, <1>2 DEF OnboardAt, OnboardRight, SettingUp
  <2> QED
    BY <2>1, <2>2, <2>3 DEF ActivationInv
<1> QED
  BY <1>3, <1>4 DEF Type

LEMMA OnboardingKeeps ==
  ASSUME ActivationInv, Onboarding
  PROVE  ActivationInv'
<1> USE DEF vaultVars, files, history, counters, onboardOnly
<1>0. /\ OnboardRight /\ lock \in {"none", "locked", "open"}
      /\ onboard.step \in SettingUp => cut = "yes"
  BY DEF ActivationInv, OnboardRight, VaultRight
<1>1. CASE LoadExisting
  BY <1>0, <1>1, OntoWhich, OnboardingGoes DEF LoadExisting, Opens, SettingUp
<1>2. CASE UnlockAfter
  <2>1. OnboardAt("policy") \/ OnboardAt("look")
    BY <1>0, <1>2, OntoWhich DEF UnlockAfter, Activates, Bots, OnboardAt, OnboardRight
  <2> QED
    BY <1>0, <1>2, <2>1, OnboardingGoes DEF UnlockAfter, Opens, In, SettingUp
<1>3. CASE Look
  <2>1. onboard.step = "look" /\ (AfterBot \/ Onto("poll"))
    BY <1>3 DEF Look, In
  <2>2. OnboardAt("policy") \/ OnboardAt("look") \/ OnboardAt("poll")
    BY <1>0, <2>1, OntoWhich, AfterBotWhich
  <2> QED
    BY <1>0, <1>3, <2>1, <2>2, OnboardingGoes DEF Look, SettingUp
<1>4. CASE PollEnds
  <2>1. onboard.step = "poll"
    BY <1>4 DEF PollEnds, In
  <2>2. OnboardAt("look") \/ OnboardAt("type")
    BY <1>0, <1>4, <2>1, OntoWhich DEF PollEnds
  <2> QED
    BY <1>0, <1>4, <2>1, <2>2, OnboardingGoes DEF PollEnds, SettingUp
<1>5. ASSUME NEW u \in Users, NEW kind \in {"letters", "digits"}, Contact(u, kind)
      PROVE  ActivationInv'
  <2>1. onboard.step = "poll" /\ onboard.role \in Bots
    BY <1>0, <1>5 DEF Contact, In, OnboardRight
  <2>2. OnboardAt("poll")
    BY <1>0, <1>5, <2>1 DEF Contact, OnboardAt, OnboardRight
  <2>3. \A c \in pending' : c \in pending \/ c.user \in Users
    BY <1>5 DEF Contact, Draws, Code
  <2> QED
    BY <1>0, <1>5, <2>1, <2>2, <2>3, OnboardingGoes DEF Contact, SettingUp
<1>6. ASSUME NEW answer \in {"allow", "deny"}, WritePolicy(answer)
      PROVE  ActivationInv'
  BY <1>0, <1>6, OntoWhich, OnboardingGoes DEF WritePolicy, In, SettingUp
<1>7. CASE OnboardCut
  <2>1. OnboardAt("none")
    BY <1>7 DEF OnboardCut, NotOnboarding, OnboardAt
  <2> QED
    BY <1>0, <1>7, <2>1, OnboardingGoes DEF OnboardCut, SettingUp
<1> QED
  BY <1>1, <1>2, <1>3, <1>4, <1>5, <1>6, <1>7, InitializeKeeps, WriteChannelKeeps,
     StartAllKeeps, TypeKeeps
  DEF Onboarding
-----------------------------------------------------------------------------
LEMMA LockKeeps ==
  ASSUME ActivationInv, Lock PROVE ActivationInv'
<1>1. /\ lock' = "locked"
      /\ UNCHANGED <<bound, pending, chat, onboard, channel, policy, typed, cut>>
  BY DEF Lock, files, history
<1>2. ChatsRight'
  BY <1>1, ChatsKept DEF ActivationInv
<1> QED
  BY <1>1, <1>2, ChatOnly DEF ActivationInv

LEMMA FactoryResetKeeps ==
  ASSUME ActivationInv, FactoryReset PROVE ActivationInv'
<1>1. /\ lock' = "none" /\ pending' = {} /\ chat' = [k \in Chats |-> NoChat]
      /\ bound' = [r \in Bots |-> Nobody] /\ typed' = [r \in Bots |-> {}]
      /\ channel' = Nobody /\ cut' = "no" /\ onboard.step = "none"
      /\ UNCHANGED onboard
  BY DEF FactoryReset
<1>2. VaultRight'
  BY <1>1 DEF VaultRight, BoundHasTyped
<1>3. ChatsRight'
  BY <1>1 DEF NoChat, ChatsRight, ChatRight
<1>4. OnboardRight' /\ ChannelRight'
  BY <1>1 DEF ActivationInv, OnboardRight, ChannelRight, ChannelGood, SettingUp
<1> QED
  BY <1>2, <1>3, <1>4 DEF ActivationInv

LEMMA ActivationStarts ==
  ASSUME ActivationInit PROVE ActivationInv
<1>1. PICK u \in Users \cup {Nobody} :
        /\ bound = [r \in Bots |-> IF r = "sheriff" THEN u ELSE Nobody]
        /\ typed = [r \in Bots |-> IF r = "sheriff" THEN {u} \ {Nobody} ELSE {}]
        /\ channel = u /\ policy = IF u = Nobody THEN "none" ELSE "allow"
        /\ lock \in {"none", "open"}
  BY DEF ActivationInit
<1>3. VaultRight
  BY <1>1 DEF VaultRight, ActivationInit, BoundHasTyped
<1>4. ChatsRight
  BY DEF ActivationInit, NoChat, ChatsRight, ChatRight
<1>5. OnboardRight
  BY DEF ActivationInit, NotOnboarding, OnboardRight, SettingUp
<1>6. ChannelRight
  BY <1>1 DEF ChannelRight, ChannelGood, Bots
<1> QED
  BY <1>3, <1>4, <1>5, <1>6 DEF ActivationInv

LEMMA ActivationSteps ==
  ASSUME ActivationInv, [ActivationNext]_activationVars
  PROVE  ActivationInv'
<1>1. CASE UNCHANGED activationVars
  BY <1>1, ChatOnly, ChatsKept
  DEF activationVars, vaultVars, files, history, ActivationInv, VaultRight
<1> QED
  BY <1>1, HandleKeeps, MessageKeeps, OnboardKeeps, OnboardingKeeps, LockKeeps,
     FactoryResetKeeps
  DEF ActivationNext

LEMMA ActivationInvariant ==
  ActivationSpec => []ActivationInv
<1>1. ActivationInit => ActivationInv
  BY ActivationStarts
<1>2. ActivationInv /\ [ActivationNext]_activationVars => ActivationInv'
  BY ActivationSteps
<1> QED
  BY <1>1, <1>2, PTL DEF ActivationSpec

(* A role belongs to a user whose own code was typed for it since the      *)
(* vault was set up: activate_with_code, whatever the gates and the        *)
(* onboarding do in between.                                               *)
THEOREM TheBoundHaveTyped ==
  ActivationSpec => []BoundHasTyped
<1>1. ActivationInv => BoundHasTyped
  BY DEF ActivationInv, VaultRight
<1> QED
  BY <1>1, ActivationInvariant, PTL

(* The unlock channel names a user the sheriff bot was bound to, who is    *)
(* allowed to use it, except after an onboarding that was cut short.       *)
THEOREM TheChannelIsBound ==
  ActivationSpec => []ChannelIsBound
<1>1. ActivationInv => ChannelIsBound
  BY DEF ActivationInv, ChannelRight, ChannelGood, ChannelIsBound
<1> QED
  BY <1>1, ActivationInvariant, PTL
=============================================================================

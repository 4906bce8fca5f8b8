--------------------------- MODULE CodexHostProofs ---------------------------
(***************************************************************************)
(* Theorems about CodexHost for every set of connections and sessions and  *)
(* every number of requests, faults and empty answers.                     *)
(***************************************************************************)
EXTENDS CodexHost, FiniteSetTheorems, SequenceTheorems, TLAPS

HandlerType ==
  [phase : Phase, op : Op, session : Sessions, thread : Nat \cup {NoThread},
   gen : Nat, sent : SUBSET Nat, retried : {"no", "yes"}]

ThreadType == [session : Sessions, gen : Nat, hydrated : {"no", "yes"},
               epoch : Nat, users : SUBSET Sessions]

Types ==
  /\ bound \in [Sessions -> Nat \cup {NoThread}]
  /\ client \in {"none", "set"}
  /\ servers \in Seq(Alive \cup {"gone"})
  /\ handler \in [Handlers -> HandlerType]
  /\ threads \in Seq(ThreadType)
  /\ epoch \in Nat

(* The runtime's lock is held by who starts or stops it. *)
LockInv ==
  /\ client = "set" => servers # <<>>
  /\ \A h \in Handlers :
       /\ handler[h].phase \in {"starting", "stopping"} => lock = h
       /\ handler[h].phase = "starting" => client = "set"

(* All processes but the newest have ended; all of them, without a client. *)
ServersInv ==
  \A g \in DOMAIN servers : g # Newest \/ client = "none" => servers[g] = "gone"

(* A handler that looks for a server has not been at the one it will find. *)
SentRight(x) ==
  /\ x.sent \subseteq 1..Newest
  /\ x.phase = "ensure" /\ client = "set" => Newest \notin x.sent
  /\ x.phase = "starting" => Newest \notin x.sent
  /\ x.phase = "request" => x.gen \in 1..Newest /\ x.gen \notin x.sent
  /\ x.phase = "flying" => x.gen \in 1..Newest

SentInv == \A h \in Handlers : SentRight(handler[h])

HostInv == Types /\ LockInv /\ ServersInv /\ SentInv /\ BoundThreadsAreCurrent
-----------------------------------------------------------------------------
LEMMA IdleRight ==
  ASSUME NEW s \in Sessions
  PROVE  /\ Idle(s) \in HandlerType /\ Idle(s).phase = "idle"
         /\ Idle(s).sent = {}
BY DEF Idle, HandlerType, Phase, Op

(* One handler changes, and neither the runtime nor a thread. *)
LEMMA OneHandler ==
  ASSUME HostInv, NEW h \in Handlers, NEW x \in HandlerType,
         handler' = [handler EXCEPT ![h] = x], SentRight(x),
         x.phase \notin {"starting", "stopping"},
         handler[h].phase \notin {"starting", "stopping"},
         UNCHANGED <<bound, client, servers, lock, threads, epoch>>
  PROVE  HostInv'
<1>1. Types'
  BY DEF HostInv, Types
<1>2. \A k \in Handlers : handler'[k] = IF k = h THEN x ELSE handler[k]
  BY DEF HostInv, Types
<1>3. LockInv'
  BY <1>2 DEF HostInv, LockInv
<1>4. SentInv'
  BY <1>2 DEF HostInv, SentInv, SentRight, Newest
<1>5. ServersInv' /\ BoundThreadsAreCurrent'
  BY DEF HostInv, ServersInv, BoundThreadsAreCurrent, Newest
<1> QED
  BY <1>1, <1>3, <1>4, <1>5 DEF HostInv

LEMMA TypesOf ==
  ASSUME HostInv, NEW h \in Handlers
  PROVE  /\ handler[h] \in HandlerType /\ SentRight(handler[h])
         /\ Newest \in Nat /\ DOMAIN servers = 1..Newest
         /\ handler \in [Handlers -> HandlerType]
BY DEF HostInv, Types, SentInv, Newest

(* A handler that becomes idle, or begins a request *)
LEMMA IdleKeeps ==
  ASSUME HostInv, NEW h \in Handlers,
         handler[h].phase \notin {"starting", "stopping"},
         handler' = Finished(h),
         UNCHANGED <<bound, client, servers, lock, threads, epoch>>
  PROVE  HostInv'
<1>1. handler[h].session \in Sessions
  BY TypesOf DEF HandlerType
<1>2. handler' = [handler EXCEPT ![h] = Idle(handler[h].session)]
  BY TypesOf DEF Finished
<1> QED
  BY <1>1, <1>2, IdleRight, OneHandler DEF SentRight

LEMMA RequestKeeps ==
  ASSUME HostInv, NEW h \in Handlers, NEW op \in Op, NEW s \in Sessions,
         Request(h, op, s)
  PROVE  HostInv'
<1> DEFINE x == [phase |-> "ensure", op |-> op, session |-> s,
                 thread |-> IF op = "hydrate" THEN NoThread ELSE bound[s],
                 gen |-> 0, sent |-> {}, retried |-> "no"]
<1>1. x \in HandlerType
  BY DEF HandlerType, Phase, HostInv, Types
<1>2. SentRight(x) /\ x.phase = "ensure"
  BY DEF SentRight
<1>3. handler' = [handler EXCEPT ![h] = x]
  BY DEF Request
<1> HIDE DEF x
<1> QED
  BY <1>1, <1>2, <1>3, OneHandler DEF Request

(* ensure_started has found a client, or started one. *)
LEMMA ProceedRight ==
  ASSUME Types, NEW h \in Handlers, NEW n \in Nat, Len(servers') = n, Proceed(h),
         handler[h].sent \subseteq 1..n, n \notin handler[h].sent,
         n # 0, SentRight(handler[h])
  PROVE  \E x \in HandlerType :
           /\ handler' = [handler EXCEPT ![h] = x]
           /\ x.phase \in {"idle", "request"}
           /\ x.sent \subseteq handler[h].sent
           /\ x.phase = "request" => x.gen = n
<1>1. handler[h] \in HandlerType
  BY DEF Types
<1>2. CASE NeedsConversation(handler[h])
  <2> DEFINE x == [handler[h] EXCEPT !.phase = "request", !.gen = n]
  <2>1. x \in HandlerType /\ x.phase = "request" /\ x.gen = n /\ x.sent = handler[h].sent
    BY <1>1 DEF HandlerType, Phase
  <2>2. handler' = [handler EXCEPT ![h].phase = "request", ![h].gen = n]
    BY <1>2 DEF Proceed
  <2>3. handler' = [handler EXCEPT ![h] = x]
    BY <2>2, <1>1 DEF Types, HandlerType
  <2> HIDE DEF x
  <2> QED
    BY <2>1, <2>3
<1>3. CASE ~NeedsConversation(handler[h])
  <2>1. handler' = [handler EXCEPT ![h] = Idle(handler[h].session)]
    BY <1>3 DEF Proceed, Finished, Types
  <2>2. handler[h].session \in Sessions
    BY <1>1 DEF HandlerType
  <2> QED
    BY <2>1, <2>2, IdleRight
<1> QED
  BY <1>2, <1>3

LEMMA FindClientKeeps ==
  ASSUME HostInv, NEW h \in Handlers, FindClient(h) PROVE HostInv'
<1>1. /\ Newest \in Nat /\ Newest # 0 /\ Len(servers') = Newest
      /\ handler[h].sent \subseteq 1..Newest /\ Newest \notin handler[h].sent
  BY TypesOf DEF FindClient, HostInv, Types, LockInv, SentRight, Newest
<1>2. PICK x \in HandlerType :
           /\ handler' = [handler EXCEPT ![h] = x]
           /\ x.phase \in {"idle", "request"}
           /\ x.sent \subseteq handler[h].sent
           /\ x.phase = "request" => x.gen = Newest
  BY <1>1, ProceedRight, TypesOf DEF FindClient, HostInv
<1>3. SentRight(x)
  BY <1>1, <1>2 DEF SentRight
<1> QED
  BY <1>2, <1>3, OneHandler DEF FindClient

(* A client is assigned and its process begins, by the holder of the lock. *)
LEMMA StartClientKeeps ==
  ASSUME HostInv, NEW h \in Handlers, StartClient(h) PROVE HostInv'
<1> DEFINE x == [handler[h] EXCEPT !.phase = "starting"]
<1>1. /\ x \in HandlerType /\ x.phase = "starting" /\ x.sent = handler[h].sent
  BY TypesOf DEF Phase, HandlerType
<1>2. handler' = [handler EXCEPT ![h] = x]
  BY TypesOf DEF StartClient, Goto
<1> HIDE DEF x
<1>3. \A k \in Handlers : handler'[k] = IF k = h THEN x ELSE handler[k]
  BY <1>2, TypesOf
<1>4. /\ servers' \in Seq(Alive \cup {"gone"}) /\ Len(servers') = Newest + 1
      /\ Newest \in Nat
      /\ \A g \in 1..Newest : servers'[g] = servers[g]
  <2>1. servers \in Seq(Alive \cup {"gone"}) /\ "starting" \in Alive \cup {"gone"}
        /\ servers' = Append(servers, "starting")
    BY DEF StartClient, HostInv, Types, Alive
  <2> QED
    BY <2>1 DEF Newest
<1>5. Types'
  BY <1>1, <1>2, <1>4 DEF StartClient, HostInv, Types
<1>6. LockInv'
  BY <1>1, <1>3, <1>4, CodexHostAssumption DEF StartClient, HostInv, LockInv
<1>7. ServersInv'
  BY <1>4 DEF StartClient, HostInv, Types, ServersInv, Newest
<1>8. SentInv'
  <2>1. ASSUME NEW k \in Handlers PROVE SentRight(handler[k])'
    <3>1. SentRight(handler[k]) /\ handler'[k].sent = handler[k].sent
      BY <1>1, <1>3, TypesOf
    <3>2. Newest' = Newest + 1
      BY <1>4 DEF Newest
    <3>3. Newest' \notin handler'[k].sent /\ handler'[k].sent \subseteq 1..Newest'
      BY <1>4, <3>1, <3>2 DEF SentRight
    <3> QED
      BY <1>1, <1>3, <1>4, <3>1, <3>2, <3>3 DEF SentRight
  <2> QED
    BY <2>1 DEF SentInv
<1>9. BoundThreadsAreCurrent'
  BY DEF StartClient, HostInv, BoundThreadsAreCurrent
<1> QED
  BY <1>5, <1>6, <1>7, <1>8, <1>9 DEF HostInv

(* The holder of the lock lets go of it, the newest process has become or  *)
(* is left something else.                                                 *)
LEMMA ReleaseKeeps ==
  ASSUME HostInv, NEW h \in Handlers, handler[h].phase = "starting",
         NEW x \in HandlerType, handler' = [handler EXCEPT ![h] = x],
         NEW left \in Alive \cup {"gone"},
         servers' = [servers EXCEPT ![Newest] = left],
         SentRight(x), x.phase \in {"idle", "request"},
         UNCHANGED <<bound, client, threads, epoch>>
  PROVE  HostInv'
<1>1. \A k \in Handlers : handler'[k] = IF k = h THEN x ELSE handler[k]
  BY TypesOf
<1>2. servers' \in Seq(Alive \cup {"gone"}) /\ Len(servers') = Newest
      /\ \A g \in 1..Newest : g # Newest => servers'[g] = servers[g]
  <2>1. servers \in Seq(Alive \cup {"gone"}) /\ servers # <<>>
    BY DEF HostInv, Types, LockInv
  <2>2. Newest \in 1..Len(servers)
    BY <2>1, EmptySeq DEF Newest
  <2> QED
    BY <2>1, <2>2, ExceptSeq DEF Newest
<1>3. \A k \in Handlers : k # h => handler[k].phase \notin {"starting", "stopping"}
  BY DEF HostInv, LockInv
<1>4. client = "set" /\ servers # <<>>
  BY DEF HostInv, LockInv
<1>5. Types'
  BY <1>2 DEF HostInv, Types
<1>6. LockInv'
  <2>1. Len(servers') \in Nat \ {0}
    BY <1>2, <1>4, EmptySeq DEF Newest, HostInv, Types
  <2>2. servers' # <<>>
    BY <2>1, EmptySeq
  <2> QED
    BY <1>1, <1>3, <1>4, <2>2 DEF LockInv
<1>7. ServersInv'
  BY <1>2, <1>4, TypesOf DEF HostInv, ServersInv, Newest
<1>8. SentInv'
  BY <1>1, <1>2 DEF HostInv, SentInv, SentRight, Newest
<1>9. BoundThreadsAreCurrent'
  BY DEF HostInv, BoundThreadsAreCurrent
<1> QED
  BY <1>5, <1>6, <1>7, <1>8, <1>9 DEF HostInv

LEMMA StartedKeeps ==
  ASSUME HostInv, NEW h \in Handlers, Started(h) PROVE HostInv'
<1>1. /\ Newest \in Nat /\ Newest # 0 /\ Len(servers') = Newest
      /\ handler[h].sent \subseteq 1..Newest /\ Newest \notin handler[h].sent
  BY TypesOf DEF Started, HostInv, Types, LockInv, SentRight, Newest
<1>2. PICK x \in HandlerType :
           /\ handler' = [handler EXCEPT ![h] = x]
           /\ x.phase \in {"idle", "request"}
           /\ x.sent \subseteq handler[h].sent
           /\ x.phase = "request" => x.gen = Newest
  BY <1>1, ProceedRight, TypesOf DEF Started, HostInv
<1>3. SentRight(x)
  BY <1>1, <1>2 DEF SentRight
<1> QED
  BY <1>2, <1>3, ReleaseKeeps DEF Started, Alive

LEMMA StartFailsKeeps ==
  ASSUME HostInv, NEW h \in Handlers, NEW left \in {"gone", "up"},
         StartFails(h, left)
  PROVE  HostInv'
<1>1. handler[h].session \in Sessions
  BY TypesOf DEF HandlerType
<1>2. handler' = [handler EXCEPT ![h] = Idle(handler[h].session)]
  BY TypesOf DEF StartFails, Finished
<1>3. SentRight(Idle(handler[h].session))
  BY <1>1, IdleRight DEF SentRight
<1> QED
  BY <1>1, <1>2, <1>3, IdleRight, ReleaseKeeps DEF StartFails, Alive

LEMMA SendKeeps ==
  ASSUME HostInv, NEW h \in Handlers, Send(h) PROVE HostInv'
<1> DEFINE g == handler[h].gen
<1> DEFINE x == [handler[h] EXCEPT !.phase = "flying", !.sent = @ \cup {g}]
<1>1. g \in 1..Newest /\ handler[h].sent \subseteq 1..Newest
  BY TypesOf DEF Send, SentRight
<1>2. /\ x \in HandlerType /\ x.phase = "flying" /\ x.gen = g
      /\ x.sent = handler[h].sent \cup {g}
  BY TypesOf DEF HandlerType, Phase
<1>3. handler' = [handler EXCEPT ![h] = x]
  BY TypesOf DEF Send, HandlerType
<1> HIDE DEF x
<1>4. SentRight(x)
  BY <1>1, <1>2 DEF SentRight
<1> QED
  BY <1>2, <1>3, <1>4, OneHandler DEF Send

(* An answer is in: the handler goes on, a thread is opened and bound,     *)
(* continued, or neither.                                                  *)
LEMMA AnswerKeeps ==
  ASSUME HostInv, NEW h \in Handlers, CanAnswer(h),
         Opened(h) \/ Continued(h) \/ UNCHANGED <<threads, bound>>,
         handler' = Finished(h) \/ handler' = Goto(h, "stop"),
         UNCHANGED <<client, servers, lock, epoch>>
  PROVE  HostInv'
<1>1. /\ handler[h] \in HandlerType /\ handler[h].phase = "flying"
      /\ SentRight(handler[h])
  BY TypesOf DEF CanAnswer
<1>2. PICK x \in HandlerType : /\ handler' = [handler EXCEPT ![h] = x]
                               /\ x.phase \in {"idle", "stop"}
                               /\ x.sent \subseteq handler[h].sent
  <2>1. CASE handler' = Finished(h)
    <3>1. handler[h].session \in Sessions
      BY <1>1 DEF HandlerType
    <3>2. handler' = [handler EXCEPT ![h] = Idle(handler[h].session)]
      BY <2>1, TypesOf DEF Finished
    <3> QED
      BY <3>1, <3>2, IdleRight
  <2>2. CASE handler' = Goto(h, "stop")
    <3> DEFINE x == [handler[h] EXCEPT !.phase = "stop"]
    <3>1. x \in HandlerType /\ x.phase = "stop" /\ x.sent = handler[h].sent
      BY <1>1 DEF HandlerType, Phase
    <3>2. handler' = [handler EXCEPT ![h] = x]
      BY <2>2, TypesOf DEF Goto
    <3> HIDE DEF x
    <3> QED
      BY <3>1, <3>2
  <2> QED
    BY <2>1, <2>2
<1>3. \A k \in Handlers : handler'[k] = IF k = h THEN x ELSE handler[k]
  BY <1>2, TypesOf
<1>4. /\ threads' \in Seq(ThreadType)
      /\ bound' \in [Sessions -> Nat \cup {NoThread}]
      /\ BoundThreadsAreCurrent'
  <2>1. /\ threads \in Seq(ThreadType) /\ epoch \in Nat
        /\ bound \in [Sessions -> Nat \cup {NoThread}]
        /\ BoundThreadsAreCurrent
    BY DEF HostInv, Types
  <2>2. CASE Opened(h)
    <3> DEFINE t == NewThread(handler[h])
    <3>1. t \in ThreadType /\ t.session = handler[h].session /\ t.epoch = epoch
      BY <1>1, <2>1 DEF NewThread, ThreadType, HandlerType
    <3>2. threads' = Append(threads, t)
      BY <2>2 DEF Opened
    <3> HIDE DEF t
    <3>3. /\ threads' \in Seq(ThreadType) /\ Len(threads') = Len(threads) + 1
          /\ \A i \in 1..Len(threads) : threads'[i] = threads[i]
          /\ threads'[Len(threads')] = t
          /\ Len(threads) \in Nat
          /\ DOMAIN threads = 1..Len(threads) /\ DOMAIN threads' = 1..Len(threads')
      BY <2>1, <3>1, <3>2
    <3>4. bound' = [bound EXCEPT ![handler[h].session] = Len(threads')]
      BY <2>2 DEF Opened, Bind
    <3>5. ASSUME NEW s \in Sessions, bound'[s] # NoThread
          PROVE  /\ bound'[s] \in DOMAIN threads'
                 /\ threads'[bound'[s]].session = s
                 /\ threads'[bound'[s]].epoch = epoch
      <4>1. CASE s = handler[h].session
        BY <2>1, <3>1, <3>3, <3>4, <4>1
      <4>2. CASE s # handler[h].session
        <5>1. bound'[s] = bound[s]
          BY <2>1, <3>4, <4>2
        <5> QED
          BY <2>1, <3>3, <3>5, <5>1 DEF BoundThreadsAreCurrent
      <4> QED
        BY <4>1, <4>2
    <3>6. BoundThreadsAreCurrent'
      BY <3>5 DEF BoundThreadsAreCurrent
    <3>7. bound' \in [Sessions -> Nat \cup {NoThread}]
      <4>1. Len(threads') \in Nat
        BY <3>3
      <4> QED
        BY <2>1, <3>4, <4>1
    <3> QED
      BY <3>3, <3>6, <3>7
  <2>3. CASE Continued(h)
    <3> DEFINE n == handler[h].thread
    <3>1. /\ bound' = bound
          /\ threads' = [threads EXCEPT ![n].users = @ \cup {handler[h].session}]
      BY <2>3 DEF Continued
    <3>2. handler[h].session \in Sessions
      BY <1>1 DEF HandlerType
    <3> HIDE DEF n
    <3>3. ASSUME NEW i \in DOMAIN threads
          PROVE  /\ threads'[i] \in ThreadType
                 /\ threads'[i].session = threads[i].session
                 /\ threads'[i].epoch = threads[i].epoch
      <4>1. threads[i] \in ThreadType
        BY <2>1
      <4>2. CASE i = n
        <5>1. threads'[i] = [threads[i] EXCEPT !.users = @ \cup {handler[h].session}]
          BY <2>1, <3>1, <4>2
        <5> QED
          BY <3>2, <4>1, <5>1 DEF ThreadType
      <4>3. CASE i # n
        BY <2>1, <3>1, <4>1, <4>3
      <4> QED
        BY <4>2, <4>3
    <3>4. threads' \in Seq(ThreadType) /\ DOMAIN threads' = DOMAIN threads
      <4>1. CASE n \in 1..Len(threads)
        <5> DEFINE t == [threads[n] EXCEPT !.users = @ \cup {handler[h].session}]
        <5>1. threads' = [threads EXCEPT ![n] = t]
          BY <2>1, <3>1, <4>1
        <5>2. t \in ThreadType
          <6>1. threads[n] \in ThreadType
            BY <2>1, <4>1, ElementOfSeq
          <6> QED
            BY <3>2, <6>1 DEF ThreadType
        <5> HIDE DEF t
        <5> QED
          BY <2>1, <4>1, <5>1, <5>2, ExceptSeq
      <4>2. CASE n \notin 1..Len(threads)
        BY <2>1, <3>1, <4>2, LenProperties
      <4> QED
        BY <4>1, <4>2
    <3> QED
      BY <2>1, <3>1, <3>3, <3>4 DEF BoundThreadsAreCurrent
  <2>4. CASE UNCHANGED <<threads, bound>>
    BY <2>1, <2>4 DEF BoundThreadsAreCurrent
  <2> QED
    BY <2>2, <2>3, <2>4
<1>5. Types'
  BY <1>2, <1>4 DEF HostInv, Types
<1>6. LockInv' /\ ServersInv'
  BY <1>1, <1>2, <1>3 DEF HostInv, LockInv, ServersInv, Newest
<1>7. SentInv'
  BY <1>1, <1>2, <1>3 DEF HostInv, SentInv, SentRight, Newest
<1> QED
  BY <1>4, <1>5, <1>6, <1>7 DEF HostInv

(* The runtime is stopped: the process is told to end, then it has ended.  *)
LEMMA StopRuntimeKeeps ==
  ASSUME HostInv, NEW h \in Handlers, StopRuntime(h) PROVE HostInv'
<1> DEFINE x == [handler[h] EXCEPT !.phase = "stopping"]
<1>1. /\ x \in HandlerType /\ x.phase = "stopping" /\ x.sent = handler[h].sent
  BY TypesOf DEF Phase, HandlerType
<1>2. handler' = [handler EXCEPT ![h] = x]
  BY TypesOf DEF StopRuntime, Goto
<1> HIDE DEF x
<1>3. \A k \in Handlers : handler'[k] = IF k = h THEN x ELSE handler[k]
  BY <1>2, TypesOf
<1>4. \A k \in Handlers : handler[k].phase \notin {"starting", "stopping"}
  BY CodexHostAssumption DEF StopRuntime, HostInv, LockInv
<1>5. /\ servers' \in Seq(Alive \cup {"gone"}) /\ Len(servers') = Newest
      /\ \A g \in 1..Newest : g # Newest \/ client = "none" => servers'[g] = servers[g]
  <2>1. servers \in Seq(Alive \cup {"gone"}) /\ "closing" \in Alive \cup {"gone"}
    BY DEF HostInv, Types, Alive
  <2>2. CASE client = "set" /\ servers[Newest] = "up"
    <3>1. Newest \in 1..Len(servers)
      BY <2>1, <2>2, EmptySeq DEF Newest, HostInv, LockInv
    <3>2. servers' = [servers EXCEPT ![Newest] = "closing"]
      BY <2>2 DEF StopRuntime
    <3> QED
      BY <2>1, <2>2, <3>1, <3>2, ExceptSeq DEF Newest
  <2>3. CASE ~(client = "set" /\ servers[Newest] = "up")
    BY <2>1, <2>3 DEF StopRuntime, Newest
  <2> QED
    BY <2>2, <2>3
<1>6. Types'
  BY <1>1, <1>2, <1>5 DEF StopRuntime, HostInv, Types
<1>7. LockInv'
  <2>1. client = "set" => servers' # <<>>
    BY <1>5, EmptySeq DEF Newest, HostInv, Types, LockInv
  <2> QED
    BY <1>1, <1>3, <1>4, <2>1 DEF StopRuntime, LockInv
<1>8. ServersInv'
  <2>1. DOMAIN servers' = 1..Newest /\ DOMAIN servers = 1..Newest /\ Newest' = Newest
    BY <1>5, LenProperties DEF HostInv, Types, Newest
  <2> QED
    BY <1>5, <2>1 DEF StopRuntime, HostInv, ServersInv
<1>9. SentInv'
  BY <1>1, <1>3, <1>5 DEF StopRuntime, HostInv, SentInv, SentRight, Newest
<1>10. BoundThreadsAreCurrent'
  BY DEF StopRuntime, HostInv, BoundThreadsAreCurrent
<1> QED
  BY <1>6, <1>7, <1>8, <1>9, <1>10 DEF HostInv

LEMMA StoppedKeeps ==
  ASSUME HostInv, NEW h \in Handlers, Stopped(h) PROVE HostInv'
<1> DEFINE x == [handler[h] EXCEPT !.phase = "ensure", !.thread = NoThread,
                                   !.retried = "yes"]
<1>1. /\ x \in HandlerType /\ x.phase = "ensure" /\ x.sent = handler[h].sent
  BY TypesOf DEF Phase, HandlerType
<1>2. handler' = [handler EXCEPT ![h] = x]
  BY TypesOf DEF Stopped, Retry, HandlerType
<1> HIDE DEF x
<1>3. \A k \in Handlers : handler'[k] = IF k = h THEN x ELSE handler[k]
  BY <1>2, TypesOf
<1>4. \A k \in Handlers : k # h => handler[k].phase \notin {"starting", "stopping"}
  BY DEF Stopped, HostInv, LockInv
<1>5. /\ servers' \in Seq(Alive \cup {"gone"}) /\ Len(servers') = Newest
      /\ \A g \in 1..Newest : servers'[g] = "gone"
  <2>1. servers \in Seq(Alive \cup {"gone"}) /\ DOMAIN servers = 1..Newest
        /\ \A g \in 1..Newest : g # Newest \/ client = "none" => servers[g] = "gone"
    BY TypesOf DEF HostInv, Types, ServersInv
  <2>2. CASE client = "set"
    <3>1. servers \in Seq(Alive \cup {"gone"}) /\ servers # <<>>
      BY <2>2 DEF HostInv, Types, LockInv
    <3>2. Newest \in 1..Len(servers)
      BY <3>1, EmptySeq DEF Newest
    <3>3. servers' = [servers EXCEPT ![Newest] = "gone"]
      BY <2>2 DEF Stopped
    <3>4. /\ servers' \in Seq(Alive \cup {"gone"}) /\ Len(servers') = Len(servers)
          /\ \A g \in 1..Len(servers) :
               servers'[g] = IF g = Newest THEN "gone" ELSE servers[g]
      BY <3>1, <3>2, <3>3, ExceptSeq
    <3> QED
      BY <2>1, <3>4 DEF Newest
  <2>3. CASE client = "none"
    <3>1. servers' = servers
      BY <2>1, <2>3 DEF Stopped
    <3> QED
      BY <2>1, <2>3, <3>1 DEF Newest
  <2> QED
    BY <2>2, <2>3 DEF HostInv, Types
<1>6. client' = "none" /\ bound' = [bound EXCEPT ![handler[h].session] = NoThread]
      /\ UNCHANGED <<threads, epoch>>
  BY DEF Stopped
<1>7. Types'
  BY <1>1, <1>2, <1>5, <1>6 DEF HostInv, Types
<1>8. LockInv'
  BY <1>1, <1>3, <1>4, <1>6 DEF LockInv
<1>9. ServersInv'
  <2>1. DOMAIN servers' = 1..Newest
    BY <1>5, LenProperties DEF Newest
  <2> QED
    BY <1>5, <2>1 DEF ServersInv
<1>10. SentInv'
  <2>1. Newest' = Newest
    BY <1>5 DEF Newest
  <2>2. ASSUME NEW k \in Handlers PROVE SentRight(handler[k])'
    <3>1. SentRight(handler[k])
      BY TypesOf
    <3> QED
      BY <1>1, <1>3, <1>4, <1>6, <2>1, <3>1, TypesOf DEF SentRight
  <2> QED
    BY <2>2 DEF SentInv
<1>11. BoundThreadsAreCurrent'
  BY <1>6 DEF HostInv, Types, BoundThreadsAreCurrent
<1> QED
  BY <1>7, <1>8, <1>9, <1>10, <1>11 DEF HostInv

LEMMA ServerDiesKeeps ==
  ASSUME HostInv, ServerDies PROVE HostInv'
<1>1. /\ servers' \in Seq(Alive \cup {"gone"}) /\ Len(servers') = Newest
      /\ \A g \in 1..Newest : servers'[g] \in {"gone", servers[g]}
  <2>1. servers \in Seq(Alive \cup {"gone"}) /\ servers # <<>>
    BY DEF ServerDies, HostInv, Types
  <2>2. Newest \in 1..Len(servers)
    BY <2>1, EmptySeq DEF Newest
  <2>3. servers' = [servers EXCEPT ![Newest] = "gone"]
    BY DEF ServerDies
  <2> QED
    BY <2>1, <2>2, <2>3, ExceptSeq DEF Newest
<1>2. UNCHANGED <<bound, client, lock, handler, threads, epoch>>
  BY DEF ServerDies
<1>3. Types'
  BY <1>1, <1>2 DEF HostInv, Types
<1>4. LockInv'
  <2>1. servers' # <<>>
    BY <1>1, EmptySeq DEF ServerDies, HostInv, Types, Newest
  <2> QED
    BY <1>2, <2>1 DEF HostInv, LockInv
<1>5. Newest' = Newest
  BY <1>1 DEF Newest
<1>6. ServersInv'
  <2>1. DOMAIN servers' = DOMAIN servers /\ DOMAIN servers = 1..Newest
    BY <1>1, LenProperties DEF HostInv, Types, Newest
  <2> QED
    BY <1>1, <1>2, <1>5, <2>1 DEF HostInv, ServersInv
<1>7. SentInv' /\ BoundThreadsAreCurrent'
  BY <1>2, <1>5 DEF HostInv, SentInv, SentRight, BoundThreadsAreCurrent
<1> QED
  BY <1>3, <1>4, <1>6, <1>7 DEF HostInv

LEMMA RestartKeeps ==
  ASSUME HostInv, Restart PROVE HostInv'
<1>1. /\ handler' \in [Handlers -> HandlerType]
      /\ \A h \in Handlers : handler'[h].phase = "idle" /\ handler'[h].sent = {}
  <2>1. \A h \in Handlers : handler[h].session \in Sessions
    BY TypesOf DEF HandlerType
  <2> QED
    BY <2>1, IdleRight DEF Restart
<1>2. servers' \in Seq(Alive \cup {"gone"}) /\ Len(servers') = Newest
      /\ \A g \in DOMAIN servers' : servers'[g] = "gone"
  <2>1. DOMAIN servers = 1..Newest /\ Newest \in Nat
    BY LenProperties DEF HostInv, Types, Newest
  <2>2. servers' = [g \in 1..Newest |-> "gone"]
    BY <2>1 DEF Restart
  <2> QED
    BY <2>1, <2>2
<1>3. /\ bound' = [s \in Sessions |-> NoThread] /\ client' = "none"
      /\ epoch' = epoch + 1 /\ UNCHANGED threads
  BY DEF Restart
<1>4. Types'
  BY <1>1, <1>2, <1>3 DEF HostInv, Types
<1>5. LockInv' /\ ServersInv' /\ BoundThreadsAreCurrent'
  BY <1>1, <1>2, <1>3 DEF LockInv, ServersInv, BoundThreadsAreCurrent
<1>6. SentInv'
  BY <1>1 DEF SentInv, SentRight
<1> QED
  BY <1>4, <1>5, <1>6 DEF HostInv

LEMMA HostInvKept ==
  ASSUME HostInv, [Next]_vars PROVE HostInv'
<1>1. CASE UNCHANGED vars
  BY <1>1
  DEF vars, HostInv, Types, LockInv, ServersInv, SentInv, SentRight, Newest,
      BoundThreadsAreCurrent
<1>2. ASSUME NEW h \in Handlers, NEW op \in Op, NEW s \in Sessions,
             Request(h, op, s)
      PROVE  HostInv'
  BY <1>2, RequestKeeps
<1>3. ASSUME NEW h \in Handlers, NEW s \in Sessions, Invalidate(h, s)
      PROVE  HostInv'
  <2>1. /\ bound' = [bound EXCEPT ![s] = NoThread]
        /\ UNCHANGED <<client, servers, lock, handler, threads, epoch>>
    BY <1>3 DEF Invalidate
  <2>2. Types' /\ BoundThreadsAreCurrent'
    BY <2>1 DEF HostInv, Types, BoundThreadsAreCurrent
  <2>3. LockInv' /\ ServersInv' /\ SentInv'
    BY <2>1 DEF HostInv, LockInv, ServersInv, SentInv, SentRight, Newest
  <2> QED
    BY <2>2, <2>3 DEF HostInv
<1>4. ASSUME NEW h \in Handlers, Run(h) PROVE HostInv'
  <2>1. CASE FindClient(h) \/ StartClient(h) \/ Started(h) \/ Send(h)
    BY <2>1, FindClientKeeps, StartClientKeeps, StartedKeeps, SendKeeps
  <2>2. CASE SendFails(h) \/ AnswerLost(h)
    BY <2>2, IdleKeeps DEF SendFails, AnswerLost
  <2>3. CASE Answer(h)
    BY <2>3, AnswerKeeps DEF Answer
  <2>4. CASE StopRuntime(h) \/ Stopped(h)
    BY <2>4, StopRuntimeKeeps, StoppedKeeps
  <2> QED
    BY <1>4, <2>1, <2>2, <2>3, <2>4 DEF Run
<1>5. ASSUME NEW h \in Handlers, EmptyAnswer(h) PROVE HostInv'
  BY <1>5, AnswerKeeps DEF EmptyAnswer
<1>6. ASSUME NEW h \in Handlers, NEW left \in {"gone", "up"}, StartFails(h, left)
      PROVE  HostInv'
  BY <1>6, StartFailsKeeps
<1>7. CASE ServerDies
  BY <1>7, ServerDiesKeeps
<1>8. CASE Restart
  BY <1>8, RestartKeeps
<1> QED
  BY <1>1, <1>2, <1>3, <1>4, <1>5, <1>6, <1>7, <1>8 DEF Next

LEMMA HostInvHolds == Spec => []HostInv
<1>1. ASSUME Init PROVE HostInv
  <2>1. Types /\ BoundThreadsAreCurrent
    BY <1>1, IdleRight, EmptySeq DEF Init, Types, BoundThreadsAreCurrent
  <2>2. \A h \in Handlers : handler[h].phase = "idle" /\ handler[h].sent = {}
    BY <1>1, IdleRight DEF Init
  <2>3. LockInv /\ SentInv
    BY <1>1, <2>2 DEF Init, LockInv, SentInv, SentRight
  <2>4. ServersInv
    BY <1>1 DEF Init, ServersInv
  <2> QED
    BY <2>1, <2>3, <2>4 DEF HostInv
<1>2. HostInv /\ [Next]_vars => HostInv'
  BY HostInvKept
<1> QED
  BY <1>1, <1>2, PTL DEF Spec

(* sessions.json names only threads of its own session and of the host     *)
(* that runs now: what was under way when the host restarted, and what     *)
(* other handlers bind meanwhile, never shows up in a session's record.    *)
THEOREM BoundThreadsStayCurrent == Spec => []BoundThreadsAreCurrent
<1>1. HostInv => BoundThreadsAreCurrent
  BY DEF HostInv
<1> QED
  BY <1>1, HostInvHolds, PTL

(* There is at most one `codex mcp-server`, however many handlers start,   *)
(* stop and use the runtime: the lock is held until the old process has    *)
(* ended.                                                                  *)
THEOREM AtMostOneServer == Spec => []OneServer
<1>1. HostInv => OneServer
  <2> SUFFICES ASSUME HostInv PROVE OneServer
    OBVIOUS
  <2> DEFINE A == {g \in DOMAIN servers : servers[g] \in Alive}
  <2>1. A \subseteq {Newest}
    BY DEF HostInv, ServersInv, Alive
  <2>2. IsFiniteSet({Newest}) /\ Cardinality({Newest}) = 1
    BY FS_Singleton
  <2>3. Cardinality(A) <= 1
    BY <2>1, <2>2, FS_Subset
  <2> QED
    BY <2>3 DEF OneServer
<1> QED
  BY <1>1, HostInvHolds, PTL

(* The second try of a message goes to a process that has not had it: the  *)
(* one that answered with nothing is gone before the handler looks again.  *)
THEOREM NoServerTwice == Spec => OncePerServer
<1>1. ASSUME HostInv, NEW h \in Handlers, handler[h].phase = "request"
      PROVE  handler[h].gen \notin handler[h].sent
  BY <1>1, TypesOf DEF SentRight
<1>2. HostInv /\ [Next]_vars =>
        [\A h \in Handlers :
           handler[h].phase = "request" /\ handler'[h].phase = "flying" =>
             handler[h].gen \notin handler[h].sent]_vars
  BY <1>1
<1> QED
  BY <1>2, HostInvHolds, PTL DEF Spec, OncePerServer
=============================================================================

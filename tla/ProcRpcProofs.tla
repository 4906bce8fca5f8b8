---------------------------- MODULE ProcRpcProofs ----------------------------
(***************************************************************************)
(* Theorems about ProcRpc for every number of tasks, requests, connections *)
(* and crashes.                                                            *)
(***************************************************************************)
EXTENDS ProcRpc, TLAPS

Types ==
  /\ conn \in 0..MaxConns /\ stream \in 0..MaxConns
  /\ toServer \in [Conns -> Seq(Requests)]
  /\ serving \in [Conns -> 0..MaxRequests]
  /\ toClient \in [Conns -> Seq(Frame)]
  /\ outcome \in [Requests -> {"none", "pending", "answered", "raised"}]
  /\ executed \in [Requests -> {0, 1}]

(* The holder of the lock waits for the answer to its request, on some     *)
(* connection.                                                             *)
HolderWaits ==
  holder # Nobody =>
    current \in Requests /\ outcome[current] = "pending" /\ stream # 0

(* A request that waits for the service has been sent but not carried out, *)
(* and it waits once: in one place on one connection.                      *)
QueuedIsNew ==
  \A c \in Conns : \A i \in 1..Len(toServer[c]) :
    outcome[toServer[c][i]] # "none" /\ executed[toServer[c][i]] = 0

QueuedOnce ==
  \A c, d \in Conns : \A i \in 1..Len(toServer[c]), j \in 1..Len(toServer[d]) :
    toServer[c][i] = toServer[d][j] => c = d /\ i = j

(* What the service works on and what it has written it has carried out.   *)
ServedIsExecuted ==
  /\ \A c \in Conns : serving[c] # 0 => executed[serving[c]] = 1
  /\ \A c \in Conns : \A i \in 1..Len(toClient[c]) : executed[toClient[c][i].id] = 1

AnsweredIsExecuted ==
  \A r \in Requests :
    /\ outcome[r] = "answered" => executed[r] = 1
    /\ executed[r] = 1 => outcome[r] # "none"

RpcInv ==
  /\ Types /\ HolderWaits /\ QueuedIsNew /\ QueuedOnce
  /\ ServedIsExecuted /\ AnsweredIsExecuted
-----------------------------------------------------------------------------
(* A request is written, or raises because it cannot be. *)
LEMMA SendKeeps ==
  ASSUME RpcInv, NEW t \in Callers, NEW c \in 0..MaxConns, NEW links,
         Send(t, c, links), conn' \in 0..MaxConns,
         UNCHANGED <<serving, executed, toClient>>
  PROVE  RpcInv' /\ Atomic!Next
<1>1. PICK r \in Requests \ Sent :
        \/ /\ c # 0
           /\ outcome' = [outcome EXCEPT ![r] = "pending"]
           /\ holder' = t /\ current' = r /\ stream' = c
           /\ \/ toServer' = [toServer EXCEPT ![c] = Append(@, r)]
              \/ UNCHANGED toServer
        \/ /\ outcome' = [outcome EXCEPT ![r] = "raised"]
           /\ holder' = Nobody
           /\ UNCHANGED <<current, stream, toServer>>
  BY DEF Send
<1>2. /\ r \in Requests /\ outcome[r] = "none" /\ executed[r] = 0
      /\ r \in 1..MaxRequests
  BY DEF Sent, RpcInv, Types, AnsweredIsExecuted, Requests
<1>3. /\ outcome' \in [Requests -> {"none", "pending", "answered", "raised"}]
      /\ \A q \in Requests \ {r} : outcome'[q] = outcome[q]
      /\ outcome'[r] \in {"pending", "raised"}
  BY <1>1, <1>2 DEF RpcInv, Types
<1>4. Atomic!Next
  <2>1. CASE outcome' = [outcome EXCEPT ![r] = "pending"]
    BY <2>1, <1>2 DEF Atomic!Next, Atomic!Send
  <2>2. CASE outcome' = [outcome EXCEPT ![r] = "raised"]
    BY <2>2, <1>2 DEF Atomic!Next, Atomic!Raise
  <2> QED
    BY <1>1, <2>1, <2>2
<1>5. HolderWaits'
  <2>1. CASE holder' = t /\ current' = r /\ stream' = c /\ c # 0
             /\ outcome' = [outcome EXCEPT ![r] = "pending"]
    BY <2>1, <1>2 DEF HolderWaits, RpcInv, Types
  <2>2. CASE holder' = Nobody
    BY <2>2 DEF HolderWaits
  <2> QED
    BY <1>1, <2>1, <2>2
<1>6. ServedIsExecuted' /\ AnsweredIsExecuted'
  BY <1>1, <1>2, <1>3 DEF RpcInv, ServedIsExecuted, AnsweredIsExecuted
<1>7. Types' /\ QueuedIsNew' /\ QueuedOnce'
  <2>1. stream' \in 0..MaxConns
    BY <1>1 DEF RpcInv, Types
  <2>2. CASE UNCHANGED toServer
    <3>1. \A d \in Conns : \A i \in 1..Len(toServer[d]) :
            toServer[d][i] \in Requests /\ toServer[d][i] # r
      BY <1>2 DEF RpcInv, Types, QueuedIsNew
    <3> QED
      BY <2>1, <2>2, <3>1, <1>1, <1>3 DEF RpcInv, Types, QueuedIsNew, QueuedOnce
  <2>3. CASE c # 0 /\ toServer' = [toServer EXCEPT ![c] = Append(@, r)]
    <3>1. c \in Conns
      BY <2>3, ProcRpcAssumption DEF Conns
    <3>2. \A d \in Conns : \A i \in 1..Len(toServer[d]) :
            toServer[d][i] \in Requests /\ toServer[d][i] # r
      BY <1>2 DEF RpcInv, Types, QueuedIsNew
    <3>3. /\ toServer' \in [Conns -> Seq(Requests)]
          /\ \A d \in Conns \ {c} : toServer'[d] = toServer[d]
          /\ Len(toServer'[c]) = Len(toServer[c]) + 1
          /\ \A i \in 1..Len(toServer[c]) : toServer'[c][i] = toServer[c][i]
          /\ toServer'[c][Len(toServer[c]) + 1] = r
          /\ Len(toServer[c]) \in Nat
      BY <2>3, <3>1, <1>2 DEF RpcInv, Types
    <3>4. QueuedIsNew'
      <4> SUFFICES ASSUME NEW d \in Conns, NEW i \in 1..Len(toServer'[d])
                   PROVE  outcome'[toServer'[d][i]] # "none" /\ executed'[toServer'[d][i]] = 0
        BY DEF QueuedIsNew
      <4>1. CASE d = c /\ i = Len(toServer[c]) + 1
        BY <4>1, <3>3, <1>1, <1>2, <1>3
      <4>2. CASE ~(d = c /\ i = Len(toServer[c]) + 1)
        <5>1. i \in 1..Len(toServer[d]) /\ toServer'[d][i] = toServer[d][i]
          BY <4>2, <3>3
        <5> QED
          BY <5>1, <3>2, <1>3 DEF RpcInv, QueuedIsNew
      <4> QED
        BY <4>1, <4>2
    <3>5. QueuedOnce'
      <4> SUFFICES ASSUME NEW d \in Conns, NEW e \in Conns,
                          NEW i \in 1..Len(toServer'[d]), NEW j \in 1..Len(toServer'[e]),
                          toServer'[d][i] = toServer'[e][j]
                   PROVE  d = e /\ i = j
        BY DEF QueuedOnce
      <4> DEFINE last(k, m) == k = c /\ m = Len(toServer[c]) + 1
      <4>1. ASSUME NEW k \in Conns, NEW m \in 1..Len(toServer'[k])
            PROVE  \/ last(k, m) /\ toServer'[k][m] = r
                   \/ m \in 1..Len(toServer[k]) /\ toServer'[k][m] = toServer[k][m]
        <5>1. CASE k = c
          <6>1. m = Len(toServer[c]) + 1 \/ m \in 1..Len(toServer[c])
            BY <3>3, <4>1, <5>1
          <6> QED
            BY <3>3, <5>1, <6>1
        <5>2. CASE k # c
          <6>1. toServer'[k] = toServer[k]
            BY <3>3, <5>2
          <6> QED
            BY <4>1, <6>1
        <5> QED
          BY <5>1, <5>2
      <4>2. QueuedOnce
        BY <1>2 DEF RpcInv
      <4>3. CASE last(d, i) /\ last(e, j)
        BY <4>3
      <4>4. CASE ~last(d, i) /\ ~last(e, j)
        <5>1. /\ i \in 1..Len(toServer[d]) /\ toServer'[d][i] = toServer[d][i]
              /\ j \in 1..Len(toServer[e]) /\ toServer'[e][j] = toServer[e][j]
          BY <4>1, <4>4
        <5>2. toServer[d][i] = toServer[e][j]
          BY <5>1
        <5> HIDE DEF last
        <5> QED
          BY <5>1, <5>2, <4>2 DEF QueuedOnce
      <4>5. CASE last(d, i) /\ ~last(e, j)
        <5>1. toServer'[d][i] = r /\ j \in 1..Len(toServer[e])
              /\ toServer'[e][j] = toServer[e][j]
          BY <4>1, <4>5, <3>3
        <5> QED
          BY <5>1, <3>2
      <4>6. CASE ~last(d, i) /\ last(e, j)
        <5>1. toServer'[e][j] = r /\ i \in 1..Len(toServer[d])
              /\ toServer'[d][i] = toServer[d][i]
          BY <4>1, <4>6, <3>3
        <5> QED
          BY <5>1, <3>2
      <4> QED
        BY <4>3, <4>4, <4>5, <4>6
    <3> QED
      BY <2>1, <3>3, <3>4, <3>5, <1>1, <1>3 DEF RpcInv, Types
  <2> QED
    BY <1>1, <2>2, <2>3
<1> QED
  BY <1>4, <1>5, <1>6, <1>7 DEF RpcInv

(* A task that has its connection writes, or waits for the lock. *)
LEMMA EnterKeeps ==
  ASSUME RpcInv, NEW t \in Callers, NEW c \in 0..MaxConns, NEW links,
         Enter(t, c, links), conn' \in 0..MaxConns,
         UNCHANGED <<serving, executed, toClient>>
  PROVE  RpcInv' /\ [Atomic!Next]_Atomic!rpcVars
<1>1. CASE Send(t, c, links)
  BY <1>1, SendKeeps
<1>2. CASE UNCHANGED <<holder, current, stream, toServer, outcome>>
  <2>1. Types' /\ HolderWaits'
    BY <1>2 DEF RpcInv, Types, HolderWaits
  <2>2. QueuedIsNew' /\ QueuedOnce'
    BY <1>2 DEF RpcInv, QueuedIsNew, QueuedOnce
  <2>3. ServedIsExecuted' /\ AnsweredIsExecuted'
    BY <1>2 DEF RpcInv, ServedIsExecuted, AnsweredIsExecuted
  <2>4. UNCHANGED Atomic!rpcVars
    BY <1>2 DEF Atomic!rpcVars
  <2> QED
    BY <2>1, <2>2, <2>3, <2>4 DEF RpcInv
<1> QED
  BY <1>1, <1>2 DEF Enter

(* The holder's request ends.  An answer to it comes after its execution. *)
LEMMA FinishKeeps ==
  ASSUME RpcInv, NEW t \in Callers, holder = t, NEW result,
         \/ result = "raised"
         \/ result = "answered" /\ executed[current] = 1,
         Finish(t, result),
         toClient' \in [Conns -> Seq(Frame)],
         \A c \in Conns : \A i \in 1..Len(toClient'[c]) : executed[toClient'[c][i].id] = 1,
         UNCHANGED <<conn, toServer, serving, executed>>
  PROVE  RpcInv' /\ Atomic!Next
<1>1. current \in Requests /\ outcome[current] = "pending"
  BY ProcRpcAssumption DEF RpcInv, HolderWaits
<1>2. /\ outcome' \in [Requests -> {"none", "pending", "answered", "raised"}]
      /\ outcome'[current] = result
      /\ \A r \in Requests \ {current} :
           outcome'[r] = outcome[r]
  BY <1>1, ProcRpcAssumption DEF Finish, RpcInv, Types, Requests
<1>3. Types'
  BY <1>2, ProcRpcAssumption DEF Finish, RpcInv, Types
<1>4. HolderWaits'
  BY DEF Finish, HolderWaits
<1>5. QueuedOnce' /\ ServedIsExecuted'
  BY DEF RpcInv, QueuedOnce, ServedIsExecuted
<1>6. QueuedIsNew'
  <2>1. \A c \in Conns : \A i \in 1..Len(toServer[c]) : toServer[c][i] \in Requests
    BY DEF RpcInv, Types
  <2>2. \A r \in Requests : outcome[r] # "none" => outcome'[r] # "none"
    BY <1>2
  <2> QED
    BY <2>1, <2>2 DEF RpcInv, QueuedIsNew
<1>7. AnsweredIsExecuted'
  BY <1>1, <1>2 DEF RpcInv, AnsweredIsExecuted
<1>8. Atomic!Next
  <2>1. CASE result = "raised"
    BY <2>1, <1>1 DEF Finish, Atomic!Next, Atomic!Raise
  <2>2. CASE result = "answered" /\ executed[current] = 1
    BY <2>2, <1>1 DEF Finish, Atomic!Next, Atomic!Answer
  <2> QED
    BY <2>1, <2>2
<1> QED
  BY <1>3, <1>4, <1>5, <1>6, <1>7, <1>8 DEF RpcInv

LEMMA ReadFrameKeeps ==
  ASSUME RpcInv, NEW t \in Callers, ReadFrame(t)
  PROVE  RpcInv' /\ [Atomic!Next]_Atomic!rpcVars
<1> DEFINE f == Head(toClient[stream])
<1>1. holder = t /\ stream \in Conns /\ toClient[stream] # <<>>
  BY ProcRpcAssumption DEF ReadFrame, RpcInv, HolderWaits, Types, Conns
<1>2. /\ toClient[stream] \in Seq(Frame) /\ Len(toClient[stream]) \in Nat \ {0}
      /\ f = toClient[stream][1] /\ f \in Frame
  BY <1>1 DEF RpcInv, Types
<1>3. executed[f.id] = 1
  BY <1>1, <1>2 DEF RpcInv, ServedIsExecuted
<1>4. /\ toClient' = [toClient EXCEPT ![stream] = Tail(@)]
      /\ UNCHANGED <<conn, toServer, serving, executed>>
      /\ TakeFrame(t, f)
  BY DEF ReadFrame, serverVars
<1>5. /\ toClient' \in [Conns -> Seq(Frame)]
      /\ \A c \in Conns : \A i \in 1..Len(toClient'[c]) : executed[toClient'[c][i].id] = 1
  <2>1. toClient' \in [Conns -> Seq(Frame)]
    BY <1>1, <1>2, <1>4 DEF RpcInv, Types
  <2>2. ASSUME NEW c \in Conns, NEW i \in 1..Len(toClient'[c])
        PROVE  executed[toClient'[c][i].id] = 1
    <3>1. CASE c = stream
      <4>1. i + 1 \in 1..Len(toClient[c]) /\ toClient'[c][i] = toClient[c][i + 1]
        BY <3>1, <2>2, <1>1, <1>2, <1>4 DEF RpcInv, Types
      <4> QED
        BY <4>1 DEF RpcInv, ServedIsExecuted
    <3>2. CASE c # stream
      <4>1. toClient'[c] = toClient[c]
        BY <3>2, <1>4 DEF RpcInv, Types
      <4> QED
        BY <4>1, <2>2 DEF RpcInv, ServedIsExecuted
    <3> QED
      BY <3>1, <3>2
  <2> QED
    BY <2>1, <2>2
<1> HIDE DEF f
<1>6. CASE Finish(t, "raised")
  BY <1>6, <1>1, <1>4, <1>5, FinishKeeps
<1>7. CASE f.id = current /\ Finish(t, "answered")
  BY <1>7, <1>1, <1>3, <1>4, <1>5, FinishKeeps
<1>8. CASE conn # 0 /\ stream' = conn /\ UNCHANGED <<holder, phase, current, outcome>>
  <2>1. Types' /\ HolderWaits' /\ ServedIsExecuted'
    BY <1>8, <1>4, <1>5 DEF RpcInv, Types, HolderWaits, ServedIsExecuted
  <2>2. QueuedIsNew' /\ QueuedOnce' /\ AnsweredIsExecuted'
    BY <1>8, <1>4 DEF RpcInv, QueuedIsNew, QueuedOnce, AnsweredIsExecuted
  <2> QED
    BY <2>1, <2>2, <1>8, <1>4 DEF RpcInv, Atomic!rpcVars
<1> QED
  BY <1>4, <1>6, <1>7, <1>8 DEF TakeFrame

(* The service takes the next request of a connection: it is not executed  *)
(* yet and waits nowhere else.                                             *)
LEMMA ServeKeeps ==
  ASSUME RpcInv, NEW c \in Conns, Serve(c)
  PROVE  RpcInv' /\ Atomic!Next
<1> DEFINE r == Head(toServer[c])
<1>1. /\ toServer[c] \in Seq(Requests) /\ Len(toServer[c]) \in Nat \ {0}
      /\ 1 \in 1..Len(toServer[c])
      /\ r = toServer[c][1] /\ r \in Requests /\ r \in 1..MaxRequests
  <2>1. toServer[c] \in Seq(Requests) /\ toServer[c] # <<>>
    BY DEF Serve, RpcInv, Types
  <2>2. Len(toServer[c]) \in Nat \ {0} /\ r = toServer[c][1]
    BY <2>1
  <2>3. r \in Requests
    BY <2>1, <2>2
  <2> QED
    BY <2>1, <2>2, <2>3 DEF Requests
<1>2. executed[r] = 0 /\ outcome[r] # "none" /\ outcome[r] # "answered"
  BY <1>1 DEF RpcInv, QueuedIsNew, AnsweredIsExecuted
<1>3. /\ serving' = [serving EXCEPT ![c] = r]
      /\ toServer' = [toServer EXCEPT ![c] = Tail(@)]
      /\ executed' = [executed EXCEPT ![r] = 1]
      /\ UNCHANGED <<toClient, conn, holder, current, stream, outcome>>
  <2>1. executed' = [executed EXCEPT ![r] = @ + 1]
    BY DEF Serve
  <2>2. executed' = [executed EXCEPT ![r] = 1]
    BY <2>1, <1>1, <1>2 DEF RpcInv, Types
  <2> QED
    BY <2>2 DEF Serve, clientVars
<1> HIDE DEF r
<1>4. /\ toServer' \in [Conns -> Seq(Requests)]
      /\ \A d \in Conns \ {c} : toServer'[d] = toServer[d]
      /\ Len(toServer'[c]) = Len(toServer[c]) - 1
      /\ \A i \in 1..Len(toServer'[c]) :
           i + 1 \in 1..Len(toServer[c]) /\ toServer'[c][i] = toServer[c][i + 1]
  BY <1>1, <1>3 DEF RpcInv, Types
<1>5. /\ executed' \in [Requests -> {0, 1}] /\ executed'[r] = 1
      /\ \A q \in Requests \ {r} : executed'[q] = executed[q]
  BY <1>1, <1>3 DEF RpcInv, Types
<1>6. Types' /\ HolderWaits'
  BY <1>1, <1>3, <1>4, <1>5 DEF RpcInv, Types, HolderWaits
<1>7. AnsweredIsExecuted'
  BY <1>2, <1>3, <1>5 DEF RpcInv, AnsweredIsExecuted
<1>8. ServedIsExecuted'
  <2>1. \A q \in Requests : executed[q] = 1 => executed'[q] = 1
    BY <1>5
  <2>2. \A d \in Conns : serving'[d] # 0 =>
          \/ d = c /\ serving'[d] = r
          \/ serving'[d] = serving[d] /\ serving[d] \in Requests
    BY <1>3 DEF RpcInv, Types, Requests
  <2>3. \A d \in Conns : \A i \in 1..Len(toClient[d]) : toClient[d][i].id \in Requests
    <3>1. \A d \in Conns : \A i \in 1..Len(toClient[d]) : toClient[d][i] \in Frame
      BY DEF RpcInv, Types
    <3> QED
      BY <3>1 DEF Frame
  <2> QED
    BY <2>1, <2>2, <2>3, <1>3, <1>5 DEF RpcInv, ServedIsExecuted
<1>9. QueuedIsNew' /\ QueuedOnce'
  <2> DEFINE from(d, i) == IF d = c THEN i + 1 ELSE i
  <2>1. \A d \in Conns : \A i \in 1..Len(toServer'[d]) :
          /\ from(d, i) \in 1..Len(toServer[d])
          /\ toServer'[d][i] = toServer[d][from(d, i)]
          /\ d = c => from(d, i) # 1
    BY <1>4
  <2>2. \A d \in Conns : \A i, j \in 1..Len(toServer'[d]) : from(d, i) = from(d, j) => i = j
    BY <1>4
  <2> HIDE DEF from
  <2>3. \A d \in Conns : \A i \in 1..Len(toServer'[d]) :
          toServer'[d][i] \in Requests \ {r}
    <3>1. \A d \in Conns : \A i \in 1..Len(toServer'[d]) :
            toServer[d][from(d, i)] # toServer[c][1]
      BY <2>1, <1>1 DEF RpcInv, QueuedOnce
    <3>2. \A d \in Conns : \A i \in 1..Len(toServer'[d]) :
            toServer'[d][i] \in Requests
      BY <1>4
    <3> QED
      BY <2>1, <3>1, <3>2, <1>1
  <2>4. QueuedIsNew'
    <3>1. \A d \in Conns : \A i \in 1..Len(toServer'[d]) :
            /\ outcome[toServer'[d][i]] # "none"
            /\ executed[toServer'[d][i]] = 0
      BY <2>1 DEF RpcInv, QueuedIsNew
    <3>2. ASSUME NEW d \in Conns, NEW i \in 1..Len(toServer'[d])
          PROVE  /\ outcome'[toServer'[d][i]] # "none"
                 /\ executed'[toServer'[d][i]] = 0
      <4> DEFINE q == toServer'[d][i]
      <4>1. q \in Requests \ {r} /\ outcome[q] # "none" /\ executed[q] = 0
        BY <2>3, <3>1, <3>2
      <4> HIDE DEF q
      <4>2. outcome'[q] # "none" /\ executed'[q] = 0
        BY <4>1, <1>3, <1>5
      <4> QED
        BY <4>2 DEF q
    <3> QED
      BY <3>2 DEF QueuedIsNew
  <2>5. QueuedOnce'
    <3> SUFFICES ASSUME NEW d \in Conns, NEW e \in Conns,
                        NEW i \in 1..Len(toServer'[d]), NEW j \in 1..Len(toServer'[e]),
                        toServer'[d][i] = toServer'[e][j]
                 PROVE  d = e /\ i = j
      BY DEF QueuedOnce
    <3>1. toServer[d][from(d, i)] = toServer[e][from(e, j)]
      BY <2>1
    <3>2. d = e /\ from(d, i) = from(e, j)
      BY <2>1, <3>1 DEF RpcInv, QueuedOnce
    <3> QED
      BY <2>2, <3>2
  <2> QED
    BY <2>4, <2>5
<1>10. Atomic!Next
  <2>1. outcome[r] \in {"pending", "raised"}
    BY <1>1, <1>2 DEF RpcInv, Types
  <2> QED
    BY <2>1, <1>1, <1>2, <1>3 DEF Atomic!Next, Atomic!Execute
<1> QED
  BY <1>6, <1>7, <1>8, <1>9, <1>10 DEF RpcInv

(* An event or the answer of the request that is being served. *)
LEMMA WriteKeeps ==
  ASSUME RpcInv, NEW c \in Conns, serving[c] # 0,
         NEW kind \in {"event", "answer"}, WriteFrame(c, kind),
         serving' \in {serving, [serving EXCEPT ![c] = 0]},
         UNCHANGED <<conn, holder, current, stream, toServer, executed, outcome>>
  PROVE  RpcInv'
<1> DEFINE f == [id |-> serving[c], kind |-> kind]
<1>1. f \in Frame /\ executed[f.id] = 1
  BY DEF RpcInv, Types, ServedIsExecuted, Frame, Requests
<1> HIDE DEF f
<1>2. toClient' = [toClient EXCEPT ![c] = Append(@, f)] \/ toClient' = toClient
  BY DEF WriteFrame, f
<1>3. /\ toClient' \in [Conns -> Seq(Frame)]
      /\ \A d \in Conns : \A i \in 1..Len(toClient'[d]) :
           executed[toClient'[d][i].id] = 1
  <2>1. CASE toClient' = toClient
    BY <2>1 DEF RpcInv, Types, ServedIsExecuted
  <2>2. CASE toClient' = [toClient EXCEPT ![c] = Append(@, f)]
    <3>1. /\ toClient' \in [Conns -> Seq(Frame)]
          /\ \A d \in Conns \ {c} : toClient'[d] = toClient[d]
          /\ Len(toClient[c]) \in Nat /\ Len(toClient'[c]) = Len(toClient[c]) + 1
          /\ \A i \in 1..Len(toClient[c]) : toClient'[c][i] = toClient[c][i]
          /\ toClient'[c][Len(toClient[c]) + 1] = f
      BY <2>2, <1>1 DEF RpcInv, Types
    <3>2. ASSUME NEW d \in Conns, NEW i \in 1..Len(toClient'[d])
          PROVE  \/ i \in 1..Len(toClient[d]) /\ toClient'[d][i] = toClient[d][i]
                 \/ toClient'[d][i] = f
      BY <3>1, <3>2
    <3>3. \A d \in Conns : \A i \in 1..Len(toClient[d]) : executed[toClient[d][i].id] = 1
      BY DEF RpcInv, ServedIsExecuted
    <3>4. \A d \in Conns : \A i \in 1..Len(toClient'[d]) :
            executed[toClient'[d][i].id] = 1
      BY <3>2, <3>3, <1>1
    <3> QED
      BY <3>1, <3>4
  <2> QED
    BY <1>2, <2>1, <2>2
<1>4. /\ serving' \in [Conns -> 0..MaxRequests]
      /\ \A d \in Conns : serving'[d] # 0 => serving'[d] = serving[d]
  <2>1. serving \in [Conns -> 0..MaxRequests] /\ 0 \in 0..MaxRequests
    BY ProcRpcAssumption DEF RpcInv, Types
  <2> QED
    BY <2>1
<1>5. Types' /\ ServedIsExecuted'
  BY <1>3, <1>4 DEF RpcInv, Types, ServedIsExecuted
<1>6. HolderWaits' /\ QueuedIsNew' /\ QueuedOnce' /\ AnsweredIsExecuted'
  BY DEF RpcInv, HolderWaits, QueuedIsNew, QueuedOnce, AnsweredIsExecuted
<1> QED
  BY <1>5, <1>6 DEF RpcInv

LEMMA CrashKeeps ==
  ASSUME RpcInv, Crash
  PROVE  RpcInv'
<1>1. /\ toServer' = [c \in Conns |-> <<>>]
      /\ serving' = [c \in Conns |-> 0]
      /\ UNCHANGED <<conn, holder, current, stream, executed, outcome>>
  BY DEF Crash, clientVars
<1>2. /\ toClient' \in [Conns -> Seq(Frame)]
      /\ \A c \in Conns : toClient'[c] = toClient[c] \/ toClient'[c] = <<>>
  BY DEF Crash, RpcInv, Types
<1>3. Types' /\ QueuedIsNew' /\ QueuedOnce'
  BY <1>1, <1>2, ProcRpcAssumption DEF RpcInv, Types, QueuedIsNew, QueuedOnce
<1>4. ServedIsExecuted'
  <2>1. \A c \in Conns : \A i \in 1..Len(toClient'[c]) : toClient'[c] = toClient[c]
    BY <1>2
  <2> QED
    BY <2>1, <1>1 DEF RpcInv, ServedIsExecuted
<1>5. HolderWaits' /\ AnsweredIsExecuted'
  BY <1>1 DEF RpcInv, HolderWaits, AnsweredIsExecuted
<1> QED
  BY <1>3, <1>4, <1>5 DEF RpcInv

(* What the invariant does not see: locks queued for, links, connections   *)
(* that come and go.                                                       *)
LEMMA OthersKeep ==
  ASSUME RpcInv, conn' \in 0..MaxConns,
         UNCHANGED <<holder, current, stream, toServer, serving, toClient,
                     executed, outcome>>
  PROVE  RpcInv' /\ UNCHANGED Atomic!rpcVars
BY DEF RpcInv, Types, HolderWaits, QueuedIsNew, QueuedOnce, ServedIsExecuted,
   AnsweredIsExecuted, Atomic!rpcVars
-----------------------------------------------------------------------------
LEMMA InitHolds ==
  ASSUME Init
  PROVE  RpcInv /\ Atomic!Init
<1>1. Types /\ HolderWaits
  BY ProcRpcAssumption DEF Init, Types, HolderWaits
<1>2. QueuedIsNew /\ QueuedOnce /\ ServedIsExecuted /\ AnsweredIsExecuted
  BY DEF Init, QueuedIsNew, QueuedOnce, ServedIsExecuted, AnsweredIsExecuted
<1> QED
  BY <1>1, <1>2 DEF RpcInv, Init, Atomic!Init

LEMMA StepKeeps ==
  ASSUME RpcInv, [Next]_vars
  PROVE  RpcInv' /\ [Atomic!Next]_Atomic!rpcVars
<1>0. conn \in 0..MaxConns /\ 0 \in 0..MaxConns
  BY ProcRpcAssumption DEF RpcInv, Types
<1>1. ASSUME NEW t \in Callers, Call(t)
      PROVE  RpcInv' /\ [Atomic!Next]_Atomic!rpcVars
  <2>1. CASE Enter(t, conn, link)
    BY <1>1, <2>1, <1>0, EnterKeeps DEF Call
  <2>2. CASE UNCHANGED <<holder, waiters, current, stream, link, toServer, outcome>>
    BY <1>1, <2>2, <1>0, OthersKeep DEF Call
  <2> QED
    BY <1>1, <2>1, <2>2 DEF Call
<1>2. ASSUME NEW t \in Callers, Connected(t)
      PROVE  RpcInv' /\ [Atomic!Next]_Atomic!rpcVars
  <2>1. PICK c \in Conns : /\ conn' = c
                           /\ \E links : Enter(t, c, links)
    BY <1>2 DEF Connected
  <2>2. c \in 0..MaxConns /\ conn' \in 0..MaxConns
    BY <2>1, ProcRpcAssumption DEF Conns
  <2>3. UNCHANGED <<serving, executed, toClient>>
    BY <1>2 DEF Connected
  <2> QED
    BY <2>1, <2>2, <2>3, EnterKeeps
<1>3. ASSUME NEW t \in Callers, OpenFails(t)
      PROVE  RpcInv' /\ [Atomic!Next]_Atomic!rpcVars
  BY <1>3, <1>0, OthersKeep DEF OpenFails, serverVars
<1>4. ASSUME NEW t \in Callers, Acquire(t)
      PROVE  RpcInv' /\ [Atomic!Next]_Atomic!rpcVars
  BY <1>4, <1>0, SendKeeps DEF Acquire
<1>5. ASSUME NEW t \in Callers, ReadFrame(t)
      PROVE  RpcInv' /\ [Atomic!Next]_Atomic!rpcVars
  BY <1>5, ReadFrameKeeps
<1>6. ASSUME NEW t \in Callers, ReadEof(t) \/ Timeout(t)
      PROVE  RpcInv' /\ [Atomic!Next]_Atomic!rpcVars
  <2>1. /\ holder = t /\ Finish(t, "raised")
        /\ UNCHANGED <<conn, toClient, toServer, serving, executed>>
    BY <1>6 DEF ReadEof, Timeout, serverVars
  <2>2. /\ toClient' \in [Conns -> Seq(Frame)]
        /\ \A c \in Conns : \A i \in 1..Len(toClient'[c]) : executed[toClient'[c][i].id] = 1
    BY <2>1 DEF RpcInv, Types, ServedIsExecuted
  <2> QED
    BY <2>1, <2>2, FinishKeeps
<1>7. ASSUME Close
      PROVE  RpcInv' /\ [Atomic!Next]_Atomic!rpcVars
  BY <1>7, <1>0, OthersKeep DEF Close, serverVars
<1>8. ASSUME NEW c \in Conns, Service(c)
      PROVE  RpcInv' /\ [Atomic!Next]_Atomic!rpcVars
  <2>1. CASE Serve(c)
    BY <2>1, ServeKeeps
  <2>2. CASE Emit(c)
    BY <2>2, WriteKeeps DEF Emit, clientVars, Atomic!rpcVars
  <2>3. CASE Respond(c)
    BY <2>3, WriteKeeps DEF Respond, clientVars, Atomic!rpcVars
  <2> QED
    BY <1>8, <2>1, <2>2, <2>3 DEF Service
<1>9. ASSUME Crash
      PROVE  RpcInv' /\ [Atomic!Next]_Atomic!rpcVars
  BY <1>9, CrashKeeps DEF Crash, Atomic!rpcVars
<1>10. ASSUME Recover
       PROVE  RpcInv' /\ [Atomic!Next]_Atomic!rpcVars
  BY <1>10, <1>0, OthersKeep DEF Recover, clientVars, serverVars
<1>11. ASSUME UNCHANGED vars
       PROVE  RpcInv' /\ [Atomic!Next]_Atomic!rpcVars
  BY <1>11, <1>0, OthersKeep DEF vars
<1> QED
  BY <1>1, <1>2, <1>3, <1>4, <1>5, <1>6, <1>7, <1>8, <1>9, <1>10, <1>11 DEF Next

LEMMA RpcInvHolds == Spec => []RpcInv
<1>1. Init => RpcInv
  BY InitHolds
<1>2. RpcInv /\ [Next]_vars => RpcInv'
  BY StepKeeps
<1> QED
  BY <1>1, <1>2, PTL DEF Spec

(* A client and the service's connections carry out each request at most   *)
(* once, and answer it only after that: every step is a step of AtomicRpc  *)
(* or a stutter.  A write to a connection that is gone is not repeated,    *)
(* and a frame is read once.                                               *)
THEOREM RpcIsAtomic == Spec => ImplementsAtomicRpc
<1>1. Init => Atomic!Init
  BY InitHolds
<1>2. RpcInv /\ [Next]_vars => [Atomic!Next]_Atomic!rpcVars
  BY StepKeeps
<1> QED
  BY <1>1, <1>2, RpcInvHolds, PTL DEF Spec, ImplementsAtomicRpc, Atomic!Spec
-----------------------------------------------------------------------------
(* Nothing is under way on a connection, or something of request r is. *)
Nothing(c) == toServer[c] = <<>> /\ serving[c] = 0 /\ toClient[c] = <<>>

Carries(c, r) ==
  \/ serving[c] = r
  \/ \E i \in 1..Len(toServer[c]) : toServer[c][i] = r
  \/ \E i \in 1..Len(toClient[c]) : toClient[c][i].id = r

(* A connection carries its requests in the order of their ids: the frames *)
(* it has for the client, the request it serves, those it has not served.  *)
InOrder(c) ==
  /\ \A i, j \in 1..Len(toServer[c]) : i < j => toServer[c][i] <= toServer[c][j]
  /\ \A i, j \in 1..Len(toClient[c]) : i < j => toClient[c][i].id <= toClient[c][j].id
  /\ \A i \in 1..Len(toClient[c]), j \in 1..Len(toServer[c]) :
       toClient[c][i].id <= toServer[c][j]
  /\ \A j \in 1..Len(toServer[c]) : serving[c] <= toServer[c][j]
  /\ serving[c] # 0 => \A i \in 1..Len(toClient[c]) : toClient[c][i].id <= serving[c]

(* The answer to the holder's request is still to be read from it. *)
Owes(c) ==
  \/ serving[c] = current
  \/ \E i \in 1..Len(toServer[c]) : toServer[c][i] = current
  \/ \E i \in 1..Len(toClient[c]) :
       toClient[c][i].id = current /\ toClient[c][i].kind = "answer"

(* Ids are drawn in order, the holder's last. *)
DrawnInOrder ==
  /\ holder = Nobody => current = 0
  /\ \A r \in Sent, q \in Requests : q < r => q \in Sent
  /\ current # 0 => \A r \in Sent : r <= current

(* The connection the holder reads, and the one it would go on to after an *)
(* event, owe it the answer as long as they work, or are so new that       *)
(* nobody has written to them: only a holder of the lock writes.           *)
AnswerComes ==
  current # 0 =>
    \A c \in Conns : c \in {conn, stream} /\ link[c] = "open" => Owes(c) \/ Nothing(c)

OrderInv ==
  /\ link \in [Conns -> LinkState]
  /\ DrawnInOrder /\ AnswerComes
  /\ \A c \in Conns : InOrder(c)
  /\ \A c \in Conns : link[c] = "unused" => Nothing(c)

(* What any step but a read does to the connections in use *)
KeepsCarrying ==
  \A c \in Conns, r \in Requests :
    link[c] = "open" /\ link'[c] = "open" /\ Carries(c, r) => Carries(c, r)'
-----------------------------------------------------------------------------
LEMMA AppendElements ==
  ASSUME NEW S, NEW s \in Seq(S), NEW e \in S
  PROVE  /\ Append(s, e) \in Seq(S)
         /\ Len(s) \in Nat /\ Len(Append(s, e)) = Len(s) + 1
         /\ \A i \in 1..Len(s) : Append(s, e)[i] = s[i]
         /\ Append(s, e)[Len(s) + 1] = e
OBVIOUS

LEMMA TailElements ==
  ASSUME NEW S, NEW s \in Seq(S), s # <<>>
  PROVE  /\ Tail(s) \in Seq(S) /\ Len(s) \in Nat \ {0}
         /\ Head(s) = s[1] /\ s[1] \in S
         /\ Len(Tail(s)) = Len(s) - 1
         /\ \A i \in 1..(Len(s) - 1) : Tail(s)[i] = s[i + 1]
OBVIOUS

(* What a connection carries has been sent. *)
LEMMA CarriedIsSent ==
  ASSUME RpcInv, NEW c \in Conns
  PROVE  /\ serving[c] \in 0..MaxRequests
         /\ serving[c] # 0 => serving[c] \in Sent
         /\ \A i \in 1..Len(toServer[c]) : toServer[c][i] \in Sent
         /\ \A i \in 1..Len(toClient[c]) : toClient[c][i] \in Frame /\ toClient[c][i].id \in Sent
         /\ Sent \subseteq Requests
<1>1. serving[c] \in 0..MaxRequests /\ (serving[c] # 0 => serving[c] \in Sent)
  BY ProcRpcAssumption
  DEF RpcInv, Types, ServedIsExecuted, AnsweredIsExecuted, Sent, Requests
<1>2. \A i \in 1..Len(toServer[c]) : toServer[c][i] \in Sent
  BY DEF RpcInv, Types, QueuedIsNew, Sent
<1>3. ASSUME NEW i \in 1..Len(toClient[c])
      PROVE  toClient[c][i] \in Frame /\ toClient[c][i].id \in Sent
  <2>1. toClient[c][i] \in Frame
    BY DEF RpcInv, Types
  <2>2. toClient[c][i].id \in Requests /\ executed[toClient[c][i].id] = 1
    BY <2>1 DEF RpcInv, ServedIsExecuted, Frame
  <2> QED
    BY <2>1, <2>2 DEF RpcInv, AnsweredIsExecuted, Sent
<1> QED
  BY <1>1, <1>2, <1>3 DEF Sent

LEMMA StaleCarries ==
  ASSUME RpcInv, NEW c \in Conns
  PROVE  Stale(c) <=> \E r \in Sent \ {current} : Carries(c, r)
<1>1. 0 \notin Sent
  BY ProcRpcAssumption DEF Sent, Requests
<1> QED
  BY <1>1, CarriedIsSent DEF Stale, Carries

(* The same after a step *)
LEMMA StaleStays ==
  ASSUME RpcInv, RpcInv', NEW c \in Conns, Stale(c),
         \A r \in Requests : Carries(c, r) => Carries(c, r)',
         current' \in {0, current} \/ current' \notin Sent
  PROVE  Stale(c)'
<1>1. PICK r \in Sent \ {current} : Carries(c, r)
  BY StaleCarries
<1>2. r \in Requests /\ r # 0
  BY ProcRpcAssumption DEF Sent, Requests
<1>3. r # current' /\ Carries(c, r)'
  BY <1>1, <1>2
<1> QED
  BY <1>2, <1>3 DEF Stale, Carries

(* The connections are left alone, and nothing begins. *)
LEMMA QuietKeepsOrder ==
  ASSUME OrderInv, UNCHANGED <<toServer, serving, toClient, Sent>>,
         link' \in [Conns -> LinkState],
         \A c \in Conns : link'[c] \in {"unused", "open"} => link'[c] = link[c],
         \/ current' = 0
         \/ /\ current' = current /\ holder' = holder
            /\ \A c \in {conn', stream'} : c \in {0, conn, stream}
  PROVE  OrderInv' /\ KeepsCarrying
<1>1. \A c \in Conns : InOrder(c)' /\ Nothing(c)' = Nothing(c)
  BY DEF OrderInv, InOrder, Nothing
<1>2. KeepsCarrying
  BY DEF KeepsCarrying, Carries
<1>3. DrawnInOrder'
  BY DEF OrderInv, DrawnInOrder
<1>4. AnswerComes'
  <2> SUFFICES ASSUME current' # 0, NEW c \in Conns, c \in {conn', stream'},
                      link'[c] = "open"
               PROVE  Owes(c)' \/ Nothing(c)'
    BY DEF AnswerComes
  <2>1. c \in {conn, stream} /\ link[c] = "open" /\ current' = current
    BY DEF Conns
  <2>2. Owes(c) \/ Nothing(c)
    BY <2>1 DEF OrderInv, AnswerComes
  <2> QED
    BY <2>1, <2>2, <1>1 DEF Owes
<1> QED
  BY <1>1, <1>2, <1>3, <1>4 DEF OrderInv

(* A request is written after all that the connection carries, or not. *)
LEMMA SendKeepsOrder ==
  ASSUME RpcInv, OrderInv, holder = Nobody,
         NEW t \in Callers, NEW c \in 0..MaxConns, NEW links \in [Conns -> LinkState],
         Send(t, c, links), conn' = c, UNCHANGED <<serving, toClient>>,
         \A d \in Conns : links[d] = "unused" => link[d] = "unused"
  PROVE  OrderInv' /\ KeepsCarrying /\ (current' = current \/ current' \notin Sent)
<1>1. current = 0 /\ Nobody \notin Callers /\ 0 \notin Requests
  BY ProcRpcAssumption DEF OrderInv, DrawnInOrder, Requests
<1>2. PICK r \in Requests \ Sent :
        /\ \A s \in Requests \ Sent : r <= s
        /\ \/ /\ c # 0 /\ links[c] \in {"open", "eof"}
              /\ outcome' = [outcome EXCEPT ![r] = "pending"]
              /\ holder' = t /\ current' = r /\ stream' = c
              /\ \/ /\ links[c] = "open" /\ link' = links
                    /\ toServer' = [toServer EXCEPT ![c] = Append(@, r)]
                 \/ link' = [links EXCEPT ![c] = "broken"] /\ UNCHANGED toServer
           \/ /\ outcome' = [outcome EXCEPT ![r] = "raised"]
              /\ link' = IF c = 0 THEN links ELSE [links EXCEPT ![c] = "closed"]
              /\ holder' = Nobody
              /\ UNCHANGED <<current, stream, toServer>>
  BY DEF Send
<1>3. /\ c # 0 => c \in Conns
      /\ r \in Nat /\ Sent \subseteq Requests /\ Requests \subseteq Nat
  BY ProcRpcAssumption DEF Conns, Requests, Sent
<1>4. \A s \in Sent : s <= r /\ s # r
  BY <1>2, <1>3 DEF OrderInv, DrawnInOrder
<1>5. Sent' = Sent \cup {r}
  <2>1. \A q \in Requests \ {r} : outcome'[q] = outcome[q]
    BY <1>2 DEF RpcInv, Types
  <2>2. outcome'[r] # "none"
    BY <1>2 DEF RpcInv, Types
  <2> QED
    BY <2>1, <2>2, <1>2 DEF Sent
<1>6. DrawnInOrder'
  <2>1. holder' = Nobody => current' = 0
    BY <1>1, <1>2
  <2>2. \A s \in Sent', q \in Requests : q < s => q \in Sent'
    BY <1>2, <1>3, <1>5 DEF OrderInv, DrawnInOrder
  <2>3. current' # 0 => \A s \in Sent' : s <= current'
    BY <1>1, <1>2, <1>3, <1>4, <1>5
  <2> QED
    BY <2>1, <2>2, <2>3 DEF DrawnInOrder
<1>7. /\ link' \in [Conns -> LinkState]
      /\ \A d \in Conns : link'[d] = "unused" => links[d] = "unused"
      /\ \A d \in Conns : link'[d] = "open" => links[d] = "open"
  BY <1>2, <1>3 DEF LinkState
<1>8. CASE c # 0 /\ links[c] = "open" /\ link' = links
           /\ toServer' = [toServer EXCEPT ![c] = Append(@, r)]
           /\ current' = r /\ stream' = c
  <2>1. /\ \A d \in Conns \ {c} : toServer'[d] = toServer[d]
        /\ Len(toServer[c]) \in Nat /\ Len(toServer'[c]) = Len(toServer[c]) + 1
        /\ \A i \in 1..Len(toServer[c]) : toServer'[c][i] = toServer[c][i]
        /\ toServer'[c][Len(toServer[c]) + 1] = r
    BY <1>2, <1>3, <1>8, AppendElements DEF RpcInv, Types
  <2>2. KeepsCarrying
    <3>1. \A d \in Conns : \A i \in 1..Len(toServer[d]) :
            i \in 1..Len(toServer'[d]) /\ toServer'[d][i] = toServer[d][i]
      BY <2>1
    <3> QED
      BY <3>1 DEF KeepsCarrying, Carries
  <2>3. \A d \in Conns \ {c} : InOrder(d)' /\ Nothing(d)' = Nothing(d)
    BY <2>1 DEF OrderInv, InOrder, Nothing
  <2>4. Owes(c)'
    BY <2>1, <1>8 DEF Owes
  <2>5. InOrder(c)'
    <3>1. /\ serving[c] \in Nat /\ (serving[c] # 0 => serving[c] \in Sent)
          /\ \A i \in 1..Len(toServer[c]) : toServer[c][i] \in Sent
          /\ \A i \in 1..Len(toClient[c]) : toClient[c][i].id \in Sent
      BY <1>3, <1>8, CarriedIsSent, ProcRpcAssumption
    <3>2. /\ serving[c] <= r
          /\ \A i \in 1..Len(toServer[c]) : toServer[c][i] <= r
          /\ \A i \in 1..Len(toClient[c]) : toClient[c][i].id <= r
      <4>1. serving[c] = 0 \/ serving[c] \in Sent
        BY <3>1
      <4>2. serving[c] <= r
        <5>1. r \in Nat /\ (serving[c] = 0 => 0 <= r)
          BY <1>3
        <5> QED
          BY <4>1, <5>1, <1>4
      <4>3. \A i \in 1..Len(toServer[c]) : toServer[c][i] <= r
        BY <3>1, <1>4
      <4>4. \A i \in 1..Len(toClient[c]) : toClient[c][i].id <= r
        BY <3>1, <1>4
      <4> QED
        BY <4>2, <4>3, <4>4
    <3>3. \A i \in 1..Len(toServer'[c]) :
            \/ i \in 1..Len(toServer[c]) /\ toServer'[c][i] = toServer[c][i]
            \/ i = Len(toServer[c]) + 1 /\ toServer'[c][i] = r
      BY <2>1
    <3>4. InOrder(c)
      BY <1>3, <1>8 DEF OrderInv
    <3>5. ASSUME NEW i \in 1..Len(toServer'[c]), NEW j \in 1..Len(toServer'[c]), i < j
          PROVE  toServer'[c][i] <= toServer'[c][j]
      <4>1. i \in 1..Len(toServer[c]) /\ toServer'[c][i] = toServer[c][i]
        BY <3>5, <2>1
      <4>2. CASE j \in 1..Len(toServer[c]) /\ toServer'[c][j] = toServer[c][j]
        BY <3>4, <3>5, <4>1, <4>2 DEF InOrder
      <4>3. CASE toServer'[c][j] = r
        BY <3>2, <4>1, <4>3
      <4> QED
        BY <3>3, <4>2, <4>3
    <3>6. /\ \A i \in 1..Len(toClient[c]), j \in 1..Len(toServer'[c]) :
               toClient[c][i].id <= toServer'[c][j]
          /\ \A j \in 1..Len(toServer'[c]) : serving[c] <= toServer'[c][j]
      BY <3>2, <3>3, <3>4 DEF InOrder
    <3> QED
      BY <3>4, <3>5, <3>6 DEF InOrder
  <2>6. AnswerComes'
    BY <2>4, <1>8 DEF AnswerComes
  <2>7. \A d \in Conns : link'[d] = "unused" => Nothing(d)'
    BY <2>3, <1>8 DEF OrderInv
  <2> QED
    BY <2>2, <2>3, <2>5, <2>6, <2>7, <1>2, <1>6, <1>7, <1>8 DEF OrderInv
<1>9. CASE UNCHANGED toServer /\ (current' = 0 \/ (conn' = stream' /\ c # 0 /\ link'[c] # "open"))
  <2>1. \A d \in Conns : InOrder(d)' /\ Nothing(d)' = Nothing(d)
    BY <1>9 DEF OrderInv, InOrder, Nothing
  <2>2. KeepsCarrying
    BY <1>9 DEF KeepsCarrying, Carries
  <2>3. AnswerComes'
    BY <1>9 DEF AnswerComes
  <2>4. \A d \in Conns : link'[d] = "unused" => Nothing(d)'
    BY <2>1, <1>7 DEF OrderInv
  <2> QED
    BY <2>1, <2>2, <2>3, <2>4, <1>1, <1>2, <1>6, <1>7 DEF OrderInv
<1> QED
  BY <1>1, <1>2, <1>3, <1>8, <1>9

(* A task has its connection: it writes, or waits while another holds the  *)
(* lock, which the new connection does not disturb.                        *)
LEMMA EnterKeepsOrder ==
  ASSUME RpcInv, OrderInv,
         NEW t \in Callers, NEW c \in 0..MaxConns, NEW links \in [Conns -> LinkState],
         Enter(t, c, links), conn' = c, UNCHANGED <<serving, toClient>>,
         (c = conn /\ links = link) \/ (c \in Conns /\ link[c] = "unused"),
         \A d \in Conns : links[d] = "unused" => link[d] = "unused",
         \A d \in Conns \ {c} : links[d] = "open" => link[d] = "open"
  PROVE  OrderInv' /\ KeepsCarrying /\ (current' = current \/ current' \notin Sent)
<1>1. CASE holder = Nobody /\ Send(t, c, links)
  BY <1>1, SendKeepsOrder
<1>2. CASE /\ link' = links
           /\ UNCHANGED <<holder, current, stream, toServer, outcome>>
  <2>1. \A d \in Conns : InOrder(d)' /\ Nothing(d)' = Nothing(d)
    BY <1>2 DEF OrderInv, InOrder, Nothing
  <2>2. KeepsCarrying
    BY <1>2 DEF KeepsCarrying, Carries
  <2>3. DrawnInOrder'
    BY <1>2 DEF OrderInv, DrawnInOrder, Sent
  <2>4. AnswerComes'
    <3> SUFFICES ASSUME current' # 0, NEW d \in Conns, d \in {conn', stream'},
                        link'[d] = "open"
                 PROVE  Owes(d)' \/ Nothing(d)'
      BY DEF AnswerComes
    <3>1. CASE d = c /\ link[c] = "unused"
      BY <3>1, <2>1 DEF OrderInv
    <3>2. CASE d # c \/ link[c] # "unused"
      <4>1. link[d] = "open" /\ d \in {conn, stream}
        BY <3>2, <1>2
      <4>2. Owes(d) \/ Nothing(d)
        BY <4>1, <1>2 DEF OrderInv, AnswerComes
      <4> QED
        BY <4>2, <2>1, <1>2 DEF Owes
    <3> QED
      BY <3>1, <3>2
  <2>5. \A d \in Conns : link'[d] = "unused" => Nothing(d)'
    BY <2>1, <1>2 DEF OrderInv
  <2> QED
    BY <2>1, <2>2, <2>3, <2>4, <2>5, <1>2 DEF OrderInv
<1> QED
  BY <1>1, <1>2 DEF Enter

(* The holder reads a frame: a connection of its own loses the first.  An  *)
(* event is not the answer it is owed.                                     *)
LEMMA ReadFrameKeepsOrder ==
  ASSUME RpcInv, OrderInv, NEW t \in Callers, ReadFrame(t)
  PROVE  /\ OrderInv' /\ current' \in {0, current}
         /\ stream \in Conns /\ toClient[stream] # <<>>
         /\ \A c \in Conns, r \in Requests :
              Carries(c, r) /\ ~(c = stream /\ r = toClient[stream][1].id)
                => Carries(c, r)'
<1> DEFINE f == Head(toClient[stream])
<1>1. holder = t /\ stream \in Conns /\ toClient[stream] # <<>> /\ current \in Requests
  BY ProcRpcAssumption DEF ReadFrame, RpcInv, HolderWaits, Types, Conns
<1>2. /\ Len(toClient[stream]) \in Nat \ {0} /\ f = toClient[stream][1]
      /\ toClient' = [toClient EXCEPT ![stream] = Tail(@)]
      /\ Len(toClient'[stream]) = Len(toClient[stream]) - 1
      /\ \A i \in 1..(Len(toClient[stream]) - 1) :
           toClient'[stream][i] = toClient[stream][i + 1]
      /\ \A c \in Conns \ {stream} : toClient'[c] = toClient[c]
  <2>1. toClient[stream] \in Seq(Frame)
    BY <1>1 DEF RpcInv, Types
  <2>2. toClient' = [toClient EXCEPT ![stream] = Tail(@)]
    BY DEF ReadFrame
  <2>3. toClient'[stream] = Tail(toClient[stream])
        /\ \A c \in Conns \ {stream} : toClient'[c] = toClient[c]
    BY <1>1, <2>2 DEF RpcInv, Types
  <2> QED
    <3> HIDE DEF f
    <3> DEFINE s == toClient[stream]
    <3>1. /\ Len(s) \in Nat \ {0} /\ Head(s) = s[1] /\ Len(Tail(s)) = Len(s) - 1
          /\ \A i \in 1..(Len(s) - 1) : Tail(s)[i] = s[i + 1]
      BY <1>1, <2>1, TailElements
    <3>2. toClient'[stream] = Tail(s) /\ f = Head(s)
      BY <2>3 DEF f
    <3> HIDE DEF s
    <3>3. /\ Len(s) \in Nat \ {0} /\ f = s[1] /\ Len(toClient'[stream]) = Len(s) - 1
          /\ \A i \in 1..(Len(s) - 1) : toClient'[stream][i] = s[i + 1]
      BY <3>1, <3>2
    <3> QED
      BY <3>3, <2>2, <2>3 DEF s
<1>3. /\ UNCHANGED <<conn, link, toServer, serving>>
      /\ \/ current' = 0 /\ holder' = Nobody
         \/ /\ f.id = current /\ f.kind = "event" /\ conn # 0 /\ stream' = conn
            /\ UNCHANGED <<holder, current, outcome>>
  BY DEF ReadFrame, TakeFrame, Finish, serverVars
<1>4. Sent' = Sent
  <2>1. outcome' \in {outcome, [outcome EXCEPT ![current] = "raised"],
                      [outcome EXCEPT ![current] = "answered"]}
    BY DEF ReadFrame, TakeFrame, Finish
  <2>2. outcome[current] = "pending"
    BY <1>1, ProcRpcAssumption DEF RpcInv, HolderWaits
  <2> QED
    BY <1>1, <2>1, <2>2 DEF Sent, RpcInv, Types
<1> HIDE DEF f
<1>5. DrawnInOrder'
  BY <1>3, <1>4 DEF OrderInv, DrawnInOrder
<1>6. \A c \in Conns : Nothing(c) => Nothing(c)'
  BY <1>1, <1>2, <1>3 DEF Nothing
<1>7. ASSUME NEW c \in Conns PROVE InOrder(c)'
  <2>1. CASE c = stream
    <3>1. InOrder(c)
      BY DEF OrderInv
    <3>2. \A i \in 1..Len(toClient'[c]) :
            i + 1 \in 1..Len(toClient[c]) /\ toClient'[c][i] = toClient[c][i + 1]
      BY <2>1, <1>2
    <3>3. \A i, j \in 1..Len(toClient'[c]) : i < j => i + 1 < j + 1
      OBVIOUS
    <3> QED
      BY <3>1, <3>2, <3>3, <1>3 DEF InOrder
  <2>2. CASE c # stream
    BY <2>2, <1>2, <1>3 DEF OrderInv, InOrder
  <2> QED
    BY <2>1, <2>2
<1>8. \A c \in Conns : \A i \in 1..Len(toClient[c]) :
        \/ c = stream /\ i = 1
        \/ \E j \in 1..Len(toClient'[c]) : toClient'[c][j] = toClient[c][i]
  <2> SUFFICES ASSUME NEW c \in Conns, NEW i \in 1..Len(toClient[c]),
                      c # stream \/ i # 1
               PROVE  \E j \in 1..Len(toClient'[c]) : toClient'[c][j] = toClient[c][i]
    OBVIOUS
  <2>1. CASE c # stream
    <3>1. toClient'[c] = toClient[c]
      BY <2>1, <1>2
    <3> QED
      BY <3>1
  <2>2. CASE c = stream
    <3>1. Len(toClient[c]) \in Nat
      BY <2>2, <1>2
    <3>2. i - 1 \in 1..(Len(toClient[c]) - 1) /\ (i - 1) + 1 = i
      BY <2>2, <3>1
    <3>3. i - 1 \in 1..Len(toClient'[c]) /\ toClient'[c][i - 1] = toClient[c][i]
      BY <2>2, <3>2, <1>2
    <3> QED
      BY <3>3
  <2> QED
    BY <2>1, <2>2
<1>9. \A c \in Conns, r \in Requests :
        Carries(c, r) /\ ~(c = stream /\ r = toClient[stream][1].id) => Carries(c, r)'
  BY <1>3, <1>8 DEF Carries
<1>10. AnswerComes'
  <2> SUFFICES ASSUME current' # 0, NEW c \in Conns, c \in {conn', stream'},
                      link'[c] = "open"
               PROVE  Owes(c)' \/ Nothing(c)'
    BY DEF AnswerComes
  <2>1. /\ c = conn /\ link[c] = "open" /\ current' = current
        /\ f.kind # "answer"
    BY <1>3
  <2>2. Owes(c) \/ Nothing(c)
    BY <2>1 DEF OrderInv, AnswerComes
  <2>3. Owes(c) => Owes(c)'
    <3>1. ASSUME NEW i \in 1..Len(toClient[c]), toClient[c][i].kind = "answer"
          PROVE  \E j \in 1..Len(toClient'[c]) : toClient'[c][j] = toClient[c][i]
      BY <3>1, <2>1, <1>2, <1>8
    <3> QED
      BY <3>1, <2>1, <1>3 DEF Owes
  <2> QED
    BY <2>2, <2>3, <1>6
<1> QED
  BY <1>1, <1>3, <1>5, <1>6, <1>7, <1>9, <1>10 DEF OrderInv

(* The service takes the oldest request that waits. *)
LEMMA ServeKeepsOrder ==
  ASSUME RpcInv, OrderInv, NEW c \in Conns, Serve(c)
  PROVE  OrderInv' /\ KeepsCarrying
<1>1. /\ Len(toServer[c]) \in Nat \ {0} /\ toServer[c] # <<>>
      /\ serving' = [serving EXCEPT ![c] = toServer[c][1]]
      /\ toServer' = [toServer EXCEPT ![c] = Tail(@)]
      /\ Len(toServer'[c]) = Len(toServer[c]) - 1
      /\ \A i \in 1..(Len(toServer[c]) - 1) : toServer'[c][i] = toServer[c][i + 1]
      /\ \A d \in Conns \ {c} : toServer'[d] = toServer[d]
      /\ serving[c] = 0
      /\ UNCHANGED <<link, toClient, conn, holder, current, stream, outcome>>
  BY TailElements DEF Serve, RpcInv, Types, clientVars
<1>2. /\ serving'[c] = toServer[c][1]
      /\ \A d \in Conns \ {c} : serving'[d] = serving[d]
  BY <1>1 DEF RpcInv, Types
<1>3. \A i \in 1..Len(toServer[c]) :
        \/ serving'[c] = toServer[c][i]
        \/ \E j \in 1..Len(toServer'[c]) : toServer'[c][j] = toServer[c][i]
  <2> SUFFICES ASSUME NEW i \in 1..Len(toServer[c]), i # 1
               PROVE  \E j \in 1..Len(toServer'[c]) : toServer'[c][j] = toServer[c][i]
    BY <1>2
  <2>1. i - 1 \in 1..Len(toServer'[c]) /\ toServer'[c][i - 1] = toServer[c][i]
    BY <1>1
  <2> QED
    BY <2>1
<1>4. KeepsCarrying
  <2>1. \A r \in Requests : r # 0
    BY ProcRpcAssumption DEF Requests
  <2>2. ASSUME NEW r \in Requests, Carries(c, r) PROVE Carries(c, r)'
    <3>1. serving[c] = 0 /\ toClient' = toClient
      BY <1>1
    <3>2. CASE \E i \in 1..Len(toServer[c]) : toServer[c][i] = r
      BY <3>2, <1>3 DEF Carries
    <3>3. CASE \E i \in 1..Len(toClient[c]) : toClient[c][i].id = r
      BY <3>1, <3>3 DEF Carries
    <3> QED
      BY <2>1, <2>2, <3>1, <3>2, <3>3 DEF Carries
  <2>3. \A d \in Conns \ {c}, r \in Requests : Carries(d, r) => Carries(d, r)'
    BY <1>1, <1>2 DEF Carries
  <2> QED
    BY <2>2, <2>3 DEF KeepsCarrying
<1>5. DrawnInOrder'
  BY <1>1 DEF OrderInv, DrawnInOrder, Sent
<1>6. \A d \in Conns \ {c} : InOrder(d)' /\ Nothing(d)' = Nothing(d) /\ Owes(d)' = Owes(d)
  <2>1. \A d \in Conns \ {c} : /\ toServer'[d] = toServer[d] /\ serving'[d] = serving[d]
                                /\ toClient'[d] = toClient[d] /\ InOrder(d)
    BY <1>1, <1>2 DEF OrderInv
  <2>2. current' = current
    BY <1>1
  <2> QED
    BY <2>1, <2>2 DEF InOrder, Nothing, Owes
<1>7. InOrder(c)'
  <2>1. InOrder(c)
    BY DEF OrderInv
  <2>2. \A i \in 1..Len(toServer'[c]) :
          i + 1 \in 1..Len(toServer[c]) /\ toServer'[c][i] = toServer[c][i + 1]
    BY <1>1
  <2>3. \A i, j \in 1..Len(toServer'[c]) : i < j => i + 1 < j + 1
    OBVIOUS
  <2>4. 1 \in 1..Len(toServer[c]) /\ \A i \in 1..Len(toServer'[c]) : 1 < i + 1
    BY <1>1
  <2>5. /\ \A i, j \in 1..Len(toServer'[c]) : i < j => toServer'[c][i] <= toServer'[c][j]
        /\ \A j \in 1..Len(toServer'[c]) : serving'[c] <= toServer'[c][j]
    BY <2>1, <2>2, <2>3, <2>4, <1>2 DEF InOrder
  <2>6. /\ \A i, j \in 1..Len(toClient[c]) : i < j => toClient[c][i].id <= toClient[c][j].id
        /\ \A i \in 1..Len(toClient[c]) : toClient[c][i].id <= serving'[c]
        /\ \A i \in 1..Len(toClient[c]), j \in 1..Len(toServer'[c]) :
             toClient[c][i].id <= toServer'[c][j]
    BY <2>1, <2>2, <2>4, <1>2 DEF InOrder
  <2> QED
    BY <2>5, <2>6, <1>1 DEF InOrder
<1>8. AnswerComes'
  <2> SUFFICES ASSUME current' # 0, NEW d \in Conns, d \in {conn', stream'},
                      link'[d] = "open"
               PROVE  Owes(d)' \/ Nothing(d)'
    BY DEF AnswerComes
  <2>1. Owes(d) \/ Nothing(d)
    BY <1>1 DEF OrderInv, AnswerComes
  <2>2. CASE d # c
    BY <2>1, <2>2, <1>6
  <2>3. CASE d = c
    <3>1. Owes(c) /\ serving[c] # current /\ UNCHANGED <<current, toClient>>
      BY <2>1, <2>3, <1>1 DEF Nothing
    <3> QED
      BY <2>3, <3>1, <1>3 DEF Owes
  <2> QED
    BY <2>2, <2>3
<1>9. \A d \in Conns : link'[d] = "unused" => Nothing(d)'
  BY <1>1, <1>6 DEF OrderInv, Nothing
<1> QED
  BY <1>1, <1>4, <1>5, <1>6, <1>7, <1>8, <1>9 DEF OrderInv

(* The request that is served writes, after those before it. *)
LEMMA WriteKeepsOrder ==
  ASSUME RpcInv, OrderInv, NEW c \in Conns, serving[c] # 0,
         NEW kind \in {"event", "answer"}, WriteFrame(c, kind),
         \/ UNCHANGED serving
         \/ serving' = [serving EXCEPT ![c] = 0] /\ kind = "answer",
         UNCHANGED <<link, toServer, conn, holder, current, stream, outcome>>
  PROVE  OrderInv' /\ KeepsCarrying
<1> DEFINE f == [id |-> serving[c], kind |-> kind]
<1>1. f \in Frame /\ f.id = serving[c] /\ f.kind = kind
  BY DEF RpcInv, Types, Frame, Requests
<1>2. toClient' = IF link[c] = "open" THEN [toClient EXCEPT ![c] = Append(@, f)]
                  ELSE toClient
  BY DEF WriteFrame
<1> HIDE DEF f
<1>3. /\ \A d \in Conns \ {c} : toClient'[d] = toClient[d] /\ serving'[d] = serving[d]
      /\ serving'[c] \in {0, serving[c]}
      /\ serving'[c] = 0 => kind = "answer"
  BY <1>2 DEF RpcInv, Types
<1>4. DrawnInOrder'
  BY DEF OrderInv, DrawnInOrder, Sent
<1>5. \A d \in Conns \ {c} :
        /\ InOrder(d)' /\ Nothing(d)' = Nothing(d) /\ Owes(d)' = Owes(d)
        /\ \A r \in Requests : Carries(d, r) => Carries(d, r)'
  BY <1>3 DEF OrderInv, InOrder, Nothing, Owes, Carries
<1>6. \A d \in Conns : link'[d] = "unused" => Nothing(d)'
  BY <1>5 DEF OrderInv, Nothing
<1>7. InOrder(c) /\ \A j \in 1..Len(toServer[c]) : 0 <= toServer[c][j]
  <2>1. \A j \in 1..Len(toServer[c]) : toServer[c][j] \in Requests
    BY DEF RpcInv, Types
  <2> QED
    BY <2>1 DEF OrderInv, Requests
<1>8. CASE link[c] = "open"
  <2>1. /\ Len(toClient[c]) \in Nat /\ Len(toClient'[c]) = Len(toClient[c]) + 1
        /\ \A i \in 1..Len(toClient[c]) : toClient'[c][i] = toClient[c][i]
        /\ toClient'[c][Len(toClient[c]) + 1] = f
    BY <1>1, <1>2, <1>8, AppendElements DEF RpcInv, Types
  <2>2. \A i \in 1..Len(toClient'[c]) :
          \/ i \in 1..Len(toClient[c]) /\ toClient'[c][i] = toClient[c][i]
          \/ i = Len(toClient[c]) + 1 /\ toClient'[c][i].id = serving[c]
    BY <1>1, <2>1
  <2>3. Len(toClient[c]) + 1 \in 1..Len(toClient'[c])
        /\ \A i \in 1..Len(toClient[c]) : i \in 1..Len(toClient'[c])
    BY <2>1
  <2>4. \A r \in Requests : Carries(c, r) => Carries(c, r)'
    BY <2>1, <2>3, <1>1 DEF Carries
  <2>5. Owes(c) => Owes(c)'
    BY <2>1, <2>3, <1>1, <1>3 DEF Owes
  <2>6. ASSUME NEW i \in 1..Len(toClient'[c]), NEW j \in 1..Len(toClient'[c]), i < j
        PROVE  toClient'[c][i].id <= toClient'[c][j].id
    <3>1. i \in 1..Len(toClient[c]) /\ toClient'[c][i] = toClient[c][i]
      BY <2>1, <2>6
    <3>2. CASE j \in 1..Len(toClient[c]) /\ toClient'[c][j] = toClient[c][j]
      BY <2>6, <3>1, <3>2, <1>7 DEF InOrder
    <3>3. CASE toClient'[c][j].id = serving[c]
      BY <3>1, <3>3, <1>7 DEF InOrder
    <3> QED
      BY <2>2, <3>2, <3>3
  <2>7. \A i \in 1..Len(toClient'[c]), j \in 1..Len(toServer[c]) :
          toClient'[c][i].id <= toServer[c][j]
    BY <2>2, <1>7 DEF InOrder
  <2>8. /\ \A j \in 1..Len(toServer[c]) : serving'[c] <= toServer[c][j]
        /\ serving'[c] # 0 => \A i \in 1..Len(toClient'[c]) : toClient'[c][i].id <= serving'[c]
    <3>1. serving[c] <= serving[c]
      BY DEF RpcInv, Types
    <3> QED
      BY <2>2, <3>1, <1>3, <1>7 DEF InOrder
  <2>9. InOrder(c)'
    BY <2>6, <2>7, <2>8, <1>7 DEF InOrder
  <2>10. AnswerComes'
    <3>1. ~Nothing(c)
      BY DEF Nothing
    <3> QED
      BY <2>5, <3>1, <1>5 DEF OrderInv, AnswerComes
  <2>11. KeepsCarrying
    BY <2>4, <1>5 DEF KeepsCarrying
  <2> QED
    BY <2>9, <2>10, <2>11, <1>4, <1>5, <1>6 DEF OrderInv
<1>9. CASE link[c] # "open"
  <2>1. toClient' = toClient
    BY <1>2, <1>9
  <2>2. InOrder(c)'
    BY <2>1, <1>3, <1>7 DEF InOrder
  <2>3. AnswerComes'
    BY <1>5, <1>9 DEF OrderInv, AnswerComes
  <2>4. KeepsCarrying
    BY <1>5, <1>9 DEF KeepsCarrying
  <2> QED
    BY <2>2, <2>3, <2>4, <1>4, <1>5, <1>6 DEF OrderInv
<1> QED
  BY <1>8, <1>9

LEMMA CrashKeepsOrder ==
  ASSUME RpcInv, OrderInv, Crash
  PROVE  OrderInv' /\ KeepsCarrying
<1>1. /\ toServer' = [c \in Conns |-> <<>>]
      /\ serving' = [c \in Conns |-> 0]
      /\ UNCHANGED <<conn, holder, current, stream, outcome>>
  BY DEF Crash, clientVars
<1>2. /\ link' \in [Conns -> LinkState]
      /\ \A c \in Conns : /\ link'[c] # "open"
                          /\ link'[c] = "unused" => link[c] = "unused"
                          /\ toClient'[c] = toClient[c] \/ toClient'[c] = <<>>
  BY DEF Crash, OrderInv, LinkState
<1>3. DrawnInOrder' /\ AnswerComes' /\ KeepsCarrying
  BY <1>1, <1>2 DEF OrderInv, DrawnInOrder, Sent, AnswerComes, KeepsCarrying
<1>4. ASSUME NEW c \in Conns PROVE InOrder(c)'
  <2>1. toServer'[c] = <<>> /\ serving'[c] = 0
    BY <1>1
  <2>2. CASE toClient'[c] = toClient[c]
    BY <2>1, <2>2 DEF OrderInv, InOrder
  <2>3. CASE toClient'[c] = <<>>
    BY <2>1, <2>3 DEF InOrder
  <2> QED
    BY <1>2, <2>2, <2>3
<1>5. \A c \in Conns : link'[c] = "unused" => Nothing(c)'
  BY <1>1, <1>2 DEF OrderInv, Nothing
<1> QED
  BY <1>2, <1>3, <1>4, <1>5 DEF OrderInv
-----------------------------------------------------------------------------
StaysPoisoned(c) ==
  link[c] = "open" /\ Stale(c) =>
    ~AnswersOn(c) /\ (link'[c] = "open" => Stale(c)')

(* Nothing is read and nobody is answered. *)
LEMMA CarryingPoisons ==
  ASSUME RpcInv, RpcInv', KeepsCarrying,
         current' \in {0, current} \/ current' \notin Sent,
         \A r \in Requests : outcome'[r] = "answered" => outcome[r] = "answered"
  PROVE  \A c \in Conns : StaysPoisoned(c)
<1> SUFFICES ASSUME NEW c \in Conns, link[c] = "open", Stale(c)
             PROVE  ~AnswersOn(c) /\ (link'[c] = "open" => Stale(c)')
  BY DEF StaysPoisoned
<1>1. ~AnswersOn(c)
  BY DEF AnswersOn
<1>2. ASSUME link'[c] = "open" PROVE Stale(c)'
  <2>1. \A r \in Requests : Carries(c, r) => Carries(c, r)'
    BY <1>2 DEF KeepsCarrying
  <2> QED
    BY <2>1, StaleStays
<1> QED
  BY <1>1, <1>2

(* If the answer comes first there is nothing else, and if another frame   *)
(* comes first the answer is left behind.                                  *)
LEMMA ReadFramePoisons ==
  ASSUME RpcInv, OrderInv, RpcInv', NEW t \in Callers, ReadFrame(t)
  PROVE  \A c \in Conns : StaysPoisoned(c)
<1> SUFFICES ASSUME NEW c \in Conns, link[c] = "open", Stale(c)
             PROVE  ~AnswersOn(c) /\ (link'[c] = "open" => Stale(c)')
  BY DEF StaysPoisoned
<1> DEFINE f == toClient[stream][1]
<1>1. /\ holder = t /\ stream \in Conns /\ toClient[stream] # <<>>
      /\ current \in Requests /\ current' \in {0, current}
      /\ \A r \in Requests : Carries(c, r) /\ ~(c = stream /\ r = f.id) => Carries(c, r)'
  BY ReadFrameKeepsOrder, ProcRpcAssumption DEF ReadFrame, RpcInv, HolderWaits
<1>2. /\ Head(toClient[stream]) = f /\ Len(toClient[stream]) \in Nat \ {0}
      /\ TakeFrame(t, f)
  <2>1. toClient[stream] \in Seq(Frame)
    BY <1>1 DEF RpcInv, Types
  <2>2. Head(toClient[stream]) = f /\ Len(toClient[stream]) \in Nat \ {0}
    BY <1>1, <2>1, TailElements
  <2> QED
    BY <2>2 DEF ReadFrame
<1>3. /\ Sent \subseteq Requests /\ current # 0
      /\ \A r \in Sent : r <= current /\ r \in Nat
  BY <1>1, ProcRpcAssumption DEF OrderInv, DrawnInOrder, Sent, Requests
<1> HIDE DEF f
<1>4. PICK r \in Sent \ {current} : Carries(c, r)
  BY StaleCarries
<1>5. ASSUME c = stream PROVE f.id # current
  <2>1. 1 \in 1..Len(toClient[c]) /\ f = toClient[c][1]
    BY <1>2, <1>5 DEF f
  <2>2. InOrder(c)
    BY DEF OrderInv
  <2>3. f.id <= r
    <3>1. r # 0
      BY <1>4, ProcRpcAssumption DEF Sent, Requests
    <3>2. CASE serving[c] = r
      BY <3>1, <3>2, <2>1, <2>2 DEF InOrder
    <3>3. CASE \E i \in 1..Len(toServer[c]) : toServer[c][i] = r
      BY <3>3, <2>1, <2>2 DEF InOrder
    <3>4. ASSUME NEW i \in 1..Len(toClient[c]), toClient[c][i].id = r PROVE f.id <= r
      <4>1. CASE i = 1
        BY <3>4, <4>1, <2>1, <1>4, <1>3
      <4>2. CASE i # 1
        <5>1. 1 < i
          BY <3>4, <4>2
        <5> QED
          BY <3>4, <5>1, <2>1, <2>2 DEF InOrder
      <4> QED
        BY <4>1, <4>2
    <3> QED
      BY <1>4, <3>2, <3>3, <3>4 DEF Carries
  <2>4. r <= current /\ r # current /\ r \in Nat /\ current \in Nat
    BY <1>1, <1>3, <1>4 DEF Requests
  <2> QED
    BY <2>3, <2>4
<1>6. ~AnswersOn(c)
  <2> SUFFICES ASSUME AnswersOn(c) PROVE FALSE
    OBVIOUS
  <2>1. c = stream /\ \E q \in Requests : outcome[q] = "pending" /\ outcome'[q] = "answered"
    BY DEF AnswersOn
  <2>2. f.id # current
    BY <2>1, <1>5
  <2>3. outcome' = [outcome EXCEPT ![current] = "raised"]
    BY <2>2, <1>2 DEF TakeFrame, Finish
  <2> QED
    BY <2>1, <2>3 DEF RpcInv, Types
<1>7. Stale(c)'
  <2>1. CASE ~(c = stream /\ r = f.id)
    <3>1. r \in Requests /\ r # 0 /\ r # current
      BY <1>4, ProcRpcAssumption DEF Requests, Sent
    <3>2. Carries(c, r)'
      BY <2>1, <3>1, <1>1, <1>4
    <3>3. r # current'
      BY <3>1, <1>1
    <3> QED
      BY <3>1, <3>2, <3>3 DEF Carries, Stale
  <2>2. CASE c = stream /\ r = f.id
    <3>1. current' = 0
      BY <2>2, <1>4, <1>2 DEF TakeFrame, Finish
    <3>2. PICK q \in Requests : q = current
      BY <1>1
    <3>3. Owes(c)
      BY <2>2, <1>1, <1>3 DEF OrderInv, AnswerComes, Nothing
    <3>4. Carries(c, q) /\ q # f.id
      BY <2>2, <3>2, <3>3, <1>4 DEF Owes, Carries
    <3>5. Carries(c, q)' /\ q # 0
      BY <3>2, <3>4, <1>1, <1>3
    <3> QED
      BY <3>1, <3>5 DEF Carries, Stale
  <2> QED
    BY <2>1, <2>2
<1> QED
  BY <1>6, <1>7

(* A send answers nobody, and writes after its lock is free. *)
LEMMA EnterAnswersNobody ==
  ASSUME RpcInv, NEW t, NEW c, NEW links, Send(t, c, links) \/ Enter(t, c, links)
  PROVE  \A r \in Requests : outcome'[r] = "answered" => outcome[r] = "answered"
<1>1. ASSUME Send(t, c, links)
      PROVE  \A r \in Requests : outcome'[r] = "answered" => outcome[r] = "answered"
  <2>1. \E q \in Requests : outcome' \in {[outcome EXCEPT ![q] = "pending"],
                                          [outcome EXCEPT ![q] = "raised"]}
    BY <1>1 DEF Send
  <2> QED
    BY <2>1 DEF RpcInv, Types
<1> QED
  BY <1>1 DEF Enter

LEMMA OrderKept ==
  ASSUME RpcInv, OrderInv, RpcInv', [Next]_vars
  PROVE  OrderInv' /\ \A c \in Conns : StaysPoisoned(c)
<1> DEFINE Goal == OrderInv' /\ \A c \in Conns : StaysPoisoned(c)
<1>1. ASSUME OrderInv', KeepsCarrying, current' \in {0, current} \/ current' \notin Sent,
             \A r \in Requests : outcome'[r] = "answered" => outcome[r] = "answered"
      PROVE  Goal
  BY <1>1, CarryingPoisons
<1>2. conn \in 0..MaxConns /\ link \in [Conns -> LinkState] /\ Conns = 1..MaxConns
      /\ 0 \notin Conns
  BY ProcRpcAssumption DEF RpcInv, Types, OrderInv, Conns
<1> HIDE DEF Goal
<1>3. ASSUME NEW t \in Callers, Call(t) PROVE Goal
  <2>1. CASE Enter(t, conn, link)
    <3>1. conn' = conn /\ UNCHANGED <<serving, toClient>>
      BY <1>3 DEF Call
    <3>2. OrderInv' /\ KeepsCarrying /\ (current' = current \/ current' \notin Sent)
      BY <1>2, <2>1, <3>1, EnterKeepsOrder
    <3> QED
      BY <2>1, <3>2, <1>1, EnterAnswersNobody
  <2>2. CASE UNCHANGED <<holder, waiters, current, stream, link, toServer, outcome>>
    <3>1. OrderInv' /\ KeepsCarrying
      BY <1>2, <1>3, <2>2, QuietKeepsOrder DEF Call, Sent
    <3> QED
      BY <2>2, <3>1, <1>1
  <2> QED
    BY <1>3, <2>1, <2>2 DEF Call
<1>4. ASSUME NEW t \in Callers, Connected(t) PROVE Goal
  <2>1. PICK c \in Conns \ Used :
          /\ conn' = c
          /\ \/ Enter(t, c, [link EXCEPT ![c] = "open"])
             \/ conn # 0 /\ Enter(t, c, [[link EXCEPT ![c] = "open"] EXCEPT ![conn] = "closed"])
    BY <1>4 DEF Connected
  <2>2. c \in 0..MaxConns /\ c \in Conns /\ link[c] = "unused"
    BY <2>1, <1>2 DEF Used
  <2>3. UNCHANGED <<serving, toClient>>
    BY <1>4 DEF Connected
  <2>4. ASSUME NEW links \in [Conns -> LinkState], Enter(t, c, links),
               \A d \in Conns : links[d] = "unused" => link[d] = "unused",
               \A d \in Conns \ {c} : links[d] = "open" => link[d] = "open"
        PROVE  Goal
    <3>1. OrderInv' /\ KeepsCarrying /\ (current' = current \/ current' \notin Sent)
      BY <2>1, <2>2, <2>3, <2>4, EnterKeepsOrder
    <3> QED
      BY <2>4, <3>1, <1>1, EnterAnswersNobody
  <2> DEFINE opened == [link EXCEPT ![c] = "open"]
             replaced == [opened EXCEPT ![conn] = "closed"]
  <2>5. /\ opened \in [Conns -> LinkState]
        /\ \A d \in Conns : opened[d] = IF d = c THEN "open" ELSE link[d]
    BY <1>2, <2>2 DEF LinkState
  <2>6. /\ replaced \in [Conns -> LinkState]
        /\ \A d \in Conns : replaced[d] = IF d = conn THEN "closed" ELSE opened[d]
    BY <2>5 DEF LinkState
  <2> HIDE DEF opened, replaced
  <2>7. Enter(t, c, opened) \/ (conn # 0 /\ Enter(t, c, replaced))
    BY <2>1 DEF opened, replaced
  <2> QED
    BY <2>2, <2>4, <2>5, <2>6, <2>7
<1>5. ASSUME NEW t \in Callers, OpenFails(t) PROVE Goal
  <2>1. conn' = 0 /\ UNCHANGED <<toServer, serving, toClient, Sent, link, current,
                                 holder, stream, outcome>>
    BY <1>5 DEF OpenFails, serverVars, Sent
  <2>2. OrderInv' /\ KeepsCarrying
    BY <1>2, <2>1, QuietKeepsOrder
  <2> QED
    BY <2>1, <2>2, <1>1
<1>6. ASSUME NEW t \in Callers, Acquire(t) PROVE Goal
  <2>1. OrderInv' /\ KeepsCarrying /\ (current' = current \/ current' \notin Sent)
    BY <1>2, <1>6, SendKeepsOrder DEF Acquire
  <2> QED
    BY <2>1, <1>6, <1>1, EnterAnswersNobody DEF Acquire
<1>7. ASSUME NEW t \in Callers, ReadFrame(t) PROVE Goal
  BY <1>7, ReadFrameKeepsOrder, ReadFramePoisons DEF Goal
<1>8. ASSUME NEW t \in Callers, ReadEof(t) \/ Timeout(t) PROVE Goal
  <2>1. /\ holder = t /\ current' = 0
        /\ outcome' = [outcome EXCEPT ![current] = "raised"]
        /\ UNCHANGED <<conn, toClient, toServer, serving, link>>
    BY <1>8 DEF ReadEof, Timeout, serverVars, Finish
  <2>2. current \in Requests /\ outcome[current] = "pending"
    BY <2>1, ProcRpcAssumption DEF RpcInv, HolderWaits
  <2>3. /\ Sent' = Sent
        /\ \A r \in Requests : outcome'[r] = "answered" => outcome[r] = "answered"
    BY <2>1, <2>2 DEF Sent, RpcInv, Types
  <2>4. OrderInv' /\ KeepsCarrying
    BY <1>2, <2>1, <2>3, QuietKeepsOrder
  <2> QED
    BY <2>1, <2>3, <2>4, <1>1
<1>9. ASSUME Close PROVE Goal
  <2>1. /\ conn' = 0 /\ link' = [link EXCEPT ![conn] = "closed"]
        /\ UNCHANGED <<toServer, serving, toClient, Sent, current, holder, stream, outcome>>
    BY <1>9 DEF Close, serverVars, Sent
  <2>2. /\ link' \in [Conns -> LinkState]
        /\ \A c \in Conns : link'[c] \in {"unused", "open"} => link'[c] = link[c]
    BY <1>2, <2>1 DEF LinkState
  <2>3. OrderInv' /\ KeepsCarrying
    BY <2>1, <2>2, QuietKeepsOrder
  <2> QED
    BY <2>1, <2>3, <1>1
<1>10. ASSUME NEW c \in Conns, Service(c) PROVE Goal
  <2>1. UNCHANGED <<current, outcome>>
    BY <1>10 DEF Service, Serve, Emit, Respond, clientVars
  <2>2. CASE Serve(c)
    BY <2>1, <2>2, ServeKeepsOrder, <1>1
  <2>3. CASE Emit(c)
    <3>1. OrderInv' /\ KeepsCarrying
      BY <2>3, WriteKeepsOrder DEF Emit, clientVars
    <3> QED
      BY <2>1, <3>1, <1>1
  <2>4. CASE Respond(c)
    <3>1. OrderInv' /\ KeepsCarrying
      BY <2>4, WriteKeepsOrder DEF Respond, clientVars
    <3> QED
      BY <2>1, <3>1, <1>1
  <2> QED
    BY <1>10, <2>2, <2>3, <2>4 DEF Service
<1>11. ASSUME Crash PROVE Goal
  BY <1>11, CrashKeepsOrder, <1>1 DEF Crash, clientVars
<1>12. ASSUME UNCHANGED <<conn, holder, current, stream, link, toServer, serving,
                          toClient, outcome>>
       PROVE  Goal
  <2>1. OrderInv' /\ KeepsCarrying
    BY <1>2, <1>12, QuietKeepsOrder DEF Sent
  <2> QED
    BY <2>1, <1>12, <1>1
<1>13. ASSUME Recover PROVE Goal
  BY <1>12, <1>13 DEF Recover, clientVars, serverVars
<1>14. ASSUME UNCHANGED vars PROVE Goal
  BY <1>12, <1>14 DEF vars
<1>15. Goal
  BY <1>3, <1>4, <1>5, <1>6, <1>7, <1>8, <1>9, <1>10, <1>11, <1>13, <1>14 DEF Next
<1> QED
  BY <1>15 DEF Goal

LEMMA OrderInvHolds == Spec => []OrderInv
<1>1. Init => OrderInv
  <2> SUFFICES ASSUME Init PROVE OrderInv
    OBVIOUS
  <2>1. /\ link \in [Conns -> LinkState] /\ current = 0 /\ Sent = {}
        /\ \A c \in Conns : Nothing(c)
    BY DEF Init, LinkState, Sent, Nothing
  <2>2. \A c \in Conns : InOrder(c)
    BY <2>1 DEF InOrder, Nothing
  <2> QED
    BY <2>1, <2>2 DEF OrderInv, DrawnInOrder, AnswerComes
<1>2. RpcInv /\ RpcInv' /\ OrderInv /\ [Next]_vars => OrderInv'
  BY OrderKept
<1> QED
  BY <1>1, <1>2, RpcInvHolds, PTL DEF Spec

(* A connection with something left from a request that gave up answers    *)
(* nobody any more: every later request on it reads one stale frame,       *)
(* raises, and leaves its own frames behind, until the connection is       *)
(* closed by a crash, a write that fails or a new connection.              *)
THEOREM AbandonedIsPoisoned == Spec => PoisonedUntilReplaced
<1>1. RpcInv /\ RpcInv' /\ OrderInv /\ [Next]_vars =>
        [\A c \in Conns :
           link[c] = "open" /\ Stale(c) =>
             ~AnswersOn(c) /\ (link'[c] = "open" => Stale(c)')]_vars
  BY OrderKept DEF StaysPoisoned
<1> QED
  BY <1>1, RpcInvHolds, OrderInvHolds, PTL DEF Spec, PoisonedUntilReplaced
=============================================================================

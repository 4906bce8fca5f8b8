------------------------------- MODULE ProcRpc -------------------------------
(***************************************************************************)
(* One ProcClient (shared/proc_rpc.py) shared by several asyncio tasks,    *)
(* and the NDJSONService (shared/service_base.py, run_tcp) it talks to.    *)
(*                                                                         *)
(* A request makes sure there is a connection, queues for the client's     *)
(* lock, writes a frame with a fresh id and reads frames until the answer  *)
(* with that id, for at most request_timeout_sec per frame.  A request     *)
(* that gives up leaves the connection as it is, with the service still    *)
(* at work on it.  Tasks interleave only where they wait: for a connection *)
(* to open, for the lock, for a frame.                                     *)
(*                                                                         *)
(* The link of a connection, as the client's transport knows it:           *)
(*   "open"    working, as far as the transport can tell                   *)
(*   "eof"     the peer has closed its end; asyncio keeps ours half open   *)
(*   "broken"  something was written since: the next write will fail       *)
(*   "closed"  is_closing(): the next start() opens another connection     *)
(* The requests a task sends carry payloads that do not matter here; ids   *)
(* are numbers instead of uuids, drawn in the order of use.                *)
(***************************************************************************)
EXTENDS Naturals, Sequences, FiniteSets

CONSTANTS
  Callers,      \* the tasks that share the client
  Nobody,       \* no task
  MaxRequests,  \* bound: requests in all
  MaxConns,     \* bound: connections in all
  MaxEvents,    \* bound: events that a handler emits before its answer
  MaxCrashes    \* bound: crashes of the service

ASSUME ProcRpcAssumption ==
  /\ Nobody \notin Callers
  /\ MaxRequests \in Nat /\ MaxConns \in Nat
  /\ MaxEvents \in Nat /\ MaxCrashes \in Nat

Requests == 1..MaxRequests
Conns == 1..MaxConns

VARIABLES
  conn,      \* self.reader and self.writer: the current connection, or 0
  holder,    \* who holds self._lock
  waiters,   \* who waits for it, first come first served
  phase,     \* what each caller is doing
  current,   \* the id of the request of the lock's holder, else 0
  stream,    \* the connection whose reader the holder is waiting on
  link,      \* the connections, seen from the client
  toServer,  \* frames on their way to the service
  serving,   \* the request whose handler runs, per connection, or 0
  emitted,   \* how many events that handler has sent
  toClient,  \* frames on their way to the client, or in the reader's buffer
  up,        \* is the service listening
  crashes,
  outcome,   \* history: how each request ended
  executed   \* history: how often the handler of each request has started

clientVars == <<conn, holder, waiters, phase, current, stream>>
serverVars == <<toServer, serving, emitted, executed>>
vars == <<conn, holder, waiters, phase, current, stream, link, toServer,
          serving, emitted, toClient, up, crashes, outcome, executed>>
-----------------------------------------------------------------------------
Frame == [id : Requests, kind : {"event", "answer"}]

Used == {c \in Conns : link[c] # "unused"}
Sent == {r \in Requests : outcome[r] # "none"}
Connecting == {t \in Callers : phase[t] = "connecting"}

(* Room within the bounds for one more call. *)
Room ==
  Cardinality(Sent) + Cardinality({t \in Callers : phase[t] \in {"connecting", "waiting"}})
    < MaxRequests

Usable(c) == c # 0 /\ link[c] # "closed"

(* The request raises, or returns: async with gives the lock back. *)
Finish(t, result) ==
  /\ outcome' = [outcome EXCEPT ![current] = result]
  /\ phase' = [phase EXCEPT ![t] = "idle"]
  /\ holder' = Nobody
  /\ current' = 0
  /\ stream' = 0

(* Under the lock: draw an id, write the frame, begin to read.  A write to *)
(* a transport that has been reset raises; the first one after the peer    *)
(* closed is swallowed.                                                    *)
Send(t, c, links) ==
  \E r \in Requests \ Sent :
    /\ \A s \in Requests \ Sent : r <= s
    /\ IF c # 0 /\ links[c] \in {"open", "eof"}
       THEN /\ outcome' = [outcome EXCEPT ![r] = "pending"]
            /\ phase' = [phase EXCEPT ![t] = "reading"]
            /\ holder' = t
            /\ current' = r
            /\ stream' = c
            /\ IF links[c] = "open"
               THEN /\ toServer' = [toServer EXCEPT ![c] = Append(@, r)]
                    /\ link' = links
               ELSE /\ link' = [links EXCEPT ![c] = "broken"]
                    /\ UNCHANGED toServer
       ELSE /\ outcome' = [outcome EXCEPT ![r] = "raised"]
            /\ phase' = [phase EXCEPT ![t] = "idle"]
            /\ link' = IF c = 0 THEN links ELSE [links EXCEPT ![c] = "closed"]
            /\ holder' = Nobody
            /\ UNCHANGED <<current, stream, toServer>>

(* start() has returned, with connection c current: queue for the lock. *)
Enter(t, c, links) ==
  \/ /\ holder = Nobody /\ waiters = <<>>
     /\ Send(t, c, links)
     /\ UNCHANGED waiters
  \/ /\ holder # Nobody \/ waiters # <<>>
     /\ waiters' = Append(waiters, t)
     /\ phase' = [phase EXCEPT ![t] = "waiting"]
     /\ link' = links
     /\ UNCHANGED <<holder, current, stream, toServer, outcome>>
-----------------------------------------------------------------------------
Init ==
  /\ conn = 0 /\ holder = Nobody /\ waiters = <<>>
  /\ phase = [t \in Callers |-> "idle"]
  /\ current = 0 /\ stream = 0
  /\ link = [c \in Conns |-> "unused"]
  /\ toServer = [c \in Conns |-> <<>>]
  /\ serving = [c \in Conns |-> 0]
  /\ emitted = [c \in Conns |-> 0]
  /\ toClient = [c \in Conns |-> <<>>]
  /\ up = "up" /\ crashes = 0
  /\ outcome = [r \in Requests |-> "none"]
  /\ executed = [r \in Requests |-> 0]

(* request(): a connection that is there is used, or one is opened. *)
Call(t) ==
  /\ phase[t] = "idle"
  /\ Room
  /\ \/ Usable(conn) /\ Enter(t, conn, link)
     \/ /\ ~Usable(conn)
        /\ Cardinality(Used) + Cardinality(Connecting) < MaxConns
        /\ phase' = [phase EXCEPT ![t] = "connecting"]
        /\ UNCHANGED <<holder, waiters, current, stream, link, toServer,
                       outcome>>
  /\ UNCHANGED <<conn, serving, emitted, executed, toClient, up, crashes>>

(* open_connection succeeded; it replaces whatever another task has put    *)
(* there in the meantime, which some Python versions then close.           *)
Connected(t) ==
  /\ phase[t] = "connecting"
  /\ up = "up"
  /\ \E c \in Conns \ Used :
       /\ \A d \in Conns \ Used : c <= d
       /\ conn' = c
       /\ LET links == [link EXCEPT ![c] = "open"]
          IN  \/ Enter(t, c, links)
              \/ /\ conn # 0
                 /\ Enter(t, c, [links EXCEPT ![conn] = "closed"])
  /\ UNCHANGED <<serving, emitted, executed, toClient, up, crashes>>

(* Nobody listens: reader and writer are forgotten, whosever they are. *)
OpenFails(t) ==
  /\ phase[t] = "connecting"
  /\ up = "down"
  /\ conn' = 0
  /\ phase' = [phase EXCEPT ![t] = "idle"]
  /\ UNCHANGED <<holder, waiters, current, stream, link, toClient, up, crashes>>
  /\ UNCHANGED serverVars /\ UNCHANGED outcome

Acquire(t) ==
  /\ holder = Nobody
  /\ waiters # <<>> /\ Head(waiters) = t
  /\ waiters' = Tail(waiters)
  /\ Send(t, conn, link)
  /\ UNCHANGED <<conn, serving, emitted, executed, toClient, up, crashes>>

(* Mutant: frames of other requests are skipped. *)
TakeFrame_Skip(t, f) ==
  IF f.id # current \/ f.kind = "event"
  THEN /\ stream' = conn
       /\ UNCHANGED <<holder, phase, current, outcome>>
  ELSE Finish(t, "answered")

(* A frame of another request raises; an event means to go on reading,     *)
(* from the reader that self.reader then is; the rest is the answer.       *)
TakeFrame(t, f) ==
  \/ f.id # current /\ Finish(t, "raised")
  \/ /\ f.id = current /\ f.kind = "event" /\ conn # 0
     /\ stream' = conn
     /\ UNCHANGED <<holder, phase, current, outcome>>
  \/ /\ f.id = current /\ f.kind = "event" /\ conn = 0
     /\ Finish(t, "raised")
  \/ f.id = current /\ f.kind = "answer" /\ Finish(t, "answered")

ReadFrame(t) ==
  /\ holder = t /\ phase[t] = "reading"
  /\ toClient[stream] # <<>>
  /\ toClient' = [toClient EXCEPT ![stream] = Tail(@)]
  /\ TakeFrame(t, Head(toClient[stream]))
  /\ UNCHANGED <<conn, waiters, link, up, crashes>>
  /\ UNCHANGED serverVars

(* The buffer is empty and nothing more will come. *)
ReadEof(t) ==
  /\ holder = t /\ phase[t] = "reading"
  /\ toClient[stream] = <<>>
  /\ link[stream] \in {"eof", "broken", "closed"}
  /\ Finish(t, "raised")
  /\ UNCHANGED <<conn, waiters, link, toClient, up, crashes>>
  /\ UNCHANGED serverVars

(* Mutants: reads wait for ever; a request that times out is sent again. *)
Timeout_Never(t) ==
  FALSE /\ Finish(t, "raised") /\ UNCHANGED <<conn, waiters>>
Timeout_Retry(t) ==
  /\ holder = t /\ phase[t] = "reading"
  /\ link[stream] = "open" /\ toClient[stream] = <<>>
  /\ toServer' = [toServer EXCEPT ![stream] = Append(@, current)]
  /\ UNCHANGED <<link, toClient, up, crashes, serving, emitted, executed>>
  /\ UNCHANGED clientVars /\ UNCHANGED outcome

(* request_timeout_sec passed without a frame. *)
Timeout(t) ==
  /\ holder = t /\ phase[t] = "reading"
  /\ toClient[stream] = <<>>
  /\ Finish(t, "raised")
  /\ UNCHANGED <<conn, waiters, link, toClient, up, crashes>>
  /\ UNCHANGED serverVars

(* close(), by the only task that uses the client. *)
Close ==
  /\ conn # 0
  /\ \A t \in Callers : phase[t] = "idle"
  /\ conn' = 0
  /\ link' = [link EXCEPT ![conn] = "closed"]
  /\ UNCHANGED <<holder, waiters, phase, current, stream, toClient, up, crashes>>
  /\ UNCHANGED serverVars /\ UNCHANGED outcome
-----------------------------------------------------------------------------
(* handle_client reads the next line and dispatches it: one at a time. *)
Serve(c) ==
  /\ serving[c] = 0
  /\ toServer[c] # <<>>
  /\ serving' = [serving EXCEPT ![c] = Head(toServer[c])]
  /\ toServer' = [toServer EXCEPT ![c] = Tail(@)]
  /\ emitted' = [emitted EXCEPT ![c] = 0]
  /\ executed' = [executed EXCEPT ![Head(toServer[c])] = @ + 1]
  /\ UNCHANGED <<link, toClient, up, crashes>>
  /\ UNCHANGED clientVars /\ UNCHANGED outcome

(* write_frame; what is written to a connection the client has closed is lost. *)
WriteFrame(c, kind) ==
  toClient' = IF link[c] = "open"
              THEN [toClient EXCEPT ![c] = Append(@, [id |-> serving[c], kind |-> kind])]
              ELSE toClient

Emit(c) ==
  /\ serving[c] # 0
  /\ emitted[c] < MaxEvents
  /\ WriteFrame(c, "event")
  /\ emitted' = [emitted EXCEPT ![c] = @ + 1]
  /\ UNCHANGED <<link, toServer, serving, executed, up, crashes>>
  /\ UNCHANGED clientVars /\ UNCHANGED outcome

(* The handler returned or raised: ok_response or error_response. *)
Respond(c) ==
  /\ serving[c] # 0
  /\ WriteFrame(c, "answer")
  /\ serving' = [serving EXCEPT ![c] = 0]
  /\ UNCHANGED <<link, toServer, emitted, executed, up, crashes>>
  /\ UNCHANGED clientVars /\ UNCHANGED outcome

(* The service dies.  Its connections end in an orderly way, or reset, in  *)
(* which case the reader reports the exception and not what it has.        *)
Crash ==
  /\ up = "up" /\ crashes < MaxCrashes
  /\ up' = "down" /\ crashes' = crashes + 1
  /\ toServer' = [c \in Conns |-> <<>>]
  /\ serving' = [c \in Conns |-> 0]
  /\ \E reset \in SUBSET {c \in Conns : link[c] = "open"} :
       /\ link' = [c \in Conns |-> IF c \in reset THEN "closed"
                                   ELSE IF link[c] = "open" THEN "eof"
                                   ELSE link[c]]
       /\ toClient' = [c \in Conns |-> IF c \in reset THEN <<>> ELSE toClient[c]]
  /\ UNCHANGED <<emitted, executed>>
  /\ UNCHANGED clientVars /\ UNCHANGED outcome

Recover ==
  /\ up = "down"
  /\ up' = "up"
  /\ UNCHANGED <<link, toClient, crashes>>
  /\ UNCHANGED clientVars /\ UNCHANGED serverVars /\ UNCHANGED outcome
-----------------------------------------------------------------------------
Service(c) == Serve(c) \/ Emit(c) \/ Respond(c)

Next ==
  \/ \E t \in Callers : Call(t)
  \/ \E t \in Callers : Connected(t)
  \/ \E t \in Callers : OpenFails(t)
  \/ \E t \in Callers : Acquire(t)
  \/ \E t \in Callers : ReadFrame(t)
  \/ \E t \in Callers : ReadEof(t)
  \/ \E t \in Callers : Timeout(t)
  \/ Close
  \/ \E c \in Conns : Service(c)
  \/ Crash
  \/ Recover

Spec == Init /\ [][Next]_vars

(* The client's event loop runs what can run, open_connection to localhost *)
(* succeeds or fails, and wait_for ends every read.  Nothing is asked of   *)
(* the service, which may be stuck or gone.                                *)
Fairness ==
  \A t \in Callers :
    /\ WF_vars(Connected(t) \/ OpenFails(t))
    /\ WF_vars(Acquire(t))
    /\ WF_vars(ReadFrame(t) \/ ReadEof(t) \/ Timeout(t))

FairSpec == Spec /\ Fairness
-----------------------------------------------------------------------------
LinkState == {"unused", "open", "eof", "broken", "closed"}

TypeOK ==
  /\ conn \in 0..MaxConns
  /\ holder \in Callers \cup {Nobody}
  /\ waiters \in Seq(Callers)
  /\ phase \in [Callers -> {"idle", "connecting", "waiting", "reading"}]
  /\ current \in 0..MaxRequests
  /\ stream \in 0..MaxConns
  /\ link \in [Conns -> LinkState]
  /\ toServer \in [Conns -> Seq(Requests)]
  /\ serving \in [Conns -> 0..MaxRequests]
  /\ emitted \in [Conns -> 0..MaxEvents]
  /\ toClient \in [Conns -> Seq(Frame)]
  /\ up \in {"up", "down"}
  /\ crashes \in 0..MaxCrashes
  /\ outcome \in [Requests -> {"none", "pending", "answered", "raised"}]
  /\ executed \in [Requests -> Nat]

(* What connection c still owes for requests that nobody waits for. *)
Stale(c) ==
  \/ serving[c] \notin {0, current}
  \/ \E i \in 1..Len(toServer[c]) : toServer[c][i] # current
  \/ \E i \in 1..Len(toClient[c]) : toClient[c][i].id # current

(* A connection that a request has abandoned never serves another again:   *)
(* each request that comes after reads one frame of its predecessors and   *)
(* raises ProtocolError, leaving its own frames behind.  Nothing but a new *)
(* connection helps (request() lines 175-181 raise without closing).       *)
AnswersOn(c) ==
  \E r \in Requests :
    outcome[r] = "pending" /\ outcome'[r] = "answered" /\ stream = c

PoisonedUntilReplaced ==
  [][\A c \in Conns :
       link[c] = "open" /\ Stale(c) =>
         ~AnswersOn(c) /\ (link'[c] = "open" => Stale(c)')]_vars

(* Every call comes to an end, even if the service never answers and the   *)
(* callers before it have to time out first.                               *)
CallEnds == \A t \in Callers : phase[t] # "idle" ~> phase[t] = "idle"

(* Requests through the client are the requests of AtomicRpc. *)
Atomic == INSTANCE AtomicRpc

ImplementsAtomicRpc == Atomic!Spec
=============================================================================

----------------------------- MODULE CodexHost -----------------------------
(***************************************************************************)
(* The codex-mcp-host service: the session operations of                   *)
(* services/ai_worker/service.py, shared/codex_session_manager.py and      *)
(* shared/session_registry.py, and the runtime that owns the one           *)
(* `codex mcp-server` process (shared/codex_mcp/runtime.py and client.py). *)
(*                                                                         *)
(* A handler is what serves one connection: it runs one request at a time  *)
(* (service_base.py, handle_client), and runs on when its client goes      *)
(* away.  The gateway and the scheduler have a connection each; a gateway  *)
(* that restarted during a turn has a second one.  Handlers interleave     *)
(* where they await: the runtime's lock, the client's request lock, the    *)
(* start and the stop of the server, and its answers.  The registry is     *)
(* read and written without awaiting.                                      *)
(*                                                                         *)
(* Left out: the text of prompts and answers (a conversation is hydrated   *)
(* or not), the registry's timestamps, status and task references, which   *)
(* no decision reads, and the server's own requests to its client.         *)
(***************************************************************************)
EXTENDS Naturals, Sequences, FiniteSets

CONSTANTS
  Handlers,     \* connections to the host
  Sessions,     \* session keys
  NoThread,     \* thread_id None
  Nobody,       \* the holder of a lock that is free
  MaxRequests,  \* bound: requests the clients make
  MaxFaults,    \* bound: servers that die or do not start, host restarts
  MaxEmpty      \* bound: answers without text

ASSUME CodexHostAssumption ==
  /\ Nobody \notin Handlers
  /\ NoThread \notin Nat
  /\ MaxRequests \in Nat
  /\ MaxFaults \in Nat
  /\ MaxEmpty \in Nat

VARIABLES
  bound,     \* sessions.json: the thread_id of each session
  client,    \* runtime.client, "none" or "set"
  servers,   \* the server process of each client there has been
  lock,      \* the runtime's _lock
  handler,   \* what each handler is doing
  threads,   \* the conversations the servers hold; a thread id is a position
  epoch,     \* how many times the host has restarted
  used       \* how much of each bound is used up

vars == <<bound, client, servers, lock, handler, threads, epoch, used>>
-----------------------------------------------------------------------------
(* "hydrating" is codex.session.ensure with hydrate = True.                *)
Op == {"ensure", "hydrating", "hydrate", "send"}

(* "ensure" waits for the runtime's lock to look whether there is a client, *)
(* "request" for the client's request lock, "flying" for the answer, and    *)
(* "stop" for the runtime's lock in order to stop it.                       *)
Phase == {"idle", "ensure", "starting", "request", "flying", "stop",
          "stopping"}

MaxServers == MaxRequests + MaxEmpty

ThreadId == 1..(MaxRequests + MaxEmpty)

(* gen is the client (and server) a handler talks to; sent the servers its  *)
(* prompt has gone to, retried that it is past the auth refresh.            *)
HandlerState ==
  [phase : Phase, op : Op, session : Sessions, thread : ThreadId \cup {NoThread},
   gen : 0..MaxServers, sent : SUBSET (1..MaxServers), retried : {"no", "yes"}]

Thread == [session : Sessions, gen : 1..MaxServers, hydrated : {"no", "yes"},
           epoch : 0..MaxFaults, users : SUBSET Sessions]

Alive == {"starting", "up", "closing"}

Newest == Len(servers)
Idle(s) == [phase |-> "idle", op |-> "send", session |-> s, thread |-> NoThread,
            gen |-> 0, sent |-> {}, retried |-> "no"]
Goto(h, p) == [handler EXCEPT ![h].phase = p]
Finished(h) == [handler EXCEPT ![h] = Idle(@.session)]
FaultLeft == used.faults < MaxFaults
Spend(kind) == used' = [used EXCEPT ![kind] = @ + 1]

Init ==
  /\ bound = [s \in Sessions |-> NoThread]
  /\ client = "none"
  /\ servers = <<>>
  /\ lock = Nobody
  /\ \E s \in Sessions : handler = [h \in Handlers |-> Idle(s)]
  /\ threads = <<>>
  /\ epoch = 0
  /\ used = [requests |-> 0, faults |-> 0, empty |-> 0]

(* A request arrives.  All but hydrate read the session's record before    *)
(* they wait for the runtime, and decide by that record afterwards.        *)
Request(h, op, s) ==
  /\ handler[h].phase = "idle"
  /\ used.requests < MaxRequests
  /\ handler' = [handler EXCEPT ![h] =
       [phase |-> "ensure", op |-> op, session |-> s,
        thread |-> IF op = "hydrate" THEN NoThread ELSE bound[s],
        gen |-> 0, sent |-> {}, retried |-> "no"]]
  /\ Spend("requests")
  /\ UNCHANGED <<bound, client, servers, lock, threads, epoch>>

(* codex.session.invalidate; it does not await.                            *)
Invalidate(h, s) ==
  /\ handler[h].phase = "idle"
  /\ used.requests < MaxRequests
  /\ bound' = [bound EXCEPT ![s] = NoThread]
  /\ Spend("requests")
  /\ UNCHANGED <<client, servers, lock, handler, threads, epoch>>

(* ensure_session has no more to do when it is not to hydrate, or when the *)
(* record it read has a thread.                                            *)
NeedsConversation(r) ==
  \/ r.op \in {"send", "hydrate"}
  \/ r.op = "hydrating" /\ r.thread = NoThread

Proceed(h) ==
  handler' = IF NeedsConversation(handler[h])
    THEN [handler EXCEPT ![h].phase = "request", ![h].gen = Len(servers')]
    ELSE Finished(h)

(* ensure_started, there is a client.  It is not asked how it is.          *)
FindClient(h) ==
  /\ handler[h].phase = "ensure"
  /\ lock = Nobody
  /\ client = "set"
  /\ UNCHANGED servers
  /\ Proceed(h)
  /\ UNCHANGED <<bound, client, lock, threads, epoch, used>>

(* ensure_started, there is none: the client is assigned before it starts. *)
StartClient(h) ==
  /\ handler[h].phase = "ensure"
  /\ lock = Nobody
  /\ client = "none"
  /\ lock' = h
  /\ client' = "set"
  /\ servers' = Append(servers, "starting")
  /\ handler' = Goto(h, "starting")
  /\ UNCHANGED <<bound, threads, epoch, used>>

Started(h) ==
  /\ handler[h].phase = "starting"
  /\ servers' = [servers EXCEPT ![Newest] = "up"]
  /\ lock' = Nobody
  /\ Proceed(h)
  /\ UNCHANGED <<bound, client, threads, epoch, used>>

(* The process cannot be spawned or ends during the handshake ("gone"), or *)
(* it offers the wrong tools ("up").  The exception passes ensure_started, *)
(* which lets go of the lock and keeps the client.                         *)
StartFails(h, left) ==
  /\ handler[h].phase = "starting"
  /\ FaultLeft
  /\ servers' = [servers EXCEPT ![Newest] = left]
  /\ lock' = Nobody
  /\ handler' = Finished(h)
  /\ Spend("faults")
  /\ UNCHANGED <<bound, client, threads, epoch>>

(* The request lock belongs to the client, and is held until the answer.   *)
RequestLockFree(g) ==
  \A h \in Handlers : ~(handler[h].phase = "flying" /\ handler[h].gen = g)

Send(h) ==
  LET g == handler[h].gen IN
  /\ handler[h].phase = "request"
  /\ RequestLockFree(g)
  /\ servers[g] = "up"
  /\ handler' = [handler EXCEPT ![h].phase = "flying",
                                ![h].sent = @ \cup {g}]
  /\ UNCHANGED <<bound, client, servers, lock, threads, epoch, used>>

(* The client was stopped or its process has ended: CodexMCPError.         *)
SendFails(h) ==
  LET g == handler[h].gen IN
  /\ handler[h].phase = "request"
  /\ RequestLockFree(g)
  /\ servers[g] \in {"closing", "gone"}
  /\ handler' = Finished(h)
  /\ UNCHANGED <<bound, client, servers, lock, threads, epoch, used>>

(* The stream ends, or proc is None when the next line is to be read.      *)
(* Mutant: the end of the stream is not noticed.                           *)
AnswerLost_NotAtEnd(h) ==
  /\ handler[h].phase = "flying"
  /\ servers[handler[h].gen] = "closing"
  /\ handler' = Finished(h)
  /\ UNCHANGED <<bound, client, servers, lock, threads, epoch, used>>
AnswerLost(h) ==
  /\ handler[h].phase = "flying"
  /\ servers[handler[h].gen] \in {"closing", "gone"}
  /\ handler' = Finished(h)
  /\ UNCHANGED <<bound, client, servers, lock, threads, epoch, used>>
-----------------------------------------------------------------------------
(* The tool a request calls: codex for a new conversation, else            *)
(* codex-reply with the thread id of the record that was read.             *)
IsReply(r) == r.op = "send" /\ r.thread # NoThread

(* hydrate_session starts a conversation with the hydration prompt,        *)
(* send_message with the message.                                          *)
NewThread(r) ==
  [session |-> r.session, gen |-> r.gen, epoch |-> epoch,
   hydrated |-> IF r.op = "send" THEN "no" ELSE "yes",
   users |-> {r.session}]

(* bind_thread *)
Bind(r) == bound' = [bound EXCEPT ![r.session] = Len(threads')]

Opened(h) ==
  LET r == handler[h] IN
  /\ ~IsReply(r)
  /\ threads' = Append(threads, NewThread(r))
  /\ Bind(r)

(* The server knows the threads it has opened itself.                      *)
Continued(h) ==
  LET r == handler[h] IN
  /\ IsReply(r)
  /\ threads[r.thread].gen = r.gen
  /\ threads' = [threads EXCEPT ![r.thread].users = @ \cup {r.session}]
  /\ UNCHANGED bound

(* The answer is in.  It has text, or is an error (isError: no thread is   *)
(* bound and none invalidated); an error is also what a thread the server  *)
(* does not know gets.                                                     *)
CanAnswer(h) ==
  /\ handler[h].phase = "flying"
  /\ servers[handler[h].gen] \in {"up", "closing"}

Answer(h) ==
  /\ CanAnswer(h)
  /\ handler' = Finished(h)
  /\ Opened(h) \/ Continued(h) \/ UNCHANGED <<threads, bound>>
  /\ UNCHANGED <<client, servers, lock, epoch, used>>

(* codex_session_send gets an answer without text.  When Codex is logged   *)
(* in the runtime is stopped, so that a new server reads the credentials,  *)
(* and the message is sent once more; else the request ends.               *)
EmptyAnswer(h) ==
  /\ CanAnswer(h)
  /\ handler[h].op = "send"
  /\ used.empty < MaxEmpty
  /\ Opened(h) \/ Continued(h)
  /\ \E p \in {"stop", "idle"} :
       /\ p = "stop" => handler[h].retried = "no"
       /\ handler' = IF p = "stop" THEN Goto(h, p) ELSE Finished(h)
  /\ Spend("empty")
  /\ UNCHANGED <<client, servers, lock, epoch>>

(* runtime.stop: client.stop terminates the process and waits for it.      *)
StopRuntime(h) ==
  /\ handler[h].phase = "stop"
  /\ lock = Nobody
  /\ lock' = h
  /\ servers' = IF client = "set" /\ servers[Newest] = "up"
                  THEN [servers EXCEPT ![Newest] = "closing"] ELSE servers
  /\ handler' = Goto(h, "stopping")
  /\ UNCHANGED <<bound, client, threads, epoch, used>>

(* The process has ended: there is no client, this session's thread is     *)
(* invalidated, and send_message begins again.  Mutants: the process is    *)
(* not waited for; the runtime is kept and only the thread is dropped.     *)
Retry(h) ==
  handler' = [handler EXCEPT ![h].phase = "ensure", ![h].thread = NoThread,
                             ![h].retried = "yes"]
Stopped_NotWaited(h) ==
  /\ handler[h].phase = "stopping"
  /\ client' = "none"
  /\ lock' = Nobody
  /\ bound' = [bound EXCEPT ![handler[h].session] = NoThread]
  /\ Retry(h)
  /\ UNCHANGED <<servers, threads, epoch, used>>
Stopped_RuntimeKept(h) ==
  /\ handler[h].phase = "stopping"
  /\ servers' = [servers EXCEPT ![Newest] = IF @ = "closing" THEN "up" ELSE @]
  /\ lock' = Nobody
  /\ bound' = [bound EXCEPT ![handler[h].session] = NoThread]
  /\ Retry(h)
  /\ UNCHANGED <<client, threads, epoch, used>>
Stopped(h) ==
  /\ handler[h].phase = "stopping"
  /\ servers' = [servers EXCEPT ![Newest] = IF client = "set" THEN "gone" ELSE @]
  /\ client' = "none"
  /\ lock' = Nobody
  /\ bound' = [bound EXCEPT ![handler[h].session] = NoThread]
  /\ Retry(h)
  /\ UNCHANGED <<threads, epoch, used>>
-----------------------------------------------------------------------------
(* The server process ends by itself.                                      *)
ServerDies ==
  /\ FaultLeft
  /\ servers # <<>>
  /\ servers[Newest] = "up"
  /\ servers' = [servers EXCEPT ![Newest] = "gone"]
  /\ Spend("faults")
  /\ UNCHANGED <<bound, client, lock, handler, threads, epoch>>

(* The host restarts: its handlers die, the server's stdin closes, and the *)
(* new CodexSessionManager marks every session's thread as stale.  That    *)
(* the server is gone in the same step is an idealisation: it ends when it *)
(* reads the end of its input, and its threads are lost to the new host in *)
(* any case.  Mutant: the threads are not marked.                          *)
Restart_ThreadsKept ==
  /\ FaultLeft
  /\ handler' = [h \in Handlers |-> Idle(handler[h].session)]
  /\ client' = "none"
  /\ servers' = [g \in DOMAIN servers |-> "gone"]
  /\ lock' = Nobody
  /\ epoch' = epoch + 1
  /\ Spend("faults")
  /\ UNCHANGED <<bound, threads>>
Restart ==
  /\ FaultLeft
  /\ handler' = [h \in Handlers |-> Idle(handler[h].session)]
  /\ client' = "none"
  /\ servers' = [g \in DOMAIN servers |-> "gone"]
  /\ lock' = Nobody
  /\ bound' = [s \in Sessions |-> NoThread]
  /\ epoch' = epoch + 1
  /\ Spend("faults")
  /\ UNCHANGED threads

(* What a handler does by itself once a request has arrived.               *)
Run(h) ==
  \/ FindClient(h) \/ StartClient(h) \/ Started(h)
  \/ Send(h) \/ SendFails(h) \/ AnswerLost(h) \/ Answer(h)
  \/ StopRuntime(h) \/ Stopped(h)

Next ==
  \/ \E h \in Handlers :
       \/ \E op \in Op, s \in Sessions : Request(h, op, s)
       \/ \E s \in Sessions : Invalidate(h, s)
       \/ Run(h)
       \/ EmptyAnswer(h)
       \/ \E left \in {"gone", "up"} : StartFails(h, left)
  \/ ServerDies
  \/ Restart

Spec == Init /\ [][Next]_vars

(* The event loop runs every handler that can run, and a server that is up *)
(* answers: a turn that never ends is ended by the host's restart.         *)
FairSpec == Spec /\ \A h \in Handlers : WF_vars(Run(h))
-----------------------------------------------------------------------------
(* Everything has the shape its comment gives it, and the runtime's lock   *)
(* is held exactly by the handler that starts or stops the runtime.        *)
TypeOK ==
  /\ bound \in [Sessions -> ThreadId \cup {NoThread}]
  /\ client \in {"none", "set"}
  /\ servers \in Seq(Alive \cup {"gone"}) /\ Newest <= MaxServers
  /\ lock \in Handlers \cup {Nobody}
  /\ handler \in [Handlers -> HandlerState]
  /\ threads \in Seq(Thread) /\ Len(threads) <= MaxRequests + MaxEmpty
  /\ epoch \in 0..MaxFaults
  /\ used \in [requests : 0..MaxRequests, faults : 0..MaxFaults,
               empty : 0..MaxEmpty]
  /\ \A h \in Handlers :
       lock = h <=> handler[h].phase \in {"starting", "stopping"}

(* sessions.json never names a thread from before the last restart of the  *)
(* host, nor another session's thread: the restart marks every session, a  *)
(* request that was in flight then binds nothing afterwards, and what a    *)
(* handler binds when its answer comes is its own session's.               *)
BoundThreadsAreCurrent ==
  \A s \in Sessions : bound[s] # NoThread =>
    /\ bound[s] \in DOMAIN threads
    /\ threads[bound[s]].session = s
    /\ threads[bound[s]].epoch = epoch

(* There is never a second `codex mcp-server` process: neither two         *)
(* handlers that find no client at once nor one that stops the runtime     *)
(* while others use it leave two of them.                                  *)
OneServer ==
  Cardinality({g \in DOMAIN servers : servers[g] \in Alive}) <= 1

(* A message is sent to one server process at most once: the second try    *)
(* after an answer without text goes to a server that started since, even  *)
(* when other handlers stop and start the runtime in between.              *)
OncePerServer ==
  [][\A h \in Handlers :
       handler[h].phase = "request" /\ handler'[h].phase = "flying" =>
         handler[h].gen \notin handler[h].sent]_vars

(* Every request the host takes up ends, with an answer, an error or the   *)
(* end of the host, whatever the other handlers and the server do: no lock *)
(* stays held and no answer is waited for that cannot come.                *)
RequestEnds ==
  \A h \in Handlers : handler[h].phase # "idle" ~> handler[h].phase = "idle"

(* "MCP `threadId` values are treated as process-lifetime handles.  After  *)
(* a runtime restart, old thread IDs are assumed stale"                    *)
(* (tasks/codex_mcp_architecture_contract.md:25): no message is sent to a  *)
(* thread of a server that has been replaced.                              *)
StaleThreadsAreNotUsed ==
  [][\A h \in Handlers :
       handler[h].phase = "request" /\ handler'[h].phase = "flying"
         /\ IsReply(handler[h]) =>
       threads[handler[h].thread].gen = handler[h].gen]_vars

(* "the new thread must be hydrated from repo-backed summaries, tasks, and *)
(* memory" (tasks/codex_mcp_architecture_contract.md:110): a thread opened *)
(* after a restart, for a session that had one before, is hydrated.        *)
NewThreadsAreHydrated ==
  \A t \in DOMAIN threads :
    (\E t0 \in 1..(t - 1) : /\ threads[t0].session = threads[t].session
                            /\ threads[t0].epoch < threads[t].epoch) =>
      threads[t].hydrated = "yes"
=============================================================================

------------------------------ MODULE Approvals ------------------------------
(***************************************************************************)
(* How a capability is asked for, granted, refused and used.               *)
(*                                                                         *)
(*   sheriff-tools     exec_tool: policy, then secrets, then the command   *)
(*   sheriff-requests  the catalogue of requests (requests.db)             *)
(*   sheriff-policy    the decisions (permissions.db)                      *)
(*   sheriff-secrets   the vault, reached through the gateway              *)
(*   sheriff-tg-gate   tells the user of a request                         *)
(*   sheriff-gateway   tells the agent that a request was resolved         *)
(*                                                                         *)
(* Each of them serves its connections concurrently, so a call of one      *)
(* interleaves with the others at every request it awaits.  A database     *)
(* transaction is one step.  The tools and the requests that the agents    *)
(* use each go through one client of the gateway, one at a time.           *)
(*                                                                         *)
(* What goes wrong is recorded in faults, so that a property can say which *)
(* faults it survives.                                                     *)
(***************************************************************************)
EXTENDS Naturals, FiniteSets

CONSTANTS
  Tools,        \* commands, argv[0]
  Secrets,      \* handles of secrets
  Agents,       \* the agents that call tools: each is a session's thread
  NewsSession,  \* the one whose session is telegram_<user>: news go there
  Resolvers,    \* connections on which requests are resolved
  Forwarded,    \* the gateway's, on which agents may do so; else the user
  MaxResolutions,  \* bound: how often something is resolved
  MaxFaults        \* bound: how many kinds of fault a behaviour has

ASSUME ApprovalsAssumption ==
  /\ Tools \cap Secrets = {}
  /\ NewsSession \in Agents /\ Forwarded \in Resolvers
  /\ MaxResolutions \in Nat /\ MaxFaults \in Nat

Items == Tools \cup Secrets

VARIABLES
  catalog,  \* catalog_entries: the status of each item ("none": no row)
  policy,   \* permissions: the decision for principal "default"
  vault,    \* is the vault unlocked
  stored,   \* the secrets the vault holds
  asked,    \* the items the user has been asked about and not resolved since
  mail,     \* resolutions on their way to NewsSession, as queued messages
  blocked,  \* what NewsSession's agent was refused and not told of since
  call,     \* the tool call each agent is in
  resolve,  \* the resolution each resolver is in
  allowed,  \* history: what resolutions have ever allowed or provided
  unsettled,  \* history: tools whose last resolution has been disturbed
  usage,    \* the command that has just run, if one has
  faults,   \* history: what has gone wrong
  resolutions  \* how often something has been resolved

storeVars == <<catalog, policy, vault, stored>>
historyVars == <<allowed, unsettled, resolutions>>
vars == <<catalog, policy, vault, stored, asked, mail, blocked, call, resolve,
          allowed, unsettled, usage, faults, resolutions>>
-----------------------------------------------------------------------------
Status == {"none", "requested", "approved", "denied"}
ResolveStep == {"decision", "check", "store", "commit", "tell"}
Action == {"allow", "deny"}

(* The vault fails; another service dies or answers with an error; two     *)
(* resolutions of one item overlap.                                        *)
Fault == {"vault", "service", "overlap"}

(* Who calls create_or_update: exec_tool, or the agent itself *)
Origin == {"tools", "agent"}

Idle == [step |-> "idle"]

(* The agent waits for the answer to a resolution of its own. *)
Forward == [step |-> "forward"]

(* exec_tool, with the secrets it has still to fetch, has, and misses *)
Executing ==
  [step : {"policy", "vault", "secret"}, tool : Tools, todo : SUBSET Secrets,
   given : SUBSET Secrets, missing : SUBSET Secrets, denied : {"yes", "no"}]

(* create_or_update, and what the call goes on with afterwards *)
Asking ==
  [step : {"ask", "notify"}, item : Items, from : Origin, then : Executing \cup {Idle}]

Deciding == [step : ResolveStep, item : Items, action : Action]

Usage == [tool : Tools, given : SUBSET Secrets, denied : {"yes", "no"}]
NoUsage == [tool |-> "nothing"]
NothingRuns == usage' = NoUsage

Under(r, i) == resolve[r].step # "idle" /\ resolve[r].item = i

Resolving(i) == \E r \in Resolvers : Under(r, i)

(* A resolution of i has not written all it has to. *)
WritesTo(r, i) == Under(r, i) /\ resolve[r].step # "tell"

Writing(i) == \E r \in Resolvers : WritesTo(r, i)

Happens(f) ==
  /\ f \in faults \/ Cardinality(faults) < MaxFaults
  /\ faults' = faults \cup {f}

(* A decision as status of the catalogue, and as the policy has it *)
StatusOf(action) == IF action = "allow" THEN "approved" ELSE "denied"
Decision(action) == IF action = "allow" THEN "ALLOW" ELSE "DENY"

(* The user and the agents have been told that the tool is denied. *)
Denied(t) == catalog[t] = "denied" /\ t \notin unsettled /\ ~Writing(t)

(* exec_tool refuses whatever the catalogue says; an agent that has asked  *)
(* itself is shown the entry.                                              *)
Refuse(a, i) ==
  blocked' = IF a = NewsSession /\ (call[a].from = "tools" \/ catalog[i] # "approved")
             THEN blocked \cup {i} ELSE blocked

(* Each holds the lock of one client of the gateway. *)
InRequests(b) ==
  call[b].step = "forward"
    \/ (call[b].step \in {"ask", "notify"} /\ call[b].from # "tools")
InTools(b) == call[b].step # "idle" /\ ~InRequests(b)

Goto(a, c) == call' = [call EXCEPT ![a] = c]
Return(a) == Goto(a, Idle)
Resume(a) == Goto(a, call[a].then)
-----------------------------------------------------------------------------
Init ==
  /\ catalog = [i \in Items |-> "none"]
  /\ policy = [t \in Tools |-> "unset"]
  /\ vault = "unlocked" /\ stored = {}
  /\ asked = {} /\ mail = {} /\ blocked = {}
  /\ call = [a \in Agents |-> Idle]
  /\ resolve = [r \in Resolvers |-> Idle]
  /\ allowed = {} /\ unsettled = {}
  /\ usage = NoUsage /\ faults = {} /\ resolutions = 0

(* tools.exec, from an agent's turn, with the handles of env_handles *)
Exec(a, t, handles) ==
  /\ \A b \in Agents : ~InTools(b)
  /\ call[a].step = "idle"
  /\ Goto(a, [step |-> "policy", tool |-> t, todo |-> handles, given |-> {},
              missing |-> {}, denied |-> "no"])
  /\ NothingRuns
  /\ UNCHANGED <<storeVars, asked, mail, blocked, resolve, historyVars, faults>>

(* requests.create_or_update, called by the agent itself *)
Request(a, i) ==
  /\ \A b \in Agents : ~InRequests(b)
  /\ call[a].step = "idle"
  /\ Goto(a, [step |-> "ask", item |-> i, from |-> "agent", then |-> Idle])
  /\ NothingRuns
  /\ UNCHANGED <<storeVars, asked, mail, blocked, resolve, historyVars, faults>>

(* Run the command with the secrets the call was given. *)
Run(a, denied) ==
  /\ usage' = [tool |-> call[a].tool, given |-> call[a].given, denied |-> denied]
  /\ Return(a)

AskFor(a, i, then) ==
  Goto(a, [step |-> "ask", item |-> i, from |-> "tools", then |-> then])

(* The policy's answer *)
Allows(a) ==
  LET denied == IF Denied(call[a].tool) THEN "yes" ELSE "no"
  IN  \/ call[a].todo = {} /\ Run(a, denied)
      \/ /\ call[a].todo # {}
         /\ Goto(a, [call[a] EXCEPT !.step = "vault", !.denied = denied])
         /\ NothingRuns

(* Mutant: what is not denied is allowed. *)
Decide_DefaultAllow(a) ==
  /\ call[a].step = "policy"
  /\ IF policy[call[a].tool] # "DENY" THEN Allows(a)
     ELSE AskFor(a, call[a].tool, Idle) /\ NothingRuns
  /\ UNCHANGED <<storeVars, asked, mail, blocked, resolve, historyVars, faults>>

(* policy.get_decision; no decision of its own is ever set for a principal. *)
Decide(a) ==
  /\ call[a].step = "policy"
  /\ IF policy[call[a].tool] = "ALLOW" THEN Allows(a)
     ELSE AskFor(a, call[a].tool, Idle) /\ NothingRuns
  /\ UNCHANGED <<storeVars, asked, mail, blocked, resolve, historyVars, faults>>

(* secrets.is_unlocked *)
CheckVault(a) ==
  /\ call[a].step = "vault"
  /\ \/ vault = "locked" /\ Return(a)
     \/ vault = "unlocked" /\ Goto(a, [call[a] EXCEPT !.step = "secret"])
  /\ NothingRuns
  /\ UNCHANGED <<storeVars, asked, mail, blocked, resolve, historyVars, faults>>

(* secrets.get_secret for the next handle: a locked vault's error reads as *)
(* a missing secret, which is asked for before the next.                   *)
FetchSecret(a) ==
  /\ call[a].step = "secret"
  /\ \E h \in call[a].todo :
       IF vault = "unlocked" /\ h \in stored
       THEN Goto(a, [call[a] EXCEPT !.todo = @ \ {h}, !.given = @ \cup {h}])
       ELSE AskFor(a, h, [call[a] EXCEPT !.todo = @ \ {h}, !.missing = @ \cup {h}])
  /\ NothingRuns
  /\ UNCHANGED <<storeVars, asked, mail, blocked, resolve, historyVars, faults>>

(* All handles have been looked for: the command runs if none is missing. *)
HaveSecrets(a) ==
  /\ call[a].step = "secret" /\ call[a].todo = {}
  /\ IF call[a].missing = {} THEN Run(a, call[a].denied)
     ELSE Return(a) /\ NothingRuns
  /\ UNCHANGED <<storeVars, asked, mail, blocked, resolve, historyVars, faults>>

(* Mutants of create_or_update: an approved entry is asked for again; the  *)
(* user is told only of new entries.                                       *)
Ask_Mutable(a) ==
  LET i == call[a].item
  IN  /\ call[a].step = "ask"
      /\ catalog' = [catalog EXCEPT ![i] = "requested"]
      /\ Goto(a, [call[a] EXCEPT !.step = "notify"])
      /\ Refuse(a, i) /\ NothingRuns
      /\ UNCHANGED <<policy, vault, stored, asked, mail, resolve, historyVars, faults>>
Ask_NewOnly(a) ==
  LET i == call[a].item
  IN  /\ call[a].step = "ask"
      /\ catalog' = [catalog EXCEPT ![i] = IF @ = "approved" THEN @ ELSE "requested"]
      /\ Refuse(a, i) /\ NothingRuns
      /\ \/ catalog[i] = "none" /\ Goto(a, [call[a] EXCEPT !.step = "notify"])
         \/ catalog[i] # "none" /\ Resume(a)
      /\ UNCHANGED <<policy, vault, stored, asked, mail, resolve, historyVars, faults>>

(* create_or_update: an approved entry is immutable, and the user is told  *)
(* of an entry that was not yet requested; with force_notify, which only   *)
(* an agent's own request may carry, of any.                               *)
Ask(a) ==
  LET i == call[a].item
      new == catalog[i] \in {"none", "denied"}
  IN  /\ call[a].step = "ask"
      /\ catalog' = [catalog EXCEPT ![i] = IF @ = "approved" THEN @ ELSE "requested"]
      /\ Refuse(a, i) /\ NothingRuns
      /\ \/ /\ new \/ call[a].from = "agent"
            /\ Goto(a, [call[a] EXCEPT !.step = "notify"])
         \/ ~new /\ Resume(a)
      /\ UNCHANGED <<policy, vault, stored, asked, mail, resolve, historyVars, faults>>

(* gate.notify_request *)
NotifyUser(a) ==
  /\ call[a].step = "notify"
  /\ asked' = asked \cup {call[a].item}
  /\ Resume(a) /\ NothingRuns
  /\ UNCHANGED <<storeVars, mail, blocked, resolve, historyVars, faults>>

(* The gate has no token, the vault is locked, or Telegram is unreachable: *)
(* the error is swallowed and the agent is refused as if the user knew.    *)
(* If the gate does not answer, the call raises.                           *)
NotifyLost(a) ==
  /\ call[a].step = "notify"
  /\ Happens("service")
  /\ Resume(a) \/ Return(a)
  /\ NothingRuns
  /\ UNCHANGED <<storeVars, asked, mail, blocked, resolve, historyVars>>
-----------------------------------------------------------------------------
(* A resolution begins.  Two of the same item disturb each other. *)
Begins(r, i, action) ==
  /\ resolve[r].step = "idle"
  /\ resolutions < MaxResolutions /\ resolutions' = resolutions + 1
  /\ resolve' = [resolve EXCEPT ![r] =
       [item |-> i, action |-> action,
        step |-> IF i \in Tools THEN "decision"
                 ELSE IF action = "allow" THEN "check" ELSE "commit"]]
  /\ IF Writing(i)
     THEN Happens("overlap") /\ unsettled' = unsettled \cup ({i} \cap Tools)
     ELSE UNCHANGED faults /\ unsettled' = unsettled \ {i}
  /\ allowed' = IF action = "allow" THEN allowed \cup {i} ELSE allowed
  /\ NothingRuns
  /\ UNCHANGED <<storeVars, asked, mail, blocked>>

(* The user allows or provides, or denies: resolve_tool, resolve_secret. *)
Resolve(r, i, action) ==
  r # Forwarded /\ Begins(r, i, action) /\ UNCHANGED call

(* The same from an agent's turn: the gateway forwards whatever begins     *)
(* with "requests.".                                                       *)
AgentResolves(a, i, action) ==
  /\ \A b \in Agents : ~InRequests(b)
  /\ call[a].step = "idle"
  /\ Begins(Forwarded, i, action)
  /\ Goto(a, Forward)

AgentAnswered(a) ==
  /\ call[a].step = "forward" /\ resolve[Forwarded].step = "idle"
  /\ Return(a) /\ NothingRuns
  /\ UNCHANGED <<storeVars, asked, mail, blocked, resolve, historyVars, faults>>

(* policy.set_decision.  Its answer is not looked at: an error changes     *)
(* nothing in the policy, and the resolution goes on.                      *)
SetDecision(r) ==
  LET i == resolve[r].item
  IN  /\ resolve[r].step = "decision"
      /\ resolve' = [resolve EXCEPT ![r].step = "commit"]
      /\ \/ /\ policy' = [policy EXCEPT ![i] = Decision(resolve[r].action)]
            /\ UNCHANGED <<unsettled, faults>>
         \/ /\ Happens("service")
            /\ unsettled' = unsettled \cup {i} /\ UNCHANGED policy
      /\ NothingRuns
      /\ UNCHANGED <<catalog, vault, stored, asked, mail, blocked, call, allowed,
                     resolutions>>

(* The request raises, before or after the policy has written: the         *)
(* resolution ends there.                                                  *)
SetDecisionRaises(r) ==
  LET i == resolve[r].item
  IN  /\ resolve[r].step = "decision"
      /\ Happens("service")
      /\ policy' \in {policy, [policy EXCEPT ![i] = Decision(resolve[r].action)]}
      /\ resolve' = [resolve EXCEPT ![r] = Idle]
      /\ unsettled' = unsettled \cup {i}
      /\ NothingRuns
      /\ UNCHANGED <<catalog, vault, stored, asked, mail, blocked, call, allowed,
                     resolutions>>

(* Mutant: the catalogue is told before the vault is. *)
CheckUnlocked_CommitFirst(r) ==
  /\ resolve[r].step = "check"
  /\ \/ /\ vault = "unlocked"
        /\ catalog' = [catalog EXCEPT ![resolve[r].item] = "approved"]
        /\ resolve' = [resolve EXCEPT ![r].step = "store"]
     \/ /\ vault = "locked"
        /\ resolve' = [resolve EXCEPT ![r] = Idle]
        /\ UNCHANGED catalog
  /\ NothingRuns
  /\ UNCHANGED <<policy, vault, stored, asked, mail, blocked, call, historyVars, faults>>

(* secrets.is_unlocked: otherwise "master_password_required". *)
CheckUnlocked(r) ==
  /\ resolve[r].step = "check"
  /\ \/ vault = "unlocked" /\ resolve' = [resolve EXCEPT ![r].step = "store"]
     \/ vault = "locked" /\ resolve' = [resolve EXCEPT ![r] = Idle]
  /\ NothingRuns
  /\ UNCHANGED <<storeVars, asked, mail, blocked, call, historyVars, faults>>

(* secrets.set_secret, whose result is not looked at: it fails when the    *)
(* vault has been locked since, or when sheriff-secrets does not answer.   *)
StoreSecret(r) ==
  /\ resolve[r].step = "store"
  /\ resolve' = [resolve EXCEPT ![r].step = "commit"]
  /\ \/ /\ vault = "unlocked"
        /\ stored' = stored \cup {resolve[r].item}
        /\ UNCHANGED faults
     \/ Happens("vault") /\ UNCHANGED stored
  /\ NothingRuns
  /\ UNCHANGED <<catalog, policy, vault, asked, mail, blocked, call, historyVars>>

(* Either request to the vault raises: the resolution ends there. *)
VaultRaises(r) ==
  /\ resolve[r].step \in {"check", "store"}
  /\ Happens("vault")
  /\ resolve' = [resolve EXCEPT ![r] = Idle]
  /\ stored' \in {stored, stored \cup {resolve[r].item}}
  /\ stored' = stored \/ (resolve[r].step = "store" /\ vault = "unlocked")
  /\ NothingRuns
  /\ UNCHANGED <<catalog, policy, vault, asked, mail, blocked, call, historyVars>>

(* Upsert of the entry, and of the newest open request instance *)
Commit(r) ==
  LET i == resolve[r].item
  IN  /\ resolve[r].step = "commit"
      /\ catalog' = [catalog EXCEPT ![i] = StatusOf(resolve[r].action)]
      /\ asked' = asked \ {i}
      /\ resolve' = [resolve EXCEPT ![r].step = "tell"]
      /\ NothingRuns
      /\ UNCHANGED <<policy, vault, stored, mail, blocked, call, historyVars, faults>>

(* gateway.notify_request_resolved queues a message of the owner of the    *)
(* bot, for the session telegram_<user>; of nobody's, if the vault cannot  *)
(* name him.  It is lost when the gateway knows no session, or the gate    *)
(* before it is down.                                                      *)
TellAgent(r) ==
  /\ resolve[r].step = "tell"
  /\ \/ /\ mail' = IF vault = "unlocked" THEN mail \cup {resolve[r].item} ELSE mail
        /\ UNCHANGED faults
     \/ Happens("service") /\ UNCHANGED mail
  /\ resolve' = [resolve EXCEPT ![r] = Idle]
  /\ NothingRuns
  /\ UNCHANGED <<storeVars, asked, blocked, call, historyVars>>

(* The message has its turn, after the turn in progress of its session. *)
Deliver(i) ==
  /\ i \in mail
  /\ call[NewsSession].step = "idle"
  /\ mail' = mail \ {i}
  /\ blocked' = blocked \ {i}
  /\ NothingRuns
  /\ UNCHANGED <<storeVars, asked, call, resolve, historyVars, faults>>
-----------------------------------------------------------------------------
(* sheriff-requests dies: what it was doing stops where it was. *)
RequestsCrash ==
  /\ \/ \E r \in Resolvers : resolve[r].step # "idle"
     \/ \E a \in Agents : call[a].step \in {"ask", "notify"}
  /\ Happens("service")
  /\ resolve' = [r \in Resolvers |-> Idle]
  /\ call' = [a \in Agents |-> IF call[a].step \in {"ask", "notify", "forward"}
                               THEN Idle ELSE call[a]]
  /\ unsettled' = unsettled \cup {t \in Tools : Writing(t)}
  /\ NothingRuns
  /\ UNCHANGED <<storeVars, asked, mail, blocked, allowed, resolutions>>

(* secrets.initialize, by `sheriff onboard`: an empty, locked vault *)
InitializeVault ==
  /\ vault' = "locked" /\ stored' = {}
  /\ Happens("vault")
  /\ NothingRuns
  /\ UNCHANGED <<catalog, policy, asked, mail, blocked, call, resolve, historyVars>>

(* The user, or an agent that was told the password, opens the vault. *)
UnlockVault ==
  /\ vault = "locked"
  /\ vault' = "unlocked"
  /\ NothingRuns
  /\ UNCHANGED <<catalog, policy, stored, asked, mail, blocked, call, resolve,
                 historyVars, faults>>

Next ==
  \/ \E a \in Agents, t \in Tools, handles \in SUBSET Secrets : Exec(a, t, handles)
  \/ \E a \in Agents, i \in Items : Request(a, i)
  \/ \E a \in Agents, i \in Items, x \in Action : AgentResolves(a, i, x)
  \/ \E a \in Agents : \/ Decide(a) \/ CheckVault(a) \/ FetchSecret(a) \/ HaveSecrets(a)
                       \/ Ask(a) \/ NotifyUser(a) \/ NotifyLost(a) \/ AgentAnswered(a)
  \/ \E r \in Resolvers, i \in Items, x \in Action : Resolve(r, i, x)
  \/ \E r \in Resolvers : \/ SetDecision(r) \/ SetDecisionRaises(r)
                          \/ CheckUnlocked(r) \/ StoreSecret(r) \/ VaultRaises(r)
                          \/ Commit(r) \/ TellAgent(r)
  \/ \E i \in Items : Deliver(i)
  \/ RequestsCrash
  \/ InitializeVault
  \/ UnlockVault

Spec == Init /\ [][Next]_vars
-----------------------------------------------------------------------------
TypeOK ==
  /\ catalog \in [Items -> Status]
  /\ policy \in [Tools -> {"unset", "ALLOW", "DENY"}]
  /\ vault \in {"locked", "unlocked"}
  /\ stored \in SUBSET Secrets
  /\ asked \in SUBSET Items
  /\ mail \in SUBSET Items /\ blocked \in SUBSET Items
  /\ call \in [Agents -> Executing \cup Asking \cup {Idle, Forward}]
  /\ resolve \in [Resolvers -> Deciding \cup {Idle}]
  /\ allowed \in SUBSET Items /\ unsettled \in SUBSET Tools
  /\ usage \in Usage \cup {NoUsage}
  /\ faults \in SUBSET Fault
  /\ resolutions \in 0..MaxResolutions

Notifying(i) == \E a \in Agents : call[a].step = "notify" /\ call[a].item = i

(* Whatever the interleaving of calls, resolutions, crashes and failing    *)
(* requests, a command that runs was once allowed and its secrets were     *)
(* once provided, by a resolution (the user's or, as _route_tool lets it,  *)
(* an agent's); and when exec_tool looked up the policy (line 19), the     *)
(* tool did not stand as denied by a resolution that nothing disturbed.    *)
OnlyGrantedRuns ==
  usage # NoUsage =>
    usage.tool \in allowed /\ usage.given \subseteq allowed /\ usage.denied = "no"

Matches(t) ==
  /\ catalog[t] = "approved" <=> policy[t] = "ALLOW"
  /\ catalog[t] = "denied" => policy[t] = "DENY"

(* The catalogue and the policy store are two databases, written one after *)
(* the other (lines 297 to 329 of sheriff_requests).  Whatever has failed  *)
(* before or elsewhere, they agree on every tool that is not being         *)
(* resolved, unless the last resolution of this tool was itself cut short, *)
(* not heard by the policy, or met another one.                            *)
CatalogMatchesPolicy ==
  \A t \in Tools \ unsettled : ~Writing(t) => Matches(t)

(* A secret that the catalogue calls approved is in the vault, even when   *)
(* sheriff-requests dies half way, as long as the vault does not fail.     *)
ApprovedIsStoredUnlessVaultFails ==
  "vault" \notin faults =>
    \A s \in Secrets : catalog[s] = "approved" => s \in stored

(* While nothing fails, no refusal is forgotten: what stands as requested  *)
(* the user has been asked about, or is being asked, so that an agent of   *)
(* any session finds a decision some time; and what the agent to whom the  *)
(* news go (gateway lines 383 to 390) has been refused is asked, or being  *)
(* resolved, or the news are on their way.  A decision that races with the *)
(* agent's retry is no exception.                                          *)
RefusedIsAsked ==
  faults = {} =>
    /\ \A i \in Items : catalog[i] = "requested" => i \in asked \/ Notifying(i)
    /\ \A i \in blocked : i \in asked \/ Resolving(i) \/ Notifying(i) \/ i \in mail

(* "user approved tool ... Retry the blocked command" (gateway service.py  *)
(* :368), "user denied tool ... Choose another approach." (:370): what the *)
(* agent hears of a tool is what the policy will say.                      *)
NewsAreTrue ==
  \A t \in Tools \cap mail : ~Writing(t) => Matches(t)

(* "user provided secret ... Retry the blocked work" (gateway service.py   *)
(* :364): a secret that is reported as approved is there.                  *)
ApprovedIsStored ==
  \A s \in Secrets : catalog[s] = "approved" => s \in stored

(* "user denied secret ... Do not assume you can use it" (gateway          *)
(* service.py:366): no command runs with a secret that is denied.          *)
DeniedSecretIsNotUsed ==
  usage # NoUsage => \A s \in usage.given : catalog[s] # "denied"
=============================================================================

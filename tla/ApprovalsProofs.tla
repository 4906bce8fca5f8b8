--------------------------- MODULE ApprovalsProofs ---------------------------
(***************************************************************************)
(* Theorems about Approvals for every set of tools, secrets, agents and    *)
(* connections, and every bound.                                           *)
(***************************************************************************)
EXTENDS Approvals, TLAPS

CallState == Executing \cup Asking \cup {Idle, Forward}
ResolveState == Deciding \cup {Idle}

(* Only a secret that is allowed is put into the vault, and only a tool is *)
(* decided about.                                                          *)
ResolveFits(x) ==
  /\ x.step \in {"check", "store"} => x.item \in Secrets /\ x.action = "allow"
  /\ x.step = "decision" => x.item \in Tools

(* What an agent's call does, how a resolution starts and how it goes on *)
CallActs(a) ==
  \/ \E t \in Tools, handles \in SUBSET Secrets : Exec(a, t, handles)
  \/ \E i \in Items : Request(a, i)
  \/ Decide(a) \/ CheckVault(a) \/ FetchSecret(a) \/ HaveSecrets(a)
  \/ Ask(a) \/ NotifyUser(a) \/ NotifyLost(a) \/ AgentAnswered(a)

Starts(r, i, x) ==
  Resolve(r, i, x) \/ (r = Forwarded /\ \E a \in Agents : AgentResolves(a, i, x))

ResolveActs(r) ==
  \/ SetDecision(r) \/ SetDecisionRaises(r)
  \/ CheckUnlocked(r) \/ StoreSecret(r) \/ VaultRaises(r)
  \/ Commit(r) \/ TellAgent(r)

(* The types of what the actions read *)
Types ==
  /\ catalog \in [Items -> Status]
  /\ policy \in [Tools -> {"unset", "ALLOW", "DENY"}]
  /\ vault \in {"locked", "unlocked"} /\ stored \in SUBSET Secrets
  /\ call \in [Agents -> CallState]
  /\ resolve \in [Resolvers -> ResolveState]
  /\ \A r \in Resolvers : ResolveFits(resolve[r])

Rest ==
  /\ asked \in SUBSET Items /\ mail \in SUBSET Items
  /\ blocked \in SUBSET Items
  /\ allowed \in SUBSET Items /\ unsettled \in SUBSET Tools
  /\ usage \in Usage \cup {NoUsage}
  /\ faults \in SUBSET Fault
  /\ resolutions \in 0..MaxResolutions

(* What is decided, stored, on its way to be, or in use has been allowed;  *)
(* and a call goes on only with a tool that was not denied.                *)
ExecGranted(e) ==
  /\ e.given \subseteq allowed /\ e.denied = "no"
  /\ e.step # "policy" => e.tool \in allowed

CallGranted(c) ==
  /\ c.step \in {"policy", "vault", "secret"} => ExecGranted(c)
  /\ c.step \in {"ask", "notify"} /\ c.then # Idle => ExecGranted(c.then)

ResolveGranted(x) == x.step # "idle" /\ x.action = "allow" => x.item \in allowed

Grants ==
  /\ stored \subseteq allowed
  /\ \A t \in Tools : policy[t] = "ALLOW" => t \in allowed
  /\ \A a \in Agents : CallGranted(call[a])
  /\ \A r \in Resolvers : ResolveGranted(resolve[r])
  /\ OnlyGrantedRuns

(* A secret that is about to be called approved is stored. *)
Stores(x) ==
  x.step = "commit" /\ x.action = "allow" /\ x.item \in Secrets => x.item \in stored

StoredInv ==
  "vault" \notin faults =>
    /\ \A s \in Secrets : catalog[s] = "approved" => s \in stored
    /\ \A r \in Resolvers : Stores(resolve[r])

(* The catalogue and the policy of a settled tool differ only while one    *)
(* resolution writes to them, and before it commits it has decided.        *)
Decided(x) ==
  x.step = "commit" /\ x.item \in Tools \ unsettled =>
    policy[x.item] = Decision(x.action)

Apart ==
  \A q, r \in Resolvers, t \in Tools \ unsettled :
    WritesTo(q, t) /\ WritesTo(r, t) => q = r

MatchInv ==
  /\ Apart
  /\ CatalogMatchesPolicy
  /\ \A r \in Resolvers : Decided(resolve[r])

(* While nothing has gone wrong, the vault stays open; whatever is         *)
(* requested has been asked; and what has been approved while the agent in *)
(* NewsSession was being refused it is news on their way.                  *)
Overtaken(i) ==
  call[NewsSession].step = "ask" /\ call[NewsSession].from = "tools"
    /\ call[NewsSession].item = i /\ catalog[i] = "approved"

Awaited(i) == i \in asked \/ Resolving(i) \/ Notifying(i) \/ i \in mail

AskedInv ==
  faults = {} =>
    /\ vault = "unlocked" /\ unsettled = {}
    /\ \A i \in Items : catalog[i] = "requested" => i \in asked \/ Notifying(i)
    /\ \A i \in Items : Overtaken(i) => i \in mail \/ Resolving(i)
    /\ \A i \in blocked : Awaited(i)

ApprovalsInv == Types /\ Rest /\ Grants /\ StoredInv /\ MatchInv /\ AskedInv
-----------------------------------------------------------------------------
LEMMA CallFields ==
  ASSUME Types, NEW a \in Agents
  PROVE  /\ call[a].step \in {"policy", "vault", "secret"} => call[a] \in Executing
         /\ call[a].step \in {"ask", "notify"} => call[a] \in Asking
         /\ call[a].step = "idle" => call[a] = Idle
<1>1. call[a] \in CallState
  BY DEF Types
<1>2. CASE call[a] \in Executing
  BY <1>2 DEF Executing
<1>3. CASE call[a] \in Asking
  BY <1>3 DEF Asking
<1>4. CASE call[a] = Idle \/ call[a] = Forward
  BY <1>4 DEF Idle, Forward
<1> QED
  BY <1>1, <1>2, <1>3, <1>4 DEF CallState

LEMMA ResolveFields ==
  ASSUME Types, NEW r \in Resolvers
  PROVE  /\ resolve[r].step \in ResolveStep \cup {"idle"}
         /\ resolve[r].step # "idle" => resolve[r] \in Deciding
<1>1. resolve[r] \in ResolveState
  BY DEF Types
<1>2. CASE resolve[r] = Idle
  BY <1>2 DEF Idle
<1>3. CASE resolve[r] \in Deciding
  BY <1>3 DEF Deciding
<1> QED
  BY <1>1, <1>2, <1>3 DEF ResolveState

(* A call leaves the policy to do as the matching rules of the stores say: *)
(* a tool that the policy allows does not stand as denied.                 *)
LEMMA AllowedNotDenied ==
  ASSUME MatchInv, NEW t \in Tools, policy[t] = "ALLOW"
  PROVE  ~Denied(t)
BY DEF MatchInv, CatalogMatchesPolicy, Matches, Denied

(* Where a call goes, and that what it carries has been allowed *)
LEMMA CallMoves ==
  ASSUME Types, Grants, MatchInv, NEW a \in Agents, CallActs(a)
  PROVE  \E c \in CallState : CallGranted(c) /\ Goto(a, c)
<1> DEFINE Moves(c) == c \in CallState /\ CallGranted(c)
<1>1. Moves(Idle)
  BY DEF CallState, CallGranted, Idle
<1>2. ASSUME NEW i \in Items, NEW f \in Origin, NEW n \in Executing \cup {Idle},
             n # Idle => ExecGranted(n)
      PROVE  Moves([step |-> "ask", item |-> i, from |-> f, then |-> n])
  BY <1>2 DEF CallState, Asking, CallGranted
<1>3. ASSUME NEW t \in Tools, NEW handles \in SUBSET Secrets, Exec(a, t, handles)
      PROVE  \E c : Moves(c) /\ Goto(a, c)
  <2>1. [step |-> "policy", tool |-> t, todo |-> handles, given |-> {},
         missing |-> {}, denied |-> "no"] \in Executing
    BY DEF Executing
  <2>2. Moves([step |-> "policy", tool |-> t, todo |-> handles, given |-> {},
               missing |-> {}, denied |-> "no"])
    BY <2>1 DEF CallState, CallGranted, ExecGranted
  <2> QED
    BY <1>3, <2>2 DEF Exec
<1>4. ASSUME NEW i \in Items, Request(a, i) PROVE \E c : Moves(c) /\ Goto(a, c)
  BY <1>2, <1>4 DEF Request, Origin
<1>5. CASE Decide(a)
  <2>1. call[a] \in Executing /\ ExecGranted(call[a])
    BY <1>5, CallFields DEF Decide, Grants, CallGranted
  <2>2. CASE AskFor(a, call[a].tool, Idle)
    BY <1>2, <2>1, <2>2 DEF AskFor, Executing, Items, Origin
  <2>3. CASE Return(a)
    BY <1>1, <2>3 DEF Return
  <2>4. CASE policy[call[a].tool] = "ALLOW"
             /\ Goto(a, [call[a] EXCEPT !.step = "vault", !.denied = "no"])
    <3>1. PICK c : c = [call[a] EXCEPT !.step = "vault", !.denied = "no"]
      OBVIOUS
    <3>2. c \in Executing /\ c.tool = call[a].tool /\ c.given = call[a].given
          /\ c.denied = "no" /\ c.step = "vault"
      BY <2>1, <3>1 DEF Executing
    <3>3. call[a].tool \in allowed
      BY <2>1, <2>4 DEF Executing, Grants
    <3>4. Moves(c)
      BY <2>1, <3>2, <3>3 DEF CallState, CallGranted, ExecGranted
    <3> QED
      BY <2>4, <3>1, <3>4
  <2>5. policy[call[a].tool] = "ALLOW" => ~Denied(call[a].tool)
    BY <2>1, AllowedNotDenied DEF Executing
  <2> QED
    BY <1>5, <2>2, <2>3, <2>4, <2>5 DEF Decide, Allows, Run
<1>6. CASE CheckVault(a)
  <2>1. call[a] \in Executing /\ ExecGranted(call[a]) /\ call[a].step = "vault"
    BY <1>6, CallFields DEF CheckVault, Grants, CallGranted
  <2>2. PICK c : c = [call[a] EXCEPT !.step = "secret"]
    OBVIOUS
  <2>3. c \in Executing /\ c.tool = call[a].tool /\ c.given = call[a].given
        /\ c.denied = call[a].denied /\ c.step = "secret"
    BY <2>1, <2>2 DEF Executing
  <2>4. Moves(c)
    BY <2>1, <2>3 DEF CallState, CallGranted, ExecGranted
  <2> QED
    BY <1>1, <1>6, <2>2, <2>4 DEF CheckVault, Return
<1>7. CASE FetchSecret(a)
  <2>1. call[a] \in Executing /\ ExecGranted(call[a]) /\ call[a].step = "secret"
    BY <1>7, CallFields DEF FetchSecret, Grants, CallGranted
  <2>2. PICK h \in call[a].todo :
          IF vault = "unlocked" /\ h \in stored
          THEN Goto(a, [call[a] EXCEPT !.todo = @ \ {h}, !.given = @ \cup {h}])
          ELSE AskFor(a, h, [call[a] EXCEPT !.todo = @ \ {h}, !.missing = @ \cup {h}])
    BY <1>7 DEF FetchSecret
  <2>3. h \in Secrets /\ h \in Items
    BY <2>1, <2>2 DEF Executing, Items
  <2>4. CASE h \in stored /\ Goto(a, [call[a] EXCEPT !.todo = @ \ {h}, !.given = @ \cup {h}])
    <3>1. PICK c : c = [call[a] EXCEPT !.todo = call[a].todo \ {h},
                                       !.given = call[a].given \cup {h}]
      OBVIOUS
    <3>2. c \in Executing /\ c.tool = call[a].tool /\ c.given = call[a].given \cup {h}
          /\ c.denied = call[a].denied /\ c.step = "secret"
      BY <2>1, <2>3, <3>1 DEF Executing
    <3>3. Moves(c)
      BY <2>1, <2>4, <3>2 DEF CallState, CallGranted, ExecGranted, Grants
    <3> QED
      BY <2>4, <3>1, <3>3
  <2>5. CASE AskFor(a, h, [call[a] EXCEPT !.todo = @ \ {h}, !.missing = @ \cup {h}])
    <3>1. PICK c : c = [call[a] EXCEPT !.todo = call[a].todo \ {h},
                                       !.missing = call[a].missing \cup {h}]
      OBVIOUS
    <3>2. c \in Executing /\ c.tool = call[a].tool /\ c.given = call[a].given
          /\ c.denied = call[a].denied /\ c.step = "secret"
      BY <2>1, <2>3, <3>1 DEF Executing
    <3>3. ExecGranted(c)
      BY <2>1, <3>2 DEF ExecGranted
    <3>4. Moves([step |-> "ask", item |-> h, from |-> "tools", then |-> c])
      BY <1>2, <2>3, <3>2, <3>3 DEF Origin
    <3> QED
      BY <2>5, <3>1, <3>4 DEF AskFor
  <2> QED
    BY <2>2, <2>4, <2>5
<1>8. CASE HaveSecrets(a) \/ AgentAnswered(a)
  BY <1>1, <1>8 DEF HaveSecrets, AgentAnswered, Run, Return
<1>9. CASE Ask(a) \/ NotifyUser(a) \/ NotifyLost(a)
  <2>1. call[a] \in Asking /\ CallGranted(call[a]) /\ call[a].step \in {"ask", "notify"}
    BY <1>9, CallFields DEF Ask, NotifyUser, NotifyLost, Grants
  <2>2. Moves(call[a].then)
    <3>1. call[a].then \in Executing \cup {Idle}
      BY <2>1 DEF Asking
    <3>2. CASE call[a].then \in Executing
      <4>1. call[a].then.step \in {"policy", "vault", "secret"}
        BY <3>2 DEF Executing
      <4>2. call[a].then # Idle
        BY <4>1 DEF Idle
      <4> QED
        BY <2>1, <3>2, <4>1, <4>2 DEF CallGranted, CallState
    <3> QED
      BY <1>1, <3>1, <3>2
  <2>3. PICK c : c = [call[a] EXCEPT !.step = "notify"]
    OBVIOUS
  <2>4. c \in Asking /\ c.step = "notify" /\ c.then = call[a].then
    BY <2>1, <2>3 DEF Asking
  <2>5. Moves(c)
    BY <2>1, <2>4 DEF CallState, CallGranted
  <2> QED
    BY <1>1, <1>9, <2>2, <2>3, <2>5 DEF Ask, NotifyUser, NotifyLost, Return, Resume
<1> QED
  <2>1. \E c : Moves(c) /\ Goto(a, c)
    BY <1>3, <1>4, <1>5, <1>6, <1>7, <1>8, <1>9 DEF CallActs
  <2> QED
    BY <2>1

(* What a call does to everything but itself *)
LEMMA CallEffects ==
  ASSUME Types, NEW a \in Agents, CallActs(a)
  PROVE  /\ UNCHANGED <<policy, vault, stored, resolve, mail, historyVars>>
         /\ faults \subseteq faults' /\ asked \subseteq asked'
         /\ \A i \in Items : \/ catalog'[i] = catalog[i]
                             \/ catalog'[i] = "requested" /\ catalog[i] # "approved"
         /\ catalog' \in [Items -> Status]
         /\ \A b \in Agents : b # a => call'[b] = call[b]
<1> USE DEF CallActs, storeVars
<1>1. UNCHANGED <<policy, vault, stored, resolve, mail, historyVars>>
  BY DEF Exec, Request, Decide, CheckVault, FetchSecret, HaveSecrets, Ask,
         NotifyUser, NotifyLost, AgentAnswered
<1>2. faults \subseteq faults' /\ asked \subseteq asked'
  BY DEF Exec, Request, Decide, CheckVault, FetchSecret, HaveSecrets, Ask,
         NotifyUser, NotifyLost, AgentAnswered, Happens
<1>3. ~Ask(a) => UNCHANGED catalog
  BY DEF Exec, Request, Decide, CheckVault, FetchSecret, HaveSecrets,
         NotifyUser, NotifyLost, AgentAnswered
<1>4. \A b \in Agents : b # a => call'[b] = call[b]
  BY DEF Exec, Request, Decide, CheckVault, FetchSecret, HaveSecrets, Ask, NotifyUser,
         NotifyLost, AgentAnswered, Allows, Run, Return, Resume, AskFor, Goto, Types
<1>5. CASE Ask(a)
  <2>1. catalog' = [catalog EXCEPT ![call[a].item] = IF @ = "approved" THEN @ ELSE "requested"]
    BY <1>5 DEF Ask
  <2> QED
    BY <2>1, <1>1, <1>2, <1>4 DEF Types, Status
<1> QED
  BY <1>1, <1>2, <1>3, <1>4, <1>5 DEF Types

(* A resolution starts.  If another writes to the same tool, the tool is   *)
(* unsettled; if none does, it counts as settled until something disturbs  *)
(* this resolution.                                                        *)
LEMMA StartEffects ==
  ASSUME Types, Rest, NEW r \in Resolvers, NEW i \in Items, NEW x \in Action, Starts(r, i, x)
  PROVE  /\ UNCHANGED <<catalog, policy, vault, stored, asked, mail, blocked>>
         /\ usage' = NoUsage /\ faults \subseteq faults'
         /\ resolve[r].step = "idle"
         /\ \A q \in Resolvers : q # r => resolve'[q] = resolve[q]
         /\ resolve'[r] \in Deciding /\ ResolveFits(resolve[r])'
         /\ resolve'[r].item = i /\ resolve'[r].action = x
         /\ resolve'[r].step \in {"decision", "check", "commit"}
         /\ i \in Tools => resolve'[r].step = "decision"
         /\ resolve'[r].step = "commit" => x = "deny"
         /\ allowed \subseteq allowed' /\ (x = "allow" => i \in allowed')
         /\ IF Writing(i) THEN "overlap" \in faults' /\ unsettled' = unsettled \cup ({i} \cap Tools)
            ELSE UNCHANGED faults /\ unsettled' = unsettled \ {i}
         /\ call' \in [Agents -> CallState]
         /\ \A a \in Agents : \/ call'[a] = call[a]
                              \/ call[a].step = "idle" /\ call'[a] = Forward
<1>1. Begins(r, i, x)
  BY DEF Starts, Resolve, AgentResolves
<1>2. /\ UNCHANGED <<catalog, policy, vault, stored, asked, mail, blocked>>
      /\ usage' = NoUsage /\ faults \subseteq faults' /\ resolve[r].step = "idle"
      /\ allowed \subseteq allowed' /\ (x = "allow" => i \in allowed')
      /\ IF Writing(i) THEN "overlap" \in faults' /\ unsettled' = unsettled \cup ({i} \cap Tools)
         ELSE UNCHANGED faults /\ unsettled' = unsettled \ {i}
  BY <1>1 DEF Begins, Happens, NothingRuns, storeVars
<1>3. PICK s \in {"decision", "check", "commit"} :
        /\ resolve' = [resolve EXCEPT ![r] = [item |-> i, action |-> x, step |-> s]]
        /\ s = "decision" => i \in Tools
        /\ i \in Tools => s = "decision"
        /\ s = "check" => i \in Secrets /\ x = "allow"
        /\ s = "commit" => x = "deny"
  BY <1>1 DEF Begins, Items, Action
<1>4. resolve'[r] = [item |-> i, action |-> x, step |-> s]
      /\ \A q \in Resolvers : q # r => resolve'[q] = resolve[q]
  BY <1>3 DEF Types
<1>5. resolve'[r] \in Deciding
  BY <1>4 DEF Deciding, ResolveStep
<1>6. ResolveFits(resolve[r])'
  BY <1>3, <1>4 DEF ResolveFits
<1>7. /\ call' \in [Agents -> CallState]
      /\ \A a \in Agents : \/ call'[a] = call[a]
                           \/ call[a].step = "idle" /\ call'[a] = Forward
  BY DEF Starts, Resolve, AgentResolves, Goto, Types, CallState
<1> QED
  BY <1>2, <1>3, <1>4, <1>5, <1>6, <1>7

(* A resolution goes on to its next step. *)
LEMMA ResolutionGoesOn ==
  ASSUME Types, NEW r \in Resolvers, resolve[r].step # "idle", NEW s \in ResolveStep,
         resolve' = [resolve EXCEPT ![r].step = s]
  PROVE  /\ resolve'[r] \in Deciding
         /\ resolve'[r].step = s /\ resolve'[r].item = resolve[r].item
         /\ resolve'[r].action = resolve[r].action
         /\ \A q \in Resolvers : q # r => resolve'[q] = resolve[q]
<1>1. resolve[r] \in Deciding
  BY ResolveFields
<1>2. PICK y : y = [resolve[r] EXCEPT !.step = s]
  OBVIOUS
<1>3. y \in Deciding /\ y.step = s /\ y.item = resolve[r].item /\ y.action = resolve[r].action
  BY <1>1, <1>2 DEF Deciding
<1>4. resolve'[r] = y /\ \A q \in Resolvers : q # r => resolve'[q] = resolve[q]
  BY <1>2 DEF Types
<1> QED
  BY <1>3, <1>4

(* How a resolution goes on or ends, and what it does to the rest *)
LEMMA ResolveEffects ==
  ASSUME Types, NEW r \in Resolvers, ResolveActs(r)
  PROVE  /\ UNCHANGED <<vault, call, blocked, allowed, resolutions>> /\ usage' = NoUsage
         /\ faults \subseteq faults' /\ stored \subseteq stored'
         /\ ~Commit(r) => UNCHANGED <<catalog, asked>>
         /\ ~TellAgent(r) => UNCHANGED mail
         /\ ~(SetDecision(r) \/ SetDecisionRaises(r)) => UNCHANGED <<policy, unsettled>>
         /\ resolve[r] \in Deciding
         /\ \A q \in Resolvers : q # r => resolve'[q] = resolve[q]
         /\ \/ resolve'[r] = Idle
            \/ /\ resolve'[r] \in Deciding /\ ResolveFits(resolve[r])'
               /\ resolve'[r].item = resolve[r].item
               /\ resolve'[r].action = resolve[r].action
<1>0. ResolveFits(resolve[r])
  BY DEF Types
<1>1. /\ UNCHANGED <<vault, call, blocked, allowed, resolutions>> /\ usage' = NoUsage
      /\ faults \subseteq faults' /\ stored \subseteq stored'
      /\ ~TellAgent(r) => UNCHANGED mail
  BY DEF ResolveActs, SetDecision, SetDecisionRaises, CheckUnlocked, StoreSecret, VaultRaises,
         Commit, TellAgent, Happens, NothingRuns, storeVars, historyVars
<1>2. ~Commit(r) => UNCHANGED <<catalog, asked>>
  BY DEF ResolveActs, SetDecision, SetDecisionRaises, CheckUnlocked, StoreSecret, VaultRaises,
         TellAgent, storeVars
<1>3. ~(SetDecision(r) \/ SetDecisionRaises(r)) => UNCHANGED <<policy, unsettled>>
  BY DEF ResolveActs, CheckUnlocked, StoreSecret, VaultRaises, Commit, TellAgent, storeVars,
         historyVars
<1>4. resolve[r] \in Deciding
  BY ResolveFields
  DEF ResolveActs, SetDecision, SetDecisionRaises, CheckUnlocked, StoreSecret, VaultRaises,
      Commit, TellAgent
<1>5. CASE SetDecision(r) \/ StoreSecret(r)
  <2>1. resolve' = [resolve EXCEPT ![r].step = "commit"] /\ resolve[r].step # "idle"
    BY <1>5 DEF SetDecision, StoreSecret
  <2>2. /\ resolve'[r] \in Deciding
        /\ resolve'[r].step = "commit" /\ resolve'[r].item = resolve[r].item
        /\ resolve'[r].action = resolve[r].action
        /\ \A q \in Resolvers : q # r => resolve'[q] = resolve[q]
    BY <2>1, ResolutionGoesOn DEF ResolveStep
  <2> QED
    BY <1>1, <1>2, <1>3, <1>4, <2>2 DEF ResolveFits
<1>6. CASE Commit(r)
  <2>1. resolve' = [resolve EXCEPT ![r].step = "tell"] /\ resolve[r].step # "idle"
    BY <1>6 DEF Commit
  <2>2. /\ resolve'[r] \in Deciding
        /\ resolve'[r].step = "tell" /\ resolve'[r].item = resolve[r].item
        /\ resolve'[r].action = resolve[r].action
        /\ \A q \in Resolvers : q # r => resolve'[q] = resolve[q]
    BY <2>1, ResolutionGoesOn DEF ResolveStep
  <2> QED
    BY <1>1, <1>2, <1>3, <1>4, <2>2 DEF ResolveFits
<1>7. CASE CheckUnlocked(r) /\ resolve' = [resolve EXCEPT ![r].step = "store"]
  <2>1. resolve[r].step # "idle" /\ resolve[r].item \in Secrets /\ resolve[r].action = "allow"
    BY <1>0, <1>7 DEF CheckUnlocked, ResolveFits
  <2>2. /\ resolve'[r] \in Deciding
        /\ resolve'[r].step = "store" /\ resolve'[r].item = resolve[r].item
        /\ resolve'[r].action = resolve[r].action
        /\ \A q \in Resolvers : q # r => resolve'[q] = resolve[q]
    BY <1>7, <2>1, ResolutionGoesOn DEF ResolveStep
  <2> QED
    BY <1>1, <1>2, <1>3, <1>4, <2>1, <2>2 DEF ResolveFits
<1>8. CASE resolve' = [resolve EXCEPT ![r] = Idle]
  <2>1. resolve'[r] = Idle /\ \A q \in Resolvers : q # r => resolve'[q] = resolve[q]
    BY <1>8 DEF Types
  <2> QED
    BY <1>1, <1>2, <1>3, <1>4, <2>1
<1> QED
  BY <1>5, <1>6, <1>7, <1>8
  DEF ResolveActs, SetDecisionRaises, CheckUnlocked, VaultRaises, TellAgent

(* The steps of the system by who takes them *)
LEMMA NextActs ==
  ASSUME Next
  PROVE  \/ \E a \in Agents : CallActs(a)
         \/ \E r \in Resolvers, i \in Items, x \in Action : Starts(r, i, x)
         \/ \E r \in Resolvers : ResolveActs(r)
         \/ \E i \in Items : Deliver(i)
         \/ RequestsCrash \/ InitializeVault \/ UnlockVault
<1>1. ASSUME NEW a \in Agents, NEW i \in Items, NEW x \in Action, AgentResolves(a, i, x)
      PROVE  \E r \in Resolvers, j \in Items, y \in Action : Starts(r, j, y)
  BY <1>1, ApprovalsAssumption DEF Starts
<1>2. ASSUME NEW r \in Resolvers, NEW i \in Items, NEW x \in Action, Resolve(r, i, x)
      PROVE  \E q \in Resolvers, j \in Items, y \in Action : Starts(q, j, y)
  BY <1>2 DEF Starts
<1> QED
  BY <1>1, <1>2 DEF Next, CallActs, ResolveActs

LEMMA TypesInv ==
  ASSUME Types, Rest, Grants, MatchInv, [Next]_vars PROVE Types'
<1>1. CASE UNCHANGED vars
  BY <1>1 DEF vars, Types, ResolveFits
<1>2. ASSUME NEW a \in Agents, CallActs(a) PROVE Types'
  <2>1. PICK c \in CallState : Goto(a, c)
    BY <1>2, CallMoves
  <2>2. call' \in [Agents -> CallState]
    BY <2>1 DEF Goto, Types
  <2> QED
    BY <1>2, <2>2, CallEffects DEF Types, ResolveFits
<1>3. ASSUME NEW r \in Resolvers, NEW i \in Items, NEW x \in Action, Starts(r, i, x)
      PROVE  Types'
  <2>1. resolve' \in [Resolvers -> ResolveState]
    <3>1. resolve' = [resolve EXCEPT ![r] = resolve'[r]]
      BY <1>3 DEF Starts, Resolve, AgentResolves, Begins, Types
    <3>2. resolve'[r] \in ResolveState
      BY <1>3, StartEffects DEF ResolveState
    <3> QED
      BY <3>1, <3>2 DEF Types
  <2>2. \A q \in Resolvers : ResolveFits(resolve[q])'
    BY <1>3, StartEffects DEF Types, ResolveFits
  <2> QED
    BY <1>3, <2>1, <2>2, StartEffects DEF Types
<1>4. ASSUME NEW r \in Resolvers, ResolveActs(r) PROVE Types'
  <2>1. resolve' \in [Resolvers -> ResolveState]
    <3>1. resolve' = [resolve EXCEPT ![r] = resolve'[r]]
      BY <1>4
      DEF ResolveActs, SetDecision, SetDecisionRaises, CheckUnlocked, StoreSecret, VaultRaises,
          Commit, TellAgent, Types
    <3>2. resolve'[r] \in ResolveState
      BY <1>4, ResolveEffects DEF ResolveState
    <3> QED
      BY <3>1, <3>2 DEF Types
  <2>2. \A q \in Resolvers : ResolveFits(resolve[q])'
    <3>1. ResolveFits(resolve[r])'
      BY <1>4, ResolveEffects DEF ResolveFits, Idle
    <3> QED
      BY <1>4, <3>1, ResolveEffects DEF Types, ResolveFits
  <2>3. catalog' \in [Items -> Status]
    <3>1. CASE Commit(r)
      BY <3>1 DEF Commit, Types, StatusOf, Status
    <3> QED
      BY <1>4, <3>1, ResolveEffects DEF Types
  <2>4. policy' \in [Tools -> {"unset", "ALLOW", "DENY"}]
    <3>1. CASE SetDecision(r) \/ SetDecisionRaises(r)
      BY <3>1 DEF SetDecision, SetDecisionRaises, Types, Decision
    <3> QED
      BY <1>4, <3>1, ResolveEffects DEF Types
  <2>5. stored' \in SUBSET Secrets
    <3>1. ResolveFits(resolve[r])
      BY DEF Types
    <3> QED
      BY <1>4, <3>1
      DEF ResolveActs, SetDecision, SetDecisionRaises, CheckUnlocked, StoreSecret, VaultRaises,
          Commit, TellAgent, Types, ResolveFits, storeVars
  <2> QED
    BY <1>4, <2>1, <2>2, <2>3, <2>4, <2>5, ResolveEffects DEF Types
<1>5. ASSUME NEW i \in Items, Deliver(i) PROVE Types'
  BY <1>5 DEF Deliver, storeVars, Types, ResolveFits
<1>6. CASE RequestsCrash
  <2>1. resolve' \in [Resolvers -> ResolveState]
        /\ \A r \in Resolvers : ResolveFits(resolve[r])'
    BY <1>6 DEF RequestsCrash, ResolveFits, Idle, ResolveState
  <2>2. call' \in [Agents -> CallState]
    BY <1>6 DEF RequestsCrash, Types, CallState
  <2> QED
    BY <1>6, <2>1, <2>2 DEF RequestsCrash, storeVars, Types
<1>7. CASE InitializeVault \/ UnlockVault
  BY <1>7 DEF InitializeVault, UnlockVault, Types, ResolveFits
<1> QED
  BY <1>1, <1>2, <1>3, <1>4, <1>5, <1>6, <1>7, NextActs
-----------------------------------------------------------------------------
LEMMA GrantsOfCalls ==
  ASSUME Types, Grants, MatchInv, NEW a \in Agents, CallActs(a)
  PROVE  Grants'
<1>1. UNCHANGED <<stored, policy, allowed, resolve>>
  BY CallEffects DEF historyVars
<1>2. \A b \in Agents : CallGranted(call[b])'
  <2>1. PICK c \in CallState : CallGranted(c) /\ Goto(a, c)
    BY CallMoves
  <2>2. \A b \in Agents : call'[b] = IF b = a THEN c ELSE call[b]
    BY <2>1 DEF Goto, Types
  <2> QED
    BY <1>1, <2>1, <2>2 DEF Grants, CallGranted, ExecGranted
<1>3. OnlyGrantedRuns'
  <2>1. CASE usage' = NoUsage
    BY <2>1 DEF OnlyGrantedRuns, NoUsage
  <2>2. CASE Decide(a) /\ policy[call[a].tool] = "ALLOW"
    <3>1. call[a] \in Executing /\ ExecGranted(call[a])
      BY <2>2, CallFields DEF Decide, Grants, CallGranted
    <3>2. ~Denied(call[a].tool) /\ call[a].tool \in allowed
      BY <2>2, <3>1, AllowedNotDenied DEF Executing, Grants
    <3> QED
      BY <1>1, <2>1, <2>2, <3>1, <3>2
      DEF Decide, Allows, Run, NothingRuns, OnlyGrantedRuns, ExecGranted
  <2>3. CASE HaveSecrets(a)
    <3>1. call[a].step = "secret" /\ ExecGranted(call[a])
      BY <2>3 DEF HaveSecrets, Grants, CallGranted
    <3> QED
      BY <1>1, <2>1, <2>3, <3>1
      DEF HaveSecrets, Run, NothingRuns, OnlyGrantedRuns, ExecGranted
  <2> QED
    BY <2>1, <2>2, <2>3
    DEF CallActs, Exec, Request, Decide, CheckVault, FetchSecret, Ask, NotifyUser,
        NotifyLost, AgentAnswered, NothingRuns
<1> QED
  BY <1>1, <1>2, <1>3 DEF Grants, ResolveGranted

LEMMA GrantsOfResolutions ==
  ASSUME Types, Grants, NEW r \in Resolvers, ResolveActs(r)
  PROVE  Grants'
<1>1. UNCHANGED <<call, allowed>> /\ usage' = NoUsage
  BY ResolveEffects
<1>2. \A q \in Resolvers : ResolveGranted(resolve[q])'
  BY <1>1, ResolveEffects DEF Grants, ResolveGranted, Idle, Deciding, ResolveStep
<1>3. resolve[r].action = "allow" => resolve[r].item \in allowed
  BY ResolveEffects DEF Grants, ResolveGranted, Deciding, ResolveStep
<1>4. stored' \subseteq stored \cup {resolve[r].item}
      /\ (stored' = stored \/ resolve[r].action = "allow")
  <2>1. ResolveFits(resolve[r])
    BY DEF Types
  <2> QED
    BY <2>1
    DEF ResolveActs, SetDecision, SetDecisionRaises, CheckUnlocked, StoreSecret, VaultRaises,
        Commit, TellAgent, storeVars, ResolveFits
<1>5. \A t \in Tools : policy'[t] = "ALLOW" => t \in allowed
  <2>1. CASE SetDecision(r) \/ SetDecisionRaises(r)
    BY <1>3, <2>1 DEF SetDecision, SetDecisionRaises, Decision, Grants, Types
  <2> QED
    BY <2>1, ResolveEffects DEF Grants
<1> QED
  BY <1>1, <1>2, <1>3, <1>4, <1>5
  DEF Grants, CallGranted, ExecGranted, OnlyGrantedRuns, NoUsage

LEMMA GrantsInv ==
  ASSUME Types, Rest, Grants, MatchInv, [Next]_vars PROVE Grants'
<1> USE DEF Grants, CallGranted, ExecGranted, ResolveGranted, OnlyGrantedRuns
<1>1. CASE UNCHANGED vars
  BY <1>1 DEF vars
<1>2. ASSUME NEW r \in Resolvers, NEW i \in Items, NEW x \in Action, Starts(r, i, x)
      PROVE  Grants'
  <2>1. \A a \in Agents : CallGranted(call[a])'
    BY <1>2, StartEffects DEF Forward
  <2>2. \A q \in Resolvers : ResolveGranted(resolve[q])'
    BY <1>2, StartEffects
  <2> QED
    BY <1>2, <2>1, <2>2, StartEffects
<1>3. ASSUME NEW i \in Items, Deliver(i) PROVE Grants'
  BY <1>3 DEF Deliver, storeVars, historyVars, NothingRuns
<1>4. CASE RequestsCrash
  BY <1>4 DEF RequestsCrash, storeVars, Idle, NothingRuns
<1>5. CASE InitializeVault \/ UnlockVault
  BY <1>5 DEF InitializeVault, UnlockVault, historyVars, NothingRuns
<1> QED
  BY <1>1, <1>2, <1>3, <1>4, <1>5, GrantsOfCalls, GrantsOfResolutions, NextActs
-----------------------------------------------------------------------------
LEMMA StoredOfResolutions ==
  ASSUME Types, StoredInv, NEW r \in Resolvers, ResolveActs(r), "vault" \notin faults'
  PROVE  StoredInv'
<1>1. /\ \A s \in Secrets : catalog[s] = "approved" => s \in stored
      /\ \A q \in Resolvers : Stores(resolve[q])
  BY ResolveEffects DEF StoredInv
<1>2. \A s \in Secrets : catalog'[s] = "approved" => s \in stored'
  <2>1. CASE Commit(r)
    BY <1>1, <2>1, ResolveFields
    DEF Commit, StatusOf, Stores, Types, Deciding, Action, Items
  <2> QED
    BY <1>1, <2>1, ResolveEffects
<1>3. Stores(resolve[r])'
  <2>1. CASE StoreSecret(r)
    BY <2>1, ResolveEffects DEF StoreSecret, Happens, Stores, Idle
  <2>2. CASE SetDecision(r)
    <3>1. resolve[r].item \in Tools
      BY <2>2 DEF SetDecision, Types, ResolveFits
    <3> QED
      BY <3>1, ResolveEffects, ApprovalsAssumption DEF Stores, Idle
  <2>3. CASE resolve'[r].step # "commit"
    BY <2>3 DEF Stores
  <2>4. ~(SetDecision(r) \/ StoreSecret(r)) => resolve'[r].step # "commit"
    <3>1. CASE Commit(r)
      BY <3>1, ResolutionGoesOn DEF Commit, ResolveStep
    <3>2. CASE CheckUnlocked(r) /\ resolve' = [resolve EXCEPT ![r].step = "store"]
      BY <3>2, ResolutionGoesOn DEF CheckUnlocked, ResolveStep
    <3>3. CASE resolve' = [resolve EXCEPT ![r] = Idle]
      BY <3>3 DEF Types, Idle
    <3> QED
      BY <3>1, <3>2, <3>3
      DEF ResolveActs, SetDecisionRaises, CheckUnlocked, VaultRaises, TellAgent
  <2> QED
    BY <2>1, <2>2, <2>3, <2>4
<1>4. \A q \in Resolvers : Stores(resolve[q])'
  BY <1>1, <1>3, ResolveEffects DEF Stores
<1> QED
  BY <1>2, <1>4 DEF StoredInv

LEMMA StoredInvKept ==
  ASSUME Types, Rest, StoredInv, [Next]_vars PROVE StoredInv'
<1>1. CASE UNCHANGED vars
  BY <1>1 DEF vars, StoredInv, Stores
<1>2. ASSUME NEW a \in Agents, CallActs(a) PROVE StoredInv'
  BY <1>2, CallEffects DEF StoredInv, Stores, Items
<1>3. ASSUME NEW r \in Resolvers, NEW i \in Items, NEW x \in Action, Starts(r, i, x)
      PROVE  StoredInv'
  BY <1>3, StartEffects DEF StoredInv, Stores
<1>4. ASSUME NEW r \in Resolvers, ResolveActs(r) PROVE StoredInv'
  BY <1>4, StoredOfResolutions DEF StoredInv
<1>5. ASSUME NEW i \in Items, Deliver(i) PROVE StoredInv'
  BY <1>5 DEF Deliver, storeVars, StoredInv, Stores
<1>6. CASE RequestsCrash
  BY <1>6 DEF RequestsCrash, Happens, storeVars, Idle, Types, StoredInv, Stores
<1>7. CASE InitializeVault
  BY <1>7 DEF InitializeVault, Happens, StoredInv
<1>8. CASE UnlockVault
  BY <1>8 DEF UnlockVault, StoredInv, Stores
<1> QED
  BY <1>1, <1>2, <1>3, <1>4, <1>5, <1>6, <1>7, <1>8, NextActs
-----------------------------------------------------------------------------
LEMMA MatchOfStarts ==
  ASSUME Types, Rest, MatchInv,
         NEW r \in Resolvers, NEW i \in Items, NEW x \in Action, Starts(r, i, x)
  PROVE  MatchInv'
<1>1. /\ UNCHANGED <<catalog, policy>> /\ resolve[r].step = "idle"
      /\ \A q \in Resolvers : q # r => resolve'[q] = resolve[q]
      /\ resolve'[r].item = i /\ resolve'[r].step \in {"decision", "check", "commit"}
      /\ i \in Tools => resolve'[r].step = "decision"
      /\ unsettled' = IF Writing(i) THEN unsettled \cup ({i} \cap Tools)
                      ELSE unsettled \ {i}
  BY StartEffects
<1>2. \A q \in Resolvers, t \in Tools :
        q # r => (WritesTo(q, t)' <=> WritesTo(q, t))
  BY <1>1 DEF WritesTo, Under
<1>3. \A t \in Tools : WritesTo(r, t)' <=> t = i
  BY <1>1 DEF WritesTo, Under
<1>4. ASSUME NEW t \in Tools \ unsettled' PROVE t = i => ~Writing(t)
  BY <1>1, <1>4
<1>5. Apart'
  <2> SUFFICES ASSUME NEW p \in Resolvers, NEW q \in Resolvers, NEW t \in Tools \ unsettled',
                      WritesTo(p, t)', WritesTo(q, t)'
               PROVE  p = q
    BY DEF Apart
  <2>1. CASE t = i
    BY <1>2, <1>4, <2>1 DEF Writing
  <2>2. CASE t # i
    <3>1. t \in Tools \ unsettled /\ p # r /\ q # r
      BY <1>1, <1>3, <2>2
    <3> QED
      BY <1>2, <3>1 DEF MatchInv, Apart
  <2> QED
    BY <2>1, <2>2
<1>6. CatalogMatchesPolicy'
  <2> SUFFICES ASSUME NEW t \in Tools \ unsettled', ~Writing(t)'
               PROVE  Matches(t)'
    BY DEF CatalogMatchesPolicy
  <2>1. t # i
    BY <1>3 DEF Writing
  <2>2. t \in Tools \ unsettled
    BY <1>1, <2>1
  <2>3. ~Writing(t)
    <3>1. ~WritesTo(r, t)
      BY <1>1 DEF WritesTo, Under
    <3> QED
      BY <1>2, <3>1 DEF Writing
  <2> QED
    BY <1>1, <2>2, <2>3 DEF MatchInv, CatalogMatchesPolicy, Matches
<1>7. ASSUME NEW q \in Resolvers PROVE Decided(resolve[q])'
  <2>1. CASE q = r
    BY <1>1, <2>1 DEF Decided
  <2>2. CASE q # r
    <3>1. WritesTo(q, i) => unsettled' = unsettled \cup ({i} \cap Tools)
      BY <1>1 DEF Writing
    <3>2. resolve[q].step = "commit" /\ resolve[q].item = i => WritesTo(q, i)
      BY DEF WritesTo, Under
    <3> QED
      BY <1>1, <2>2, <3>1, <3>2 DEF MatchInv, Decided
  <2> QED
    BY <2>1, <2>2
<1> QED
  BY <1>5, <1>6, <1>7 DEF MatchInv

LEMMA MatchOfResolutions ==
  ASSUME Types, Rest, MatchInv, NEW r \in Resolvers, ResolveActs(r)
  PROVE  MatchInv'
<1> DEFINE i == resolve[r].item
<1>1. /\ \A q \in Resolvers : q # r => resolve'[q] = resolve[q]
      /\ resolve'[r] = Idle \/ (resolve'[r] \in Deciding /\ resolve'[r].item = i
                                /\ resolve'[r].action = resolve[r].action)
      /\ resolve[r] \in Deciding
  BY ResolveEffects
<1>2. unsettled \subseteq unsettled' /\ unsettled' \subseteq unsettled \cup {i}
  BY ResolveEffects DEF SetDecision, SetDecisionRaises, historyVars
<1>3. \A q \in Resolvers, t \in Tools :
        q # r => (WritesTo(q, t)' <=> WritesTo(q, t))
  BY <1>1 DEF WritesTo, Under
<1>4. \A t \in Tools : t # i => ~WritesTo(r, t) /\ ~WritesTo(r, t)'
  BY <1>1 DEF WritesTo, Under, Idle
<1>5. \A t \in Tools : WritesTo(r, t)' => WritesTo(r, t)
  <2>1. CASE resolve[r].step = "tell"
    <3>1. TellAgent(r)
      BY <2>1 DEF ResolveActs, SetDecision, SetDecisionRaises, CheckUnlocked, StoreSecret,
                  VaultRaises, Commit
    <3>2. resolve'[r] = Idle
      BY <3>1 DEF TellAgent, Types
    <3> QED
      BY <3>2 DEF WritesTo, Under, Idle
  <2>2. CASE resolve[r].step # "tell"
    BY <1>1, <1>4, <2>2 DEF WritesTo, Under, Deciding, ResolveStep
  <2> QED
    BY <2>1, <2>2
<1>6. Apart'
  <2> SUFFICES ASSUME NEW p \in Resolvers, NEW q \in Resolvers, NEW t \in Tools \ unsettled',
                      WritesTo(p, t)', WritesTo(q, t)'
               PROVE  p = q
    BY DEF Apart
  <2>1. t \in Tools \ unsettled /\ WritesTo(p, t) /\ WritesTo(q, t)
    BY <1>2, <1>3, <1>5
  <2> QED
    BY <2>1 DEF MatchInv, Apart
<1>7. \A t \in Tools : t # i => policy'[t] = policy[t] /\ catalog'[t] = catalog[t]
  <2>1. ~(SetDecision(r) \/ SetDecisionRaises(r)) => UNCHANGED policy
    BY ResolveEffects
  <2>2. ~Commit(r) => UNCHANGED catalog
    BY ResolveEffects
  <2>3. SetDecision(r) \/ SetDecisionRaises(r) =>
          \A t \in Tools : t # i => policy'[t] = policy[t]
    BY DEF SetDecision, SetDecisionRaises, Types
  <2>4. Commit(r) => \A t \in Tools : t # i => catalog'[t] = catalog[t]
    BY DEF Commit, Types, Items
  <2> QED
    BY <2>1, <2>2, <2>3, <2>4
<1>8. ASSUME NEW t \in Tools \ unsettled', ~Writing(t)' PROVE Matches(t)'
  <2>1. t \in Tools \ unsettled
    BY <1>2
  <2>2. CASE ~Writing(t) /\ UNCHANGED <<catalog, policy>>
    BY <2>1, <2>2 DEF MatchInv, CatalogMatchesPolicy, Matches
  <2>3. CASE t # i
    <3>1. ~Writing(t)
      BY <1>3, <1>4, <1>8, <2>3 DEF Writing
    <3> QED
      BY <1>7, <2>1, <2>3, <3>1 DEF MatchInv, CatalogMatchesPolicy, Matches
  <2>4. CASE t = i /\ Commit(r)
    <3>1. policy[t] = Decision(resolve[r].action)
      BY <2>1, <2>4 DEF MatchInv, Decided, Commit
    <3>2. catalog'[t] = StatusOf(resolve[r].action) /\ policy'[t] = policy[t]
      BY <2>4 DEF Commit, Types, Items
    <3> QED
      BY <3>1, <3>2 DEF Matches, StatusOf, Decision
  <2>5. CASE t = i /\ (SetDecision(r) \/ SetDecisionRaises(r))
    <3>1. CASE SetDecision(r)
      <4>1. resolve'[r].step = "commit" /\ resolve'[r].item = t
        BY <2>5, <3>1, ResolutionGoesOn DEF SetDecision, ResolveStep
      <4> QED
        BY <1>8, <4>1 DEF Writing, WritesTo, Under
    <3>2. CASE SetDecisionRaises(r)
      BY <1>8, <2>5, <3>2 DEF SetDecisionRaises
    <3> QED
      BY <2>5, <3>1, <3>2
  <2>6. CASE t = i /\ (CheckUnlocked(r) \/ StoreSecret(r) \/ VaultRaises(r))
    <3>1. resolve[r].item \in Secrets
      BY <2>6 DEF CheckUnlocked, StoreSecret, VaultRaises, Types, ResolveFits
    <3> QED
      BY <2>6, <3>1, ApprovalsAssumption
  <2>7. CASE t = i /\ TellAgent(r)
    <3>1. ~WritesTo(r, t)
      BY <2>7 DEF TellAgent, WritesTo
    <3>2. ~Writing(t)
      BY <1>3, <1>8, <3>1 DEF Writing
    <3> QED
      BY <2>2, <2>7, <3>2 DEF TellAgent, storeVars
  <2> QED
    BY <2>3, <2>4, <2>5, <2>6, <2>7 DEF ResolveActs
<1>9. ASSUME NEW q \in Resolvers PROVE Decided(resolve[q])'
  <2>1. CASE q # r
    <3>1. CASE resolve[q].step = "commit" /\ resolve[q].item \in Tools \ unsettled'
      <4>1. resolve[q].item \in Tools \ unsettled
        BY <1>2, <3>1
      <4>2. WritesTo(q, resolve[q].item)
        BY <3>1 DEF WritesTo, Under
      <4>3. CASE resolve[q].item # i
        BY <1>1, <1>7, <2>1, <3>1, <4>1, <4>3 DEF MatchInv, Decided
      <4>4. CASE resolve[q].item = i
        <5>1. ~WritesTo(r, i)
          BY <2>1, <4>1, <4>2, <4>4 DEF MatchInv, Apart
        <5>2. TellAgent(r)
          BY <1>1, <5>1
          DEF WritesTo, Under, ResolveActs, SetDecision, SetDecisionRaises, CheckUnlocked,
              StoreSecret, VaultRaises, Commit
        <5> QED
          BY <1>1, <2>1, <4>1, <5>2 DEF TellAgent, storeVars, MatchInv, Decided
      <4> QED
        BY <4>3, <4>4
    <3> QED
      BY <1>1, <2>1, <3>1 DEF Decided
  <2>2. CASE q = r
    <3>1. CASE SetDecision(r)
      <4>1. /\ resolve'[r].step = "commit" /\ resolve'[r].item = i
            /\ resolve'[r].action = resolve[r].action
        BY <3>1, ResolutionGoesOn DEF SetDecision, ResolveStep
      <4>2. CASE policy' = [policy EXCEPT ![i] = Decision(resolve[r].action)]
        BY <2>2, <4>1, <4>2 DEF Decided, Types, Decision
      <4>3. CASE unsettled' = unsettled \cup {i}
        BY <2>2, <4>1, <4>3 DEF Decided
      <4> QED
        BY <3>1, <4>2, <4>3 DEF SetDecision
    <3>2. CASE StoreSecret(r)
      <4>1. resolve[r].item \in Secrets
        BY <3>2 DEF StoreSecret, Types, ResolveFits
      <4> QED
        BY <1>1, <2>2, <4>1, ApprovalsAssumption DEF Decided, Idle
    <3>3. CASE resolve'[r].step # "commit"
      BY <2>2, <3>3 DEF Decided
    <3>4. ~(SetDecision(r) \/ StoreSecret(r)) => resolve'[r].step # "commit"
      <4>1. CASE Commit(r)
        BY <4>1, ResolutionGoesOn DEF Commit, ResolveStep
      <4>2. CASE CheckUnlocked(r) /\ resolve' = [resolve EXCEPT ![r].step = "store"]
        BY <4>2, ResolutionGoesOn DEF CheckUnlocked, ResolveStep
      <4>3. CASE resolve' = [resolve EXCEPT ![r] = Idle]
        BY <4>3 DEF Types, Idle
      <4> QED
        BY <4>1, <4>2, <4>3
        DEF ResolveActs, SetDecisionRaises, CheckUnlocked, VaultRaises, TellAgent
    <3> QED
      BY <3>1, <3>2, <3>3, <3>4
  <2> QED
    BY <2>1, <2>2
<1> QED
  BY <1>6, <1>8, <1>9 DEF MatchInv, CatalogMatchesPolicy

LEMMA MatchInvKept ==
  ASSUME Types, Rest, MatchInv, [Next]_vars PROVE MatchInv'
<1> USE DEF MatchInv, Apart, CatalogMatchesPolicy, Matches, Decided, Writing, WritesTo, Under
<1>1. CASE UNCHANGED vars
  BY <1>1 DEF vars
<1>2. ASSUME NEW a \in Agents, CallActs(a) PROVE MatchInv'
  <2>1. UNCHANGED <<policy, resolve, unsettled>>
    BY <1>2, CallEffects DEF historyVars
  <2>2. \A t \in Tools : \/ catalog'[t] = catalog[t]
                         \/ catalog'[t] = "requested" /\ catalog[t] # "approved"
    BY <1>2, CallEffects DEF Items
  <2> QED
    BY <2>1, <2>2
<1>3. ASSUME NEW r \in Resolvers, NEW i \in Items, NEW x \in Action, Starts(r, i, x)
      PROVE  MatchInv'
  BY <1>3, MatchOfStarts
<1>4. ASSUME NEW r \in Resolvers, ResolveActs(r) PROVE MatchInv'
  BY <1>4, MatchOfResolutions
<1>5. ASSUME NEW i \in Items, Deliver(i) PROVE MatchInv'
  BY <1>5 DEF Deliver, storeVars, historyVars
<1>6. CASE RequestsCrash
  <2>1. UNCHANGED <<catalog, policy>> /\ \A r \in Resolvers : resolve'[r].step = "idle"
    BY <1>6 DEF RequestsCrash, storeVars, Idle
  <2>2. unsettled' = unsettled \cup {t \in Tools : Writing(t)}
    BY <1>6 DEF RequestsCrash
  <2> QED
    BY <2>1, <2>2
<1>7. CASE InitializeVault \/ UnlockVault
  BY <1>7 DEF InitializeVault, UnlockVault, historyVars
<1> QED
  BY <1>1, <1>2, <1>3, <1>4, <1>5, <1>6, <1>7, NextActs
-----------------------------------------------------------------------------
LEMMA AskedOfCalls ==
  ASSUME Types, Rest, StoredInv, MatchInv, AskedInv,
         NEW a \in Agents, CallActs(a), faults' = {}
  PROVE  AskedInv'
<1>1. /\ vault = "unlocked" /\ unsettled = {} /\ faults = {}
      /\ \A i \in Items : catalog[i] = "requested" => i \in asked \/ Notifying(i)
      /\ \A i \in Items : Overtaken(i) => i \in mail \/ Resolving(i)
      /\ \A i \in blocked : Awaited(i)
  BY CallEffects DEF AskedInv
<1>2. /\ UNCHANGED <<policy, vault, stored, resolve, mail, unsettled>>
      /\ asked \subseteq asked'
      /\ \A i \in Items : \/ catalog'[i] = catalog[i]
                          \/ catalog'[i] = "requested" /\ catalog[i] # "approved"
      /\ \A b \in Agents : b # a => call'[b] = call[b]
  BY CallEffects DEF historyVars
<1>3. \A i : Resolving(i)' = Resolving(i)
  BY <1>2 DEF Resolving, Under
<1>4. ASSUME NEW i \in Items, i \in asked \/ Notifying(i)
      PROVE  i \in asked' \/ Notifying(i)'
  <2>1. CASE call[a].step = "notify" /\ call[a].item = i
    BY <1>2, <2>1
    DEF CallActs, Exec, Request, Decide, CheckVault, FetchSecret, HaveSecrets, Ask,
        NotifyUser, NotifyLost, AgentAnswered, Happens
  <2>2. CASE ~(call[a].step = "notify" /\ call[a].item = i)
    BY <1>2, <1>4, <2>2 DEF Notifying
  <2> QED
    BY <2>1, <2>2
<1>5. ASSUME NEW i \in Items, Ask(a), call[a].item = i, catalog[i] \in {"none", "denied"}
      PROVE  Notifying(i)'
  <2>1. call[a] \in Asking /\ Goto(a, [call[a] EXCEPT !.step = "notify"])
    BY <1>5, CallFields DEF Ask
  <2>2. PICK c : c = [call[a] EXCEPT !.step = "notify"]
    OBVIOUS
  <2>3. c.step = "notify" /\ c.item = i
    BY <1>5, <2>1, <2>2 DEF Asking
  <2>4. call'[a] = c
    BY <2>1, <2>2 DEF Goto, Types
  <2> QED
    BY <2>3, <2>4 DEF Notifying
<1>6. ASSUME NEW i \in Items, catalog'[i] = "requested"
      PROVE  i \in asked' \/ Notifying(i)'
  <2>1. CASE catalog[i] = "requested"
    BY <1>1, <1>4, <2>1
  <2>2. CASE catalog[i] # "requested"
    <3>1. Ask(a) /\ call[a].item = i
      BY <1>6, <2>2
      DEF CallActs, Exec, Request, Decide, CheckVault, FetchSecret, HaveSecrets, Ask,
          NotifyUser, NotifyLost, AgentAnswered, storeVars, Types
    <3>2. catalog[i] \in {"none", "denied"}
      BY <1>2, <1>6, <2>2 DEF Types, Status
    <3> QED
      BY <1>5, <3>1, <3>2
  <2> QED
    BY <2>1, <2>2
<1>8. ASSUME NEW i \in Items, Overtaken(i)' PROVE i \in mail' \/ Resolving(i)'
  <2>1. catalog[i] = "approved"
    BY <1>2, <1>8 DEF Overtaken
  <2>2. CASE Overtaken(i)
    BY <1>1, <1>2, <1>3, <2>2
  <2>3. CASE ~Overtaken(i)
    <3>1. a = NewsSession
      BY <1>2, <1>8, <2>1, <2>3, ApprovalsAssumption DEF Overtaken
    <3>2. /\ call'[a].step = "ask" /\ call'[a].from = "tools" /\ call'[a].item = i
      BY <1>8, <3>1 DEF Overtaken
    <3>3. CASE Decide(a)
      <4>1. call[a] \in Executing
        BY <3>3, CallFields DEF Decide
      <4>2. CASE policy[call[a].tool] # "ALLOW" /\ AskFor(a, call[a].tool, Idle)
        <5>1. i = call[a].tool /\ i \in Tools
          BY <3>2, <4>1, <4>2 DEF AskFor, Goto, Types, Executing
        <5>2. Writing(i)
          BY <1>1, <2>1, <4>2, <5>1 DEF MatchInv, CatalogMatchesPolicy, Matches
        <5> QED
          BY <1>3, <5>2 DEF Writing, WritesTo, Resolving
      <4>3. CASE Return(a)
        BY <3>2, <4>3 DEF Return, Goto, Idle, Types
      <4>4. ASSUME NEW d \in {"yes", "no"}, Goto(a, [call[a] EXCEPT !.step = "vault", !.denied = d])
            PROVE  FALSE
        <5>1. PICK c : c = [call[a] EXCEPT !.step = "vault", !.denied = d]
          OBVIOUS
        <5>2. c.step = "vault"
          BY <4>1, <5>1 DEF Executing
        <5> QED
          BY <3>2, <4>4, <5>1, <5>2 DEF Goto, Types
      <4> QED
        BY <3>3, <4>2, <4>3, <4>4 DEF Decide, Allows, Run
    <3>4. CASE FetchSecret(a)
      <4>1. call[a] \in Executing
        BY <3>4, CallFields DEF FetchSecret
      <4>2. PICK h \in call[a].todo :
              IF h \in stored
              THEN Goto(a, [call[a] EXCEPT !.todo = @ \ {h}, !.given = @ \cup {h}])
              ELSE AskFor(a, h, [call[a] EXCEPT !.todo = @ \ {h}, !.missing = @ \cup {h}])
        BY <1>1, <3>4 DEF FetchSecret
      <4>3. CASE Goto(a, [call[a] EXCEPT !.todo = @ \ {h}, !.given = @ \cup {h}])
        <5>1. PICK c : c = [call[a] EXCEPT !.todo = call[a].todo \ {h},
                                           !.given = call[a].given \cup {h}]
          OBVIOUS
        <5>2. c.step = call[a].step
          BY <4>1, <5>1 DEF Executing
        <5> QED
          BY <3>2, <3>4, <4>3, <5>1, <5>2 DEF FetchSecret, Goto, Types
      <4>4. CASE h \notin stored
                 /\ AskFor(a, h, [call[a] EXCEPT !.todo = @ \ {h}, !.missing = @ \cup {h}])
        <5>1. i = h
          BY <3>2, <4>4 DEF AskFor, Goto, Types
        <5>2. h \in Secrets
          BY <4>1, <4>2 DEF Executing
        <5> QED
          BY <1>1, <2>1, <4>4, <5>1, <5>2 DEF StoredInv
      <4> QED
        BY <4>2, <4>3, <4>4
    <3>5. CASE CheckVault(a)
      <4>1. call[a] \in Executing
        BY <3>5, CallFields DEF CheckVault
      <4>2. PICK c : c = [call[a] EXCEPT !.step = "secret"]
        OBVIOUS
      <4>3. c.step = "secret"
        BY <4>1, <4>2 DEF Executing
      <4>4. Goto(a, c) \/ Goto(a, Idle)
        BY <3>5, <4>2 DEF CheckVault, Return
      <4>5. call'[a] = c \/ call'[a] = Idle
        BY <4>4 DEF Goto, Types
      <4> QED
        BY <3>2, <4>3, <4>5 DEF Idle
    <3>6. CASE Ask(a) \/ NotifyUser(a) \/ NotifyLost(a)
      <4>1. call[a] \in Asking
        BY <3>6, CallFields DEF Ask, NotifyUser, NotifyLost
      <4>2. PICK c : c = [call[a] EXCEPT !.step = "notify"]
        OBVIOUS
      <4>3. c.step = "notify"
        BY <4>1, <4>2 DEF Asking
      <4>4. call[a].then.step # "ask"
        BY <4>1 DEF Asking, Executing, Idle
      <4>5. Goto(a, c) \/ Goto(a, call[a].then) \/ Goto(a, Idle)
        BY <3>6, <4>2 DEF Ask, NotifyUser, NotifyLost, Return, Resume
      <4>6. call'[a] = c \/ call'[a] = call[a].then \/ call'[a] = Idle
        BY <4>5 DEF Goto, Types
      <4> QED
        BY <3>2, <4>3, <4>4, <4>6 DEF Idle
    <3>7. CASE \E t \in Tools, handles \in SUBSET Secrets : Exec(a, t, handles)
      BY <3>2, <3>7 DEF Exec, Goto, Types
    <3>8. CASE \E j \in Items : Request(a, j)
      BY <3>2, <3>8 DEF Request, Goto, Types
    <3>9. CASE HaveSecrets(a) \/ AgentAnswered(a)
      BY <3>2, <3>9 DEF HaveSecrets, AgentAnswered, Run, Return, Goto, Idle, Types
    <3> QED
      BY <3>3, <3>4, <3>5, <3>6, <3>7, <3>8, <3>9 DEF CallActs
  <2> QED
    BY <2>2, <2>3
<1>9. ASSUME NEW i \in blocked' PROVE Awaited(i)'
  <2>1. CASE i \in blocked
    <3>1. i \in Items /\ Awaited(i)
      BY <1>1, <2>1 DEF Rest
    <3> QED
      BY <1>2, <1>3, <1>4, <3>1 DEF Awaited
  <2>2. CASE i \notin blocked
    <3>1. Ask(a)
      BY <1>9, <2>2
      DEF CallActs, Exec, Request, Decide, CheckVault, FetchSecret, HaveSecrets,
          NotifyUser, NotifyLost, AgentAnswered
    <3>2. /\ a = NewsSession /\ i = call[a].item
          /\ call[a].from = "tools" \/ catalog[i] # "approved"
      BY <1>9, <2>2, <3>1 DEF Ask, Refuse
    <3>3. i \in Items /\ call[a].step = "ask"
      BY <3>1, <3>2, CallFields DEF Ask, Asking
    <3>4. CASE catalog[i] \in {"none", "denied"}
      BY <1>5, <3>1, <3>2, <3>3, <3>4 DEF Awaited
    <3>5. CASE catalog[i] = "requested"
      BY <1>1, <1>4, <3>3, <3>5 DEF Awaited
    <3>6. CASE catalog[i] = "approved"
      BY <1>1, <1>2, <1>3, <3>2, <3>3, <3>6 DEF Overtaken, Awaited
    <3> QED
      BY <3>3, <3>4, <3>5, <3>6 DEF Types, Status
  <2> QED
    BY <2>1, <2>2
<1> QED
  BY <1>1, <1>2, <1>6, <1>8, <1>9 DEF AskedInv

LEMMA AskedOfResolutions ==
  ASSUME Types, Rest, AskedInv, NEW r \in Resolvers, ResolveActs(r), faults' = {}
  PROVE  AskedInv'
<1>1. /\ vault = "unlocked" /\ unsettled = {} /\ faults = {}
      /\ \A i \in Items : catalog[i] = "requested" => i \in asked \/ Notifying(i)
      /\ \A i \in Items : Overtaken(i) => i \in mail \/ Resolving(i)
      /\ \A i \in blocked : Awaited(i)
  BY ResolveEffects DEF AskedInv
<1>2. /\ UNCHANGED <<vault, call, blocked>>
      /\ \A q \in Resolvers : q # r => resolve'[q] = resolve[q]
      /\ ~Commit(r) => UNCHANGED <<catalog, asked>>
      /\ ~TellAgent(r) => UNCHANGED mail
      /\ ~(SetDecision(r) \/ SetDecisionRaises(r)) => UNCHANGED <<policy, unsettled>>
      /\ resolve[r] \in Deciding
      /\ resolve'[r] # Idle => resolve'[r].item = resolve[r].item
  BY ResolveEffects
<1>3. unsettled' = {}
  BY <1>1, <1>2 DEF SetDecision, SetDecisionRaises, Happens
<1>4. mail \subseteq mail'
  BY <1>2 DEF TellAgent
<1>5. \A i \in Items : Notifying(i)' = Notifying(i)
  BY <1>2 DEF Notifying
<1>6. \/ /\ TellAgent(r) /\ resolve[r].step = "tell" /\ resolve[r].item \in mail'
      \/ /\ resolve'[r].step # "idle" /\ resolve'[r].item = resolve[r].item
         /\ resolve'[r].step = "tell" => Commit(r)
  <2>1. CASE TellAgent(r)
    BY <1>1, <2>1 DEF TellAgent, Happens
  <2>2. CASE CheckUnlocked(r)
    <3>1. resolve' = [resolve EXCEPT ![r].step = "store"] /\ resolve[r].step # "idle"
      BY <1>1, <2>2 DEF CheckUnlocked
    <3> QED
      BY <3>1, ResolutionGoesOn DEF ResolveStep
  <2>3. CASE SetDecision(r) \/ StoreSecret(r)
    <3>1. resolve' = [resolve EXCEPT ![r].step = "commit"] /\ resolve[r].step # "idle"
      BY <2>3 DEF SetDecision, StoreSecret
    <3> QED
      BY <3>1, ResolutionGoesOn DEF ResolveStep
  <2>4. CASE Commit(r)
    <3>1. resolve' = [resolve EXCEPT ![r].step = "tell"] /\ resolve[r].step # "idle"
      BY <2>4 DEF Commit
    <3> QED
      BY <2>4, <3>1, ResolutionGoesOn DEF ResolveStep
  <2> QED
    BY <2>1, <2>2, <2>3, <2>4 DEF ResolveActs, SetDecisionRaises, VaultRaises, Happens
<1>7. ASSUME NEW i, Resolving(i), ~Resolving(i)'
      PROVE  TellAgent(r) /\ i = resolve[r].item /\ resolve[r].step = "tell" /\ i \in mail'
  BY <1>2, <1>6, <1>7 DEF Resolving, Under
<1>8. Commit(r) =>
        /\ \A j : j = resolve[r].item => Resolving(j)'
        /\ asked' = asked \ {resolve[r].item}
        /\ catalog' = [catalog EXCEPT ![resolve[r].item] = StatusOf(resolve[r].action)]
  <2>1. Commit(r) => resolve'[r].step # "idle" /\ resolve'[r].item = resolve[r].item
    BY <1>6 DEF Commit
  <2> QED
    BY <2>1 DEF Commit, Resolving, Under
<1>9. resolve[r].item \in Items
  BY <1>2 DEF Deciding
<1>10. ASSUME NEW i \in Items
       PROVE  /\ Commit(r) /\ i = resolve[r].item => catalog'[i] \in {"approved", "denied"}
              /\ ~(Commit(r) /\ i = resolve[r].item) =>
                    catalog'[i] = catalog[i] /\ (i \in asked => i \in asked')
  <2>1. CASE Commit(r)
    BY <1>8, <2>1 DEF Types, StatusOf
  <2>2. CASE ~Commit(r)
    BY <1>2, <2>2
  <2> QED
    BY <2>1, <2>2
<1>11. ASSUME NEW i \in Items, catalog'[i] = "requested"
       PROVE  i \in asked' \/ Notifying(i)'
  BY <1>1, <1>5, <1>10, <1>11
<1>13. ASSUME NEW i \in Items, Overtaken(i)' PROVE i \in mail' \/ Resolving(i)'
  <2>1. CASE Overtaken(i)
    BY <1>1, <1>4, <1>7, <2>1
  <2>2. CASE ~Overtaken(i)
    <3>1. catalog'[i] = "approved" /\ catalog[i] # "approved"
      BY <1>2, <1>13, <2>2 DEF Overtaken
    <3>2. Commit(r) /\ i = resolve[r].item
      BY <1>10, <3>1
    <3> QED
      BY <1>8, <3>2
  <2> QED
    BY <2>1, <2>2
<1>14. ASSUME NEW i \in blocked' PROVE Awaited(i)'
  <2>1. i \in blocked /\ i \in Items /\ Awaited(i)
    BY <1>1, <1>2, <1>14 DEF Rest
  <2>2. CASE Commit(r) /\ i = resolve[r].item
    BY <1>8, <2>2 DEF Awaited
  <2>3. CASE ~(Commit(r) /\ i = resolve[r].item)
    BY <1>4, <1>5, <1>7, <1>10, <2>1, <2>3 DEF Awaited
  <2> QED
    BY <2>2, <2>3
<1> QED
  BY <1>1, <1>2, <1>3, <1>11, <1>13, <1>14 DEF AskedInv

LEMMA AskedOfStarts ==
  ASSUME Types, Rest, AskedInv, faults' = {},
         NEW r \in Resolvers, NEW i \in Items, NEW x \in Action, Starts(r, i, x)
  PROVE  AskedInv'
<1>1. /\ UNCHANGED <<catalog, vault, asked, mail, blocked>> /\ faults = {}
      /\ resolve[r].step = "idle" /\ resolve'[r].step \in {"decision", "check", "commit"}
      /\ \A q \in Resolvers : q # r => resolve'[q] = resolve[q]
      /\ unsettled' = unsettled \ {i}
      /\ \A a \in Agents : \/ call'[a] = call[a]
                           \/ call[a].step = "idle" /\ call'[a] = Forward
  BY StartEffects
<1>2. \A j : Resolving(j) => Resolving(j)'
  BY <1>1 DEF Resolving, Under
<1>3. \A j : Notifying(j) => Notifying(j)'
  BY <1>1 DEF Notifying
<1>4. \A j : Overtaken(j)' => Overtaken(j)
  BY <1>1, ApprovalsAssumption DEF Overtaken, Forward
<1> QED
  BY <1>1, <1>2, <1>3, <1>4 DEF AskedInv, Awaited

LEMMA AskedInvKept ==
  ASSUME Types, Rest, StoredInv, MatchInv, AskedInv, [Next]_vars
  PROVE  AskedInv'
<1>1. CASE UNCHANGED vars
  BY <1>1 DEF vars, AskedInv, Awaited, Overtaken, Notifying, Resolving, Under
<1>2. ASSUME NEW a \in Agents, CallActs(a) PROVE AskedInv'
  BY <1>2, AskedOfCalls DEF AskedInv
<1>3. ASSUME NEW r \in Resolvers, NEW i \in Items, NEW x \in Action, Starts(r, i, x)
      PROVE  AskedInv'
  BY <1>3, AskedOfStarts DEF AskedInv
<1>4. ASSUME NEW r \in Resolvers, ResolveActs(r) PROVE AskedInv'
  BY <1>4, AskedOfResolutions DEF AskedInv
<1>5. ASSUME NEW i \in Items, Deliver(i) PROVE AskedInv'
  <2>1. UNCHANGED <<vault, unsettled, catalog, asked, call, resolve, faults>>
        /\ mail' = mail \ {i} /\ call[NewsSession].step = "idle"
        /\ blocked' = blocked \ {i}
    BY <1>5 DEF Deliver, storeVars, historyVars
  <2>2. \A j : Resolving(j)' = Resolving(j) /\ Notifying(j)' = Notifying(j) /\ ~Overtaken(j)'
    BY <2>1 DEF Resolving, Under, Notifying, Overtaken
  <2> QED
    BY <2>1, <2>2 DEF AskedInv, Awaited
<1>6. CASE RequestsCrash \/ InitializeVault
  BY <1>6 DEF RequestsCrash, InitializeVault, Happens, AskedInv
<1>7. CASE UnlockVault
  BY <1>7 DEF UnlockVault, AskedInv
<1> QED
  BY <1>1, <1>2, <1>3, <1>4, <1>5, <1>6, <1>7, NextActs
-----------------------------------------------------------------------------
LEMMA RestInv ==
  ASSUME Types, Rest, [Next]_vars PROVE Rest'
<1>1. CASE UNCHANGED vars
  BY <1>1 DEF vars, Rest
<1>2. ASSUME NEW f \in Fault, Happens(f) PROVE faults' \in SUBSET Fault
  BY <1>2 DEF Happens, Rest
<1>3. NoUsage \in Usage \cup {NoUsage}
  OBVIOUS
<1>4. ASSUME NEW a \in Agents, CallActs(a) PROVE Rest'
  <2>1. UNCHANGED <<mail, allowed, unsettled, resolutions>>
    BY <1>4, CallEffects DEF historyVars
  <2>2. faults' \in SUBSET Fault
    BY <1>2, <1>4
    DEF CallActs, Exec, Request, Decide, CheckVault, FetchSecret, HaveSecrets, Ask,
        NotifyUser, NotifyLost, AgentAnswered, Rest, Fault
  <2>3. usage' \in Usage \cup {NoUsage}
    <3>1. ASSUME NEW d \in {"yes", "no"}, call[a] \in Executing, Run(a, d)
          PROVE  usage' \in Usage
      BY <3>1 DEF Run, Usage, Executing
    <3>2. CASE Decide(a)
      BY <1>3, <3>1, <3>2, CallFields DEF Decide, Allows, NothingRuns
    <3>3. CASE HaveSecrets(a)
      <4>1. call[a] \in Executing
        BY <3>3, CallFields DEF HaveSecrets
      <4>2. call[a].denied \in {"yes", "no"}
        BY <4>1 DEF Executing
      <4> QED
        BY <1>3, <3>1, <3>3, <4>1, <4>2 DEF HaveSecrets, NothingRuns
    <3> QED
      BY <1>3, <1>4, <3>2, <3>3
      DEF CallActs, Exec, Request, CheckVault, FetchSecret, Ask, NotifyUser, NotifyLost,
          AgentAnswered, NothingRuns
  <2>4. asked' \in SUBSET Items
    <3>1. CASE NotifyUser(a)
      BY <3>1, CallFields DEF NotifyUser, Rest, Asking
    <3> QED
      BY <1>4, <3>1
      DEF CallActs, Exec, Request, Decide, CheckVault, FetchSecret, HaveSecrets, Ask,
          NotifyLost, AgentAnswered, Rest
  <2>5. blocked' \in SUBSET Items
    <3>1. CASE Ask(a)
      BY <3>1, CallFields DEF Ask, Refuse, Rest, Asking
    <3> QED
      BY <1>4, <3>1
      DEF CallActs, Exec, Request, Decide, CheckVault, FetchSecret, HaveSecrets,
          NotifyUser, NotifyLost, AgentAnswered, Rest
  <2> QED
    BY <2>1, <2>2, <2>3, <2>4, <2>5 DEF Rest
<1>5. ASSUME NEW r \in Resolvers, NEW i \in Items, NEW x \in Action, Starts(r, i, x)
      PROVE  Rest'
  <2>1. Begins(r, i, x)
    BY <1>5 DEF Starts, Resolve, AgentResolves
  <2>2. faults' \in SUBSET Fault
    BY <1>2, <2>1 DEF Begins, Rest, Fault
  <2>3. resolutions' \in 0..MaxResolutions
    BY <2>1, ApprovalsAssumption DEF Begins, Rest
  <2>4. allowed' \in SUBSET Items /\ unsettled' \in SUBSET Tools
    BY <2>1 DEF Begins, Rest
  <2>5. UNCHANGED <<asked, mail, blocked>> /\ usage' = NoUsage
    BY <1>5, StartEffects
  <2> QED
    BY <1>3, <2>2, <2>3, <2>4, <2>5 DEF Rest
<1>6. ASSUME NEW r \in Resolvers, ResolveActs(r) PROVE Rest'
  <2>1. UNCHANGED <<blocked, allowed, resolutions>> /\ usage' = NoUsage
    BY <1>6, ResolveEffects
  <2>2. resolve[r].item \in Items
    BY <1>6, ResolveEffects DEF Deciding
  <2>3. faults' \in SUBSET Fault
    BY <1>2, <1>6
    DEF ResolveActs, SetDecision, SetDecisionRaises, CheckUnlocked, StoreSecret, VaultRaises,
        Commit, TellAgent, Rest, Fault
  <2>4. asked' \in SUBSET Items /\ mail' \in SUBSET Items
    <3>1. CASE Commit(r) \/ TellAgent(r)
      BY <2>2, <3>1 DEF Commit, TellAgent, Rest
    <3> QED
      BY <1>6, <3>1, ResolveEffects DEF Rest
  <2>5. unsettled' \in SUBSET Tools
    <3>1. CASE SetDecision(r) \/ SetDecisionRaises(r)
      BY <3>1 DEF SetDecision, SetDecisionRaises, Rest, Types, ResolveFits
    <3> QED
      BY <1>6, <3>1, ResolveEffects DEF Rest
  <2> QED
    BY <1>3, <2>1, <2>3, <2>4, <2>5 DEF Rest
<1>7. ASSUME NEW i \in Items, Deliver(i) PROVE Rest'
  BY <1>3, <1>7, ApprovalsAssumption DEF Deliver, historyVars, NothingRuns, Rest
<1>8. CASE RequestsCrash
  BY <1>2, <1>3, <1>8 DEF RequestsCrash, NothingRuns, Rest, Fault
<1>9. CASE InitializeVault
  BY <1>2, <1>3, <1>9 DEF InitializeVault, historyVars, NothingRuns, Rest, Fault
<1>10. CASE UnlockVault
  BY <1>3, <1>10 DEF UnlockVault, historyVars, NothingRuns, Rest
<1> QED
  BY <1>1, <1>4, <1>5, <1>6, <1>7, <1>8, <1>9, <1>10, NextActs

LEMMA ApprovalsInvInit ==
  ASSUME Init PROVE ApprovalsInv
<1>1. Types
  BY DEF Init, Types, Status, CallState, ResolveState, ResolveFits, Idle
<1>2. Rest
  BY ApprovalsAssumption DEF Init, Rest
<1>3. Grants
  BY DEF Init, Grants, CallGranted, ResolveGranted, OnlyGrantedRuns, Idle
<1>4. StoredInv
  BY DEF Init, StoredInv, Stores, Idle, Items
<1>5. MatchInv
  BY DEF Init, MatchInv, Apart, WritesTo, Under, CatalogMatchesPolicy, Matches, Decided,
         Idle, Items
<1>6. AskedInv
  BY ApprovalsAssumption DEF Init, AskedInv, Overtaken, Idle
<1> QED
  BY <1>1, <1>2, <1>3, <1>4, <1>5, <1>6 DEF ApprovalsInv

LEMMA ApprovalsInvHolds == Spec => []ApprovalsInv
<1>1. Init => ApprovalsInv
  BY ApprovalsInvInit
<1>2. ApprovalsInv /\ [Next]_vars => ApprovalsInv'
  BY TypesInv, RestInv, GrantsInv, StoredInvKept, MatchInvKept, AskedInvKept
  DEF ApprovalsInv
<1> QED
  BY <1>1, <1>2, PTL DEF Spec

(* The databases, the vault and the handlers of the six services keep      *)
(* their shape, for every set of tools, secrets, agents and connections.   *)
THEOREM ApprovalsTypeCorrect == Spec => []TypeOK
<1>1. ApprovalsInv => TypeOK
  BY DEF ApprovalsInv, Types, Rest, TypeOK, CallState, ResolveState
<1> QED
  BY <1>1, ApprovalsInvHolds, PTL

(* exec_tool runs a command only if a resolution, the user's or one that   *)
(* an agent forwards to itself, has once allowed it, with secrets that one *)
(* has once provided; and never one that stood as denied when it looked,   *)
(* unless a failure, a crash or an overlap disturbed the resolution that   *)
(* denied it.                                                              *)
THEOREM OnlyTheGranted == Spec => []OnlyGrantedRuns
<1>1. ApprovalsInv => OnlyGrantedRuns
  BY DEF ApprovalsInv, Grants
<1> QED
  BY <1>1, ApprovalsInvHolds, PTL

(* _resolve_policy_item writes two databases one after the other; they     *)
(* agree on every tool that nobody is resolving, also after set_decision   *)
(* has failed or sheriff-requests has died, as soon as the tool has been   *)
(* resolved once more and nothing disturbed it.                            *)
THEOREM StoresAgree == Spec => []CatalogMatchesPolicy
<1>1. ApprovalsInv => CatalogMatchesPolicy
  BY DEF ApprovalsInv, MatchInv
<1> QED
  BY <1>1, ApprovalsInvHolds, PTL

(* resolve_secret stores before it approves, so that a crash between the   *)
(* two never leaves an approved secret that is not in the vault.           *)
THEOREM ApprovedSecretsAreStored == Spec => []ApprovedIsStoredUnlessVaultFails
<1>1. ApprovalsInv => ApprovedIsStoredUnlessVaultFails
  BY DEF ApprovalsInv, StoredInv, ApprovedIsStoredUnlessVaultFails
<1> QED
  BY <1>1, ApprovalsInvHolds, PTL

(* While nothing fails, the user has been asked, or is being asked, about  *)
(* whatever stands as requested, whichever agent was refused it; and what  *)
(* the agent in the session of the news was refused is waited for by the   *)
(* user, a resolution, or news on their way to it.                         *)
THEOREM RefusedAreAsked == Spec => []RefusedIsAsked
<1>1. ApprovalsInv => RefusedIsAsked
  BY DEF ApprovalsInv, AskedInv, Awaited, RefusedIsAsked
<1> QED
  BY <1>1, ApprovalsInvHolds, PTL
=============================================================================

------------------------- MODULE ConversationProofs --------------------------
(***************************************************************************)
(* Theorems about Conversation for every number of messages and faults.    *)
(***************************************************************************)
EXTENDS Conversation, TLAPS

Steps == {"none", "ended", "ensure", "lock", "unlock", "relock", "provider",
          "key", "send", "codex", "stream"}

TurnType == [step : Steps, session : Sessions \cup {"none"}, m : Nat,
             password : {"none", "right", "wrong"}, finals : Nat,
             coming : Seq({"final", "done", "failed"}), sawFinal : {"yes", "no"},
             vaultSeen : {"no", "yes", "unknown"}]

(* A turn has answered once it has ended, and not before the host has.     *)
(* While the host's answer comes in, saw_final says whether a final has    *)
(* been passed on, and what is left of the answer has no other; a result   *)
(* that is not ok comes alone.                                             *)
Answered(t) ==
  /\ t.step = "stream" =>
       \/ /\ t.finals = 0 /\ t.sawFinal = "no"
          /\ t.coming \in {<<"final", "done">>, <<"failed">>, <<"done">>}
       \/ t.finals = 1 /\ t.sawFinal = "yes" /\ t.coming = <<"done">>
  /\ t.step # "stream" => t.finals = IF t.step = "ended" THEN 1 ELSE 0

(* Past the questions about the lock, the vault was open or could not say; *)
(* and an open vault has been seen by every turn there is.                 *)
Seen(t) ==
  t.step \in {"provider", "key", "send", "codex"} => t.vaultSeen # "no"

OpenIsSeen(t) ==
  vault = "open" /\ t.step \notin {"none", "ended", "stream"} => t.vaultSeen # "no"

TurnsInv ==
  /\ turn \in [Principals -> TurnType]
  /\ messages \in Nat
  /\ \A p \in Principals :
       Answered(turn[p]) /\ Seen(turn[p]) /\ OpenIsSeen(turn[p])
-----------------------------------------------------------------------------
LEMMA SessionOfTyped ==
  ASSUME NEW p, NEW via PROVE SessionOf(p, via) \in Sessions
BY DEF SessionOf, Sessions

(* One turn changes, and comes out right. *)
LEMMA OneTurn ==
  ASSUME TurnsInv, NEW p \in Principals, NEW t \in TurnType,
         turn' = [turn EXCEPT ![p] = t],
         messages' \in Nat,
         vault' = vault,
         Answered(t), Seen(t), OpenIsSeen(t)
  PROVE  TurnsInv'
<1>1. turn' \in [Principals -> TurnType]
  BY DEF TurnsInv
<1>2. ASSUME NEW q \in Principals
      PROVE Answered(turn[q])' /\ Seen(turn[q])' /\ OpenIsSeen(turn[q])'
  <2>1. turn'[q] = IF q = p THEN t ELSE turn[q]
    BY DEF TurnsInv
  <2> QED
    BY <2>1 DEF TurnsInv, Answered, Seen, OpenIsSeen
<1> QED
  BY <1>1, <1>2 DEF TurnsInv

LEMMA NoTurnRight ==
  NoTurn \in TurnType /\ Answered(NoTurn) /\ Seen(NoTurn) /\ OpenIsSeen(NoTurn)
BY DEF NoTurn, AtRest, TurnType, Steps, Sessions, Answered, Seen, OpenIsSeen

(* A turn goes on to a step past the lock, of which it has seen enough. *)
LEMMA GotoKeeps ==
  ASSUME TurnsInv, NEW p \in Principals, NEW step \in Steps, Goto(p, step),
         Asking(p), step \notin {"none", "ended", "stream"},
         vault = "open" \/ Seen([turn[p] EXCEPT !.step = step]),
         UNCHANGED <<vault, messages>>
  PROVE  TurnsInv'
<1> DEFINE t == [turn[p] EXCEPT !.step = step]
<1>1. turn[p] \in TurnType /\ Answered(turn[p]) /\ OpenIsSeen(turn[p])
  BY DEF TurnsInv
<1>2. t \in TurnType /\ t.step = step /\ t.finals = turn[p].finals
      /\ t.vaultSeen = turn[p].vaultSeen
  BY <1>1 DEF TurnType
<1>3. Answered(t) /\ OpenIsSeen(t)
  BY <1>1, <1>2 DEF Answered, OpenIsSeen, Asking, InTurn, At
<1>4. Seen(t)
  BY <1>1, <1>2 DEF Seen, OpenIsSeen, Asking, InTurn, At
<1>5. turn' = [turn EXCEPT ![p] = t]
  BY DEF Goto
<1> HIDE DEF t
<1> QED
  BY <1>2, <1>3, <1>4, <1>5, OneTurn DEF TurnsInv

(* A turn ends with its one answer, now or before. *)
LEMMA EndsKeeps ==
  ASSUME TurnsInv, NEW p \in Principals, NEW n \in Nat, Ends(p, n),
         turn[p].finals + n = 1, UNCHANGED <<vault, messages>>
  PROVE  TurnsInv'
<1> DEFINE t == AtRest("ended", turn[p].finals + n)
<1>1. t \in TurnType /\ t.step = "ended" /\ t.finals = 1
  BY DEF AtRest, TurnType, Steps
<1>2. Answered(t) /\ Seen(t) /\ OpenIsSeen(t)
  BY <1>1 DEF Answered, Seen, OpenIsSeen
<1>3. turn' = [turn EXCEPT ![p] = t]
  BY DEF Ends
<1> HIDE DEF t
<1> QED
  BY <1>1, <1>2, <1>3, OneTurn DEF TurnsInv

LEMMA AnswersKeeps ==
  ASSUME TurnsInv, NEW p \in Principals, Answers(p), Asking(p),
         UNCHANGED <<vault, messages>>
  PROVE  TurnsInv'
<1>1. turn[p].finals = 0
  BY DEF TurnsInv, Answered, Asking, InTurn, At
<1> QED
  BY <1>1, EndsKeeps DEF Answers

(* The host has answered: its frames are read one after the other. *)
LEMMA AnswerKeeps ==
  ASSUME TurnsInv, NEW p \in Principals, NEW outcome \in {"text", "error", "empty"},
         turn' = [turn EXCEPT ![p] = [AtRest("stream", 0) EXCEPT !.coming = Frames(outcome)]],
         UNCHANGED <<vault, messages>>
  PROVE  TurnsInv'
<1> DEFINE t == [AtRest("stream", 0) EXCEPT !.coming = Frames(outcome)]
<1>1. Frames(outcome) \in {<<"final", "done">>, <<"failed">>, <<"done">>}
  BY DEF Frames
<1>2. /\ t.step = "stream" /\ t.finals = 0 /\ t.sawFinal = "no"
      /\ t.coming = Frames(outcome) /\ t.vaultSeen = "no"
  BY DEF AtRest
<1>3. t \in TurnType
  <2>1. Frames(outcome) \in Seq({"final", "done", "failed"})
    <3>1. \A a, b \in {"final", "done", "failed"} :
            <<a, b>> \in Seq({"final", "done", "failed"})
              /\ <<a>> \in Seq({"final", "done", "failed"})
      OBVIOUS
    <3> QED
      BY <1>1, <3>1
  <2>2. t = [step |-> "stream", session |-> "none", m |-> 0, password |-> "none",
             finals |-> 0, coming |-> Frames(outcome), sawFinal |-> "no",
             vaultSeen |-> "no"]
    BY DEF AtRest
  <2> QED
    BY <2>1, <2>2 DEF TurnType, Steps
<1>4. Answered(t) /\ Seen(t) /\ OpenIsSeen(t)
  BY <1>1, <1>2 DEF Answered, Seen, OpenIsSeen
<1> HIDE DEF t
<1> QED
  BY <1>3, <1>4, OneTurn DEF TurnsInv, t

(* The only frame to pass on is the final that comes before the result. *)
LEMMA PassOnKeeps ==
  ASSUME TurnsInv, NEW p \in Principals, PassOn(p)
  PROVE  TurnsInv'
<1> DEFINE t == [turn[p] EXCEPT !.coming = Tail(@), !.finals = @ + 1, !.sawFinal = "yes"]
<1>1. turn[p] \in TurnType /\ Answered(turn[p]) /\ turn[p].step = "stream"
      /\ Len(turn[p].coming) > 1
  BY DEF PassOn, At, TurnsInv
<1>2. turn[p].finals = 0 /\ turn[p].coming = <<"final", "done">>
  <2>1. \A a : ~(Len(<<a>>) > 1)
    OBVIOUS
  <2>2. turn[p].coming # <<"done">> /\ turn[p].coming # <<"failed">>
    BY <1>1, <2>1
  <2> QED
    BY <1>1, <2>2 DEF Answered
<1>3. Tail(<<"final", "done">>) = <<"done">>
  OBVIOUS
<1>4. /\ t \in TurnType /\ t.step = "stream" /\ t.finals = 1 /\ t.sawFinal = "yes"
      /\ t.coming = <<"done">>
  <2>1. <<"done">> \in Seq({"final", "done", "failed"})
    OBVIOUS
  <2>2. t = [turn[p] EXCEPT !.coming = <<"done">>, !.finals = 1, !.sawFinal = "yes"]
    BY <1>2, <1>3
  <2> HIDE DEF t
  <2> QED
    BY <1>1, <2>1, <2>2 DEF TurnType
<1>5. turn' = [turn EXCEPT ![p] = t] /\ UNCHANGED <<vault, messages>>
  BY DEF PassOn, turnOnly
<1> HIDE DEF t
<1>6. Answered(t) /\ Seen(t) /\ OpenIsSeen(t)
  BY <1>4 DEF Answered, Seen, OpenIsSeen
<1> QED
  BY <1>4, <1>5, <1>6, OneTurn DEF TurnsInv

(* The gateway's own words make up for a final that did not come, and are  *)
(* not said after one that did.                                            *)
LEMMA ConcludeKeeps ==
  ASSUME TurnsInv, NEW p \in Principals, Conclude(p)
  PROVE  TurnsInv'
<1> DEFINE n == IF Head(turn[p].coming) = "failed" \/ turn[p].sawFinal = "no" THEN 1 ELSE 0
<1>1. Answered(turn[p]) /\ turn[p].step = "stream" /\ Len(turn[p].coming) = 1
  BY DEF Conclude, At, TurnsInv
<1>2. Len(<<"final", "done">>) = 2 /\ Head(<<"done">>) = "done"
  OBVIOUS
<1>3. turn[p].finals + n = 1 /\ n \in Nat
  BY <1>1, <1>2 DEF Answered
<1>4. Ends(p, n) /\ UNCHANGED <<vault, messages>>
  BY DEF Conclude, turnOnly
<1> HIDE DEF n
<1> QED
  BY <1>3, <1>4, EndsKeeps

LEMMA StartsKeeps ==
  ASSUME TurnsInv, NEW p \in Principals, NEW s \in Sessions,
         NEW pw \in {"none", "right", "wrong"}, Starts(p, s, pw),
         UNCHANGED vault
  PROVE  TurnsInv'
<1> DEFINE t == [step |-> IF s \in known THEN "lock" ELSE "ensure", session |-> s,
                 m |-> messages + 1, password |-> pw, finals |-> 0,
                 coming |-> <<>>, sawFinal |-> "no",
                 vaultSeen |-> IF vault = "open" THEN "yes" ELSE "no"]
<1>1. t \in TurnType
  BY DEF TurnsInv, TurnType, Steps
<1>2. Answered(t) /\ Seen(t) /\ OpenIsSeen(t)
  BY DEF Answered, Seen, OpenIsSeen
<1>3. turn' = [turn EXCEPT ![p] = t] /\ messages' \in Nat
  BY DEF Starts, TurnsInv
<1> HIDE DEF t
<1> QED
  BY <1>1, <1>2, <1>3, OneTurn

(* Every turn there is sees that the vault has been opened. *)
LEMMA OpensKeeps ==
  ASSUME TurnsInv, NEW by, VaultOpens(by),
         by \in Principals => Asking(by),
         UNCHANGED messages
  PROVE  TurnsInv'
<1>1. ASSUME NEW q \in Principals
      PROVE /\ turn'[q] \in TurnType
            /\ Answered(turn[q])' /\ Seen(turn[q])' /\ OpenIsSeen(turn[q])'
  <2>1. turn[q] \in TurnType /\ Answered(turn[q]) /\ Seen(turn[q])
    BY DEF TurnsInv
  <2>2. CASE ~Asking(q)
    <3>1. turn'[q] = turn[q]
      BY <2>2 DEF VaultOpens, SeenOpen
    <3> QED
      BY <2>1, <2>2, <3>1 DEF Answered, Seen, OpenIsSeen, Asking, InTurn, At
  <2>3. CASE Asking(q)
    <3>1. turn'[q] = [turn[q] EXCEPT !.vaultSeen = "yes",
                                     !.step = IF q = by THEN "relock" ELSE @]
      BY <2>3 DEF VaultOpens, SeenOpen
    <3>2. /\ turn'[q] \in TurnType /\ turn'[q].vaultSeen = "yes"
          /\ turn'[q].finals = turn[q].finals
          /\ turn'[q].step \in {turn[q].step, "relock"}
      BY <2>1, <3>1 DEF TurnType, Steps
    <3> QED
      BY <2>1, <2>3, <3>2 DEF Answered, Seen, OpenIsSeen, Asking, InTurn, At
  <2> QED
    BY <2>2, <2>3
<1>2. turn' \in [Principals -> TurnType]
  BY <1>1 DEF VaultOpens, SeenOpen
<1> QED
  BY <1>1, <1>2 DEF TurnsInv

LEMMA TurnsKept ==
  ASSUME TurnsInv, UNCHANGED <<turn, vault, messages>>
  PROVE  TurnsInv'
BY DEF TurnsInv, Answered, Seen, OpenIsSeen

LEMMA TurnsInvKept ==
  ASSUME TurnsInv, [Next]_vars PROVE TurnsInv'
<1>1. CASE UNCHANGED vars
  BY <1>1, TurnsKept DEF vars, gatewayVars
<1>2. ASSUME NEW via \in {"listener", "webhook"}, Message(via) PROVE TurnsInv'
  BY <1>2, StartsKeeps, SessionOfTyped DEF Message, Principals, TurnsInv
<1>3. ASSUME NEW pw \in {"none", "right", "wrong"}, Chat(pw) PROVE TurnsInv'
  BY <1>3, StartsKeeps, SessionOfTyped DEF Chat, Principals
<1>6. CASE VaultChanges
  <2>1. CASE VaultOpens("nobody")
    BY <1>6, <2>1, OpensKeeps DEF VaultChanges, turnOnly, Principals, TurnsInv
  <2>2. CASE vault' = "locked" /\ UNCHANGED turn
    BY <1>6, <2>2 DEF VaultChanges, turnOnly, TurnsInv, Answered, Seen, OpenIsSeen
  <2> QED
    BY <1>6, <2>1, <2>2 DEF VaultChanges
<1>7. ASSUME NEW p \in Principals, Turn(p) PROVE TurnsInv'
  <2>1. CASE Ensure(p)
    BY <1>7, <2>1, GotoKeeps DEF Ensure, turnOnly, At, Asking, InTurn, Steps, Seen
  <2>2. CASE AskLock(p)
    BY <1>7, <2>2, GotoKeeps, AnswersKeeps
    DEF AskLock, turnOnly, At, Asking, InTurn, Steps, Seen, hostVars, history
  <2>3. CASE AskLockFails(p)
    <3> DEFINE t == [turn[p] EXCEPT !.step = "send", !.vaultSeen = "unknown"]
    <3>1. turn[p] \in TurnType /\ turn[p].finals = 0
      BY <1>7, <2>3 DEF TurnsInv, Answered, AskLockFails
    <3>2. /\ t \in TurnType /\ t.step = "send" /\ t.finals = 0
          /\ t.vaultSeen = "unknown"
      BY <3>1 DEF TurnType, Steps
    <3>3. turn' = [turn EXCEPT ![p] = t]
      BY <1>7, <2>3 DEF AskLockFails, TurnsInv
    <3>4. Answered(t) /\ Seen(t) /\ OpenIsSeen(t)
      BY <3>2 DEF Answered, Seen, OpenIsSeen
    <3>5. UNCHANGED <<vault, messages>>
      BY <2>3 DEF AskLockFails, turnOnly
    <3> HIDE DEF t
    <3> QED
      BY <1>7, <3>2, <3>3, <3>4, <3>5, OneTurn DEF TurnsInv
  <2>4. CASE Unlock(p)
    <3>1. Asking(p) /\ UNCHANGED messages
      BY <2>4 DEF Unlock, At, Asking, InTurn, turnOnly
    <3>2. CASE turn[p].password = "right"
      BY <1>7, <2>4, <3>1, <3>2, OpensKeeps DEF Unlock, TurnsInv
    <3>3. CASE turn[p].password # "right"
      BY <1>7, <2>4, <3>1, <3>3, AnswersKeeps DEF Unlock
    <3> QED
      BY <3>2, <3>3
  <2>5. CASE Provider(p)
    <3>1. Asking(p) /\ UNCHANGED <<vault, messages>>
      BY <2>5 DEF Provider, At, Asking, InTurn, turnOnly
    <3>2. ASSUME NEW step \in {"key", "send"}, vault = "open", Goto(p, step)
          PROVE  TurnsInv'
      BY <1>7, <3>1, <3>2, GotoKeeps DEF Steps
    <3> QED
      BY <1>7, <2>5, <3>1, <3>2, AnswersKeeps DEF Provider
  <2>6. CASE Key(p)
    <3>1. Asking(p) /\ UNCHANGED <<vault, messages>>
      BY <2>6 DEF Key, At, Asking, InTurn, turnOnly
    <3> QED
      BY <1>7, <2>6, <3>1, GotoKeeps, AnswersKeeps DEF Key, Steps
  <2>7. CASE Send(p)
    <3>1. Asking(p) /\ Goto(p, "codex") /\ UNCHANGED <<vault, messages>>
      BY <2>7 DEF Send, At, Asking, InTurn
    <3>2. turn[p] \in TurnType /\ turn[p].vaultSeen # "no"
      BY <1>7, <2>7 DEF Send, At, TurnsInv, Seen
    <3>3. Seen([turn[p] EXCEPT !.step = "codex"])
      BY <3>2 DEF TurnType, Seen
    <3> QED
      BY <1>7, <3>1, <3>3, GotoKeeps DEF Steps
  <2>8. CASE TurnRaises(p)
    BY <1>7, <2>8, OneTurn, NoTurnRight DEF TurnRaises, turnOnly, TurnsInv
  <2>9. ASSUME NEW w \in host, NEW outcome \in {"text", "error", "empty"},
               Answer(p, w, outcome)
        PROVE TurnsInv'
    BY <1>7, <2>9, AnswerKeeps DEF Answer, Heard, Unheard
  <2>10. CASE PassOn(p)
    BY <1>7, <2>10, PassOnKeeps
  <2>11. CASE Conclude(p)
    BY <1>7, <2>11, ConcludeKeeps
  <2> QED
    BY <1>7, <2>1, <2>2, <2>3, <2>4, <2>5, <2>6, <2>7, <2>8, <2>9, <2>10, <2>11 DEF Turn
<1>8. ASSUME NEW w \in host, Retry(w) \/ AnswerUnread(w) PROVE TurnsInv'
  BY <1>8, TurnsKept DEF Retry, AnswerUnread, gatewayVars
<1>9. ASSUME NEW s \in Sessions, Resolved(s) PROVE TurnsInv'
  <2>1. PICK p \in {"owner", "system"} : Starts(p, SessionOf(p, "news"), "none")
    BY <1>9 DEF Resolved
  <2> QED
    BY <1>9, <2>1, StartsKeeps, SessionOfTyped DEF Resolved, Principals, TurnsInv
<1>10. CASE Reset
  BY <1>10, TurnsKept DEF Reset
<1>11. CASE ResetDone
  BY <1>11, TurnsKept DEF ResetDone, gatewayVars
<1>14. CASE ResetFails
  BY <1>14, TurnsKept DEF ResetFails, gatewayVars
<1>12. CASE GatewayRestart
  BY <1>12, NoTurnRight DEF GatewayRestart, TurnsInv, Answered, Seen, OpenIsSeen
<1>13. CASE HostRestart
  <2>1. turn' \in [Principals -> TurnType]
    BY <1>13, NoTurnRight DEF HostRestart, TurnsInv
  <2>2. \A q \in Principals : turn'[q] \in {NoTurn, turn[q]}
    BY <1>13 DEF HostRestart
  <2> QED
    BY <1>13, <2>1, <2>2, NoTurnRight
    DEF HostRestart, TurnsInv, Answered, Seen, OpenIsSeen
<1> QED
  BY <1>1, <1>2, <1>3, <1>6, <1>7, <1>8, <1>9, <1>10, <1>11, <1>12,
     <1>13, <1>14 DEF Next

LEMMA TurnsInvInit ==
  ASSUME Init PROVE TurnsInv
BY NoTurnRight DEF Init, TurnsInv

LEMMA TurnsInvHolds == Spec => []TurnsInv
<1>1. Init => TurnsInv
  BY TurnsInvInit
<1>2. TurnsInv /\ [Next]_vars => TurnsInv'
  BY TurnsInvKept
<1> QED
  BY <1>1, <1>2, PTL DEF Spec

-----------------------------------------------------------------------------
(* The messages of turns that have not reached the host, and those to come *)
Waiting(p) == Asking(p) /\ ~At(p, "codex")

Unsent ==
  ((messages + 1)..MaxMessages)
    \cup {turn[p].m : p \in {q \in Principals : Waiting(q)}}

(* No thread has message m, which would be its number, nor will be found   *)
(* to have it by a turn in the host.                                       *)
Untold(m) ==
  /\ heard[m] = {}
  /\ \A s \in Sessions : bound[s] # m
  /\ \A w \in host : w.thread # m

HistoryTypes ==
  /\ bound \in [Sessions -> 0..MaxMessages]
  /\ heard \in [1..MaxMessages -> SUBSET Nat]
  /\ host \subseteq [session : Sessions, m : 1..MaxMessages, thread : 0..MaxMessages]
  /\ since \in [Sessions -> SUBSET Nat]
  /\ reset \in Sessions \cup {"none"}
  /\ messages \in 0..MaxMessages

(* The turns of the gateway have messages of their own. *)
TurnsApart ==
  /\ \A p \in Principals : Asking(p) =>
       turn[p].session \in Sessions /\ turn[p].m \in 1..messages
  /\ \A p, q \in Principals :
       Waiting(p) /\ Waiting(q) /\ turn[p].m = turn[q].m => p = q

(* A message is sent to the host once, so that a thread opened for it is   *)
(* opened once and begins without a history.                               *)
MessagesInv ==
  /\ TurnsApart
  /\ \A m \in Unsent : Untold(m) /\ \A w \in host : w.m # m
  /\ \A w \in host : Untold(w.m)
  /\ \A w, v \in host : w.m = v.m => w = v

(* A thread belongs to one session.  In a session that is not muddled, a   *)
(* turn in the host has the thread that is bound, and is alone while none  *)
(* is: nobody else opens one.                                              *)
ThreadsInv ==
  /\ \A s, r \in Sessions : bound[s] # 0 /\ bound[s] = bound[r] => s = r
  /\ \A w \in host, s \in Sessions :
       bound[s] # 0 /\ bound[s] = w.thread => w.session = s
  /\ \A w \in host : w.session \notin muddled => w.thread = bound[w.session]
  /\ \A w, v \in host :
       w.session = v.session /\ w.session \notin muddled /\ bound[w.session] = 0
         => w = v

HistoryInv == HistoryTypes /\ MessagesInv /\ ThreadsInv /\ ExactHistory

(* The turn of q is where it was, has gone on, or is over. *)
Continues(q) ==
  Asking(q)' =>
    /\ Asking(q) /\ turn'[q].session = turn[q].session /\ turn'[q].m = turn[q].m
    /\ Waiting(q)' => Waiting(q)
-----------------------------------------------------------------------------
LEMMA UnsentIsMessage ==
  ASSUME HistoryInv, NEW m \in Unsent PROVE m \in 1..MaxMessages
<1>1. CASE m \in (messages + 1)..MaxMessages
  BY <1>1, ConversationAssumption DEF HistoryInv, HistoryTypes
<1>2. CASE \E p \in Principals : Waiting(p) /\ m = turn[p].m
  BY <1>2, ConversationAssumption DEF HistoryInv, HistoryTypes, MessagesInv, TurnsApart, Waiting
<1> QED
  BY <1>1, <1>2 DEF Unsent

LEMMA UnsentShrinks ==
  ASSUME \A q \in Principals : Continues(q), UNCHANGED messages
  PROVE  Unsent' \subseteq Unsent
<1>1. ASSUME NEW q \in Principals, Waiting(q)'
      PROVE  Waiting(q) /\ turn'[q].m = turn[q].m
  BY <1>1 DEF Continues, Waiting
<1> QED
  BY <1>1 DEF Unsent

LEMMA TurnsStayApart ==
  ASSUME HistoryInv, \A q \in Principals : Continues(q), UNCHANGED messages
  PROVE  TurnsApart'
<1>1. ASSUME NEW q \in Principals, Asking(q)'
      PROVE  turn'[q].session \in Sessions /\ turn'[q].m \in 1..messages'
  BY <1>1 DEF Continues, HistoryInv, MessagesInv, TurnsApart
<1>2. ASSUME NEW p \in Principals, NEW q \in Principals, Waiting(p)', Waiting(q)',
             turn'[p].m = turn'[q].m
      PROVE  p = q
  BY <1>2 DEF Continues, Waiting, HistoryInv, MessagesInv, TurnsApart
<1> QED
  BY <1>1, <1>2 DEF TurnsApart

(* Turns go on and nothing happens in the host. *)
LEMMA TurnsKeepHistory ==
  ASSUME HistoryInv, \A q \in Principals : Continues(q),
         reset' \in Sessions \cup {"none"},
         UNCHANGED <<hostVars, history, messages>>
  PROVE  HistoryInv'
<1>1. Unsent' \subseteq Unsent /\ TurnsApart'
  BY UnsentShrinks, TurnsStayApart
<1>2. MessagesInv'
  BY <1>1 DEF HistoryInv, MessagesInv, Untold, hostVars
<1>3. HistoryTypes' /\ ThreadsInv' /\ ExactHistory'
  BY DEF HistoryInv, HistoryTypes, ThreadsInv, ExactHistory, hostVars, history
<1> QED
  BY <1>2, <1>3 DEF HistoryInv

LEMMA GotoContinues ==
  ASSUME TurnsInv, NEW p \in Principals, NEW step, Goto(p, step),
         Waiting(p), step \notin {"none", "ended", "stream"}
  PROVE  \A q \in Principals : Continues(q)
<1>1. turn' = [turn EXCEPT ![p] = [turn[p] EXCEPT !.step = step]]
  BY DEF Goto
<1>2. \A q \in Principals : turn[q] \in TurnType
  BY DEF TurnsInv
<1>3. ASSUME NEW q \in Principals PROVE Continues(q)
  <2>1. CASE q = p
    <3>1. turn'[q] = [turn[q] EXCEPT !.step = step]
      BY <2>1, <1>1 DEF TurnsInv
    <3>2. turn'[q].session = turn[q].session /\ turn'[q].m = turn[q].m
      BY <3>1, <1>2 DEF TurnType
    <3> QED
      BY <2>1, <3>2 DEF Continues, Waiting
  <2>2. CASE q # p
    <3>1. turn'[q] = turn[q]
      BY <2>2, <1>1 DEF TurnsInv
    <3> QED
      BY <3>1 DEF Continues, Waiting, Asking, InTurn, At
  <2> QED
    BY <2>1, <2>2
<1> QED
  BY <1>3

LEMMA EndsContinues ==
  ASSUME TurnsInv, NEW p \in Principals, NEW t, turn' = [turn EXCEPT ![p] = t],
         t.step \in {"none", "ended", "stream"}
  PROVE  \A q \in Principals : Continues(q)
<1>1. ASSUME NEW q \in Principals PROVE Continues(q)
  <2>1. CASE q = p
    <3>1. turn'[q] = t
      BY <2>1 DEF TurnsInv
    <3> QED
      BY <3>1 DEF Continues, Asking, InTurn, At
  <2>2. CASE q # p
    <3>1. turn'[q] = turn[q]
      BY <2>2 DEF TurnsInv
    <3> QED
      BY <3>1 DEF Continues, Waiting, Asking, InTurn, At
  <2> QED
    BY <2>1, <2>2
<1> QED
  BY <1>1

LEMMA AnswersContinues ==
  ASSUME TurnsInv, NEW p \in Principals, Answers(p)
  PROVE  \A q \in Principals : Continues(q)
BY EndsContinues DEF Answers, Ends, AtRest

LEMMA SameContinues ==
  ASSUME UNCHANGED turn PROVE \A q \in Principals : Continues(q)
BY DEF Continues, Waiting, Asking, InTurn, At

LEMMA OpensContinues ==
  ASSUME TurnsInv, NEW by, VaultOpens(by), by \in Principals => At(by, "unlock")
  PROVE  \A q \in Principals : Continues(q)
<1>1. ASSUME NEW q \in Principals PROVE Continues(q)
  <2>1. turn[q] \in TurnType
    BY DEF TurnsInv
  <2>2. CASE ~Asking(q)
    <3>1. turn'[q] = turn[q]
      BY <2>2 DEF VaultOpens, SeenOpen
    <3> QED
      BY <3>1 DEF Continues, Waiting, Asking, InTurn, At
  <2>3. CASE Asking(q)
    <3>1. turn'[q] = [turn[q] EXCEPT !.vaultSeen = "yes",
                                     !.step = IF q = by THEN "relock" ELSE @]
      BY <2>3 DEF VaultOpens, SeenOpen
    <3>2. /\ turn'[q].session = turn[q].session /\ turn'[q].m = turn[q].m
          /\ q = by \/ turn'[q].step = turn[q].step
      BY <2>1, <3>1 DEF TurnType
    <3> QED
      BY <2>3, <3>2 DEF Continues, Waiting, Asking, InTurn, At
  <2> QED
    BY <2>2, <2>3
<1> QED
  BY <1>1

(* A turn begins with a message of its own. *)
LEMMA StartsKeepsHistory ==
  ASSUME TurnsInv, HistoryInv, NEW p \in Principals, NEW s \in Sessions,
         NEW pw, Starts(p, s, pw), UNCHANGED <<hostVars, history, reset>>
  PROVE  HistoryInv'
<1>1. /\ messages' = messages + 1 /\ messages' \in 1..MaxMessages
      /\ messages \in Nat /\ MaxMessages \in Nat
  BY ConversationAssumption DEF Starts, HistoryInv, HistoryTypes
<1>2. turn'[p].session = s /\ turn'[p].m = messages + 1
  BY DEF Starts, TurnsInv
<1>3. \A q \in Principals \ {p} : turn'[q] = turn[q]
  BY DEF Starts, TurnsInv
<1>4. \A q \in Principals \ {p} : Asking(q)' = Asking(q) /\ Waiting(q)' = Waiting(q)
  BY <1>3 DEF Asking, InTurn, Waiting, At
<1>5. \A q \in Principals : Asking(q) => turn[q].session \in Sessions /\ turn[q].m \in 1..messages
  BY DEF HistoryInv, MessagesInv, TurnsApart
<1>6. TurnsApart'
  <2>1. ASSUME NEW q \in Principals, Asking(q)'
        PROVE  turn'[q].session \in Sessions /\ turn'[q].m \in 1..messages'
    BY <2>1, <1>1, <1>2, <1>3, <1>4, <1>5
  <2>2. ASSUME NEW q \in Principals, NEW r \in Principals, Waiting(q)', Waiting(r)',
               turn'[q].m = turn'[r].m
        PROVE  q = r
    <3>1. CASE q # p /\ r # p
      BY <3>1, <2>2, <1>3, <1>4 DEF HistoryInv, MessagesInv, TurnsApart
    <3>2. CASE q = p /\ r # p
      BY <3>2, <2>2, <1>1, <1>2, <1>3, <1>4, <1>5 DEF Waiting
    <3>3. CASE q # p /\ r = p
      BY <3>3, <2>2, <1>1, <1>2, <1>3, <1>4, <1>5 DEF Waiting
    <3> QED
      BY <3>1, <3>2, <3>3
  <2> QED
    BY <2>1, <2>2 DEF TurnsApart
<1>7. Unsent' \subseteq Unsent
  <2>1. (messages' + 1)..MaxMessages \subseteq (messages + 1)..MaxMessages
    BY <1>1
  <2>2. ASSUME NEW q \in Principals, Waiting(q)' PROVE turn'[q].m \in Unsent
    <3>1. CASE q = p
      BY <3>1, <1>1, <1>2 DEF Unsent
    <3>2. CASE q # p
      BY <3>2, <2>2, <1>3, <1>4 DEF Unsent
    <3> QED
      BY <3>1, <3>2
  <2> QED
    BY <2>1, <2>2 DEF Unsent
<1>8. MessagesInv'
  BY <1>6, <1>7 DEF HistoryInv, MessagesInv, Untold, hostVars
<1>9. HistoryTypes' /\ ThreadsInv' /\ ExactHistory'
  BY <1>1 DEF HistoryInv, HistoryTypes, ThreadsInv, ExactHistory, hostVars, history
<1> QED
  BY <1>8, <1>9 DEF HistoryInv

(* The message leaves for the host, with the thread that is bound. *)
LEMMA SendKeepsHistory ==
  ASSUME TurnsInv, HistoryInv, NEW p \in Principals, Send(p)
  PROVE  HistoryInv'
<1> DEFINE s == turn[p].session
           m == turn[p].m
           w == [session |-> s, m |-> m, thread |-> bound[s]]
<1>1. /\ Waiting(p) /\ Goto(p, "codex") /\ host' = host \cup {w}
      /\ muddled' = IF bound[s] = 0 /\ InHost(s) # {} THEN muddled \cup {s} ELSE muddled
      /\ UNCHANGED <<bound, heard, reset, since, messages>>
  BY DEF Send, Waiting, Asking, InTurn, At
<1>2. s \in Sessions /\ m \in 1..messages /\ m \in Unsent /\ m \in 1..MaxMessages
  <2>1. m \in Unsent
    BY <1>1 DEF Unsent
  <2> QED
    BY <1>1, <2>1, UnsentIsMessage DEF HistoryInv, MessagesInv, TurnsApart, Waiting
<1>3. w.session = s /\ w.m = m /\ w.thread = bound[s] /\ bound[s] \in 0..MaxMessages
  BY <1>2 DEF HistoryInv, HistoryTypes
<1>4. \A q \in Principals : Continues(q)
  BY <1>1, GotoContinues
<1>5. Unsent' \subseteq Unsent \ {m}
  <2>1. Unsent' \subseteq Unsent
    BY <1>1, <1>4, UnsentShrinks
  <2>2. m \notin (messages' + 1)..MaxMessages
    BY <1>1, <1>2 DEF HistoryInv, HistoryTypes
  <2>3. ASSUME NEW q \in Principals, Waiting(q)' PROVE turn'[q].m # m
    <3>1. q # p
      BY <2>3, <1>1 DEF Waiting, At, Goto, TurnsInv
    <3> QED
      BY <2>3, <3>1, <1>1, <1>4 DEF Continues, Waiting, HistoryInv, MessagesInv, TurnsApart
  <2> QED
    BY <2>1, <2>2, <2>3 DEF Unsent
<1>6. TurnsApart'
  BY <1>1, <1>4, TurnsStayApart
<1>7. host' \subseteq [session : Sessions, m : 1..MaxMessages, thread : 0..MaxMessages]
  BY <1>1, <1>2, <1>3 DEF HistoryInv, HistoryTypes
<1>8. Untold(m) /\ \A v \in host : v.m # m
  BY <1>2 DEF HistoryInv, MessagesInv
<1>9. s \notin muddled' => s \notin muddled /\ (bound[s] = 0 => \A v \in host : v.session # s)
  BY <1>1 DEF InHost
<1> HIDE DEF s, m, w
<1>10. ASSUME NEW k, Untold(k), k # 0 PROVE Untold(k)'
  <2>1. \A v \in host' : v.thread # k
    BY <1>1, <1>2, <1>3, <1>10 DEF Untold
  <2> QED
    BY <2>1, <1>1, <1>10 DEF Untold
<1>11. MessagesInv'
  <2>1. \A k \in Unsent' : Untold(k)' /\ \A v \in host' : v.m # k
    BY <1>1, <1>3, <1>5, <1>10, UnsentIsMessage DEF HistoryInv, MessagesInv
  <2>2. \A v \in host : v.m # 0
    BY DEF HistoryInv, HistoryTypes
  <2>3. \A v \in host' : Untold(v.m)'
    BY <2>2, <1>1, <1>2, <1>3, <1>8, <1>10 DEF HistoryInv, MessagesInv
  <2>4. \A v, u \in host' : v.m = u.m => v = u
    BY <1>1, <1>3, <1>8 DEF HistoryInv, MessagesInv
  <2> QED
    BY <1>6, <2>1, <2>3, <2>4 DEF MessagesInv
<1>12. ThreadsInv'
  <2>1. \A r, q \in Sessions : bound'[r] # 0 /\ bound'[r] = bound'[q] => r = q
    BY <1>1 DEF HistoryInv, ThreadsInv
  <2>2. \A v \in host', r \in Sessions :
          bound'[r] # 0 /\ bound'[r] = v.thread => v.session = r
    BY <1>1, <1>2, <1>3 DEF HistoryInv, ThreadsInv
  <2>3. \A v \in host' : v.session \notin muddled' => v.thread = bound'[v.session]
    BY <1>1, <1>3 DEF HistoryInv, ThreadsInv
  <2>4. \A v, u \in host' :
          v.session = u.session /\ v.session \notin muddled' /\ bound'[v.session] = 0
            => v = u
    BY <1>1, <1>3, <1>9 DEF HistoryInv, ThreadsInv
  <2> QED
    BY <2>1, <2>2, <2>3, <2>4 DEF ThreadsInv
<1>13. HistoryTypes' /\ ExactHistory'
  BY <1>1, <1>7 DEF HistoryInv, HistoryTypes, ExactHistory
<1> QED
  BY <1>11, <1>12, <1>13 DEF HistoryInv

(* A turn leaves the host without a trace. *)
LEMMA UnheardKeepsHistory ==
  ASSUME HistoryInv, NEW w \in host, Unheard(w), \A q \in Principals : Continues(q),
         UNCHANGED <<reset, muddled, messages>>
  PROVE  HistoryInv'
<1>1. host' \subseteq host /\ UNCHANGED <<heard, bound, since>>
  BY DEF Unheard
<1>2. Unsent' \subseteq Unsent /\ TurnsApart'
  BY UnsentShrinks, TurnsStayApart
<1>3. \A k : Untold(k) => Untold(k)'
  BY <1>1 DEF Untold
<1>4. MessagesInv'
  BY <1>1, <1>2, <1>3 DEF HistoryInv, MessagesInv
<1>5. HistoryTypes' /\ ThreadsInv' /\ ExactHistory'
  BY <1>1 DEF HistoryInv, HistoryTypes, ThreadsInv, ExactHistory
<1> QED
  BY <1>4, <1>5 DEF HistoryInv

(* The thread has heard the message.  If it was opened for it, it is bound *)
(* now, and has heard nothing else.                                        *)
LEMMA HeardKeepsHistory ==
  ASSUME HistoryInv, NEW w \in host, Heard(w), \A q \in Principals : Continues(q),
         UNCHANGED <<reset, muddled, messages>>
  PROVE  HistoryInv'
<1> DEFINE s == w.session
           t == Thread(w)
<1>1. /\ w.session \in Sessions /\ w.m \in 1..MaxMessages /\ w.thread \in 0..MaxMessages
      /\ t \in 1..MaxMessages /\ w.m # 0 /\ w.m \in Nat
      /\ t = IF w.thread = 0 THEN w.m ELSE w.thread
  BY DEF HistoryInv, HistoryTypes, Thread
<1>2. /\ host' = host \ {w}
      /\ heard' \in [1..MaxMessages -> SUBSET Nat]
      /\ heard'[t] = heard[t] \cup {w.m}
      /\ \A k : k # t => heard'[k] = heard[k]
  <2>1. heard' = [heard EXCEPT ![t] = @ \cup {w.m}] /\ host' = host \ {w}
    BY DEF Heard
  <2>2. heard \in [1..MaxMessages -> SUBSET Nat]
    BY DEF HistoryInv, HistoryTypes
  <2> HIDE DEF t
  <2> QED
    BY <2>1, <2>2, <1>1
<1>3. /\ since' \in [Sessions -> SUBSET Nat]
      /\ since'[s] = since[s] \cup {w.m}
      /\ \A r \in Sessions \ {s} : since'[r] = since[r]
  BY <1>1 DEF Heard, HistoryInv, HistoryTypes
<1>4. /\ bound' \in [Sessions -> 0..MaxMessages]
      /\ bound'[s] = IF w.thread = 0 THEN w.m ELSE bound[s]
      /\ \A r \in Sessions \ {s} : bound'[r] = bound[r]
  BY <1>1 DEF Heard, HistoryInv, HistoryTypes
<1>5. /\ Untold(w.m)
      /\ \A v \in host' : v \in host /\ v.m # w.m /\ v.m # t /\ v.thread # w.m
  <2>1. Untold(w.m) /\ \A v \in host' : v \in host /\ v.m # w.m
    BY <1>2 DEF HistoryInv, MessagesInv
  <2>2. \A v \in host' : Untold(v.m)
    BY <1>2 DEF HistoryInv, MessagesInv
  <2> QED
    BY <1>1, <2>1, <2>2 DEF Untold
<1>6. ASSUME NEW k, Untold(k), k # w.m, k # t PROVE Untold(k)'
  <2>1. \A r \in Sessions : bound'[r] # k
    BY <1>4, <1>6 DEF Untold
  <2> QED
    BY <2>1, <1>2, <1>6 DEF Untold
<1>7. MessagesInv'
  <2>1. Unsent' \subseteq Unsent /\ TurnsApart'
    BY UnsentShrinks, TurnsStayApart
  <2>2. \A k \in Unsent' : Untold(k) /\ k # w.m /\ k # t /\ \A v \in host' : v.m # k
    BY <1>1, <1>2, <2>1 DEF HistoryInv, MessagesInv, Untold
  <2>3. \A k \in Unsent' : Untold(k)' /\ \A v \in host' : v.m # k
    BY <2>2, <1>6
  <2>4. \A v \in host' : Untold(v.m)'
    BY <1>5, <1>6 DEF HistoryInv, MessagesInv
  <2>5. \A v, u \in host' : v.m = u.m => v = u
    BY <1>5 DEF HistoryInv, MessagesInv
  <2> QED
    BY <2>1, <2>3, <2>4, <2>5 DEF MessagesInv
<1>8. ThreadsInv'
  <2>1. \A r, q \in Sessions : bound'[r] # 0 /\ bound'[r] = bound'[q] => r = q
    BY <1>4, <1>5 DEF HistoryInv, ThreadsInv, Untold
  <2>2. \A v \in host', r \in Sessions :
          bound'[r] # 0 /\ bound'[r] = v.thread => v.session = r
    BY <1>4, <1>5 DEF HistoryInv, ThreadsInv
  <2>3. ASSUME NEW v \in host', v.session \notin muddled', w.thread = 0
        PROVE  v.session # s
    <3>1. SUFFICES ASSUME v.session = s PROVE FALSE
      OBVIOUS
    <3>2. w.thread = bound[s] /\ v \in host /\ v # w
      BY <2>3, <3>1, <1>5 DEF HistoryInv, ThreadsInv
    <3> QED
      BY <2>3, <3>1, <3>2 DEF HistoryInv, ThreadsInv
  <2>4. \A v \in host' : v.session \in Sessions
    BY <1>5 DEF HistoryInv, HistoryTypes
  <2>5. \A v \in host' : v.session \notin muddled' => v.thread = bound'[v.session]
    BY <2>3, <2>4, <1>4, <1>5 DEF HistoryInv, ThreadsInv
  <2>6. \A v, u \in host' :
          v.session = u.session /\ v.session \notin muddled' /\ bound'[v.session] = 0
            => v = u
    BY <2>3, <2>4, <1>4, <1>5 DEF HistoryInv, ThreadsInv
  <2> QED
    BY <2>1, <2>2, <2>5, <2>6 DEF ThreadsInv
<1>9. ExactHistory'
  <2>1. ASSUME NEW r \in Sessions \ muddled'
        PROVE  IF bound'[r] = 0 THEN since'[r] = {} ELSE heard'[bound'[r]] = since'[r]
    <3>1. IF bound[r] = 0 THEN since[r] = {} ELSE heard[bound[r]] = since[r]
      BY <2>1 DEF HistoryInv, ExactHistory
    <3>2. CASE r = s
      <4>1. w.thread = bound[s]
        BY <2>1, <3>2 DEF HistoryInv, ThreadsInv
      <4>2. bound'[s] = t /\ t # 0
        BY <4>1, <1>1, <1>4
      <4>3. heard[t] = since[s]
        BY <3>1, <3>2, <4>1, <1>1, <1>5 DEF Untold
      <4> QED
        BY <3>2, <4>2, <4>3, <1>2, <1>3
    <3>3. CASE r # s
      <4>1. bound'[r] = bound[r] /\ since'[r] = since[r]
        BY <2>1, <3>3, <1>3, <1>4
      <4>2. bound[r] # 0 => bound[r] # t
        BY <2>1, <3>3, <1>1, <1>5 DEF Untold, HistoryInv, ThreadsInv
      <4> QED
        BY <3>1, <4>1, <4>2, <1>2
    <3> QED
      BY <3>2, <3>3
  <2> QED
    BY <2>1 DEF ExactHistory
<1>10. HistoryTypes'
  BY <1>2, <1>3, <1>4 DEF HistoryInv, HistoryTypes
<1> QED
  BY <1>7, <1>8, <1>9, <1>10 DEF HistoryInv

(* The session begins anew with the message, alone or muddled. *)
LEMMA RetryKeepsHistory ==
  ASSUME HistoryInv, NEW w \in host, Retry(w)
  PROVE  HistoryInv'
<1> DEFINE s == w.session
           x == [w EXCEPT !.thread = 0]
<1>1. /\ w \in [session : Sessions, m : 1..MaxMessages, thread : 0..MaxMessages]
      /\ x \in [session : Sessions, m : 1..MaxMessages, thread : 0..MaxMessages]
      /\ x.session = s /\ x.m = w.m /\ x.thread = 0 /\ s \in Sessions
      /\ w.m \in Nat \ {0}
  BY ConversationAssumption DEF HistoryInv, HistoryTypes
<1>2. host' = (host \ {w}) \cup {x} /\ UNCHANGED <<turn, reset, messages>>
  BY DEF Retry, gatewayVars
<1>3. /\ heard' \in [1..MaxMessages -> SUBSET Nat]
      /\ \A k : k = 0 \/ k # w.thread => heard'[k] = heard[k]
  <2>1. heard \in [1..MaxMessages -> SUBSET Nat]
    BY DEF HistoryInv, HistoryTypes
  <2>2. heard' = IF w.thread = 0 THEN heard
                 ELSE [heard EXCEPT ![w.thread] = @ \cup {w.m}]
    BY DEF Retry
  <2> HIDE DEF x
  <2> QED
    BY <2>1, <2>2, <1>1
<1>4. /\ bound' \in [Sessions -> 0..MaxMessages] /\ bound'[s] = 0
      /\ \A r \in Sessions \ {s} : bound'[r] = bound[r]
  BY <1>1, ConversationAssumption DEF Retry, HistoryInv, HistoryTypes
<1>5. /\ since' \in [Sessions -> SUBSET Nat] /\ since'[s] = {}
      /\ \A r \in Sessions \ {s} : since'[r] = since[r]
  BY <1>1 DEF Retry, HistoryInv, HistoryTypes
<1>6. /\ muddled \subseteq muddled'
      /\ s \notin muddled' => \A v \in host : v.session = s => v = w
  BY DEF Retry, InHost
<1> HIDE DEF s, x
<1>7. ASSUME NEW k \in 1..MaxMessages, Untold(k) PROVE Untold(k)'
  <2>1. heard'[k] = {}
    BY <1>3, <1>7 DEF Untold
  <2>2. \A r \in Sessions : bound'[r] # k
    BY <1>4, <1>7 DEF Untold
  <2>3. \A v \in host' : v.thread # k
    BY <1>1, <1>2, <1>7 DEF Untold
  <2> QED
    BY <2>1, <2>2, <2>3 DEF Untold
<1>8. MessagesInv'
  <2>1. Unsent' \subseteq Unsent /\ TurnsApart'
    BY <1>2, SameContinues, UnsentShrinks, TurnsStayApart
  <2>2. \A k \in Unsent' : Untold(k)' /\ \A v \in host' : v.m # k
    BY <2>1, <1>1, <1>2, <1>7, UnsentIsMessage DEF HistoryInv, MessagesInv
  <2>3. \A v \in host' : Untold(v.m) /\ v.m \in 1..MaxMessages
    BY <1>1, <1>2 DEF HistoryInv, HistoryTypes, MessagesInv
  <2>4. \A v, u \in host' : v.m = u.m => v = u
    BY <1>1, <1>2 DEF HistoryInv, MessagesInv
  <2> QED
    BY <2>1, <2>2, <2>3, <2>4, <1>7 DEF MessagesInv
<1>9. ThreadsInv'
  <2>1. \A r, q \in Sessions : bound'[r] # 0 /\ bound'[r] = bound'[q] => r = q
    BY <1>4 DEF HistoryInv, ThreadsInv
  <2>2. \A v \in host', r \in Sessions :
          bound'[r] # 0 /\ bound'[r] = v.thread => v.session = r
    BY <1>1, <1>2, <1>4 DEF HistoryInv, ThreadsInv
  <2>3. ASSUME NEW v \in host'
        PROVE  \/ v = x
               \/ /\ v \in host /\ v # w /\ v.session \in Sessions
                  /\ v.session \notin muddled' => v.session # s
    <3>1. \A u \in host : u.session \in Sessions
      BY DEF HistoryInv, HistoryTypes
    <3> QED
      BY <3>1, <1>2, <1>6
  <2>4. \A v \in host' : v.session \notin muddled' => v.thread = bound'[v.session]
    BY <2>3, <1>1, <1>4, <1>6 DEF HistoryInv, ThreadsInv
  <2>5. \A v, u \in host' :
          v.session = u.session /\ v.session \notin muddled' /\ bound'[v.session] = 0
            => v = u
    BY <2>3, <1>1, <1>4, <1>6 DEF HistoryInv, ThreadsInv
  <2> QED
    BY <2>1, <2>2, <2>4, <2>5 DEF ThreadsInv
<1>10. ExactHistory'
  <2>1. ASSUME NEW r \in Sessions \ muddled', r # s
        PROVE  /\ bound'[r] = bound[r] /\ since'[r] = since[r]
               /\ bound[r] # 0 => heard'[bound[r]] = heard[bound[r]]
    <3>1. bound[r] # 0 => bound[r] # w.thread
      BY <2>1 DEF s, HistoryInv, ThreadsInv
    <3> QED
      BY <2>1, <3>1, <1>3, <1>4, <1>5
  <2> QED
    BY <2>1, <1>1, <1>4, <1>5, <1>6 DEF HistoryInv, ExactHistory
<1>11. HistoryTypes'
  BY <1>1, <1>2, <1>3, <1>4, <1>5 DEF HistoryInv, HistoryTypes
<1> QED
  BY <1>8, <1>9, <1>10, <1>11 DEF HistoryInv

(* The host forgets the thread of a session that is reset; if it does not, *)
(* or says that it has not, the session is muddled.                        *)
LEMMA ResetDoneKeepsHistory ==
  ASSUME HistoryInv, ResetDone \/ ResetFails
  PROVE  HistoryInv'
<1>1. /\ reset \in Sessions /\ reset' = "none"
      /\ UNCHANGED <<turn, heard, host, messages>>
  BY DEF ResetDone, ResetFails, gatewayVars, HistoryInv, HistoryTypes
<1>2. /\ bound' \in [Sessions -> 0..MaxMessages] /\ bound'[reset] \in {0, bound[reset]}
      /\ reset \notin muddled' => bound'[reset] = 0
      /\ \A r \in Sessions \ {reset} : bound'[r] = bound[r]
      /\ since' \in [Sessions -> SUBSET Nat] /\ since'[reset] = {}
      /\ \A r \in Sessions \ {reset} : since'[r] = since[r]
  BY <1>1, ConversationAssumption DEF ResetDone, ResetFails, HistoryInv, HistoryTypes
<1>3. /\ muddled \ {reset} \subseteq muddled'
      /\ reset \notin muddled' => \A v \in host : v.session # reset
  BY DEF ResetDone, ResetFails, InHost
<1>4. \A k \in 1..MaxMessages : Untold(k) => Untold(k)'
  BY <1>1, <1>2 DEF Untold
<1>5. MessagesInv'
  <2>1. Unsent' \subseteq Unsent /\ TurnsApart'
    BY <1>1, SameContinues, UnsentShrinks, TurnsStayApart
  <2>2. \A v \in host : v.m \in 1..MaxMessages
    BY DEF HistoryInv, HistoryTypes
  <2> QED
    BY <2>1, <2>2, <1>1, <1>4, UnsentIsMessage DEF HistoryInv, MessagesInv
<1>6. ThreadsInv'
  <2>1. \A r, q \in Sessions : bound'[r] # 0 /\ bound'[r] = bound'[q] => r = q
    BY <1>2 DEF HistoryInv, ThreadsInv
  <2>2. \A v \in host', r \in Sessions :
          bound'[r] # 0 /\ bound'[r] = v.thread => v.session = r
    BY <1>1, <1>2 DEF HistoryInv, ThreadsInv
  <2>3. \A v \in host : v.session \notin muddled' =>
          /\ v.session \in Sessions \ {reset} /\ v.session \notin muddled
    BY <1>3 DEF HistoryInv, HistoryTypes
  <2>4. \A v \in host' : v.session \notin muddled' => v.thread = bound'[v.session]
    BY <2>3, <1>1, <1>2 DEF HistoryInv, ThreadsInv
  <2>5. \A v, u \in host' :
          v.session = u.session /\ v.session \notin muddled' /\ bound'[v.session] = 0
            => v = u
    BY <2>3, <1>1, <1>2 DEF HistoryInv, ThreadsInv
  <2> QED
    BY <2>1, <2>2, <2>4, <2>5 DEF ThreadsInv
<1>7. ExactHistory'
  BY <1>1, <1>2, <1>3 DEF HistoryInv, ExactHistory
<1>8. HistoryTypes'
  BY <1>1, <1>2 DEF HistoryInv, HistoryTypes
<1> QED
  BY <1>5, <1>6, <1>7, <1>8 DEF HistoryInv

(* A reset reaches the host, or only the history knows of it. *)
LEMMA ResetKeepsHistory ==
  ASSUME HistoryInv, Reset
  PROVE  HistoryInv'
<1> DEFINE s == "private_main"
<1>1. s \in Sessions /\ UNCHANGED <<turn, hostVars, messages>>
  BY DEF Reset, Sessions
<1>2. CASE UNCHANGED history /\ reset' = s
  BY <1>1, <1>2, SameContinues, TurnsKeepHistory
<1>3. CASE /\ since' = [since EXCEPT ![s] = {}] /\ muddled' = muddled \cup {s}
           /\ UNCHANGED reset
  <2>1. Unsent' \subseteq Unsent /\ TurnsApart'
    BY <1>1, SameContinues, UnsentShrinks, TurnsStayApart
  <2>2. MessagesInv'
    BY <2>1, <1>1 DEF HistoryInv, MessagesInv, Untold, hostVars
  <2>3. HistoryTypes' /\ ThreadsInv'
    BY <1>1, <1>3 DEF HistoryInv, HistoryTypes, ThreadsInv, hostVars
  <2>4. ExactHistory'
    BY <1>1, <1>3 DEF HistoryInv, HistoryTypes, ExactHistory, hostVars
  <2> QED
    BY <2>2, <2>3, <2>4 DEF HistoryInv
<1> QED
  BY <1>2, <1>3 DEF Reset, history

(* Nothing is left of threads and requests, and turns go on at most. *)
LEMMA HostRestartKeepsHistory ==
  ASSUME HistoryInv, HostRestart
  PROVE  HistoryInv'
<1>1. /\ bound' = [s \in Sessions |-> 0] /\ host' = {}
      /\ since' = [s \in Sessions |-> {}]
      /\ UNCHANGED <<heard, reset, messages>>
  BY DEF HostRestart
<1>2. \A q \in Principals : Continues(q)
  <2>1. \A q \in Principals : turn'[q] = turn[q] \/ turn'[q] = NoTurn
    BY DEF HostRestart
  <2> QED
    BY <2>1 DEF Continues, Waiting, Asking, InTurn, At, NoTurn, AtRest
<1>3. Unsent' \subseteq Unsent /\ TurnsApart'
  BY <1>1, <1>2, UnsentShrinks, TurnsStayApart
<1>4. \A k \in 1..MaxMessages : Untold(k) => Untold(k)'
  BY <1>1 DEF Untold
<1>5. MessagesInv'
  BY <1>1, <1>3, <1>4, UnsentIsMessage DEF HistoryInv, MessagesInv
<1>6. HistoryTypes' /\ ThreadsInv' /\ ExactHistory'
  BY <1>1, ConversationAssumption DEF HistoryInv, HistoryTypes, ThreadsInv, ExactHistory
<1> QED
  BY <1>5, <1>6 DEF HistoryInv

LEMMA HistoryKept ==
  ASSUME TurnsInv, HistoryInv, [Next]_vars PROVE HistoryInv'
<1>0. reset \in Sessions \cup {"none"}
  BY DEF HistoryInv, HistoryTypes
<1>1. CASE UNCHANGED vars
  BY <1>0, <1>1, SameContinues, TurnsKeepHistory DEF vars, gatewayVars
<1>2. ASSUME NEW via \in {"listener", "webhook"}, Message(via) PROVE HistoryInv'
  BY <1>2, StartsKeepsHistory, SessionOfTyped DEF Message, Principals
<1>3. ASSUME NEW pw \in {"none", "right", "wrong"}, Chat(pw) PROVE HistoryInv'
  BY <1>3, StartsKeepsHistory, SessionOfTyped DEF Chat, Principals
<1>6. CASE VaultChanges
  <2>1. \A q \in Principals : Continues(q)
    BY <1>6, OpensContinues, SameContinues DEF VaultChanges, Principals
  <2> QED
    BY <1>0, <1>6, <2>1, TurnsKeepHistory DEF VaultChanges, turnOnly
<1>7. ASSUME NEW p \in Principals, Turn(p) PROVE HistoryInv'
  <2>1. ASSUME \A q \in Principals : Continues(q), UNCHANGED turnOnly
        PROVE  HistoryInv'
    BY <1>0, <2>1, TurnsKeepHistory DEF turnOnly
  <2>2. CASE Ensure(p)
    <3>1. Waiting(p) /\ Goto(p, "lock") /\ UNCHANGED turnOnly
      BY <2>2 DEF Ensure, At, Waiting, Asking, InTurn
    <3> QED
      BY <2>1, <3>1, GotoContinues
  <2>3. CASE AskLock(p)
    <3>1. Waiting(p) /\ UNCHANGED turnOnly
      BY <2>3 DEF AskLock, At, Waiting, Asking, InTurn
    <3>2. Goto(p, "provider") \/ Goto(p, "unlock") \/ Answers(p)
      BY <2>3 DEF AskLock
    <3> QED
      BY <2>1, <3>1, <3>2, GotoContinues, AnswersContinues
  <2>4. CASE AskLockFails(p)
    <3>1. Waiting(p) /\ UNCHANGED turnOnly
      BY <2>4 DEF AskLockFails, At, Waiting, Asking, InTurn
    <3>2. turn' = [turn EXCEPT ![p] = [turn[p] EXCEPT !.step = "send",
                                                      !.vaultSeen = "unknown"]]
      BY <2>4 DEF AskLockFails, TurnsInv
    <3>3. ASSUME NEW q \in Principals PROVE Continues(q)
      <4>1. turn[q] \in TurnType
        BY DEF TurnsInv
      <4>2. turn'[q].session = turn[q].session /\ turn'[q].m = turn[q].m
        BY <3>2, <4>1 DEF TurnsInv, TurnType
      <4>3. q = p \/ turn'[q] = turn[q]
        BY <3>2 DEF TurnsInv
      <4> QED
        BY <3>1, <4>2, <4>3 DEF Continues, Waiting, Asking, InTurn, At
    <3> QED
      BY <2>1, <3>1, <3>3
  <2>5. CASE Unlock(p)
    <3>1. VaultOpens(p) \/ Answers(p)
      BY <2>5 DEF Unlock
    <3>2. At(p, "unlock") /\ UNCHANGED turnOnly
      BY <2>5 DEF Unlock
    <3> QED
      BY <2>1, <3>1, <3>2, OpensContinues, AnswersContinues
  <2>6. CASE Provider(p)
    <3>1. Waiting(p) /\ UNCHANGED turnOnly
      BY <2>6 DEF Provider, At, Waiting, Asking, InTurn
    <3>2. Goto(p, "key") \/ Goto(p, "send") \/ Answers(p)
      BY <2>6 DEF Provider
    <3> QED
      BY <2>1, <3>1, <3>2, GotoContinues, AnswersContinues
  <2>7. CASE Key(p)
    <3>1. Waiting(p) /\ UNCHANGED turnOnly
      BY <2>7 DEF Key, At, Waiting, Asking, InTurn
    <3>2. Goto(p, "send") \/ Answers(p)
      BY <2>7 DEF Key
    <3> QED
      BY <2>1, <3>1, <3>2, GotoContinues, AnswersContinues
  <2>8. CASE Send(p)
    BY <2>8, SendKeepsHistory
  <2>9. CASE TurnRaises(p)
    BY <2>1, <2>9, EndsContinues DEF TurnRaises, NoTurn, AtRest
  <2>10. ASSUME NEW w \in host, NEW outcome \in {"text", "error", "empty"},
                Answer(p, w, outcome)
         PROVE HistoryInv'
    <3>1. \A q \in Principals : Continues(q)
      <4> DEFINE t == [AtRest("stream", 0) EXCEPT !.coming = Frames(outcome)]
      <4>1. t.step = "stream" /\ turn' = [turn EXCEPT ![p] = t]
        BY <2>10 DEF Answer, AtRest
      <4> HIDE DEF t
      <4> QED
        BY <4>1, EndsContinues
    <3> QED
      BY <2>10, <3>1, HeardKeepsHistory, UnheardKeepsHistory DEF Answer
  <2>11. CASE PassOn(p)
    <3> DEFINE t == [turn[p] EXCEPT !.coming = Tail(@), !.finals = @ + 1,
                                    !.sawFinal = "yes"]
    <3>1. turn[p] \in TurnType /\ turn[p].step = "stream" /\ UNCHANGED turnOnly
      BY <2>11 DEF PassOn, At, TurnsInv
    <3>2. t.step = "stream" /\ turn' = [turn EXCEPT ![p] = t]
      BY <2>11, <3>1 DEF PassOn, TurnType
    <3> HIDE DEF t
    <3> QED
      BY <2>1, <3>1, <3>2, EndsContinues
  <2>12. CASE Conclude(p)
    <3> DEFINE t == AtRest("ended", turn[p].finals +
                             IF Head(turn[p].coming) = "failed" \/ turn[p].sawFinal = "no"
                             THEN 1 ELSE 0)
    <3>1. turn' = [turn EXCEPT ![p] = t] /\ UNCHANGED turnOnly
      BY <2>12 DEF Conclude, Ends
    <3>2. t.step = "ended"
      BY DEF AtRest
    <3> HIDE DEF t
    <3> QED
      BY <2>1, <3>1, <3>2, EndsContinues
  <2> QED
    BY <1>7, <2>2, <2>3, <2>4, <2>5, <2>6, <2>7, <2>8, <2>9, <2>10, <2>11, <2>12 DEF Turn
<1>8. ASSUME NEW w \in host, Retry(w) PROVE HistoryInv'
  BY <1>8, RetryKeepsHistory
<1>9. ASSUME NEW w \in host, AnswerUnread(w) PROVE HistoryInv'
  BY <1>9, SameContinues, HeardKeepsHistory, UnheardKeepsHistory
  DEF AnswerUnread, gatewayVars
<1>10. ASSUME NEW s \in Sessions, Resolved(s) PROVE HistoryInv'
  <2>1. PICK p \in {"owner", "system"} : Starts(p, SessionOf(p, "news"), "none")
    BY <1>10 DEF Resolved
  <2> QED
    BY <1>10, <2>1, StartsKeepsHistory, SessionOfTyped
    DEF Resolved, Principals, history
<1>11. CASE Reset
  BY <1>11, ResetKeepsHistory
<1>12. CASE ResetDone \/ ResetFails
  BY <1>12, ResetDoneKeepsHistory
<1>13. CASE GatewayRestart
  <2>1. \A q \in Principals : Continues(q)
    BY <1>13 DEF GatewayRestart, Continues, Asking, InTurn, At, NoTurn, AtRest
  <2> QED
    BY <1>13, <2>1, TurnsKeepHistory DEF GatewayRestart
<1>14. CASE HostRestart
  BY <1>14, HostRestartKeepsHistory
<1> QED
  BY <1>1, <1>2, <1>3, <1>6, <1>7, <1>8, <1>9, <1>10, <1>11, <1>12,
     <1>13, <1>14 DEF Next

LEMMA HistoryInvInit ==
  ASSUME Init PROVE HistoryInv
<1>1. \A p \in Principals : ~Asking(p)
  BY DEF Init, Asking, InTurn, At, NoTurn, AtRest
<1>2. /\ messages = 0 /\ host = {} /\ reset = "none"
      /\ \A s \in Sessions : bound[s] = 0 /\ since[s] = {}
      /\ \A m \in 1..MaxMessages : heard[m] = {}
  BY DEF Init
<1>3. HistoryTypes
  BY ConversationAssumption DEF Init, HistoryTypes
<1>4. Unsent = 1..MaxMessages
  BY <1>1, <1>2 DEF Unsent, Waiting
<1>5. ASSUME NEW m \in Unsent PROVE Untold(m)
  <2>1. m \in 1..MaxMessages /\ m # 0
    BY <1>4, ConversationAssumption
  <2> QED
    BY <2>1, <1>2 DEF Untold
<1>6. TurnsApart
  BY <1>1 DEF TurnsApart, Waiting
<1>7. MessagesInv /\ ThreadsInv /\ ExactHistory
  BY <1>2, <1>5, <1>6 DEF MessagesInv, ThreadsInv, ExactHistory
<1> QED
  BY <1>3, <1>7 DEF HistoryInv

LEMMA HistoryInvHolds == Spec => []HistoryInv
<1>1. Init => HistoryInv
  BY HistoryInvInit
<1>2. TurnsInv /\ HistoryInv /\ [Next]_vars => HistoryInv'
  BY HistoryKept
<1> QED
  BY <1>1, <1>2, TurnsInvHolds, PTL DEF Spec
-----------------------------------------------------------------------------
(* The thread a session is bound to has heard exactly the messages that    *)
(* were handled in the session since it began anew: nothing lost by a      *)
(* time-out or a retry, nothing left from before a reset or a restart.     *)
(* The exceptions are those the history calls muddled, where send_message  *)
(* of codex_session_manager or a reset met another turn of the session.    *)
THEOREM ThreadsHoldTheirHistory == Spec => []ExactHistory
<1>1. HistoryInv => ExactHistory
  BY DEF HistoryInv
<1> QED
  BY <1>1, HistoryInvHolds, PTL

(* A turn of the gateway that ends without raising has sent its user       *)
(* exactly one assistant.final: saw_final and the gateway's own words      *)
(* (lines 185 to 224) complement what the host sends, text, error or       *)
(* nothing, whatever the restarts and time-outs.                           *)
THEOREM OneAnswerPerTurn == Spec => []OneAnswer
<1>1. TurnsInv => OneAnswer
  BY DEF TurnsInv, Answered, OneAnswer, At
<1> QED
  BY <1>1, TurnsInvHolds, PTL

(* No prompt goes to Codex in a turn that never saw the vault open and     *)
(* that the vault answered, although anybody may lock it between the       *)
(* awaits of the turn.                                                     *)
THEOREM PromptsNeedOpenVault == Spec => []PromptNeedsVault
<1>1. TurnsInv => PromptNeedsVault
  BY DEF TurnsInv, Seen, PromptNeedsVault, At
<1> QED
  BY <1>1, TurnsInvHolds, PTL
=============================================================================

------------------------------- MODULE AiChat -------------------------------
(***************************************************************************)
(* The chat of the AI sidebar (src/ai/hooks/use-ai-sidebar-chat.ts) and the*)
(* permissions of its tools (src/ai/agent/permissions.ts).                 *)
(*                                                                         *)
(* A send is one call of sendMessage: it awaits the stream of the model, a *)
(* back-off, a tool, or the answer of the user to a confirmation, in turns *)
(* that each execute one series of tool calls.  Stop does not end it; it   *)
(* makes generationIdRef move on, and the send gives up when it wakes next.*)
(* Until then the user may send again, so several sends share isLoading,   *)
(* the mode, and the one resolver of a confirmation.                       *)
(*                                                                         *)
(* What runs between two awaits is one step; an await that is answered at  *)
(* once (a tool that is refused or asks) is part of it.  Messages, tokens, *)
(* usage, artefacts and prompts are left out, and so is abortRef: a stream *)
(* may fail at any time, aborted or not.  A call that was refused for its  *)
(* idempotency key or failed counts as done.                               *)
(***************************************************************************)
EXTENDS Naturals, Sequences, FiniteSetsExt

CONSTANTS
    Sends,          \* calls of sendMessage that may be under way at a time
    Tools,          \* the tools, all of them with side effects
    HighImpact,     \* HIGH_IMPACT_TOOLS
    Offers,         \* the series of tools a model may ask for in one turn
    MaxTurns,       \* MAX_TOOL_TURNS
    MaxRetries,     \* retries of a stream
    MaxChanges,     \* bound: how often the user changes mode or settings
    Nothing

ASSUME AiChatAssumption ==
    /\ HighImpact \subseteq Tools
    /\ Offers \subseteq Seq(Tools) \ {<<>>}
    /\ MaxTurns \in Nat \ {0, 1} /\ MaxRetries \in Nat /\ MaxChanges \in Nat
    /\ Nothing \notin Sends \cup Offers \cup {"act", "plan"}

VARIABLES
    send,       \* where each send is, see Send
    loading,    \* isLoading
    resolver,   \* the send whose promise confirmResolverRef resolves, or Nothing
    mode,       \* agentMode and agentModeRef
    restore,    \* restoreModeRef
    plan,       \* the tools of pendingPlan, or Nothing
    auto,       \* autoApply
    batchOn,    \* batchConfirmRef
    permission, \* what the panel saved for each tool, or the default "ask"
    changes,    \* changes of mode or settings so far
    left        \* history: by a Stop, or from a stored session, the card of a
                \* question that nobody waits for may be among the messages

chat == <<send, loading, resolver, mode, restore>>
settings == <<auto, batchOn, permission, changes>>
chatVars == <<chat, plan, settings, left>>

Call == [tool : Tools, state : {"waiting", "runs", "done", "asks", "refused"}]

Send == [
    pc : {"idle", "stream", "backoff", "tool", "ask", "redo"},
    live : BOOLEAN,     \* ~ isStale(): no Stop since it began
    auto : BOOLEAN,     \* autoApply as sendMessage closed over it
    toolless : BOOLEAN, \* retriedWithoutTools
    attempt : 0 .. MaxRetries,
    turns : 0 .. MaxTurns,
    series : Seq(Call),
    at : Nat,           \* the call that runs or is asked about
    planned : BOOLEAN,  \* preApproved
    batch : BOOLEAN,    \* batchApprove
    agreed : SUBSET Nat, \* history: the calls of high impact of the series that
                         \* the user said yes to, on its own card or in a plan
    misled : SUBSET Nat] \* history: those that a yes on another card was taken for

ChatTypeOK ==
    /\ send \in [Sends -> Send]
    /\ loading \in BOOLEAN
    /\ resolver \in Sends \cup {Nothing}
    /\ mode \in {"act", "plan"} /\ restore \in {"act", "plan", Nothing}
    /\ plan \in Offers \cup {Nothing}
    /\ auto \in BOOLEAN /\ batchOn \in BOOLEAN
    /\ permission \in [Tools -> {"allow", "ask", "deny"}]
    /\ \A t \in HighImpact : permission[t] # "allow"
    /\ changes \in 0 .. MaxChanges
    /\ left \in BOOLEAN

Idle == [pc |-> "idle", live |-> FALSE, auto |-> FALSE, toolless |-> FALSE,
         attempt |-> 0, turns |-> 0, series |-> <<>>, at |-> 0,
         planned |-> FALSE, batch |-> FALSE, agreed |-> {}, misled |-> {}]

(* autoApply was stored by an earlier visit; as for the other settings that *)
(* are stored, the user comes to them by Change                             *)
ChatInit ==
    /\ send = [s \in Sends |-> Idle]
    /\ loading = FALSE /\ resolver = Nothing
    /\ mode = "act" /\ restore = Nothing /\ plan = Nothing
    /\ auto \in BOOLEAN /\ batchOn = FALSE
    /\ permission = [t \in Tools |-> "ask"]
    /\ changes = 0
    /\ left = FALSE

-----------------------------------------------------------------------------
(* One send between two awaits: operators on its record.  The record that   *)
(* results has pc "over" when sendMessage is left.                          *)

(* authorizeToolCall for a classified tool *)
Decision(t, source) ==
    CASE permission[t] = "deny" -> "refused"
      [] permission[t] # "deny" /\ t \in HighImpact ->
            IF source \in {"user", "plan"} THEN "runs" ELSE "asks"
      [] OTHER ->
            IF permission[t] = "allow" \/ source # "none" THEN "runs" ELSE "asks"

Source(r) ==
    IF r.planned THEN "plan" ELSE IF r.auto THEN "autoApply" ELSE "none"

(* the calls of high impact of its series *)
Grave(r) == {j \in DOMAIN r.series : r.series[j].tool \in HighImpact}

Asking(r) == {j \in DOMAIN r.series : r.series[j].state = "asks"}

(* those that batchApprove spares the question *)
Covered(r) == IF r.batch THEN Asking(r) ELSE {}

(* gatedExecute for the calls of S in their order, up to the first one that *)
(* has to be waited for *)
Execute(r, S, source) ==
    LET D(j) == Decision(r.series[j].tool, source)
        going == {j \in S : D(j) = "runs"}
        reached == {j \in S : \A k \in going : j <= k}
    IN  [r EXCEPT !.series = [j \in DOMAIN r.series |->
                                IF j \in reached THEN [r.series[j] EXCEPT !.state = D(j)]
                                ELSE r.series[j]],
                  !.at = IF going = {} THEN 0 ELSE Min(going)]

(* mutant: batchApprove is declared outside executeTools *)
OpenTurnKeepsBatch(r) ==
    [r EXCEPT !.pc = "stream", !.attempt = 0, !.series = <<>>, !.at = 0,
              !.planned = FALSE, !.agreed = {}, !.misled = {}]

(* runTurn, with the series of the turn before forgotten *)
OpenTurn(r) ==
    [r EXCEPT !.pc = "stream", !.attempt = 0, !.series = <<>>, !.at = 0,
              !.planned = FALSE, !.batch = FALSE, !.agreed = {}, !.misled = {}]

(* mutant: the turns of each call of runTurn are counted from zero *)
EndSeriesForgets(r) == OpenTurn(r)

(* the end of executeTools *)
EndSeries(r) ==
    IF r.turns + 1 < MaxTurns THEN OpenTurn([r EXCEPT !.turns = @ + 1])
    ELSE [r EXCEPT !.pc = "over"]

(* the loop over the calls that need a confirmation: those of S have it *)
Confirm(r, S) ==
    LET e == Execute(r, S, "user")
    IN  IF e.at # 0 THEN [e EXCEPT !.pc = "redo"]
        ELSE IF Asking(e) = {} THEN EndSeries(e)
        ELSE [e EXCEPT !.pc = "ask", !.at = Min(Asking(e))]

(* the first loop of executeTools, from call i on *)
ExecuteFrom(r, i) ==
    LET e == Execute(r, {j \in DOMAIN r.series : j >= i}, Source(r))
    IN  IF e.at # 0 THEN [e EXCEPT !.pc = "tool"] ELSE Confirm(e, Covered(e))

(* executeTools *)
ExecuteTools(r, tools, planned) ==
    ExecuteFrom([r EXCEPT
        !.series = [j \in DOMAIN tools |-> [tool |-> tools[j], state |-> "waiting"]],
        !.planned = planned,
        !.agreed = IF planned THEN {j \in DOMAIN tools : tools[j] \in HighImpact} ELSE {}], 1)

Over == [Idle EXCEPT !.pc = "over"]

-----------------------------------------------------------------------------
(* The finally block of sendMessage, stopped or not *)
Finish(s) ==
    /\ send' = [send EXCEPT ![s] = Idle]
    /\ loading' = FALSE
    /\ resolver' = Nothing
    /\ mode' = IF restore = Nothing THEN mode ELSE restore
    /\ restore' = Nothing

(* s goes on as next until its next await *)
Continue(s, next) ==
    \E r \in {next} :
        IF r.pc = "over" THEN Finish(s)
        ELSE /\ send' = [send EXCEPT ![s] = r]
             /\ resolver' = IF r.pc = "ask" THEN s ELSE resolver
             /\ UNCHANGED <<loading, mode, restore>>

(* sendMessage of the input, of a retry, an edited message or /compact *)
SendMessage(s) ==
    /\ send[s].pc = "idle"
    /\ ~ loading
    /\ loading' = TRUE
    /\ send' = [send EXCEPT ![s] = [OpenTurn(Idle) EXCEPT !.live = TRUE, !.auto = auto]]
    /\ UNCHANGED <<resolver, mode, restore, plan, settings, left>>

(* the stream ends with calls for tools, as such or written in its text *)
StreamCalls(s, tools) ==
    /\ send[s].pc = "stream"
    /\ IF send[s].live /\ mode = "plan"
       THEN plan' = tools /\ Continue(s, Over)
       ELSE /\ UNCHANGED plan
            /\ Continue(s, IF send[s].live THEN ExecuteTools(send[s], tools, FALSE) ELSE Over)
    /\ UNCHANGED <<settings, left>>

(* it ends without, stalls until the timer aborts it, or fails for good *)
StreamEnds(s) ==
    /\ send[s].pc = "stream"
    /\ Continue(s, Over)
    /\ UNCHANGED <<plan, settings, left>>

(* it fails before anything was received, in a way that may be retried ... *)
StreamFails(s) ==
    /\ send[s].pc = "stream" /\ send[s].live
    /\ send[s].attempt < MaxRetries
    /\ Continue(s, [send[s] EXCEPT !.pc = "backoff", !.attempt = @ + 1])
    /\ UNCHANGED <<plan, settings, left>>

BackOffEnds(s) ==
    /\ send[s].pc = "backoff"
    /\ Continue(s, [send[s] EXCEPT !.pc = "stream"])
    /\ UNCHANGED <<plan, settings, left>>

(* ... or because the model takes no tools: once more without them *)
StreamRefusesTools(s) ==
    /\ send[s].pc = "stream" /\ ~ send[s].toolless
    /\ Continue(s, IF send[s].live THEN OpenTurn([send[s] EXCEPT !.toolless = TRUE]) ELSE Over)
    /\ UNCHANGED <<plan, settings, left>>

Done(s) == [send[s] EXCEPT !.series[send[s].at].state = "done"]

(* mutant: nobody asks for the generation after a tool *)
ToolReturnsAnyway(s) ==
    /\ send[s].pc = "tool"
    /\ Continue(s, ExecuteFrom(Done(s), send[s].at + 1))
    /\ UNCHANGED <<plan, settings, left>>

(* gatedExecute is back, in the first loop ... *)
ToolReturns(s) ==
    /\ send[s].pc = "tool"
    /\ Continue(s, IF send[s].live THEN ExecuteFrom(Done(s), send[s].at + 1) ELSE Over)
    /\ UNCHANGED <<plan, settings, left>>

(* ... or after a confirmation *)
ConfirmedReturns(s) ==
    /\ send[s].pc = "redo"
    /\ Continue(s, IF send[s].live THEN Confirm(Done(s), Covered(send[s])) ELSE Over)
    /\ UNCHANGED <<plan, settings, left>>

-----------------------------------------------------------------------------
(* The user *)

(* Every message with calls that wait for a confirmation shows buttons, and *)
(* the stored messages of another session do.                               *)
AnotherCard ==
    left \/ \E s \in Sends \ {resolver} : send[s].pc # "idle" /\ Asking(send[s]) # {}

(* confirmAction(true, all): it answers the question of the resolver, own   *)
(* or not the message that has the button                                   *)
Agree(own, all) ==
    /\ resolver # Nothing
    /\ own \/ AnotherCard
    /\ LET r == send[resolver]
           whole == all \/ batchOn
           yes == IF whole THEN Asking(r) ELSE {r.at}
           next == Confirm([r EXCEPT !.batch = whole,
                                     !.agreed = IF own THEN @ \cup (yes \cap Grave(r)) ELSE @,
                                     !.misled = IF own THEN @ ELSE @ \cup (yes \cap Grave(r))], yes)
       IN  IF next.pc = "over" THEN Finish(resolver)
           ELSE /\ send' = [send EXCEPT ![resolver] = next]
                /\ resolver' = IF next.pc = "ask" THEN resolver ELSE Nothing
                /\ UNCHANGED <<loading, mode, restore>>
    /\ UNCHANGED <<plan, settings, left>>

(* confirmAction(false) *)
Refuse ==
    /\ resolver # Nothing
    /\ Finish(resolver)
    /\ UNCHANGED <<plan, settings, left>>

(* mutant: a confirmation that is waited for stays open *)
StopLeavesQuestion ==
    /\ loading
    /\ loading' = FALSE
    /\ send' = [s \in Sends |-> [send[s] EXCEPT !.live = FALSE]]
    /\ left' = TRUE
    /\ UNCHANGED <<resolver, mode, restore, plan, settings>>

(* stopStreaming: the send that waits for an answer gets a no and ends *)
Stop ==
    /\ loading
    /\ loading' = FALSE
    /\ send' = [s \in Sends |-> IF s = resolver THEN Idle ELSE [send[s] EXCEPT !.live = FALSE]]
    /\ resolver' = Nothing
    /\ IF resolver # Nothing /\ restore # Nothing
       THEN mode' = restore /\ restore' = Nothing
       ELSE UNCHANGED <<mode, restore>>
    /\ left' = TRUE
    /\ UNCHANGED <<plan, settings>>

(* approvePlan, whose button is disabled while loading *)
TakePlan ==
    /\ plan # Nothing /\ ~ loading
    /\ plan' = Nothing
    /\ restore' = mode
    /\ mode' = "act"
    /\ UNCHANGED <<resolver, settings, left>>

ApprovePlan(s) ==
    /\ send[s].pc = "idle"
    /\ TakePlan
    /\ loading' = TRUE
    /\ send' = [send EXCEPT ![s] =
                  ExecuteTools([Idle EXCEPT !.live = TRUE, !.auto = auto], plan, TRUE)]

(* no message of the user is left, or no model is configured any more: it   *)
(* returns, or sendMessage does, before the try                             *)
ApproveInVain == TakePlan /\ UNCHANGED <<loading, send>>

(* rejectPlan, clearMessages, and the choice of another session *)
DropPlan ==
    /\ plan # Nothing
    /\ plan' = Nothing
    /\ UNCHANGED <<chat, settings, left>>

(* The choice of a session that was stored while a question was open: it    *)
(* touches neither a send nor the resolver.                                 *)
TakeUpSession ==
    /\ ~ left
    /\ left' = TRUE
    /\ plan' = Nothing
    /\ UNCHANGED <<chat, settings>>

Change == changes < MaxChanges /\ changes' = changes + 1

SetMode(m) ==
    /\ mode # m
    /\ Change
    /\ mode' = m
    /\ UNCHANGED <<send, loading, resolver, restore, plan, auto, batchOn, permission, left>>

SetAutoApply ==
    /\ Change
    /\ auto' = ~ auto
    /\ UNCHANGED <<chat, plan, batchOn, permission, left>>

SetBatchConfirm ==
    /\ Change
    /\ batchOn' = ~ batchOn
    /\ UNCHANGED <<chat, plan, auto, permission, left>>

(* mutant: every tool can be allowed for ever *)
SaveAnyPermission(t, p) ==
    /\ permission[t] # p
    /\ Change
    /\ permission' = [permission EXCEPT ![t] = p]
    /\ UNCHANGED <<chat, plan, auto, batchOn, left>>

(* savePermission with canSavePermission *)
SavePermission(t, p) ==
    /\ ~ (t \in HighImpact /\ p = "allow")
    /\ permission[t] # p
    /\ Change
    /\ permission' = [permission EXCEPT ![t] = p]
    /\ UNCHANGED <<chat, plan, auto, batchOn, left>>

-----------------------------------------------------------------------------
Awaits(s) == send[s].pc \in {"stream", "backoff", "tool", "redo"}

(* what s was waiting for *)
Wakes(s) ==
    \/ StreamEnds(s) \/ StreamFails(s) \/ StreamRefusesTools(s) \/ BackOffEnds(s)
    \/ \E tools \in Offers : StreamCalls(s, tools)
    \/ ToolReturns(s) \/ ConfirmedReturns(s)

ChatNext ==
    \/ \E s \in Sends : SendMessage(s) \/ ApprovePlan(s) \/ Wakes(s)
    \/ \E own, all \in BOOLEAN : Agree(own, all)
    \/ Refuse \/ Stop \/ ApproveInVain \/ DropPlan \/ TakeUpSession
    \/ \E m \in {"act", "plan"} : SetMode(m)
    \/ SetAutoApply \/ SetBatchConfirm
    \/ \E t \in Tools, p \in {"allow", "ask", "deny"} : SavePermission(t, p)

ChatSpec == ChatInit /\ [][ChatNext]_chatVars

(* A stream ends or is aborted after STALL_TIMEOUT_MS, a back-off is a      *)
(* timer, and tools are operations on the store or requests with a time     *)
(* limit; a delegated agent, whose stream has no timer of its own, is       *)
(* assumed to end.  Nothing is assumed of the user, answers included.  This *)
(* is weak fairness of Wakes(s) with its ENABLED spelt out, which TLC       *)
(* checks faster.                                                           *)
ChatFairness ==
    \A s \in Sends : []<>(~ Awaits(s)) \/ []<><<Wakes(s)>>_chatVars

ChatFairSpec == ChatSpec /\ ChatFairness

-----------------------------------------------------------------------------
(* Properties *)

(* the calls of a series that were really executed *)
Executed(s) == {j \in DOMAIN send[s].series : send[s].series[j].state \in {"runs", "done"}}

Stopped(s) == send[s].pc # "idle" /\ ~ send[s].live

(* "tout await suivi d'un check isStale() abandonne proprement la boucle":  *)
(* a send that was stopped executes no further tool, asks the user nothing, *)
(* and proposes no plan, wherever the Stop caught it and whatever the next  *)
(* send does meanwhile.                                                     *)
StoppedIsSilent ==
    [][\A s \in Sends : Stopped(s) =>
          /\ Executed(s)' \subseteq Executed(s)
          /\ send'[s].pc = "ask" => send[s].pc = "ask"
          /\ send'[s].pc = "idle" => plan' \in {plan, Nothing}]_chatVars

(* "Ces outils ne peuvent jamais recevoir allow persistant ni autoApply": a *)
(* tool of high impact is executed only after the user said yes to that     *)
(* very call, alone, with its series, or as part of a plan, whatever the    *)
(* switches and permissions were set to on the way.  The yes was given on   *)
(* the card of that call; only once a Stop or a stored session may have     *)
(* left another card among the messages can it have been clicked on that    *)
(* one instead, while the call it runs had its own question open.           *)
HighImpactIsAgreed ==
    \A s \in Sends : \A j \in Executed(s) \cap Grave(send[s]) :
        j \in send[s].agreed \/ (left /\ j \in send[s].misled)

(* A yes or no of the user reaches a send that waits for it and has not     *)
(* been stopped, although the resolver is shared by all sends and every one *)
(* of them clears it.                                                       *)
AnswersReachTheAsker ==
    resolver # Nothing => send[resolver].pc = "ask" /\ send[resolver].live

(* Once loading, the chat gets back to an input that is enabled and to the  *)
(* mode a plan was approved in, or has a question that the user can answer: *)
(* no turn, retry or Stop keeps it from that.                               *)
LoadingEnds ==
    loading ~> \/ ~ loading /\ restore = Nothing
               \/ resolver # Nothing
=============================================================================

---------------------------- MODULE AgentSession ----------------------------
(***************************************************************************)
(* The in-page agent: hooks/useAgentHost.ts on the main thread, which owns *)
(* the canvas and executes tools, and lib/agent/agentWorker.ts in a        *)
(* Worker, which talks to the model and asks for tools. They share nothing *)
(* but two FIFO message channels.                                          *)
(*                                                                         *)
(* A run of the worker is a chain of promise continuations. What runs      *)
(* between two awaits is one step: it starts when a reply of the model or  *)
(* the result of a tool arrives and ends at the next fetch or tool         *)
(* request. Several runs may be in the worker at once: a new run does not  *)
(* wait for the previous one to notice that it was replaced.               *)
(***************************************************************************)
EXTENDS Naturals, Sequences, FiniteSets

CONSTANTS MaxRuns,     \* bound: how many prompts the user submits
          MaxRounds,   \* the 8 tool rounds of runChat
          MaxCalls,    \* bound: tool calls in one reply of the model
          MaxRemounts, \* bound: how often AgentHost is mounted again
          NoRun        \* activeRequestId = null

Runs == 1 .. MaxRuns

ASSUME AgentAssumption ==
  /\ {MaxRuns, MaxRounds, MaxCalls} \subseteq Nat \ {0} /\ MaxRemounts \in Nat
  /\ NoRun \notin Runs

\* A callId: requestTool makes a fresh one for every call.
Calls == [run : Runs, round : 1 .. MaxRounds, index : 1 .. MaxCalls]

ToWorker == [type : {"run", "cancel"}, run : Runs]
       \cup [type : {"tool_result"}, run : Runs, call : Calls]

ToMain == [type : {"assistant_final", "done", "error"}, run : Runs]
     \cup [type : {"tool_request"}, run : Runs, call : Calls]

VARIABLES
  submitted,   \* how many runs there have been
  running,     \* agentStatusStore's running
  activeMain,  \* activeRequestId of useAgentHost
  executing,   \* the tools being executed on the main thread
  toWorker,    \* worker.postMessage, not yet handled
  toMain,      \* ctx.postMessage, not yet handled
  activeWorker,\* activeRequestId of the worker
  pendingTools,\* the calls whose resolver the worker holds
  chats,       \* runChat of every run
  remounts,    \* how often AgentHost was mounted again
  withdrawn,   \* history: runs the user cancelled or replaced
  lost         \* history: runs whose worker was terminated

mainVars == <<submitted, running, activeMain, executing>>
workerVars == <<activeWorker, pendingTools, chats>>
historyVars == <<withdrawn, lost>>
vars == <<mainVars, workerVars, historyVars, toWorker, toMain, remounts>>

\* Where a run stands: at is "none" before and after, "fetch" or "tool" in between;
\* asked and left count the calls of the last reply, heard are the results in hand.
Chats == [at : {"none", "fetch", "tool"}, round : 0 .. MaxRounds,
          asked : 0 .. MaxCalls, left : 0 .. MaxCalls, heard : Seq(Calls)]

NoChat == [at |-> "none", round |-> 0, asked |-> 0, left |-> 0, heard |-> <<>>]

CallOf(r, chat) == [run |-> r, round |-> chat.round, index |-> chat.asked - chat.left]

Init ==
  /\ submitted = 0 /\ running = FALSE /\ activeMain = NoRun /\ executing = {}
  /\ toWorker = <<>> /\ toMain = <<>>
  /\ activeWorker = NoRun /\ pendingTools = {}
  /\ chats = [r \in Runs |-> NoChat]
  /\ remounts = 0
  /\ withdrawn = {} /\ lost = {}

-----------------------------------------------------------------------------
(* The main thread.                                                         *)

\* runAgentPrompt. Ctrl+Enter submits while a run is going on, too.
Submit ==
  /\ submitted < MaxRuns
  /\ submitted' = submitted + 1
  /\ activeMain' = submitted'
  /\ running' = TRUE
  /\ toWorker' = Append(toWorker, [type |-> "run", run |-> submitted'])
  /\ withdrawn' = withdrawn \cup 1 .. submitted
  /\ UNCHANGED <<executing, workerVars, toMain, remounts, lost>>

\* cancelAgentRun.
Cancel ==
  /\ running /\ activeMain # NoRun
  /\ toWorker' = Append(toWorker, [type |-> "cancel", run |-> activeMain])
  /\ activeMain' = NoRun
  /\ running' = FALSE
  /\ withdrawn' = withdrawn \cup {activeMain}
  /\ UNCHANGED <<submitted, executing, workerVars, toMain, remounts, lost>>

\* worker.onmessage: a tool is begun, whichever run asks for it.
ReceiveToolRequest ==
  /\ toMain # <<>> /\ Head(toMain).type = "tool_request"
  /\ executing' = executing \cup {Head(toMain).call}
  /\ toMain' = Tail(toMain)
  /\ UNCHANGED <<submitted, running, activeMain, workerVars, historyVars, toWorker, remounts>>

\* worker.onmessage: the text of the answer goes to the transcript.
ReceiveFinal ==
  /\ toMain # <<>> /\ Head(toMain).type = "assistant_final"
  /\ toMain' = Tail(toMain)
  /\ UNCHANGED <<mainVars, workerVars, historyVars, toWorker, remounts>>

\* worker.onmessage: a run has ended, whichever it is.
ReceiveEnd ==
  /\ toMain # <<>> /\ Head(toMain).type \in {"done", "error"}
  /\ running' = FALSE
  /\ activeMain' = NoRun
  /\ toMain' = Tail(toMain)
  /\ UNCHANGED <<submitted, executing, workerVars, historyVars, toWorker, remounts>>

\* invokeAgentTool settles; the result goes to the worker in either case.
ToolReturns(call) ==
  /\ call \in executing
  /\ executing' = executing \ {call}
  /\ toWorker' = Append(toWorker, [type |-> "tool_result", run |-> call.run, call |-> call])
  /\ UNCHANGED <<submitted, running, activeMain, workerVars, historyVars, toMain, remounts>>

\* The effect's cleanup terminates the worker and a later mount starts a new one.
\* The module state of the host and of agentStatusStore stays.
Remount ==
  /\ remounts < MaxRemounts
  /\ remounts' = remounts + 1
  /\ toWorker' = <<>> /\ toMain' = <<>> /\ executing' = {}
  /\ activeWorker' = NoRun /\ pendingTools' = {}
  /\ chats' = [r \in Runs |-> NoChat]
  /\ lost' = lost \cup 1 .. submitted
  /\ UNCHANGED <<submitted, running, activeMain, withdrawn>>

-----------------------------------------------------------------------------
(* The worker. pending is what a step leaves of pendingTools.               *)

\* Broken variants of the operators below, each with a line of the code changed:
\* a .finally that forgets every resolver, a .catch that posts nothing, and a
\* resolver that is not looked up.
FinishClearsTools(r, messages, pending) ==
  /\ chats' = [chats EXCEPT ![r] = NoChat]
  /\ activeWorker' = IF activeWorker = r THEN NoRun ELSE activeWorker
  /\ toMain' = toMain \o messages
  /\ pendingTools' = {}

FailSilently(r, pending) ==
  /\ chats' = [chats EXCEPT ![r] = NoChat]
  /\ activeWorker' = IF activeWorker = r THEN NoRun ELSE activeWorker
  /\ pendingTools' = pending
  /\ UNCHANGED toMain

ResolvesAny(call) == pendingTools

\* runChat returns after posting these messages; .finally.
Finish(r, messages, pending) ==
  /\ chats' = [chats EXCEPT ![r] = NoChat]
  /\ activeWorker' = IF activeWorker = r THEN NoRun ELSE activeWorker
  /\ toMain' = toMain \o messages
  /\ pendingTools' = pending

\* .catch: only the active run says that it failed.
Fail(r, pending) ==
  Finish(r, IF activeWorker = r THEN <<[type |-> "error", run |-> r]>> ELSE <<>>, pending)

\* The head of the loop: the next fetch, unless the rounds are used up or the run
\* is no longer the active one.
NextRound(r, chat, pending) ==
  IF chat.round = MaxRounds THEN Fail(r, pending)
  ELSE IF activeWorker # r THEN Finish(r, <<>>, pending)
  ELSE /\ chats' = [chats EXCEPT ![r] = [chat EXCEPT !.at = "fetch", !.round = @ + 1]]
       /\ pendingTools' = pending
       /\ UNCHANGED <<activeWorker, toMain>>

\* The loop over the calls of a reply: requestTool for the next one.
NextTool(r, chat, pending) ==
  IF activeWorker # r THEN Finish(r, <<>>, pending)
  ELSE LET next == [chat EXCEPT !.at = "tool", !.left = @ - 1]
           call == CallOf(r, next)
       IN  /\ chats' = [chats EXCEPT ![r] = next]
           /\ pendingTools' = pending \cup {call}
           /\ toMain' = Append(toMain, [type |-> "tool_request", run |-> r, call |-> call])
           /\ UNCHANGED activeWorker

\* The model answers with n tool calls.
ReplyWithTools(r, n) ==
  /\ chats[r].at = "fetch"
  /\ NextTool(r, [chats[r] EXCEPT !.asked = n, !.left = n, !.heard = <<>>], pendingTools)
  /\ UNCHANGED <<mainVars, historyVars, toWorker, remounts>>

Answer(r, empty) ==
  (IF empty THEN <<>> ELSE <<[type |-> "assistant_final", run |-> r]>>)
    \o <<[type |-> "done", run |-> r]>>

\* The model answers with text. Nothing asks here whether the run is still the
\* active one.
ReplyWithText(r, empty) ==
  /\ chats[r].at = "fetch"
  /\ Finish(r, Answer(r, empty), pendingTools)
  /\ UNCHANGED <<mainVars, historyVars, toWorker, remounts>>

\* The fetch fails, or the reply is not what was asked for.
ReplyFails(r) ==
  /\ chats[r].at = "fetch"
  /\ Fail(r, pendingTools)
  /\ UNCHANGED <<mainVars, historyVars, toWorker, remounts>>

\* ctx.onmessage, "run": the tools of other runs are forgotten and runChat goes as
\* far as its first fetch.
ReceiveRun ==
  /\ toWorker # <<>> /\ Head(toWorker).type = "run"
  /\ LET r == Head(toWorker).run
     IN  /\ activeWorker' = r
         /\ chats' = [chats EXCEPT ![r] = [NoChat EXCEPT !.at = "fetch", !.round = 1]]
  /\ pendingTools' = {}
  /\ toWorker' = Tail(toWorker)
  /\ UNCHANGED <<mainVars, historyVars, toMain, remounts>>

\* ctx.onmessage, "cancel".
ReceiveCancel ==
  /\ toWorker # <<>> /\ Head(toWorker).type = "cancel"
  /\ IF activeWorker = Head(toWorker).run
     THEN activeWorker' = NoRun /\ pendingTools' = {}
     ELSE UNCHANGED <<activeWorker, pendingTools>>
  /\ toWorker' = Tail(toWorker)
  /\ UNCHANGED <<mainVars, historyVars, chats, toMain, remounts>>

\* pendingTools.get(callId): the call whose run a result wakes.
Resolves(call) == pendingTools \cap {call}

\* ctx.onmessage, "tool_result", for a call that nobody waits for any more.
ReceiveLateResult ==
  /\ toWorker # <<>> /\ Head(toWorker).type = "tool_result"
  /\ Resolves(Head(toWorker).call) = {}
  /\ toWorker' = Tail(toWorker)
  /\ UNCHANGED <<mainVars, workerVars, historyVars, toMain, remounts>>

\* ctx.onmessage, "tool_result": the run that waits goes on to its next call or,
\* after the last one, to the next round.
ReceiveResult ==
  /\ toWorker # <<>> /\ Head(toWorker).type = "tool_result"
  /\ \E call \in Resolves(Head(toWorker).call) :
       LET r    == call.run
           chat == [chats[r] EXCEPT !.heard = Append(@, Head(toWorker).call)]
           rest == pendingTools \ {call}
       IN  IF chat.left > 0 THEN NextTool(r, chat, rest) ELSE NextRound(r, chat, rest)
  /\ toWorker' = Tail(toWorker)
  /\ UNCHANGED <<mainVars, historyVars, remounts>>

-----------------------------------------------------------------------------
Reply(r) ==
  \/ \E n \in 1 .. MaxCalls : ReplyWithTools(r, n)
  \/ \E empty \in BOOLEAN : ReplyWithText(r, empty)
  \/ ReplyFails(r)

MainReceives == ReceiveToolRequest \/ ReceiveFinal \/ ReceiveEnd

WorkerReceives == ReceiveRun \/ ReceiveCancel \/ ReceiveLateResult \/ ReceiveResult

Next ==
  \/ Submit
  \/ Cancel
  \/ Remount
  \/ MainReceives
  \/ \E call \in Calls : ToolReturns(call)
  \/ WorkerReceives
  \/ \E r \in Runs : Reply(r)

\* Both event loops deliver what is posted, tools and fetches settle. The user owes
\* nothing: no fairness on Submit, Cancel and Remount.
Fairness ==
  /\ WF_vars(MainReceives)
  /\ WF_vars(WorkerReceives)
  /\ WF_vars(\E call \in Calls : ToolReturns(call))
  /\ \A r \in Runs : WF_vars(Reply(r))

Spec == Init /\ [][Next]_vars

FairSpec == Spec /\ Fairness

-----------------------------------------------------------------------------
TypeOK ==
  /\ submitted \in 0 .. MaxRuns
  /\ running \in BOOLEAN
  /\ activeMain \in Runs \cup {NoRun} /\ activeWorker \in Runs \cup {NoRun}
  /\ executing \subseteq Calls /\ pendingTools \subseteq Calls
  /\ toWorker \in Seq(ToWorker) /\ toMain \in Seq(ToMain)
  /\ chats \in [Runs -> Chats]
  /\ remounts \in 0 .. MaxRemounts
  /\ withdrawn \subseteq Runs /\ lost \subseteq Runs

\* A model is never sent a conversation with a hole in it: whenever a run fetches it
\* has heard every call of the last reply, in order and each from its own tool,
\* although results of earlier runs still arrive.
AnswersMatchCalls ==
  \A r \in Runs :
    LET chat  == chats[r]
        heard == CASE chat.at = "none"  -> 0
                   [] chat.at = "fetch" -> chat.asked
                   [] chat.at = "tool"  -> chat.asked - chat.left - 1
    IN  chat.heard = [i \in 1 .. heard |->
                        [run |-> r, index |-> i,
                         round |-> IF chat.at = "fetch" THEN chat.round - 1 ELSE chat.round]]

\* pendingTools.clear() leaves only withdrawn runs waiting for ever.
OnlyWithdrawnRunsHang ==
  \A r \in Runs :
    chats[r].at = "tool" /\ CallOf(r, chats[r]) \notin pendingTools => r \in withdrawn

\* Every run the panel shows as running ends: with an answer or an error, by Cancel
\* or by a newer run. Eight rounds of tools and a failed fetch are no exception.
EveryRunEnds ==
  \A r \in Runs : activeMain = r ~> (activeMain # r \/ r \in lost)
=============================================================================

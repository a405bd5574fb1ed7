---------------------------- MODULE AgentDialogue ----------------------------
(***************************************************************************)
(* The dialogue between a running agent and a person: the agent's client   *)
(* (BackendClient.ask_question) posts a question and long-polls for the    *)
(* answer; the frontend shows _pending_question and posts a reply.  The    *)
(* answer travels twice: through _answers and an asyncio.Event, which wake *)
(* a poll that is waiting, and through _pending_answer of the run          *)
(* document, for a poll that comes later, perhaps after a restart.         *)
(*                                                                         *)
(* Every handler reads the run document, awaits, and replaces the whole    *)
(* document by its changed copy.  A copy is part of the handler's state    *)
(* here, and so is the copy of the stream that runs the step: it was read  *)
(* when the run was retried or listed for recovery, and is stored when the *)
(* step's node begins, and again when it ends if recovery streams the run. *)
(* One action is one await with the code up to the next.                   *)
(*                                                                         *)
(* A question is its number; an answer is the number of the question the   *)
(* person was looking at, 0 the empty answer (and no answer).              *)
(*                                                                         *)
(* A definition whose comment says "mutant" is a deliberately wrong        *)
(* variant of the one after it; no specification uses it.                  *)
(***************************************************************************)
EXTENDS Integers

CONSTANTS
  Asks,         \* how many questions the agent may ask
  Pollers,      \* slots for GET /agent/input handlers
  Repliers,     \* slots for people with the question before them
  MaxWaits,     \* polls without an answer before ask_question gives up
  Slack,        \* a Slack bot token and channel are configured
  Interference, \* notes and Slack stamps may overlap other handlers' windows
  MaxLost,      \* bound: calls the client gives up (httpx.ReadTimeout)
  MaxCrash,     \* bound: restarts of the backend
  MaxRetry      \* bound: retries of the failed run

ASSUME DialogueAssumption ==
  /\ Asks \in Nat
  /\ MaxWaits \in Nat \ {0}
  /\ Slack \in BOOLEAN
  /\ Interference \in BOOLEAN
  /\ MaxLost \in Nat /\ MaxCrash \in Nat /\ MaxRetry \in Nat

VARIABLES
  doc,     \* what the run document says about the dialogue
  event,   \* _answer_events[run_id]
  answer,  \* _answers[run_id]
  client,  \* BackendClient in the agent's process
  asker,   \* the POST /agent/question handler
  poller,  \* the GET /agent/input handlers
  reply,   \* people and their POST /agent/reply handlers
  noter,   \* a handler that stores progress
  step,    \* the agent step, as the run shows it
  stream,  \* the stream of the run, with its copy of the document
  lost, crashes, retries,
  (* History variables: read by no action of the code. *)
  open,    \* the question stored last, if nobody has replied since; or 0
  got,     \* the last answer the client returned, with the question it asked
  overwrote \* the stream's copy has replaced a document that said otherwise

vars == <<doc, event, answer, client, asker, poller, reply, noter, step, stream,
          lost, crashes, retries, open, got, overwrote>>
memory == <<event, answer>>
running == <<step, stream, overwrote>>
bounds == <<lost, crashes, retries>>

Question == 1..Asks
Value == 0..Asks

(* pq: _pending_question, pa: _pending_answer, ts: _slack_ask_context_ts.    *)
Doc == [pq : Value, pa : Value, ts : BOOLEAN]
NoDoc == [pq |-> 0, pa |-> 0, ts |-> FALSE]

(* "gone": the run was retried, and the agent has not been started again.    *)
ClientState == {"working", "posting", "between", "polling", "finished", "gone"}
Client == [st : ClientState, q : Value, waits : 0..MaxWaits]

(* "waiting" is on the event in the table, "orphan" on one that has been     *)
(* popped from it, "woken" had its event set.                                *)
PollerState == {"off", "take", "waiting", "orphan", "woken"}
Poller == [st : PollerState, heard : BOOLEAN, doc : Doc]
ReplyState == {"off", "typing", "set", "write"}
Reply == [st : ReplyState, a : Value, doc : Doc]
Asker == [st : {"off", "store", "notify"}, q : Value, doc : Doc]
Noter == [st : {"off", "write"}, doc : Doc]

(* "plain" is _stream_graph; "toPause" stream_graph_to_pause, as recovery    *)
(* uses it.  at: recovery is to list the run, the step's node is to begin,   *)
(* the node is executed.                                                     *)
Stream == [kind : {"plain", "toPause"}, at : {"list", "start", "node"}, doc : Doc]

Idle == [st |-> "off", doc |-> NoDoc]
NoPoll == [st |-> "off", heard |-> FALSE, doc |-> NoDoc]
NoReply == [st |-> "off", a |-> 0, doc |-> NoDoc]
NoAsk == [st |-> "off", q |-> 0, doc |-> NoDoc]

Init ==
  /\ doc = NoDoc
  /\ event = "absent" /\ answer = 0
  /\ client = [st |-> "working", q |-> 0, waits |-> 0]
  /\ asker = NoAsk
  /\ poller = [p \in Pollers |-> NoPoll]
  /\ reply = [r \in Repliers |-> NoReply]
  /\ noter = Idle
  /\ step = "running"
  /\ stream = [kind |-> "plain", at |-> "node", doc |-> NoDoc]
  /\ lost = 0 /\ crashes = 0 /\ retries = 0
  /\ open = 0
  /\ got = [q |-> 0, a |-> 0]
  /\ overwrote = FALSE

(* Nobody is inside the window of a note or of the stamp of a Slack message. *)
Quiet == Interference \/ (noter.st = "off" /\ asker.st # "notify")

(***************************************************************************)
(* POST /agent/question.                                                   *)
(***************************************************************************)

(* The request, the handler's read, and what it does to the tables.          *)
Ask ==
  /\ client.st = "working" /\ client.q < Asks
  /\ asker.st = "off" /\ Quiet
  /\ client' = [st |-> "posting", q |-> client.q + 1, waits |-> 0]
  /\ asker' = [st |-> "store", q |-> client.q + 1, doc |-> doc]
  /\ event' = "clear"
  /\ answer' = 0
  /\ UNCHANGED <<doc, poller, reply, noter, running, bounds, open, got>>

(* The response, if the client still waits for it.                           *)
Asked == client' = IF client.st = "posting" THEN [client EXCEPT !.st = "between"] ELSE client

(* mutant: a question posted to Slack is stored only with its stamp.         *)
StoreQuestionLate ==
  /\ asker.st = "store"
  /\ LET new == [asker.doc EXCEPT !.pq = asker.q]
     IN IF Slack /\ ~new.ts
        THEN /\ asker' = [asker EXCEPT !.st = "notify", !.doc = new]
             /\ UNCHANGED <<client, doc>>
        ELSE /\ doc' = new /\ asker' = NoAsk /\ Asked
  /\ open' = asker.q
  /\ UNCHANGED <<memory, poller, reply, noter, running, bounds, got>>

StoreQuestion ==
  /\ asker.st = "store"
  /\ doc' = [asker.doc EXCEPT !.pq = asker.q]
  /\ IF Slack /\ ~doc'.ts
     THEN /\ asker' = [asker EXCEPT !.st = "notify", !.doc = doc']
          /\ UNCHANGED client
     ELSE /\ asker' = NoAsk /\ Asked
  /\ open' = asker.q
  /\ UNCHANGED <<memory, poller, reply, noter, running, bounds, got>>

(* The message is out, and its stamp is written with the handler's old copy. *)
SlackPosted ==
  /\ asker.st = "notify"
  /\ doc' = [asker.doc EXCEPT !.ts = TRUE]
  /\ asker' = NoAsk /\ Asked
  /\ UNCHANGED <<memory, poller, reply, noter, running, bounds, open, got>>

SlackFails ==
  /\ asker.st = "notify"
  /\ asker' = NoAsk /\ Asked
  /\ UNCHANGED <<doc, memory, poller, reply, noter, running, bounds, open, got>>

(* The 10 s of the POST are over: ask_question raises, the handler goes on.  *)
PostTimesOut ==
  /\ client.st = "posting" /\ lost < MaxLost
  /\ lost' = lost + 1
  /\ client' = [client EXCEPT !.st = "working"]
  /\ UNCHANGED <<doc, memory, asker, poller, reply, noter, running, crashes, retries, open, got>>

(***************************************************************************)
(* GET /agent/input.                                                       *)
(***************************************************************************)

(* Response 200: ask_question returns, if the client has not hung up on p.   *)
Return(p, a) ==
  IF poller[p].heard
  THEN /\ client' = [client EXCEPT !.st = "working"]
       /\ got' = [q |-> client.q, a |-> a]
  ELSE UNCHANGED <<client, got>>

(* The event is popped from the table; whoever waits on it is cut off.       *)
EndPoll(p) ==
  poller' = [r \in Pollers |->
               IF r = p THEN NoPoll
               ELSE IF poller[r].st = "waiting" THEN [poller[r] EXCEPT !.st = "orphan"]
               ELSE poller[r]]

(* mutant: the stored answer is not looked at.                               *)
PollMemoryOnly(p) ==
  /\ client.st = "between" /\ poller[p].st = "off" /\ Quiet
  /\ poller' = [poller EXCEPT ![p] =
                  [st |-> IF event = "set" THEN "woken" ELSE "waiting",
                   heard |-> TRUE, doc |-> NoDoc]]
  /\ event' = IF event = "absent" THEN "clear" ELSE event
  /\ client' = [client EXCEPT !.st = "polling"]
  /\ UNCHANGED <<doc, answer, asker, reply, noter, running, bounds, open, got>>

Poll(p) ==
  /\ client.st = "between" /\ poller[p].st = "off" /\ Quiet
  /\ client' = [client EXCEPT !.st = "polling"]
  /\ \/ /\ doc.pa # 0
        /\ poller' = [poller EXCEPT ![p] = [st |-> "take", heard |-> TRUE, doc |-> doc]]
        /\ UNCHANGED event
     \/ /\ doc.pa = 0
        /\ poller' = [poller EXCEPT ![p] =
                        [st |-> IF event = "set" THEN "woken" ELSE "waiting",
                         heard |-> TRUE, doc |-> NoDoc]]
        /\ event' = IF event = "absent" THEN "clear" ELSE event
  /\ UNCHANGED <<doc, answer, asker, reply, noter, running, bounds, open, got>>

(* mutant: the answer is taken from the table, which a restart has emptied.  *)
TakeFromMemory(p) ==
  /\ poller[p].st = "take"
  /\ doc' = [poller[p].doc EXCEPT !.pa = 0]
  /\ event' = "absent" /\ answer' = 0
  /\ Return(p, answer)
  /\ EndPoll(p)
  /\ UNCHANGED <<asker, reply, noter, running, bounds, open>>

(* The stored answer is removed from the document and returned.              *)
Take(p) ==
  /\ poller[p].st = "take"
  /\ doc' = [poller[p].doc EXCEPT !.pa = 0]
  /\ event' = "absent" /\ answer' = 0
  /\ Return(p, poller[p].doc.pa)
  /\ EndPoll(p)
  /\ UNCHANGED <<asker, reply, noter, running, bounds, open>>

(* The event was set.  The document is not touched: _pending_answer stays.   *)
Wake(p) ==
  /\ poller[p].st = "woken"
  /\ event' = "absent" /\ answer' = 0
  /\ Return(p, answer)
  /\ EndPoll(p)
  /\ UNCHANGED <<doc, asker, reply, noter, running, bounds, open>>

(* mutant: a wait is not counted.                                            *)
WaitedForever == client' = [client EXCEPT !.st = "between"]

(* mutant: one poll too many.                                                *)
WaitedOnceMore ==
  client' = [client EXCEPT !.waits = @ + 1,
                           !.st = IF client.waits < MaxWaits THEN "between" ELSE "working"]

(* A poll without an answer: sleep and retry, or TimeoutError.               *)
Waited ==
  client' = [client EXCEPT !.waits = @ + 1,
                           !.st = IF client.waits + 1 < MaxWaits THEN "between" ELSE "working"]

(* 408 after _LONG_POLL_TIMEOUT; the event stays in the table.               *)
Expire(p) ==
  /\ poller[p].st \in {"waiting", "orphan"}
  /\ poller' = [poller EXCEPT ![p] = NoPoll]
  /\ IF poller[p].heard THEN Waited ELSE UNCHANGED client
  /\ UNCHANGED <<doc, memory, asker, reply, noter, running, bounds, open, got>>

(* httpx.ReadTimeout: the client polls anew, the handler does not notice.    *)
HangUp(p) ==
  /\ poller[p].heard /\ lost < MaxLost
  /\ lost' = lost + 1
  /\ poller' = [poller EXCEPT ![p].heard = FALSE]
  /\ Waited
  /\ UNCHANGED <<doc, memory, asker, reply, noter, running, crashes, retries, open, got>>

(***************************************************************************)
(* People, and POST /agent/reply.                                          *)
(***************************************************************************)

(* The frontend shows the pending question of the run.                       *)
See(r) ==
  /\ reply[r].st = "off" /\ doc.pq # 0 /\ Quiet
  /\ reply' = [reply EXCEPT ![r] = [st |-> "typing", a |-> doc.pq, doc |-> NoDoc]]
  /\ UNCHANGED <<doc, memory, client, asker, poller, noter, running, bounds, open, got>>

Submit(r) ==
  /\ reply[r].st = "typing"
  /\ reply' = [reply EXCEPT ![r].st = "set"]
  /\ answer' = reply[r].a
  /\ event' = "set"
  /\ poller' = [p \in Pollers |-> IF poller[p].st = "waiting"
                                  THEN [poller[p] EXCEPT !.st = "woken"] ELSE poller[p]]
  /\ UNCHANGED <<doc, client, asker, noter, running, bounds, open, got>>

ReplyRead(r) ==
  /\ reply[r].st = "set" /\ Quiet
  /\ reply' = [reply EXCEPT ![r].st = "write", ![r].doc = doc]
  /\ UNCHANGED <<doc, memory, client, asker, poller, noter, running, bounds, open, got>>

(* mutant: the question stays in the document.                               *)
AnsweredCopyKeeps(r) == [reply[r].doc EXCEPT !.pa = reply[r].a]

AnsweredCopy(r) == [reply[r].doc EXCEPT !.pq = 0, !.pa = reply[r].a]

ReplyWrite(r) ==
  /\ reply[r].st = "write"
  /\ doc' = AnsweredCopy(r)
  /\ reply' = [reply EXCEPT ![r] = NoReply]
  /\ open' = 0
  /\ UNCHANGED <<memory, client, asker, poller, noter, running, bounds, got>>

(***************************************************************************)
(* Progress: POST /agent/progress, and the executor's forwarding of polled *)
(* messages.  What is stored is abstracted; what is overwritten is not.    *)
(***************************************************************************)

Holders == {p \in Pollers : poller[p].st = "take"} \cup {r \in Repliers : reply[r].st = "write"}

ReadNote ==
  /\ step = "running" /\ noter.st = "off"
  /\ Interference \/ (asker.st = "off" /\ Holders = {})
  /\ noter' = [st |-> "write", doc |-> doc]
  /\ UNCHANGED <<doc, memory, client, asker, poller, reply, running, bounds, open, got>>

WriteNote ==
  /\ noter.st = "write"
  /\ doc' = noter.doc
  /\ noter' = Idle
  /\ UNCHANGED <<memory, client, asker, poller, reply, running, bounds, open, got>>

(***************************************************************************)
(* The end of the step.                                                    *)
(***************************************************************************)

(* The agent reports its final output.                                       *)
AgentEnds ==
  /\ client.st = "working" /\ step = "running"
  /\ client' = [client EXCEPT !.st = "finished"]
  /\ UNCHANGED <<doc, memory, asker, poller, reply, noter, running, bounds, open, got>>

(* The stream stores d as the document's state.                              *)
StreamStores(d) == doc' = d /\ overwrote' = (overwrote \/ d # doc)

(* {**document, **copy}                                                      *)
Overlaid == [pq |-> IF stream.doc.pq # 0 THEN stream.doc.pq ELSE doc.pq,
             pa |-> IF stream.doc.pa # 0 THEN stream.doc.pa ELSE doc.pa,
             ts |-> stream.doc.ts \/ doc.ts]

(* What the stream stores when the node has ended.  _stream_graph reads the  *)
(* document anew; when the run fails it lays what it was started with over   *)
(* it, which are the keys of the copy if the first step was retried.         *)
StoredAtEnd(st) ==
  IF stream.kind = "toPause" THEN {stream.doc}
  ELSE IF st = "failed" THEN {doc, Overlaid}
  ELSE {doc}

(* A question that is still pending is raised as an interrupt, which         *)
(* _agent_node takes for a failure; the lines that clear it are not reached. *)
EndStep ==
  /\ client.st = "finished" /\ step = "running" /\ stream.at = "node" /\ Quiet
  /\ step' = IF doc.pq # 0 THEN "failed" ELSE "done"
  /\ \E d \in StoredAtEnd(step') : StreamStores(d)
  /\ UNCHANGED <<memory, client, asker, poller, reply, noter, stream, bounds, open, got>>

(* retry_run keeps the keys of the run's state that start with "_".  The     *)
(* agent is started anew, unless the outputs stored for the task already end *)
(* with a final one.                                                         *)
RetryStep ==
  /\ step = "failed" /\ retries < MaxRetry
  /\ retries' = retries + 1
  /\ step' = "running"
  /\ stream' = [kind |-> "plain", at |-> "start", doc |-> doc]
  /\ client' \in {client, [client EXCEPT !.st = "gone"]}
  /\ UNCHANGED <<doc, memory, asker, poller, reply, noter, lost, crashes, open, got, overwrote>>

(* _wrap_with_status_running: the step is shown as running by storing the    *)
(* whole copy; then the node's body starts the agent or finds it.            *)
NodeStarts ==
  /\ stream.at = "start"
  /\ StreamStores(stream.doc)
  /\ stream' = [stream EXCEPT !.at = "node"]
  /\ client' = IF client.st = "gone" THEN [client EXCEPT !.st = "working"] ELSE client
  /\ UNCHANGED <<memory, asker, poller, reply, noter, step, bounds, open, got>>

(***************************************************************************)
(* Restarts.                                                               *)
(***************************************************************************)

(* The tables and all handlers go.  A client in a call gets a connection     *)
(* error, which ask_question does not catch; one that sleeps may find the    *)
(* backend up again.                                                         *)
Crash ==
  /\ crashes < MaxCrash
  /\ crashes' = crashes + 1
  /\ event' = "absent" /\ answer' = 0
  /\ asker' = NoAsk /\ noter' = Idle
  /\ poller' = [p \in Pollers |-> NoPoll]
  /\ reply' = [r \in Repliers |-> IF reply[r].st = "typing" THEN reply[r] ELSE NoReply]
  /\ stream' = IF step = "running" THEN [stream EXCEPT !.at = "list"] ELSE stream
  /\ \/ /\ client.st \in {"posting", "polling", "between"}
        /\ client' = [client EXCEPT !.st = "working"]
     \/ /\ client.st \in {"working", "between", "finished", "gone"}
        /\ UNCHANGED client
  /\ UNCHANGED <<doc, step, lost, retries, open, got, overwrote>>

(* _recover_incomplete_runs lists the run; _resume_run streams it from that  *)
(* copy, while requests are served.                                          *)
ListRun ==
  /\ stream.at = "list"
  /\ stream' = [kind |-> "toPause", at |-> "start", doc |-> doc]
  /\ UNCHANGED <<doc, memory, client, asker, poller, reply, noter, step, bounds, open, got,
                 overwrote>>

(* What the event loop runs on its own, as opposed to what the agent, people,*)
(* the network and operators decide.                                         *)
Handlers ==
  \/ StoreQuestion \/ SlackPosted \/ SlackFails
  \/ \E p \in Pollers : Poll(p) \/ Take(p) \/ Wake(p) \/ Expire(p)
  \/ \E r \in Repliers : ReplyRead(r) \/ ReplyWrite(r)
  \/ WriteNote
  \/ ListRun \/ NodeStarts \/ EndStep

Next ==
  \/ Handlers
  \/ Ask \/ PostTimesOut \/ AgentEnds
  \/ \E p \in Pollers : HangUp(p)
  \/ \E r \in Repliers : See(r) \/ Submit(r)
  \/ ReadNote \/ RetryStep \/ Crash

Spec == Init /\ [][Next]_vars

(* Handlers run to their end; a poll is sent and ends in time; the event     *)
(* loop does not starve one handler for the sake of the others.              *)
Fairness ==
  /\ WF_vars(StoreQuestion) /\ WF_vars(SlackPosted \/ SlackFails)
  /\ WF_vars(WriteNote)
  /\ \A r \in Repliers : SF_vars(ReplyRead(r)) /\ WF_vars(ReplyWrite(r))
  /\ SF_vars(\E p \in Pollers : Poll(p))
  /\ \A p \in Pollers : WF_vars(Take(p)) /\ WF_vars(Wake(p)) /\ WF_vars(Expire(p))

FairSpec == Spec /\ Fairness

(***************************************************************************)
(* Properties.                                                             *)
(***************************************************************************)

TypeOK ==
  /\ doc \in Doc
  /\ event \in {"absent", "clear", "set"} /\ answer \in Value
  /\ client \in Client
  /\ asker \in Asker
  /\ poller \in [Pollers -> Poller]
  /\ reply \in [Repliers -> Reply]
  /\ noter \in Noter
  /\ step \in {"running", "failed", "done"}
  /\ stream \in Stream
  /\ lost \in 0..MaxLost /\ crashes \in 0..MaxCrash /\ retries \in 0..MaxRetry
  /\ open \in Value
  /\ got \in [q : Value, a : Value]
  /\ overwrote \in BOOLEAN

(* An answer that ask_question returns is the one a person gave to the       *)
(* question it asked ("str: The user's answer"), never an empty one or that  *)
(* of another question; unless a poll was given up and its handler, which    *)
(* nobody listens to any more, took the answer.                              *)
AnswerIsToThisQuestion == lost = 0 => got.a = got.q

(* A question that nobody has replied to is in the document, where the       *)
(* frontend finds it, for as long as the agent polls for its answer; unless  *)
(* the stream has put its older copy over what was stored since.             *)
OpenQuestionIsShown ==
  ~overwrote /\ client.st \in {"between", "polling"} /\ open = client.q => doc.pq = open

(* The same without the exception: a question is shown while the agent waits *)
(* for its answer.                                                           *)
QuestionIsShown ==
  client.st \in {"between", "polling"} /\ open = client.q => doc.pq = open

(* A step is failed because of a pending question only when nobody has       *)
(* replied to it: replies, polls, retries and restarts do not bring it back, *)
(* as long as the stream's copy overwrites nothing.                          *)
StepFailsOnlyUnanswered ==
  [][step = "running" /\ step' = "failed" => open # 0 \/ overwrote]_vars

(* The same without the exception: a step that fails for its question fails  *)
(* because nobody answered.                                                  *)
AnsweredStepGoesOn == [][step = "running" /\ step' = "failed" => open # 0]_vars

(* ask_question does not time out on a question whose reply is stored,       *)
(* unless a call was lost or the stream's copy has replaced the reply.       *)
NeverGivesUpOnAnswered ==
  [][client.st = "polling" /\ client'.st = "working" /\ got' = got /\ crashes' = crashes
       => open = client.q \/ lost' > 0 \/ overwrote]_vars

(* ask_question ends: with an answer, with TimeoutError, or with an error.   *)
AskEnds == client.st \in {"posting", "between", "polling"} ~> client.st \in {"working", "finished"}
=============================================================================

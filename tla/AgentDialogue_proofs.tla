------------------------- MODULE AgentDialogue_proofs -------------------------
(***************************************************************************)
(* Theorems about AgentDialogue for every number of handlers, people,      *)
(* polls, restarts and retries.                                            *)
(***************************************************************************)
EXTENDS AgentDialogue, TLAPS

USE DEF running

(***************************************************************************)
(* Type correctness.  The count of waits stays in its range because one    *)
(* poll at a time has the client on its connection, and because a client   *)
(* that may wait again has not used up its waits.                          *)
(***************************************************************************)
Listening ==
  /\ \A p \in Pollers : poller[p].heard => poller[p].st # "off" /\ client.st = "polling"
  /\ \A p, q \in Pollers : poller[p].heard /\ poller[q].heard => p = q

ClientInv ==
  /\ client.st \in {"posting", "between", "polling"} => client.waits < MaxWaits
  /\ step # "running" => client.st = "finished"

TypeInv == TypeOK /\ Listening /\ ClientInv

LEMMA ZeroTyped == 0 \in Value /\ Question \subseteq Value /\ Question = Value \ {0}
BY DialogueAssumption DEF Value, Question

LEMMA IdleTyped ==
  /\ NoDoc \in Doc
  /\ NoPoll \in Poller /\ NoPoll.st = "off" /\ ~NoPoll.heard
  /\ NoReply \in Reply /\ NoReply.st = "off"
  /\ NoAsk \in Asker /\ NoAsk.st = "off"
  /\ Idle \in Noter /\ Idle.st = "off"
BY ZeroTyped DEF NoDoc, Doc, NoPoll, Poller, PollerState, NoReply, Reply, ReplyState,
                 NoAsk, Asker, Idle, Noter

LEMMA InitTyped == Init => TypeInv
<1> SUFFICES ASSUME Init PROVE TypeInv
  OBVIOUS
<1> USE ZeroTyped, IdleTyped, DialogueAssumption DEF Init
<1>1. client \in Client /\ stream \in Stream
  BY DEF Client, ClientState, Stream
<1>b. overwrote \in BOOLEAN
  BY Zenon
<1>2. TypeOK
  BY <1>1, <1>b DEF TypeOK
<1>3. Listening /\ ClientInv
  BY DEF Listening, ClientInv
<1> QED
  BY <1>2, <1>3 DEF TypeInv

(* What the fields of a handler's state are.                                 *)
LEMMA FieldsTyped ==
  ASSUME TypeInv
  PROVE  /\ doc \in Doc /\ doc.pq \in Value /\ doc.pa \in Value
         /\ client.st \in ClientState /\ client.q \in Value /\ client.waits \in 0..MaxWaits
         /\ asker.st \in {"off", "store", "notify"} /\ asker.q \in Value /\ asker.doc \in Doc
         /\ noter.st \in {"off", "write"} /\ noter.doc \in Doc
         /\ stream \in Stream /\ stream.doc \in Doc
         /\ \A p \in Pollers : /\ poller[p] \in Poller /\ poller[p].st \in PollerState
                               /\ poller[p].heard \in BOOLEAN /\ poller[p].doc \in Doc
                               /\ poller[p].doc.pa \in Value
         /\ \A r \in Repliers : /\ reply[r] \in Reply /\ reply[r].st \in ReplyState
                                /\ reply[r].a \in Value /\ reply[r].doc \in Doc
BY DEF TypeInv, TypeOK, Doc, Client, Asker, Noter, Poller, Reply, Stream

(* Keeping the client in another state of the call.                          *)
LEMMA AskedTyped ==
  ASSUME TypeInv, Asked
  PROVE  /\ client' \in Client
         /\ client'.waits = client.waits /\ client'.q = client.q
         /\ client.st = "posting" => client'.st = "between"
         /\ client.st # "posting" => client' = client
BY DEF TypeInv, TypeOK, Asked, Client, ClientState

(* A wait is counted while the client has one left.                          *)
LEMMA WaitedTyped ==
  ASSUME TypeInv, client.st = "polling", Waited
  PROVE  /\ client' \in Client
         /\ client'.st \in {"between", "working"}
         /\ client'.st = "between" => client'.waits < MaxWaits
         /\ client'.q = client.q
<1>1. client \in Client /\ client.waits < MaxWaits
  BY DEF TypeInv, TypeOK, ClientInv
<1>2. client.waits \in 0..MaxWaits /\ MaxWaits \in Nat
  BY FieldsTyped, DialogueAssumption
<1>3. client.waits + 1 \in 0..MaxWaits
  BY <1>1, <1>2
<1> QED
  BY <1>1, <1>2, <1>3 DEF Waited, Client, ClientState

(* A poll that returns an answer, or is cut off by another one's.            *)
LEMMA ReturnTyped ==
  ASSUME TypeInv, NEW p \in Pollers, NEW a \in Value, Return(p, a), EndPoll(p)
  PROVE  /\ client' \in Client
         /\ got' \in [q : Value, a : Value]
         /\ poller' \in [Pollers -> Poller]
         /\ poller'[p] = NoPoll
         /\ \A r \in Pollers \ {p} :
              /\ poller'[r].heard = poller[r].heard
              /\ poller'[r].st = "off" <=> poller[r].st = "off"
         /\ poller[p].heard => client'.st = "working"
         /\ ~poller[p].heard => client' = client
<1>1. client' \in Client /\ (poller[p].heard => client'.st = "working")
  BY DEF TypeInv, TypeOK, Return, Client, ClientState
<1>2. got' \in [q : Value, a : Value]
  BY FieldsTyped DEF Return, TypeInv, TypeOK
<1>3. \A r \in Pollers : [poller[r] EXCEPT !.st = "orphan"] \in Poller
  BY DEF TypeInv, TypeOK, Poller, PollerState
<1>4. poller' \in [Pollers -> Poller] /\ poller'[p] = NoPoll
  BY <1>3, IdleTyped DEF EndPoll, TypeInv, TypeOK
<1>5. \A r \in Pollers \ {p} :
        /\ poller'[r].heard = poller[r].heard
        /\ poller'[r].st = "off" <=> poller[r].st = "off"
  BY DEF EndPoll, TypeInv, TypeOK, Poller
<1> QED
  BY <1>1, <1>2, <1>4, <1>5 DEF Return

(* The rest of the invariant, after a poll that returns.                     *)
LEMMA ReturnListening ==
  ASSUME TypeInv, NEW p \in Pollers, NEW a \in Value, Return(p, a), EndPoll(p), step' = step,
         poller[p].st # "off"
  PROVE  Listening' /\ ClientInv'
<1>1. \A r \in Pollers : poller'[r].heard => poller[r].heard /\ r # p /\ poller'[r].st # "off"
  BY ReturnTyped, IdleTyped DEF TypeInv, Listening
<1>2. CASE poller[p].heard
  <2>1. \A r \in Pollers : ~poller'[r].heard
    BY <1>1, <1>2 DEF TypeInv, Listening
  <2>2. client'.st = "working" /\ client.st = "polling"
    BY <1>2, ReturnTyped DEF TypeInv, Listening
  <2> QED
    BY <2>1, <2>2 DEF TypeInv, Listening, ClientInv
<1>3. CASE ~poller[p].heard
  BY <1>1, <1>3, ReturnTyped DEF TypeInv, Listening, ClientInv
<1> QED
  BY <1>2, <1>3, FieldsTyped

(* Steps that leave the client and the polls alone.                          *)
LEMMA RestTyped ==
  ASSUME TypeInv, UNCHANGED <<client, poller, step>>, TypeOK'
  PROVE  TypeInv'
BY DEF TypeInv, Listening, ClientInv

LEMMA QuestionTyped ==
  ASSUME TypeInv, Ask \/ StoreQuestion \/ SlackPosted \/ SlackFails \/ PostTimesOut
  PROVE  TypeInv'
<1> USE FieldsTyped, IdleTyped, ZeroTyped, DialogueAssumption
<1>1. CASE Ask
  <2>1. client.q + 1 \in Value
    BY <1>1 DEF Ask, Value
  <2>2. client' \in Client /\ client'.st = "posting" /\ client'.waits < MaxWaits
    BY <1>1, <2>1 DEF Ask, Client, ClientState
  <2>3. asker' \in Asker
    BY <1>1, <2>1 DEF Ask, Asker
  <2>4. TypeOK'
    BY <1>1, <2>2, <2>3 DEF Ask, TypeInv, TypeOK, bounds
  <2> QED
    BY <1>1, <2>2, <2>4 DEF Ask, TypeInv, Listening, ClientInv
<1>2. ASSUME Asked, UNCHANGED <<poller, step>>, TypeOK' PROVE TypeInv'
  <2>1. \A p \in Pollers : poller[p].heard => client' = client
    BY <1>2, AskedTyped DEF TypeInv, Listening
  <2> QED
    BY <1>2, <2>1, AskedTyped DEF TypeInv, Listening, ClientInv
<1>3. CASE StoreQuestion
  <2>1. doc' \in Doc
    BY <1>3 DEF StoreQuestion, Doc
  <2>2. asker' \in Asker
    BY <1>3, <2>1 DEF StoreQuestion, Asker, TypeInv, TypeOK
  <2>3. client' \in Client /\ (client' = client \/ Asked)
    BY <1>3, AskedTyped DEF StoreQuestion, TypeInv, TypeOK
  <2>4. TypeOK'
    BY <1>3, <2>1, <2>2, <2>3 DEF StoreQuestion, TypeInv, TypeOK, memory, bounds
  <2> QED
    BY <1>2, <1>3, <2>3, <2>4, RestTyped DEF StoreQuestion
<1>4. CASE SlackPosted \/ SlackFails
  <2>1. doc' \in Doc
    BY <1>4 DEF SlackPosted, SlackFails, Doc
  <2>2. TypeOK'
    BY <1>4, <2>1, AskedTyped DEF SlackPosted, SlackFails, TypeInv, TypeOK, memory, bounds
  <2> QED
    BY <1>2, <1>4, <2>2 DEF SlackPosted, SlackFails
<1>5. CASE PostTimesOut
  <2>1. client' \in Client /\ client'.st = "working" /\ client.st = "posting"
    BY <1>5 DEF PostTimesOut, TypeInv, TypeOK, Client, ClientState
  <2>2. lost' \in 0..MaxLost
    BY <1>5 DEF PostTimesOut, TypeInv, TypeOK
  <2>3. TypeOK'
    BY <1>5, <2>1, <2>2 DEF PostTimesOut, TypeInv, TypeOK, memory
  <2> QED
    BY <1>5, <2>1, <2>3 DEF PostTimesOut, TypeInv, Listening, ClientInv
<1> QED
  BY <1>1, <1>3, <1>4, <1>5

LEMMA PollTyped ==
  ASSUME TypeInv, NEW p \in Pollers,
         Poll(p) \/ Take(p) \/ Wake(p) \/ Expire(p) \/ HangUp(p)
  PROVE  TypeInv'
<1> USE FieldsTyped, IdleTyped, ZeroTyped
<1>1. CASE Poll(p)
  <2>1. PICK x \in Poller : /\ poller' = [poller EXCEPT ![p] = x]
                            /\ x.st # "off" /\ x.heard
    <3> DEFINE take == [st |-> "take", heard |-> TRUE, doc |-> doc]
               wait == [st |-> IF event = "set" THEN "woken" ELSE "waiting",
                        heard |-> TRUE, doc |-> NoDoc]
    <3>a. take \in Poller /\ take.st # "off" /\ take.heard
      BY DEF Poller, PollerState
    <3>b. wait \in Poller /\ wait.st # "off" /\ wait.heard
      BY DEF Poller, PollerState
    <3>c. poller' = [poller EXCEPT ![p] = take] \/ poller' = [poller EXCEPT ![p] = wait]
      BY <1>1 DEF Poll
    <3> HIDE DEF take, wait
    <3> QED
      BY <3>a, <3>b, <3>c
  <2>2. client' \in Client /\ client'.st = "polling" /\ client'.waits = client.waits
        /\ client.st = "between"
    BY <1>1 DEF Poll, TypeInv, TypeOK, Client, ClientState
  <2>3. event' \in {"absent", "clear", "set"}
    BY <1>1 DEF Poll, TypeInv, TypeOK
  <2>4. TypeOK'
    BY <1>1, <2>1, <2>2, <2>3 DEF Poll, TypeInv, TypeOK, bounds
  <2>5. \A q \in Pollers : ~poller[q].heard
    BY <2>2 DEF TypeInv, Listening
  <2>6. Listening'
    BY <2>1, <2>2, <2>5 DEF Listening, TypeInv, TypeOK
  <2> QED
    BY <1>1, <2>2, <2>4, <2>6 DEF Poll, TypeInv, ClientInv
<1>2. CASE Take(p)
  <2>1. Return(p, poller[p].doc.pa) /\ EndPoll(p) /\ step' = step /\ poller[p].st # "off"
    BY <1>2 DEF Take
  <2>2. doc' \in Doc
    BY <1>2 DEF Take, Doc
  <2>3. TypeOK'
    BY <1>2, <2>1, <2>2, ReturnTyped DEF Take, TypeInv, TypeOK, bounds
  <2> QED
    BY <2>1, <2>3, ReturnListening DEF TypeInv
<1>3. CASE Wake(p)
  <2>1. Return(p, answer) /\ EndPoll(p) /\ step' = step /\ poller[p].st # "off" /\ answer \in Value
    BY <1>3 DEF Wake, TypeInv, TypeOK
  <2>2. TypeOK'
    BY <1>3, <2>1, ReturnTyped DEF Wake, TypeInv, TypeOK, bounds
  <2> QED
    BY <2>1, <2>2, ReturnListening DEF TypeInv
<1>4. CASE Expire(p) \/ HangUp(p)
  <2>1. PICK x \in Poller : poller' = [poller EXCEPT ![p] = x] /\ ~x.heard
    <3> DEFINE deaf == [poller[p] EXCEPT !.heard = FALSE]
    <3>1. deaf \in Poller /\ ~deaf.heard
      BY DEF Poller
    <3>2. poller' = [poller EXCEPT ![p] = NoPoll] \/ poller' = [poller EXCEPT ![p] = deaf]
      BY <1>4 DEF Expire, HangUp
    <3> HIDE DEF deaf
    <3> QED
      BY <3>1, <3>2
  <2>2. \A q \in Pollers : poller'[q].heard => q # p /\ poller'[q] = poller[q]
    BY <2>1 DEF TypeInv, TypeOK
  <2>3. lost' \in 0..MaxLost
    BY <1>4, DialogueAssumption DEF Expire, HangUp, TypeInv, TypeOK, bounds
  <2>4. CASE poller[p].heard
    <3>1. client.st = "polling" /\ Waited
      BY <1>4, <2>4 DEF Expire, HangUp, TypeInv, Listening
    <3>2. \A q \in Pollers : ~poller'[q].heard
      BY <2>2, <2>4 DEF TypeInv, Listening
    <3>3. TypeOK'
      BY <1>4, <2>1, <2>3, <3>1, WaitedTyped DEF Expire, HangUp, TypeInv, TypeOK, bounds, memory
    <3>4. step' = step
      BY <1>4 DEF Expire, HangUp
    <3> QED
      BY <3>1, <3>2, <3>3, <3>4, WaitedTyped DEF TypeInv, Listening, ClientInv
  <2>5. CASE ~poller[p].heard
    <3>1. Expire(p) /\ client' = client
      BY <1>4, <2>5 DEF Expire, HangUp
    <3>2. TypeOK'
      BY <2>1, <3>1 DEF Expire, TypeInv, TypeOK, bounds, memory
    <3> QED
      BY <2>2, <3>1, <3>2 DEF Expire, TypeInv, Listening, ClientInv
  <2> QED
    BY <2>4, <2>5
<1> QED
  BY <1>1, <1>2, <1>3, <1>4

LEMMA ReplyTyped ==
  ASSUME TypeInv, NEW r \in Repliers, See(r) \/ Submit(r) \/ ReplyRead(r) \/ ReplyWrite(r)
  PROVE  TypeInv'
<1> USE FieldsTyped, IdleTyped, ZeroTyped
<1>1. reply' \in [Repliers -> Reply]
  BY DEF See, Submit, ReplyRead, ReplyWrite, TypeInv, TypeOK, Reply, ReplyState
<1>2. CASE See(r) \/ ReplyRead(r)
  <2>1. TypeOK'
    BY <1>1, <1>2 DEF See, ReplyRead, TypeInv, TypeOK, memory, bounds
  <2> QED
    BY <1>2, <2>1, RestTyped DEF See, ReplyRead
<1>3. CASE Submit(r)
  <2>1. poller' \in [Pollers -> Poller]
    BY <1>3 DEF Submit, TypeInv, TypeOK, Poller, PollerState
  <2>2. \A p \in Pollers : /\ poller'[p].heard = poller[p].heard
                           /\ poller'[p].st = "off" <=> poller[p].st = "off"
    BY <1>3 DEF Submit, TypeInv, TypeOK, Poller
  <2>3. TypeOK'
    BY <1>1, <1>3, <2>1 DEF Submit, TypeInv, TypeOK, bounds
  <2> QED
    BY <1>3, <2>2, <2>3 DEF Submit, TypeInv, Listening, ClientInv
<1>4. CASE ReplyWrite(r)
  <2>1. doc' \in Doc
    BY <1>4 DEF ReplyWrite, AnsweredCopy, Doc
  <2>2. TypeOK'
    BY <1>1, <1>4, <2>1 DEF ReplyWrite, TypeInv, TypeOK, memory, bounds
  <2> QED
    BY <1>4, <2>2, RestTyped DEF ReplyWrite
<1> QED
  BY <1>2, <1>3, <1>4

(* What the stream stores is a document.                                     *)
LEMMA StoredTyped ==
  ASSUME TypeInv
  PROVE  /\ stream.doc \in Doc /\ Overlaid \in Doc
         /\ \A st : StoredAtEnd(st) \subseteq Doc
<1>1. Overlaid \in Doc
  BY FieldsTyped DEF Overlaid, Doc, Stream
<1> QED
  BY <1>1, FieldsTyped DEF StoredAtEnd

LEMMA StepTyped ==
  ASSUME TypeInv, ReadNote \/ WriteNote \/ AgentEnds \/ EndStep \/ RetryStep
  PROVE  TypeInv'
<1> USE FieldsTyped, IdleTyped, DialogueAssumption
<1>1. CASE ReadNote \/ WriteNote
  <2>1. doc' \in Doc /\ noter' \in Noter
    BY <1>1 DEF ReadNote, WriteNote, Noter
  <2>2. TypeOK'
    BY <1>1, <2>1 DEF ReadNote, WriteNote, TypeInv, TypeOK, memory, bounds
  <2> QED
    BY <1>1, <2>2, RestTyped DEF ReadNote, WriteNote
<1>2. CASE AgentEnds \/ EndStep \/ RetryStep
  <2>1. client' \in Client /\ client'.st \in {"working", "finished", "gone"}
    BY <1>2 DEF AgentEnds, EndStep, RetryStep, TypeInv, TypeOK, ClientInv, Client, ClientState
  <2>2. client.st \in {"working", "finished"}
    BY <1>2 DEF AgentEnds, EndStep, RetryStep, TypeInv, ClientInv
  <2>3. retries' \in 0..MaxRetry /\ step' \in {"running", "failed", "done"}
        /\ (step' # "running" => client'.st = "finished")
    BY <1>2 DEF AgentEnds, EndStep, RetryStep, TypeInv, TypeOK, ClientInv, bounds
  <2>4. doc' \in Doc /\ overwrote' \in BOOLEAN
    BY <1>2, StoredTyped
       DEF AgentEnds, EndStep, RetryStep, StreamStores, TypeInv, TypeOK
  <2>5. stream' \in Stream
    BY <1>2 DEF AgentEnds, EndStep, RetryStep, Stream
  <2>6. TypeOK'
    BY <1>2, <2>1, <2>3, <2>4, <2>5
       DEF AgentEnds, EndStep, RetryStep, TypeInv, TypeOK, memory, bounds
  <2>7. Listening'
    BY <1>2, <2>2 DEF AgentEnds, EndStep, RetryStep, TypeInv, Listening
  <2> QED
    BY <2>1, <2>3, <2>6, <2>7 DEF TypeInv, ClientInv
<1> QED
  BY <1>1, <1>2

LEMMA StreamTyped ==
  ASSUME TypeInv, ListRun \/ NodeStarts
  PROVE  TypeInv'
<1> USE FieldsTyped, DialogueAssumption
<1>1. stream' \in Stream /\ doc' \in Doc /\ overwrote' \in BOOLEAN
  <2>1. stream' \in Stream /\ doc' \in Doc
    BY StoredTyped DEF ListRun, NodeStarts, StreamStores, Stream
  <2>2. overwrote' \in BOOLEAN
    <3>1. overwrote' = overwrote \/ overwrote' = (overwrote \/ stream.doc # doc)
      BY DEF ListRun, NodeStarts, StreamStores
    <3> QED
      BY <3>1, Zenon DEF TypeInv, TypeOK
  <2> QED
    BY <2>1, <2>2
<1>2. /\ client' \in Client
      /\ client' = client \/ (client.st = "gone" /\ client'.st = "working")
  BY DEF ListRun, NodeStarts, TypeInv, TypeOK, Client, ClientState
<1>3. TypeOK'
  BY <1>1, <1>2 DEF ListRun, NodeStarts, TypeInv, TypeOK, memory, bounds
<1>4. UNCHANGED <<poller, step>>
  BY DEF ListRun, NodeStarts
<1> QED
  BY <1>2, <1>3, <1>4 DEF TypeInv, Listening, ClientInv

LEMMA CrashTyped ==
  ASSUME TypeInv, Crash
  PROVE  TypeInv'
<1> USE FieldsTyped, IdleTyped, ZeroTyped, DialogueAssumption
<1>1. /\ client' \in Client
      /\ client' = client \/ (client'.st = "working" /\ client.st \notin {"finished", "gone"})
  BY DEF Crash, TypeInv, TypeOK, Client, ClientState
<1>2. crashes' \in 0..MaxCrash
  BY DEF Crash, TypeInv, TypeOK
<1>3. poller' \in [Pollers -> Poller] /\ \A p \in Pollers : ~poller'[p].heard
  BY DEF Crash
<1>4. reply' \in [Repliers -> Reply] /\ stream' \in Stream
  BY DEF Crash, Stream
<1>5. TypeOK'
  BY <1>1, <1>2, <1>3, <1>4 DEF Crash, TypeInv, TypeOK
<1> QED
  BY <1>1, <1>3, <1>5 DEF Crash, TypeInv, Listening, ClientInv

LEMMA NextTyped == TypeInv /\ [Next]_vars => TypeInv'
<1> SUFFICES ASSUME TypeInv, [Next]_vars PROVE TypeInv'
  OBVIOUS
<1>1. CASE UNCHANGED vars
  BY <1>1 DEF TypeInv, TypeOK, Listening, ClientInv, vars
<1>2. CASE Next
  BY <1>2, QuestionTyped, PollTyped, ReplyTyped, StepTyped, StreamTyped, CrashTyped
     DEF Next, Handlers
<1> QED
  BY <1>1, <1>2

LEMMA AlwaysTyped == Spec => []TypeInv
BY InitTyped, NextTyped, PTL DEF Spec

(* Every variable keeps its type; in particular a client in a call has not   *)
(* used up its waits (agent_callbacks.py, backend_client.py).                *)
THEOREM TypeCorrect == Spec => []TypeOK
<1>1. TypeInv => TypeOK
  BY DEF TypeInv
<1> QED
  BY <1>1, AlwaysTyped, PTL

(***************************************************************************)
(* Answers.  An answer that is on its way, in a person's hands, in the     *)
(* table, in the document's copy a poll has taken, is never the empty one; *)
(* and while no call has been given up, the poll that would clear the      *)
(* table is the client's own.                                              *)
(***************************************************************************)
AnswerInv ==
  /\ \A r \in Repliers : reply[r].st # "off" => reply[r].a # 0
  /\ event = "set" => answer # 0
  /\ \A p \in Pollers : poller[p].st = "take" => poller[p].doc.pa # 0
  /\ client.st \in {"posting", "between", "polling"} => client.q # 0
  /\ lost = 0 => /\ \A p \in Pollers : poller[p].st # "off" => poller[p].heard
                 /\ \A p \in Pollers : poller[p].st = "woken" => event = "set"
                 /\ got.q = 0 <=> got.a = 0

LEMMA InitAnswer == Init => AnswerInv
BY IdleTyped DEF Init, AnswerInv

(* With no call given up, a poll that is alive is the only one.              *)
LEMMA OnlyPoll ==
  ASSUME TypeInv, AnswerInv, lost = 0, NEW p \in Pollers, poller[p].st # "off"
  PROVE  /\ client.st = "polling" /\ poller[p].heard
         /\ \A q \in Pollers \ {p} : poller[q].st = "off"
BY DEF TypeInv, Listening, AnswerInv

LEMMA PollAnswer ==
  ASSUME TypeInv, AnswerInv, NEW p \in Pollers,
         Poll(p) \/ Take(p) \/ Wake(p) \/ Expire(p) \/ HangUp(p)
  PROVE  AnswerInv'
<1> USE FieldsTyped, IdleTyped
<1>r. reply' = reply
  BY DEF Poll, Take, Wake, Expire, HangUp
<1>1. CASE Poll(p)
  <2> DEFINE take == [st |-> "take", heard |-> TRUE, doc |-> doc]
             wait == [st |-> IF event = "set" THEN "woken" ELSE "waiting",
                      heard |-> TRUE, doc |-> NoDoc]
  <2>1. \/ doc.pa # 0 /\ poller' = [poller EXCEPT ![p] = take] /\ event' = event
        \/ poller' = [poller EXCEPT ![p] = wait] /\ (event = "set" <=> event' = "set")
    BY <1>1 DEF Poll
  <2>2. /\ client.st = "between" /\ client'.q = client.q /\ answer' = answer
        /\ lost' = lost /\ got' = got
    BY <1>1 DEF Poll, TypeInv, TypeOK, Client, bounds
  <2>3. \A q \in Pollers \ {p} : poller'[q] = poller[q]
    BY <2>1 DEF TypeInv, TypeOK
  <2>4. /\ poller'[p].st = "take" => poller'[p].doc.pa # 0
        /\ poller'[p].st = "woken" => event' = "set"
        /\ poller'[p].heard
    BY <2>1 DEF TypeInv, TypeOK
  <2>5. event' = "set" <=> event = "set"
    BY <2>1
  <2> QED
    BY <1>r, <2>2, <2>3, <2>4, <2>5 DEF AnswerInv
<1>2. CASE Take(p) \/ Wake(p)
  <2>1. PICK a \in Value : /\ Return(p, a) /\ EndPoll(p)
                           /\ lost = 0 => a # 0
    <3>1. CASE Take(p)
      BY <3>1 DEF Take, AnswerInv
    <3>2. CASE Wake(p)
      BY <3>2 DEF Wake, AnswerInv, TypeInv, TypeOK
    <3> QED
      BY <1>2, <3>1, <3>2
  <2>2. poller[p].st # "off" /\ event' = "absent" /\ lost' = lost
    BY <1>2 DEF Take, Wake, bounds
  <2>3. client'.q = client.q /\ (client' = client \/ client'.st = "working")
    BY <2>1 DEF Return, TypeInv, TypeOK, Client
  <2>4. \A q \in Pollers : poller'[q].st = "take" => poller[q].st = "take" /\ poller'[q] = poller[q]
    BY <2>1 DEF EndPoll, TypeInv, TypeOK, Poller
  <2>5. ASSUME lost = 0
        PROVE  /\ \A q \in Pollers : poller'[q].st = "off"
               /\ got' = [q |-> client.q, a |-> a] /\ client.q # 0 /\ a # 0
    BY <2>1, <2>2, <2>5, OnlyPoll, ReturnTyped DEF Return, AnswerInv
  <2> QED
    BY <1>r, <2>2, <2>3, <2>4, <2>5 DEF AnswerInv
<1>3. CASE Expire(p)
  <2>1. /\ poller' = [poller EXCEPT ![p] = NoPoll]
        /\ lost' = lost /\ got' = got /\ event' = event /\ answer' = answer
    BY <1>3 DEF Expire, bounds, memory
  <2>2. client'.q = client.q /\ (client'.st \in {"posting", "between", "polling"}
                                 => client.st \in {"posting", "between", "polling"})
    BY <1>3, WaitedTyped DEF Expire, TypeInv, Listening
  <2> QED
    BY <1>r, <2>1, <2>2 DEF AnswerInv, TypeInv, TypeOK
<1>4. CASE HangUp(p)
  <2>1. /\ poller' = [poller EXCEPT ![p].heard = FALSE]
        /\ lost' # 0 /\ event' = event /\ answer' = answer
    <3>1. lost \in Nat
      BY DialogueAssumption DEF TypeInv, TypeOK
    <3> QED
      BY <1>4, <3>1 DEF HangUp, memory
  <2>2. client'.q = client.q /\ client.st = "polling"
    BY <1>4, WaitedTyped DEF HangUp, TypeInv, Listening
  <2>3. \A q \in Pollers : poller'[q].st = poller[q].st /\ poller'[q].doc = poller[q].doc
    BY <2>1 DEF TypeInv, TypeOK, Poller
  <2> QED
    BY <1>r, <2>1, <2>2, <2>3 DEF AnswerInv
<1> QED
  BY <1>1, <1>2, <1>3, <1>4

LEMMA ReplyAnswer ==
  ASSUME TypeInv, AnswerInv, NEW r \in Repliers,
         See(r) \/ Submit(r) \/ ReplyRead(r) \/ ReplyWrite(r)
  PROVE  AnswerInv'
<1> USE FieldsTyped, IdleTyped
<1>1. /\ client' = client /\ lost' = lost /\ got' = got
  BY DEF See, Submit, ReplyRead, ReplyWrite, bounds
<1>2. \A q \in Repliers : reply'[q].st # "off" => reply'[q].a # 0
  <2>1. CASE See(r)
    BY <2>1 DEF See, AnswerInv, TypeInv, TypeOK
  <2>2. CASE Submit(r) \/ ReplyRead(r) \/ ReplyWrite(r)
    BY <2>2 DEF Submit, ReplyRead, ReplyWrite, AnswerInv, TypeInv, TypeOK, Reply
  <2> QED
    BY <2>1, <2>2
<1>3. CASE Submit(r)
  <2>1. event' = "set" /\ answer' = reply[r].a /\ answer' # 0
    BY <1>3 DEF Submit, AnswerInv
  <2>2. \A p \in Pollers :
          /\ poller'[p].heard = poller[p].heard /\ poller'[p].doc = poller[p].doc
          /\ poller'[p].st = "take" => poller[p].st = "take"
          /\ poller'[p].st # "off" => poller[p].st # "off"
    BY <1>3 DEF Submit, TypeInv, TypeOK, Poller
  <2> QED
    BY <1>1, <1>2, <2>1, <2>2 DEF AnswerInv
<1>4. CASE See(r) \/ ReplyRead(r) \/ ReplyWrite(r)
  <2>1. UNCHANGED <<event, answer, poller>>
    BY <1>4 DEF See, ReplyRead, ReplyWrite, memory
  <2> QED
    BY <1>1, <1>2, <2>1 DEF AnswerInv
<1> QED
  BY <1>3, <1>4

LEMMA ClientAnswer ==
  ASSUME TypeInv, AnswerInv,
         \/ Ask \/ StoreQuestion \/ SlackPosted \/ SlackFails \/ PostTimesOut
         \/ ReadNote \/ WriteNote \/ AgentEnds \/ EndStep \/ RetryStep
  PROVE  AnswerInv'
<1> USE FieldsTyped, IdleTyped
<1>1. CASE Ask
  <2>1. event' = "clear" /\ client.st = "working" /\ client'.q = client.q + 1
    BY <1>1 DEF Ask
  <2>2. client'.q # 0
    BY <2>1 DEF Value
  <2>3. lost = 0 => \A p \in Pollers : poller[p].st = "off"
    BY <2>1, OnlyPoll
  <2> QED
    BY <1>1, <2>1, <2>2, <2>3 DEF Ask, AnswerInv, bounds
<1>2. CASE StoreQuestion \/ SlackPosted \/ SlackFails
  <2>1. UNCHANGED <<event, answer, poller, reply, lost, got>>
    BY <1>2 DEF StoreQuestion, SlackPosted, SlackFails, memory, bounds
  <2>2. client' = client \/ Asked
    BY <1>2 DEF StoreQuestion, SlackPosted, SlackFails
  <2>3. client'.q = client.q /\ (client' = client \/ client.st = "posting")
    BY <2>2, AskedTyped
  <2> QED
    BY <2>1, <2>3 DEF AnswerInv
<1>3. CASE PostTimesOut
  <2>1. lost' # 0 /\ client'.st = "working"
    <3>1. lost \in Nat
      BY DialogueAssumption DEF TypeInv, TypeOK
    <3> QED
      BY <1>3, <3>1 DEF PostTimesOut, TypeInv, TypeOK, Client
  <2> QED
    BY <1>3, <2>1 DEF PostTimesOut, AnswerInv, memory
<1>4. CASE ReadNote \/ WriteNote \/ AgentEnds \/ EndStep \/ RetryStep
  <2>1. UNCHANGED <<event, answer, poller, reply, lost, got>>
    BY <1>4 DEF ReadNote, WriteNote, AgentEnds, EndStep, RetryStep, memory, bounds
  <2>2. client' = client \/ client'.st \in {"working", "finished", "gone"}
    BY <1>4 DEF ReadNote, WriteNote, AgentEnds, EndStep, RetryStep, TypeInv, TypeOK, Client
  <2> QED
    BY <2>1, <2>2 DEF AnswerInv
<1> QED
  BY <1>1, <1>2, <1>3, <1>4

LEMMA StreamAnswer ==
  ASSUME TypeInv, AnswerInv, ListRun \/ NodeStarts
  PROVE  AnswerInv'
<1>1. UNCHANGED <<event, answer, poller, reply, lost, got>>
  BY DEF ListRun, NodeStarts, memory, bounds
<1>2. client' = client \/ client'.st = "working"
  BY DEF ListRun, NodeStarts, TypeInv, TypeOK, Client
<1> QED
  BY <1>1, <1>2 DEF AnswerInv

LEMMA CrashAnswer ==
  ASSUME TypeInv, AnswerInv, Crash
  PROVE  AnswerInv'
<1>1. /\ event' = "absent" /\ lost' = lost /\ got' = got
      /\ \A p \in Pollers : poller'[p].st = "off"
      /\ \A r \in Repliers : reply'[r].st # "off" => reply'[r] = reply[r]
  BY IdleTyped DEF Crash
<1>2. client' = client \/ client'.st = "working"
  BY DEF Crash, TypeInv, TypeOK, Client
<1> QED
  BY <1>1, <1>2 DEF AnswerInv

LEMMA NextAnswer == TypeInv /\ AnswerInv /\ [Next]_vars => AnswerInv'
<1> SUFFICES ASSUME TypeInv, AnswerInv, [Next]_vars PROVE AnswerInv'
  OBVIOUS
<1>1. CASE UNCHANGED vars
  BY <1>1 DEF AnswerInv, vars
<1>2. CASE Next
  BY <1>2, PollAnswer, ReplyAnswer, ClientAnswer, StreamAnswer, CrashAnswer
     DEF Next, Handlers
<1> QED
  BY <1>1, <1>2

(* If the agent asks one question, the answer that ask_question returns is   *)
(* the one a person gave to it, however polls, replies, notes, restarts and  *)
(* retries interleave, unless a poll was given up (agent_input, agent_reply).*)
THEOREM OneQuestionAnswered ==
  ASSUME Asks = 1
  PROVE  Spec => []AnswerIsToThisQuestion
<1>1. TypeInv /\ AnswerInv => AnswerIsToThisQuestion
  <2> SUFFICES ASSUME TypeInv, AnswerInv, lost = 0 PROVE got.a = got.q
    BY DEF AnswerIsToThisQuestion
  <2>1. got.q \in 0..1 /\ got.a \in 0..1 /\ (got.q = 0 <=> got.a = 0)
    BY DEF TypeInv, TypeOK, Value, AnswerInv
  <2> QED
    BY <2>1
<1> QED
  BY <1>1, InitAnswer, NextAnswer, AlwaysTyped, PTL DEF Spec

(***************************************************************************)
(* The pending question.  For one question, with the windows of notes and  *)
(* Slack stamps not overlapped by other handlers, the document says        *)
(* exactly whether it is open, until the stream's copy overwrites it.  The *)
(* invariant says of every copy a handler stores why writing it changes    *)
(* nothing in that: it equals the document, or the question is answered in *)
(* both.                                                                   *)
(***************************************************************************)
Untouched ==
  /\ open = 0 /\ doc.pq = 0 /\ doc.pa = 0
  /\ \A r \in Repliers : reply[r].st = "off"
  /\ \A p \in Pollers : poller[p].st # "take"

OpenInv ==
  /\ open = doc.pq
  /\ doc.pa # 0 => doc.pq = 0
  /\ \A p \in Pollers : poller[p].st = "take" => doc.pq = 0 /\ poller[p].doc.pq = 0
  /\ client.q = 0 => Untouched
  /\ asker.st = "store" => /\ Untouched /\ client.q # 0
                           /\ asker.doc.pa = 0 /\ asker.q # 0
  /\ asker.st = "notify" => /\ asker.doc = doc
                            /\ \A r \in Repliers : reply[r].st = "off"
                            /\ \A p \in Pollers : poller[p].st # "take"
  /\ noter.st = "write" => noter.doc = doc /\ asker.st = "off" /\ Holders = {}

LEMMA InitOpen == Init => OpenInv
BY IdleTyped DEF Init, OpenInv, Untouched, NoDoc

(* Steps that write none of what OpenInv is about.                           *)
LEMMA RestOpen ==
  ASSUME OpenInv, UNCHANGED <<doc, open, asker, reply, noter>>, client'.q = client.q,
         \A p \in Pollers : poller'[p].st = "take" => poller[p].st = "take" /\ poller'[p].doc = poller[p].doc
  PROVE  OpenInv'
<1>1. Holders = {} => Holders' = {}
  BY DEF Holders
<1> QED
  BY <1>1 DEF OpenInv, Untouched

LEMMA QuestionOpen ==
  ASSUME Asks = 1, ~Interference, TypeInv, OpenInv,
         Ask \/ StoreQuestion \/ SlackPosted \/ SlackFails \/ PostTimesOut
  PROVE  OpenInv'
<1> USE FieldsTyped, IdleTyped
<1>1. CASE Ask
  <2>1. client.q = 0 /\ asker'.st = "store" /\ asker'.doc = doc /\ asker'.q = 1
        /\ client'.q = 1 /\ noter.st = "off"
    BY <1>1 DEF Ask, Value, Quiet
  <2>2. Untouched
    BY <2>1 DEF OpenInv
  <2>3. UNCHANGED <<doc, open, poller, reply, noter>>
    BY <1>1 DEF Ask
  <2> QED
    BY <2>1, <2>2, <2>3 DEF OpenInv, Untouched
<1>2. CASE StoreQuestion
  <2>1. Untouched /\ asker.doc.pa = 0 /\ asker.q # 0 /\ noter.st = "off"
    BY <1>2 DEF StoreQuestion, OpenInv
  <2>2. doc'.pq = asker.q /\ doc'.pa = 0 /\ open' = asker.q
    BY <1>2, <2>1 DEF StoreQuestion, Doc
  <2>3. /\ asker'.st \in {"off", "notify"}
        /\ asker'.st = "notify" => asker'.doc = doc'
    BY <1>2 DEF StoreQuestion, TypeInv, TypeOK, Asker
  <2>4. client'.q # 0
    <3>1. client'.q = client.q
      BY <1>2, AskedTyped DEF StoreQuestion
    <3> QED
      BY <1>2, <3>1 DEF StoreQuestion, OpenInv
  <2>5. UNCHANGED <<poller, reply, noter>>
    BY <1>2 DEF StoreQuestion
  <2> QED
    BY <2>1, <2>2, <2>3, <2>4, <2>5 DEF OpenInv, Untouched
<1>3. CASE SlackPosted \/ SlackFails
  <2>1. asker.doc = doc /\ noter.st = "off" /\ asker.st = "notify"
    BY <1>3 DEF SlackPosted, SlackFails, OpenInv
  <2>2. doc'.pq = doc.pq /\ doc'.pa = doc.pa /\ asker'.st = "off"
    BY <1>3, <2>1 DEF SlackPosted, SlackFails, Doc
  <2>3. client'.q = client.q /\ UNCHANGED <<poller, reply, noter, open>>
    BY <1>3, AskedTyped DEF SlackPosted, SlackFails
  <2> QED
    BY <2>1, <2>2, <2>3 DEF OpenInv, Untouched
<1>4. CASE PostTimesOut
  BY <1>4, RestOpen DEF PostTimesOut, TypeInv, TypeOK, Client
<1> QED
  BY <1>1, <1>2, <1>3, <1>4

LEMMA PollOpen ==
  ASSUME ~Interference, TypeInv, OpenInv, NEW p \in Pollers,
         Poll(p) \/ Take(p) \/ Wake(p) \/ Expire(p) \/ HangUp(p)
  PROVE  OpenInv'
<1> USE FieldsTyped, IdleTyped
<1>1. CASE Poll(p)
  <2>1. /\ UNCHANGED <<doc, open, asker, reply, noter>>
        /\ client'.q = client.q
        /\ noter.st = "off" /\ asker.st # "notify"
    BY <1>1 DEF Poll, Quiet, TypeInv, TypeOK, Client
  <2>2. CASE doc.pa = 0
    <3>1. \A q \in Pollers : poller'[q].st = "take" => poller[q].st = "take" /\ poller'[q] = poller[q]
      BY <1>1, <2>2 DEF Poll, TypeInv, TypeOK
    <3> QED
      BY <2>1, <3>1, RestOpen
  <2>3. CASE doc.pa # 0
    <3>1. doc.pq = 0 /\ ~Untouched
      BY <2>3 DEF OpenInv, Untouched
    <3>2. \A q \in Pollers : poller'[q].st = "take" =>
            poller'[q].doc = doc \/ (poller[q].st = "take" /\ poller'[q] = poller[q])
      BY <1>1, <2>3 DEF Poll, TypeInv, TypeOK
    <3> QED
      BY <2>1, <3>1, <3>2, <2>3 DEF OpenInv
  <2> QED
    BY <2>2, <2>3
<1>2. CASE Take(p)
  <2>1. poller[p].st = "take" /\ doc.pq = 0 /\ poller[p].doc.pq = 0
    BY <1>2 DEF Take, OpenInv
  <2>2. ~Untouched /\ asker.st = "off" /\ noter.st = "off"
    BY <2>1 DEF OpenInv, Untouched, Holders
  <2>3. doc'.pq = 0 /\ doc'.pa = 0
    BY <1>2, <2>1 DEF Take, Doc
  <2>4. \A q \in Pollers : poller'[q].st = "take" => poller[q].st = "take" /\ poller'[q] = poller[q]
    BY <1>2 DEF Take, EndPoll, TypeInv, TypeOK, Poller
  <2>5. UNCHANGED <<open, asker, reply, noter>> /\ client'.q = client.q
    BY <1>2 DEF Take, Return, TypeInv, TypeOK, Client
  <2> QED
    BY <2>1, <2>2, <2>3, <2>4, <2>5 DEF OpenInv
<1>3. CASE Wake(p)
  <2>1. UNCHANGED <<doc, open, asker, reply, noter>> /\ client'.q = client.q
    BY <1>3 DEF Wake, Return, TypeInv, TypeOK, Client
  <2>2. \A q \in Pollers : poller'[q].st = "take" => poller[q].st = "take" /\ poller'[q] = poller[q]
    BY <1>3 DEF Wake, EndPoll, TypeInv, TypeOK, Poller
  <2> QED
    BY <2>1, <2>2, RestOpen
<1>4. CASE Expire(p) \/ HangUp(p)
  <2>1. UNCHANGED <<doc, open, asker, reply, noter>>
    BY <1>4 DEF Expire, HangUp
  <2>2. client'.q = client.q
    BY <1>4, WaitedTyped DEF Expire, HangUp, TypeInv, Listening
  <2>3. \A q \in Pollers : poller'[q].st = "take" => poller[q].st = "take" /\ poller'[q].doc = poller[q].doc
    BY <1>4 DEF Expire, HangUp, TypeInv, TypeOK, Poller
  <2> QED
    BY <2>1, <2>2, <2>3, RestOpen
<1> QED
  BY <1>1, <1>2, <1>3, <1>4

LEMMA ReplyOpen ==
  ASSUME ~Interference, TypeInv, OpenInv, NEW r \in Repliers,
         See(r) \/ Submit(r) \/ ReplyRead(r) \/ ReplyWrite(r)
  PROVE  OpenInv'
<1> USE FieldsTyped, IdleTyped
<1>1. CASE See(r) \/ ReplyRead(r)
  <2>1. /\ UNCHANGED <<doc, open, asker, poller, noter, client>>
        /\ noter.st = "off" /\ asker.st # "notify"
    BY <1>1 DEF See, ReplyRead, Quiet
  <2>2. ~Untouched
    BY <1>1 DEF See, ReplyRead, Untouched
  <2> QED
    BY <2>1, <2>2 DEF OpenInv
<1>2. CASE Submit(r)
  <2>1. UNCHANGED <<doc, open, asker, noter, client>> /\ reply[r].st # "off"
    BY <1>2 DEF Submit
  <2>2. \A p \in Pollers : poller'[p].st = "take" => poller[p].st = "take" /\ poller'[p] = poller[p]
    BY <1>2 DEF Submit, TypeInv, TypeOK, Poller
  <2>3. Holders = {} => Holders' = {}
    BY <1>2, <2>2 DEF Submit, Holders, TypeInv, TypeOK, Reply
  <2> QED
    BY <2>1, <2>2, <2>3 DEF OpenInv, Untouched
<1>3. CASE ReplyWrite(r)
  <2>1. doc'.pq = 0 /\ open' = 0
    BY <1>3 DEF ReplyWrite, AnsweredCopy, Doc
  <2>2. reply[r].st = "write" /\ UNCHANGED <<asker, noter, poller, client>>
    BY <1>3 DEF ReplyWrite
  <2>3. noter.st = "off" /\ asker.st = "off" /\ client.q # 0
    BY <2>2 DEF OpenInv, Untouched, Holders
  <2> QED
    BY <2>1, <2>2, <2>3 DEF OpenInv
<1> QED
  BY <1>1, <1>2, <1>3

(* A copy that overwrites nothing is the document.                           *)
LEMMA StoresNothingNew ==
  ASSUME ~overwrote'
  PROVE  \A d : StreamStores(d) => doc' = doc
BY DEF StreamStores

LEMMA StepOpen ==
  ASSUME ~Interference, TypeInv, OpenInv, ~overwrote',
         \/ ReadNote \/ WriteNote \/ AgentEnds \/ EndStep \/ RetryStep
         \/ ListRun \/ NodeStarts \/ Crash
  PROVE  OpenInv'
<1> USE FieldsTyped, IdleTyped
<1>1. CASE ReadNote
  <2>1. Holders' = Holders
    BY <1>1 DEF ReadNote, Holders
  <2>2. /\ noter'.doc = doc
        /\ asker.st = "off" /\ Holders = {}
        /\ UNCHANGED <<doc, open, asker, poller, reply, client>>
    BY <1>1 DEF ReadNote
  <2> QED
    BY <2>1, <2>2 DEF OpenInv, Untouched
<1>2. CASE WriteNote
  <2>1. doc' = doc /\ noter'.st = "off" /\ UNCHANGED <<open, asker, poller, reply, client>>
    BY <1>2 DEF WriteNote, OpenInv
  <2> QED
    BY <2>1 DEF OpenInv, Untouched
<1>3. CASE AgentEnds \/ EndStep \/ RetryStep \/ ListRun \/ NodeStarts
  <2>1. doc' = doc
    BY <1>3, StoresNothingNew DEF AgentEnds, EndStep, RetryStep, ListRun, NodeStarts
  <2>2. UNCHANGED <<open, asker, reply, noter, poller>> /\ client'.q = client.q
    BY <1>3 DEF AgentEnds, EndStep, RetryStep, ListRun, NodeStarts, TypeInv, TypeOK, Client
  <2> QED
    BY <2>1, <2>2, RestOpen
<1>4. CASE Crash
  <2>1. /\ doc' = doc /\ open' = open /\ client'.q = client.q
        /\ asker'.st = "off" /\ noter'.st = "off"
        /\ \A p \in Pollers : poller'[p].st = "off"
        /\ \A r \in Repliers : reply[r].st = "off" => reply'[r].st = "off"
    BY <1>4 DEF Crash, TypeInv, TypeOK, Client
  <2> QED
    BY <2>1 DEF OpenInv, Untouched
<1> QED
  BY <1>1, <1>2, <1>3, <1>4

(* What was overwritten stays overwritten.                                   *)
LEMMA OverwroteStays ==
  ASSUME Next, ~overwrote'
  PROVE  ~overwrote
BY DEF Next, Handlers, StreamStores, bounds, Ask, StoreQuestion, SlackPosted, SlackFails,
   PostTimesOut, Poll, Take, Wake, Expire, HangUp, See, Submit, ReplyRead, ReplyWrite,
   ReadNote, WriteNote, AgentEnds, EndStep, RetryStep, ListRun, NodeStarts, Crash

LEMMA NextOpen ==
  ASSUME Asks = 1, ~Interference, TypeInv, overwrote \/ OpenInv, [Next]_vars
  PROVE  overwrote' \/ OpenInv'
<1>1. CASE UNCHANGED vars
  BY <1>1 DEF OpenInv, Untouched, Holders, vars
<1>2. CASE Next
  <2> SUFFICES ASSUME ~overwrote' PROVE OpenInv'
    OBVIOUS
  <2>1. OpenInv
    BY <1>2, OverwroteStays
  <2> QED
    BY <1>2, <2>1, QuestionOpen, PollOpen, ReplyOpen, StepOpen DEF Next, Handlers
<1> QED
  BY <1>1, <1>2

(* If the agent asks one question, it is in the document, where the frontend *)
(* finds it, until somebody replies, through any retries and restarts that   *)
(* do not store an older copy over it (agent_question, agent_reply,          *)
(* _wrap_with_status_running).                                               *)
THEOREM OneQuestionShown ==
  ASSUME Asks = 1, ~Interference
  PROVE  Spec => []OpenQuestionIsShown
<1>1. Init => overwrote \/ OpenInv
  BY InitOpen
<1>2. TypeInv /\ (overwrote \/ OpenInv) /\ [Next]_vars => (overwrote \/ OpenInv)'
  BY NextOpen
<1>3. overwrote \/ OpenInv => OpenQuestionIsShown
  BY DEF OpenInv, OpenQuestionIsShown
<1> QED
  BY <1>1, <1>2, <1>3, AlwaysTyped, PTL DEF Spec

(* If the agent asks one question, its step is failed for it only when       *)
(* nobody has replied: no handler's copy of the document brings an answered  *)
(* question back, and no retry or restart that does not store an older copy  *)
(* over the reply (execute_agent_step, agent_reply,                          *)
(* _wrap_with_status_running).                                               *)
THEOREM OneQuestionFailsOnlyUnanswered ==
  ASSUME Asks = 1, ~Interference
  PROVE  Spec => StepFailsOnlyUnanswered
<1> DEFINE P == step = "running" /\ step' = "failed" => open # 0 \/ overwrote
<1>1. Init => overwrote \/ OpenInv
  BY InitOpen
<1>2. TypeInv /\ (overwrote \/ OpenInv) /\ [Next]_vars => (overwrote \/ OpenInv)'
  BY NextOpen
<1>3. ASSUME TypeInv, overwrote \/ OpenInv, Next PROVE P
  <2> SUFFICES ASSUME step = "running", step' = "failed", ~overwrote PROVE open # 0
    OBVIOUS
  <2>1. EndStep
    BY <1>3 DEF Next, Handlers, Ask, StoreQuestion, SlackPosted, SlackFails, PostTimesOut,
                Poll, Take, Wake, Expire, HangUp, See, Submit, ReplyRead, ReplyWrite,
                ReadNote, WriteNote, AgentEnds, RetryStep, ListRun, NodeStarts, Crash
  <2>2. doc.pq # 0
    BY <2>1 DEF EndStep
  <2> QED
    BY <1>3, <2>2 DEF OpenInv
<1>4. TypeInv /\ (overwrote \/ OpenInv) /\ [Next]_vars => [P]_vars
  BY <1>3
<1> QED
  BY <1>1, <1>2, <1>4, AlwaysTyped, PTL DEF Spec, StepFailsOnlyUnanswered

(***************************************************************************)
(* Giving up.  While no call has been given up, nor the document           *)
(* overwritten with an older copy of the stream's, a poll waits only for a *)
(* question nobody has replied to: a reply that is on its way has set the  *)
(* event, and one that has arrived is in the document.                     *)
(***************************************************************************)
InCall == client.st \in {"posting", "between", "polling"}

Replying(r) == reply[r].st \in {"set", "write"}

WaitInv ==
  lost = 0 =>
    /\ client.st = "posting" => asker.st # "off"
    /\ client.st \in {"between", "polling"} =>
         asker.st = "off" /\ (open = client.q \/ doc.pa # 0)
    /\ asker.st = "notify" => open = client.q
    /\ client.q = 0 \/ InCall => got.q = 0
    /\ InCall => \A r \in Repliers : Replying(r) => event = "set"
    /\ \A p \in Pollers : poller[p].st # "orphan"
    /\ \A p \in Pollers : poller[p].st = "waiting" =>
         open = client.q /\ \A r \in Repliers : ~Replying(r)

LEMMA QuestionWait ==
  ASSUME Asks = 1, TypeInv, AnswerInv, OpenInv, WaitInv, lost = 0, lost' = 0,
         Ask \/ StoreQuestion \/ SlackPosted \/ SlackFails \/ PostTimesOut
  PROVE  WaitInv'
<1> USE FieldsTyped, IdleTyped
<1>1. CASE Ask
  <2>1. /\ client.q = 0 /\ client'.q = 1 /\ client'.st = "posting" /\ asker'.st = "store"
        /\ UNCHANGED <<open, poller, reply, got>>
    BY <1>1 DEF Ask, Value
  <2>2. Untouched /\ got.q = 0
    BY <2>1 DEF OpenInv, WaitInv
  <2>3. \A p \in Pollers : poller[p].st = "off"
    BY <1>1, OnlyPoll DEF Ask
  <2> QED
    BY <2>1, <2>2, <2>3 DEF WaitInv, Untouched, Replying, InCall
<1>2. CASE StoreQuestion
  <2>1. /\ asker.st = "store" /\ Untouched /\ client.q # 0 /\ asker.q # 0
        /\ open' = asker.q /\ UNCHANGED <<event, poller, reply, got>>
    BY <1>2 DEF StoreQuestion, OpenInv, memory
  <2>2. client.q = 1 /\ asker.q = 1
    BY <2>1 DEF Value
  <2>3. \/ asker'.st = "notify" /\ client' = client
        \/ asker'.st = "off" /\ Asked
    <3>1. \/ asker' = [asker EXCEPT !.st = "notify", !.doc = doc'] /\ client' = client
          \/ asker' = NoAsk /\ Asked
      BY <1>2 DEF StoreQuestion
    <3>2. [asker EXCEPT !.st = "notify", !.doc = doc'].st = "notify"
      BY DEF TypeInv, TypeOK, Asker
    <3> QED
      BY <3>1, <3>2
  <2>4. client.st \notin {"between", "polling"}
    BY <2>1 DEF WaitInv
  <2>5. /\ client'.q = client.q
        /\ client'.st = "posting" => client.st = "posting" /\ asker'.st # "off"
        /\ client'.st \in {"between", "polling"} => asker'.st = "off" /\ client.st = "posting"
    BY <2>3, <2>4, AskedTyped DEF Asked
  <2>6. \A p \in Pollers : poller[p].st = "off"
    BY <2>4, OnlyPoll
  <2> QED
    BY <2>1, <2>2, <2>5, <2>6 DEF WaitInv, Untouched, Replying, InCall
<1>3. CASE SlackPosted \/ SlackFails
  <2>1. /\ asker.st = "notify" /\ asker'.st = "off" /\ Asked
        /\ UNCHANGED <<event, poller, reply, got, open>>
    BY <1>3 DEF SlackPosted, SlackFails, memory
  <2>2. /\ open = client.q /\ client.st \notin {"between", "polling"}
        /\ \A r \in Repliers : reply[r].st = "off"
    BY <2>1 DEF WaitInv, OpenInv
  <2>3. /\ client'.q = client.q /\ client'.st # "posting"
        /\ client'.st \in {"between", "polling"} => client.st = "posting"
    BY <2>1, <2>2, AskedTyped DEF Asked
  <2>4. \A p \in Pollers : poller[p].st = "off"
    BY <2>2, OnlyPoll
  <2> QED
    BY <2>1, <2>2, <2>3, <2>4 DEF WaitInv, Replying, InCall
<1>4. CASE PostTimesOut
  <2>1. lost' = lost + 1
    BY <1>4 DEF PostTimesOut
  <2> QED
    BY <2>1
<1> QED
  BY <1>1, <1>2, <1>3, <1>4

LEMMA PollWait ==
  ASSUME TypeInv, AnswerInv, OpenInv, WaitInv, lost = 0, lost' = 0, NEW p \in Pollers,
         Poll(p) \/ Take(p) \/ Wake(p) \/ Expire(p) \/ HangUp(p)
  PROVE  WaitInv'
<1> USE FieldsTyped, IdleTyped
<1>1. CASE Poll(p)
  <2>1. /\ client.st = "between" /\ client'.st = "polling" /\ client'.q = client.q
        /\ event' = "set" <=> event = "set"
        /\ UNCHANGED <<doc, open, asker, reply, got>>
    BY <1>1 DEF Poll
  <2>2. \A q \in Pollers \ {p} : poller'[q] = poller[q]
    BY <1>1 DEF Poll, TypeInv, TypeOK
  <2>3. poller'[p].st # "orphan"
        /\ (poller'[p].st = "waiting" => doc.pa = 0 /\ event # "set")
    BY <1>1 DEF Poll, TypeInv, TypeOK
  <2>4. poller'[p].st = "waiting" => open = client.q /\ \A r \in Repliers : ~Replying(r)
    BY <2>1, <2>3 DEF WaitInv, InCall
  <2> QED
    BY <2>1, <2>2, <2>3, <2>4 DEF WaitInv, InCall, Replying
<1>2. CASE Take(p) \/ Wake(p)
  <2>1. PICK a \in Value : Return(p, a) /\ EndPoll(p)
    BY <1>2 DEF Take, Wake, TypeInv, TypeOK
  <2>2. poller[p].heard /\ client.st = "polling" /\ \A q \in Pollers \ {p} : poller[q].st = "off"
    BY <1>2, OnlyPoll DEF Take, Wake
  <2>3. client'.st = "working" /\ client'.q = client.q /\ client.q # 0
    BY <2>1, <2>2 DEF Return, AnswerInv, TypeInv, TypeOK, Client
  <2>4. \A q \in Pollers : poller'[q].st = "off"
    BY <2>1, <2>2 DEF EndPoll
  <2>5. asker'.st = "off"
    BY <1>2, <2>2 DEF Take, Wake, WaitInv
  <2> QED
    BY <2>3, <2>4, <2>5 DEF WaitInv, InCall
<1>3. CASE Expire(p)
  <2>1. /\ poller' = [poller EXCEPT ![p] = NoPoll]
        /\ UNCHANGED <<doc, open, asker, reply, got, event>>
        /\ poller[p].st # "off"
    BY <1>3 DEF Expire, memory
  <2>2. client'.q = client.q /\ client.st = "polling" /\ client'.st \in {"between", "working"}
    BY <1>3, <2>1, OnlyPoll, WaitedTyped DEF Expire
  <2> QED
    BY <2>1, <2>2 DEF WaitInv, InCall, Replying, TypeInv, TypeOK
<1>4. CASE HangUp(p)
  <2>1. lost' = lost + 1
    BY <1>4 DEF HangUp
  <2> QED
    BY <2>1
<1> QED
  BY <1>1, <1>2, <1>3, <1>4

LEMMA ReplyWait ==
  ASSUME TypeInv, AnswerInv, OpenInv, WaitInv, lost = 0, NEW r \in Repliers,
         See(r) \/ Submit(r) \/ ReplyRead(r) \/ ReplyWrite(r)
  PROVE  WaitInv'
<1> USE FieldsTyped, IdleTyped
<1>1. /\ UNCHANGED <<client, asker, got>>
      /\ \A s \in Repliers \ {r} : reply'[s] = reply[s]
  BY DEF See, Submit, ReplyRead, ReplyWrite, TypeInv, TypeOK
<1>2. CASE See(r) \/ ReplyRead(r)
  <2>1. UNCHANGED <<doc, open, event, poller>> /\ (Replying(r)' => Replying(r))
    BY <1>2 DEF See, ReplyRead, Replying, memory, TypeInv, TypeOK
  <2> QED
    BY <1>1, <2>1 DEF WaitInv, Replying, InCall
<1>3. CASE Submit(r)
  <2>1. UNCHANGED <<doc, open>> /\ event' = "set"
    BY <1>3 DEF Submit
  <2>2. \A p \in Pollers : poller'[p].st # "waiting"
                           /\ (poller'[p].st = "orphan" => poller[p].st = "orphan")
    BY <1>3 DEF Submit
  <2> QED
    BY <1>1, <2>1, <2>2 DEF WaitInv, InCall
<1>4. CASE ReplyWrite(r)
  <2>1. /\ reply[r].st = "write" /\ reply'[r].st = "off" /\ UNCHANGED <<event, poller>>
        /\ doc' = [reply[r].doc EXCEPT !.pq = 0, !.pa = reply[r].a]
    BY <1>4 DEF ReplyWrite, AnsweredCopy, memory, TypeInv, TypeOK
  <2>2. doc'.pa # 0
    BY <2>1 DEF AnswerInv, Doc
  <2>3. asker.st # "notify" /\ \A p \in Pollers : poller[p].st # "waiting"
    BY <2>1 DEF OpenInv, WaitInv, Replying
  <2> QED
    BY <1>1, <2>1, <2>2, <2>3 DEF WaitInv, Replying, InCall
<1> QED
  BY <1>2, <1>3, <1>4

LEMMA StepWait ==
  ASSUME TypeInv, OpenInv, WaitInv, lost = 0, ~overwrote',
         \/ ReadNote \/ WriteNote \/ AgentEnds \/ EndStep \/ RetryStep
         \/ ListRun \/ NodeStarts \/ Crash
  PROVE  WaitInv'
<1> USE FieldsTyped, IdleTyped
<1>1. CASE ReadNote \/ WriteNote
  <2>1. UNCHANGED <<doc, open, event, poller, reply, client, asker, got>>
    BY <1>1 DEF ReadNote, WriteNote, OpenInv, memory
  <2> QED
    BY <2>1 DEF WaitInv, Replying, InCall
<1>2. CASE AgentEnds \/ EndStep \/ RetryStep \/ ListRun \/ NodeStarts
  <2>1. doc' = doc
    BY <1>2, StoresNothingNew DEF AgentEnds, EndStep, RetryStep, ListRun, NodeStarts
  <2>2. UNCHANGED <<open, event, poller, reply, asker, got>> /\ client'.q = client.q
    BY <1>2 DEF AgentEnds, EndStep, RetryStep, ListRun, NodeStarts, memory, TypeInv, TypeOK,
                Client
  <2>3. client' = client \/ ~InCall'
    BY <1>2 DEF AgentEnds, EndStep, RetryStep, ListRun, NodeStarts, TypeInv, TypeOK,
                Client, InCall
  <2> QED
    BY <2>1, <2>2, <2>3 DEF WaitInv, Replying, InCall
<1>3. CASE Crash
  <2>1. /\ UNCHANGED <<doc, open, got>> /\ asker'.st = "off"
        /\ \A p \in Pollers : poller'[p].st = "off"
        /\ \A r \in Repliers : ~Replying(r)'
    BY <1>3 DEF Crash, Replying, TypeInv, TypeOK
  <2>2. /\ client'.q = client.q
        /\ client'.st = "working" \/ (client' = client /\ client.st \notin {"posting", "polling"})
    BY <1>3 DEF Crash, TypeInv, TypeOK, Client
  <2> QED
    BY <2>1, <2>2 DEF WaitInv, InCall
<1> QED
  BY <1>1, <1>2, <1>3

(* Calls that were given up stay counted.                                    *)
LEMMA LostGrows ==
  ASSUME TypeInv, Next, lost' = 0
  PROVE  lost = 0
<1>1. lost' = lost \/ lost' = lost + 1
  BY DEF Next, Handlers, bounds, Ask, StoreQuestion, SlackPosted, SlackFails, PostTimesOut,
     Poll, Take, Wake, Expire, HangUp, See, Submit, ReplyRead, ReplyWrite, ReadNote, WriteNote,
     AgentEnds, EndStep, RetryStep, ListRun, NodeStarts, Crash
<1>2. lost \in Nat
  BY DEF TypeInv, TypeOK
<1> QED
  BY <1>1, <1>2

Unharmed == overwrote \/ (OpenInv /\ WaitInv)

LEMMA NextWait ==
  ASSUME Asks = 1, ~Interference, TypeInv, AnswerInv, Unharmed, [Next]_vars
  PROVE  Unharmed'
<1>1. overwrote' \/ OpenInv'
  BY NextOpen DEF Unharmed
<1>2. CASE UNCHANGED vars
  BY <1>1, <1>2 DEF Unharmed, vars, WaitInv, Replying, InCall
<1>3. CASE Next
  <2> SUFFICES ASSUME ~overwrote' PROVE WaitInv'
    BY <1>1 DEF Unharmed
  <2>1. OpenInv /\ WaitInv
    BY <1>3, OverwroteStays DEF Unharmed
  <2>2. lost' = 0 => lost = 0
    BY <1>3, LostGrows
  <2>3. CASE lost' # 0
    BY <2>3 DEF WaitInv
  <2>4. CASE lost' = 0
    BY <1>3, <2>1, <2>2, <2>4, QuestionWait, PollWait, ReplyWait, StepWait DEF Next, Handlers
  <2> QED
    BY <2>3, <2>4
<1> QED
  BY <1>2, <1>3

(* If the agent asks one question, ask_question times out only on a question *)
(* nobody has replied to, unless a call was given up or the stream stored an *)
(* older copy over the reply (ask_question, agent_input, agent_reply,        *)
(* _wrap_with_status_running).                                               *)
THEOREM OneQuestionHeard ==
  ASSUME Asks = 1, ~Interference
  PROVE  Spec => NeverGivesUpOnAnswered
<1> DEFINE P == client.st = "polling" /\ client'.st = "working" /\ got' = got
                  /\ crashes' = crashes => open = client.q \/ lost' > 0 \/ overwrote
           Inv == TypeInv /\ AnswerInv /\ Unharmed
<1>1. Init => Inv
  <2>1. Init => WaitInv
    BY IdleTyped DEF Init, WaitInv, Replying, InCall
  <2> QED
    BY <2>1, InitTyped, InitAnswer, InitOpen DEF Unharmed
<1>2. Inv /\ [Next]_vars => Inv'
  BY NextTyped, NextAnswer, NextWait
<1>3. ASSUME Inv, Next PROVE P
  <2> SUFFICES ASSUME client.st = "polling", client'.st = "working", got' = got,
                      crashes' = crashes, lost' = 0, ~overwrote
               PROVE  open = client.q
    <3>1. lost' \in Nat
      BY <1>2, <1>3 DEF TypeInv, TypeOK
    <3> QED
      BY <3>1
  <2>1. lost = 0 /\ OpenInv /\ WaitInv
    BY <1>3, LostGrows DEF Unharmed
  <2>2. PICK p \in Pollers : Take(p) \/ Wake(p) \/ Expire(p) \/ HangUp(p)
    <3>1. client \in Client /\ client' # client /\ crashes \in Nat
      BY <1>3 DEF TypeInv, TypeOK
    <3>2. ~(Ask \/ StoreQuestion \/ SlackPosted \/ SlackFails \/ PostTimesOut \/ AgentEnds)
      BY <1>3, <2>1, <3>1 DEF Ask, Asked, StoreQuestion, SlackPosted, SlackFails, PostTimesOut,
         AgentEnds
    <3>3. ~(WriteNote \/ EndStep \/ ReadNote \/ RetryStep \/ ListRun \/ NodeStarts \/ Crash)
      <4>1. ~(WriteNote \/ EndStep \/ ReadNote)
        BY <3>1 DEF WriteNote, EndStep, ReadNote
      <4>2. ~RetryStep
        BY <1>3 DEF RetryStep, TypeInv, ClientInv
      <4>3. ~Crash
        BY <3>1 DEF Crash
      <4>4. ~(ListRun \/ NodeStarts)
        BY <3>1 DEF ListRun, NodeStarts
      <4> QED
        BY <4>1, <4>2, <4>3, <4>4
    <3>4. ASSUME NEW r \in Repliers
          PROVE  ~(See(r) \/ Submit(r) \/ ReplyRead(r) \/ ReplyWrite(r))
      BY <3>1 DEF See, Submit, ReplyRead, ReplyWrite
    <3>5. ASSUME NEW p \in Pollers PROVE ~Poll(p)
      BY DEF Poll
    <3> QED
      BY <1>3, <3>2, <3>3, <3>4, <3>5 DEF Next, Handlers
  <2>3. ~HangUp(p)
    BY <2>1 DEF HangUp
  <2>4. ~(Take(p) \/ Wake(p))
    <3>1. got.q = 0 /\ client.q # 0
      BY <1>3, <2>1 DEF WaitInv, InCall, AnswerInv
    <3>2. Take(p) \/ Wake(p) => got'.q = client.q
      BY <1>3, <2>1, OnlyPoll DEF Take, Wake, Return
    <3> QED
      BY <3>1, <3>2
  <2>5. poller[p].st = "waiting"
    BY <1>3, <2>1, <2>2, <2>3, <2>4 DEF Expire, WaitInv
  <2> QED
    BY <1>3, <2>1, <2>5 DEF WaitInv
<1>4. Inv /\ [Next]_vars => [P]_vars
  BY <1>3
<1> HIDE DEF P, Inv
<1>5. [][P]_vars => NeverGivesUpOnAnswered
  BY PTL DEF P, NeverGivesUpOnAnswered
<1> QED
  BY <1>1, <1>2, <1>4, <1>5, PTL DEF Spec
=============================================================================

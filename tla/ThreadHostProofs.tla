-------------------------- MODULE ThreadHostProofs --------------------------
(***************************************************************************)
(* TLAPS proofs about the thread host, for every set of threads, turns,    *)
(* tool calls and request ids and for every limit.                         *)
(***************************************************************************)
EXTENDS ThreadHostProperties, FiniteSetTheorems, TLAPS

-----------------------------------------------------------------------------
(* Requests and the actors that wait for their answers *)

\* A pending id belongs to the actor that waits for it and has no answer yet;
\* who waits is in a request, with an id of its own.
PendingInv ==
  /\ \A id \in Ids : pending[id] # NoActor =>
       wait[pending[id]] = id /\ reply[pending[id]] = NoAnswer
  /\ \A a \in Actors : wait[a] # NoId =>
       /\ stage[a] \in RequestStage
       /\ pending[wait[a]] = a \/ reply[a] # NoAnswer
  /\ \A a, b \in Actors : wait[a] # NoId /\ wait[a] = wait[b] => a = b
  /\ \A a \in Actors : reply[a] # NoAnswer => wait[a] # NoId

\* The calls in the queue are queued, each once.
QueueInv ==
  /\ \A i \in 1 .. Len(queue) : stage[queue[i]] = "queued"
  /\ \A i, j \in 1 .. Len(queue) : queue[i] = queue[j] => i = j

\* v answers the request that a sent.
Matches(v, a) ==
  /\ v.kind = "thread" =>
       /\ stage[a] = "thread/start"
       /\ born[v.thread] = task[a].parent
  /\ v.kind = "turn" => stage[a] = "turn/start"
  /\ v.kind = "ok" => stage[a] \notin {"thread/start", "turn/start"}

MatchInv ==
  /\ \A id \in Ids : pending[id] # NoActor =>
       /\ asked[id] # NoRequest =>
            /\ asked[id].method = stage[pending[id]]
            /\ asked[id].parent = task[pending[id]].parent
       /\ Matches(answer[id], pending[id])
  /\ \A a \in Actors : Matches(reply[a], a)

\* A thread that the host has not recorded is in one answer at most.
TransitInv ==
  /\ DOMAIN depths \subseteq threads
  /\ \A id \in Ids : answer[id].kind = "thread" =>
       answer[id].thread \in threads \ DOMAIN depths
  /\ \A a \in Actors : reply[a].kind = "thread" =>
       reply[a].thread \in threads \ DOMAIN depths
  /\ \A i, j \in Ids : i # j /\ answer[i].kind = "thread" /\ answer[j].kind = "thread" =>
       answer[i].thread # answer[j].thread
  /\ \A a, b \in Actors : a # b /\ reply[a].kind = "thread" /\ reply[b].kind = "thread" =>
       reply[a].thread # reply[b].thread
  /\ \A i \in Ids, a \in Actors : answer[i].kind = "thread" /\ reply[a].kind = "thread" =>
       answer[i].thread # reply[a].thread

\* No parent holds more slots than it may; the main thread has no parent.
SlotInv ==
  /\ task[Main].parent = NoThread
  /\ SlotsAccounted
  /\ \A p \in Threads : child_counts[p] <= MaxChildren

IInv == TypeOK /\ PendingInv /\ QueueInv /\ MatchInv /\ TransitInv /\ SlotInv


-----------------------------------------------------------------------------
(* Types *)

LEMMA Domains ==
  /\ Main \in Actors /\ Main \notin Calls
  /\ \A c \in Calls : c \in Actors
  /\ NoTask \in Task /\ NoRequest \in Request
  /\ NoAnswer \in Answer /\ Failed \in Answer /\ Ok \in Answer
  /\ \A t \in Threads : NewThread(t) \in Answer
  /\ \A u \in Turns : NewTurn(u) \in Answer
  BY HostAssumption
  DEF Actors, NoTask, Task, ToolNames, NoRequest, Request, NoAnswer, Failed, Ok,
      NewThread, NewTurn, Answer

LEMMA NextThreadIsNew ==
  ASSUME threads \subseteq Threads, threads # Threads
  PROVE  NextThread \in Threads \ threads
  BY DEF NextThread

LEMMA DoneType ==
  ASSUME NEW a
  PROVE  Done(a) \in {"reply", "idle", "closing"}
  BY DEF Done

LEMMA FollowingType ==
  ASSUME NEW a
  PROVE  Following(a) \in {"reply", "idle", "closing", "turn/start", "thread/list archived"}
  BY DoneType DEF Following

\* An operation that raised leaves its variables well typed.
LEMMA RaiseType ==
  ASSUME TypeOK, NEW a \in Actors, NEW fatal \in BOOLEAN, Raise(a, fatal)
  PROVE  /\ stage' \in [Actors -> Stage]
         /\ child_counts' \in [Threads -> Int]
         /\ task' \in [Actors -> Task]
         /\ depth' \in [Actors -> Nat]
         /\ UNCHANGED <<depths, turn>>
<1>1. stage' \in [Actors -> Stage]
  BY DoneType DEF Raise, RaiseWith, Goto, TypeOK, Stage
<1>2. child_counts' \in [Threads -> Int]
  <2>1. CASE stage[a] = "thread/start" /\ task[a].parent # NoThread
    <3>1. task[a].parent \in Threads
      BY <2>1 DEF TypeOK, Task
    <3>2. QED
      BY <2>1, <3>1 DEF Raise, RaiseWith, TypeOK
  <2>2. CASE ~(stage[a] = "thread/start" /\ task[a].parent # NoThread)
    BY <2>2 DEF Raise, RaiseWith, TypeOK
  <2>3. QED
    BY <2>1, <2>2
<1>3. task' \in [Actors -> Task] /\ depth' \in [Actors -> Nat]
  BY Domains DEF Raise, RaiseWith, ForgetTask, TypeOK
<1>4. QED
  BY <1>1, <1>2, <1>3 DEF Raise, RaiseWith

LEMMA TargetsType ==
  ASSUME TypeOK, NEW op, NEW t \in Targets(op)
  PROVE  t \in Threads \cup {NoThread}
  BY DEF Targets, Nameable, TypeOK

LEMMA TypeInit == Init => TypeOK
<1> SUFFICES ASSUME Init PROVE TypeOK
  OBVIOUS
<1>1. /\ pending \in [Ids -> Actors \cup {NoActor}]
      /\ completed \subseteq Turns /\ queue \in Seq(Calls)
      /\ child_counts \in [Threads -> Int]
  BY DEF Init
<1>2. DOMAIN depths \subseteq Threads /\ depths \in [DOMAIN depths -> Nat]
  BY DEF Init
<1>3. /\ stage \in [Actors -> Stage] /\ task \in [Actors -> Task] /\ depth \in [Actors -> Nat]
      /\ wait \in [Actors -> Ids \cup {NoId}] /\ reply \in [Actors -> Answer]
      /\ turn \in [Actors -> Turns \cup {NoTurn}]
  BY Domains DEF Init, Stage, RequestStage
<1>4. /\ alive \in BOOLEAN /\ asked \in [Ids -> Request] /\ answer \in [Ids -> Answer]
      /\ ended \subseteq Turns /\ threads \subseteq Threads
      /\ running \in [Turns -> Threads \cup {NoThread}]
      /\ maker \in [Calls -> Turns \cup {NoTurn}]
      /\ born \in [Threads -> Threads \cup {NoThread}]
  BY Domains DEF Init
<1>5. closed \in BOOLEAN
  BY DEF Init
<1>6. QED
  BY <1>1, <1>2, <1>3, <1>4, <1>5 DEF TypeOK

LEMMA TypeStep == TypeOK /\ TransitInv /\ [Next]_vars => TypeOK'
<1> SUFFICES ASSUME TypeOK, TransitInv, [Next]_vars
             PROVE  TypeOK'
  OBVIOUS
<1> USE Domains
<1>1. ASSUME NEW a \in Actors, Send(a) PROVE TypeOK'
  <2>1. [method |-> stage[a], thread |-> task[a].target, parent |-> task[a].parent] \in Request
    BY <1>1 DEF Send, TypeOK, Task, Request
  <2>2. QED
    BY <1>1, <2>1 DEF Send, TypeOK, host
<1>2. ASSUME NEW a \in Actors, SendFails(a) PROVE TypeOK'
  BY <1>2, RaiseType DEF SendFails, TypeOK, client, server
<1>3. ASSUME NEW a \in Actors, Timeout(a) PROVE TypeOK'
  BY <1>3, RaiseType DEF Timeout, TypeOK, server
<1>4. ASSUME NEW a \in Actors, Accepted(a) PROVE TypeOK'
  <2>1. stage' \in [Actors -> Stage]
    BY <1>4, FollowingType DEF Accepted, Goto, TypeOK, Stage, RequestStage
  <2>2. task' \in [Actors -> Task] /\ depth' \in [Actors -> Nat]
    <3>1. CASE ForgetTask(a)
      BY <3>1 DEF ForgetTask, TypeOK
    <3>2. CASE UNCHANGED <<task, depth>>
      BY <3>2 DEF TypeOK
    <3>3. QED
      BY <1>4, <3>1, <3>2, Zenon DEF Accepted
  <2>3. QED
    BY <1>4, <2>1, <2>2 DEF Accepted, Take, TakeOf, TypeOK, client, server
<1>5. ASSUME NEW a \in Actors, ThreadStarted(a) PROVE TypeOK'
  <2>1. reply[a].thread \in Threads
    BY <1>5 DEF ThreadStarted, Take, TakeOf, TransitInv, TypeOK
  <2>2. stage' \in [Actors -> Stage] /\ task' \in [Actors -> Task] /\ depth' \in [Actors -> Nat]
    <3>1. [task[a] EXCEPT !.target = reply[a].thread] \in Task
      BY <2>1 DEF TypeOK, Task
    <3>2. CASE Goto(a, "turn/start") /\ task' = [task EXCEPT ![a].target = reply[a].thread]
                /\ UNCHANGED depth
      BY <3>1, <3>2 DEF Goto, TypeOK, Stage, RequestStage
    <3>3. CASE Goto(a, Done(a)) /\ ForgetTask(a)
      BY <3>3, DoneType DEF Goto, ForgetTask, TypeOK, Stage
    <3>4. QED
      BY <1>5, <3>2, <3>3, Zenon DEF ThreadStarted
  <2>3. DOMAIN depths' \subseteq Threads /\ depths' \in [DOMAIN depths' -> Nat]
    BY <1>5, <2>1 DEF ThreadStarted, TypeOK
  <2>4. QED
    BY <1>5, <2>2, <2>3 DEF ThreadStarted, Take, TakeOf, TypeOK, client, server
<1>6. ASSUME NEW a \in Actors, TurnStarted(a) PROVE TypeOK'
  BY <1>6 DEF TurnStarted, Take, TakeOf, Goto, ForgetTask, TypeOK, Stage, Answer, client, server
<1>7. ASSUME NEW a \in Actors, Refused(a) PROVE TypeOK'
  BY <1>7, RaiseType DEF Refused, TypeOK, client, server
<1>8. ASSUME NEW a \in Actors, TurnCompletes(a) PROVE TypeOK'
  BY <1>8 DEF TurnCompletes, Goto, Done, TypeOK, Stage, host, server
<1>9. ASSUME NEW a \in Actors, TurnFails(a) PROVE TypeOK'
  BY <1>9 DEF TurnFails, LeaveTurn, Goto, Done, TypeOK, Stage, host, client, server
<1>10. ASSUME NEW c \in Calls, TakeCall(c) PROVE TypeOK'
  <2>1. queue' \in Seq(Calls)
    BY <1>10 DEF TakeCall, TypeOK
  <2>2. First(task[c]) \in Stage
    BY DEF First, TypeOK, Task, ToolNames, Stage, RequestStage
  <2>3. QED
    BY <1>10, <2>1, <2>2 DEF TakeCall, Goto, TypeOK, host, server
<1>11. ASSUME NEW c \in Calls, Reserve(c) PROVE TypeOK'
  <2>1. Depth(task[c].parent) \in Nat
    BY DEF Depth, TypeOK
  <2>2. PICK allowed \in BOOLEAN : ReserveIf(c, allowed)
    BY <1>11 DEF Reserve
  <2>3. QED
    <3>1. depth' \in [Actors -> Nat]
      <4>1. CASE depth' = [depth EXCEPT ![c] = Depth(task[c].parent) + 1]
        BY <2>1, <4>1 DEF TypeOK
      <4>2. CASE UNCHANGED depth
        BY <4>2 DEF TypeOK
      <4>3. QED
        BY <2>2, <4>1, <4>2, Zenon DEF ReserveIf
    <3>4. stage' \in [Actors -> Stage]
      BY <2>2 DEF ReserveIf, Goto, TypeOK, Stage, RequestStage
    <3>2. child_counts' \in [Threads -> Int]
      BY <2>2 DEF ReserveIf, TypeOK
    <3>3. QED
      BY <2>2, <3>1, <3>2, <3>4 DEF ReserveIf, TypeOK, client, server
<1>12. ASSUME NEW c \in Calls, ReplyCall(c) PROVE TypeOK'
  BY <1>12 DEF ReplyCall, Goto, ForgetTask, TypeOK, Stage, host, client
<1>13. ASSUME NEW op \in Operations, NEW target \in Targets(op), NEW prompt \in Prompts(op),
              Begin(op, target, prompt)
       PROVE  TypeOK'
  <2>1. task'[Main] \in Task /\ task' \in [Actors -> Task]
    BY <1>13, TargetsType, HostAssumption DEF Begin, TypeOK, Task, Prompts
  <2>2. First(task'[Main]) \in Stage
    BY <2>1 DEF First, Task, ToolNames, Stage, RequestStage
  <2>3. QED
    BY <1>13, <2>1, <2>2 DEF Begin, Goto, TypeOK, host, client, server
<1>14. ASSUME Shutdown \/ Terminate PROVE TypeOK'
  BY <1>14 DEF Shutdown, Terminate, Die, Goto, TypeOK, Stage, host, client, actors, server
<1>15. ASSUME CancelQueue PROVE TypeOK'
  BY <1>15 DEF CancelQueue, TypeOK, Stage, host, server
<1>16. ASSUME NEW id \in Ids, ReadAnswer(id) PROVE TypeOK'
  BY <1>16 DEF ReadAnswer, TypeOK, host
<1>17. ASSUME NEW u \in Turns, ReadTurnCompleted(u) PROVE TypeOK'
  BY <1>17 DEF ReadTurnCompleted, TypeOK, host, actors
<1>18. ASSUME NEW c \in Calls, ReadCall(c) PROVE TypeOK'
  BY <1>18 DEF ReadCall, Goto, TypeOK, Stage, host, server
<1>19. ASSUME Close(Actors) PROVE TypeOK'
  BY <1>19 DEF Close, TypeOK, Stage, host
<1>20. ASSUME NEW id \in Ids, StartThread(id) PROVE TypeOK'
  <2>1. NextThread \in Threads
    BY <1>20, NextThreadIsNew DEF StartThread, TypeOK
  <2>2. asked[id].parent \in Threads \cup {NoThread}
    BY DEF TypeOK, Request
  <2>3. QED
    BY <1>20, <2>1, <2>2 DEF StartThread, Answers, TypeOK, host, client, actors
<1>21. ASSUME NEW id \in Ids, NEW u \in Turns, StartTurn(id, u) PROVE TypeOK'
  BY <1>21 DEF StartTurn, Answers, TypeOK, Request, host, client, actors
<1>22. ASSUME NEW id \in Ids, Accept(id) \/ Refuse(id) \/ Ignore(id) PROVE TypeOK'
  <2>1. asked' \in [Ids -> Request] /\ answer' \in [Ids -> Answer]
    <3>1. CASE Ignore(id)
      BY <3>1 DEF Ignore, TypeOK
    <3>2. CASE Answers(id, Ok) \/ Answers(id, Failed)
      BY <3>2, ZenonT(40) DEF Answers, TypeOK
    <3>3. QED
      BY <1>22, <3>1, <3>2 DEF Accept, Refuse
  <2>2. UNCHANGED <<host, client, actors, alive, ended, threads, running, maker, born>>
    BY <1>22 DEF Accept, Refuse, Ignore
  <2>3. QED
    BY <2>1, <2>2 DEF TypeOK, host, client, actors
<1>23. ASSUME NEW u \in Turns, NEW c \in Calls, NEW tool \in Tools, NEW target \in Targets(tool),
              MakeCall(u, c, tool, target)
       PROVE  TypeOK'
  <2>1. task' \in [Actors -> Task]
    BY <1>23, TargetsType, HostAssumption DEF MakeCall, TypeOK, Task
  <2>2. QED
    BY <1>23, <2>1 DEF MakeCall, Goto, TypeOK, Stage, host, client
<1>24. ASSUME NEW u \in Turns, EndTurn(u) PROVE TypeOK'
  BY <1>24 DEF EndTurn, TypeOK, host, client, actors
<1>25. ASSUME Exit PROVE TypeOK'
  BY <1>25 DEF Exit, Die, TypeOK, host, client, actors
<1>26. ASSUME UNCHANGED vars PROVE TypeOK'
  BY <1>26 DEF vars, host, client, actors, server, TypeOK
<1>27. QED
  BY <1>1, <1>2, <1>3, <1>4, <1>5, <1>6, <1>7, <1>8, <1>9, <1>10, <1>11, <1>12, <1>13,
     <1>14, <1>15, <1>16, <1>17, <1>18, <1>19, <1>20, <1>21, <1>22, <1>23, <1>24, <1>25, <1>26
  DEF Next, MainThread, Reader, ReadEof, ReaderFails, Worker, Operate, AppServer, Handles

-----------------------------------------------------------------------------
(* Waiting *)

LEMMA AnswerKinds ==
  /\ NoAnswer.kind = "none" /\ Failed.kind = "failed" /\ Ok.kind = "ok"
  /\ \A t : NewThread(t).kind = "thread" /\ NewThread(t).thread = t
  /\ \A u : NewTurn(u).kind = "turn" /\ NewTurn(u).turn = u
  BY DEF NoAnswer, Failed, Ok, NewThread, NewTurn

LEMMA PendingInit == Init => PendingInv
  BY HostAssumption DEF Init, PendingInv

\* An actor that is in no request may change its stage.
LEMMA PendingKept ==
  ASSUME PendingInv,
         \A a \in Actors : stage'[a] = stage[a] \/ wait[a] = NoId,
         UNCHANGED <<pending, wait, reply, closed>>, alive' => alive
  PROVE  PendingInv'
  BY DEF PendingInv

\* An actor that leaves a request may do so with its stage.
LEMMA PendingReleased ==
  ASSUME TypeOK, PendingInv, NEW a \in Actors,
         \A b \in Actors \ {a} : stage'[b] = stage[b],
         wait' = [wait EXCEPT ![a] = NoId],
         reply' = [reply EXCEPT ![a] = NoAnswer],
         \/ pending' = pending /\ \A id \in Ids : pending[id] # a
         \/ pending' = [id \in Ids |-> IF id = wait[a] THEN NoActor ELSE pending[id]],
         UNCHANGED <<closed, alive>>
  PROVE  PendingInv'
<1>1. \A id \in Ids : pending'[id] # NoActor =>
        /\ pending'[id] = pending[id] /\ pending[id] # a /\ pending[id] \in Actors
  BY HostAssumption DEF TypeOK, PendingInv
<1>2. \A b \in Actors : b # a => wait'[b] = wait[b] /\ reply'[b] = reply[b]
  BY DEF TypeOK
<1>3. wait'[a] = NoId /\ reply'[a] = NoAnswer
  BY DEF TypeOK
<1>4. \A id \in Ids : pending'[id] # NoActor =>
        wait'[pending'[id]] = id /\ reply'[pending'[id]] = NoAnswer
  BY <1>1, <1>2 DEF PendingInv
<1>5. \A b \in Actors : wait'[b] # NoId =>
        /\ stage'[b] \in RequestStage
        /\ pending'[wait'[b]] = b \/ reply'[b] # NoAnswer
  <2> SUFFICES ASSUME NEW b \in Actors, wait'[b] # NoId
               PROVE  /\ stage'[b] \in RequestStage
                      /\ pending'[wait'[b]] = b \/ reply'[b] # NoAnswer
    OBVIOUS
  <2>1. b # a /\ wait'[b] = wait[b] /\ reply'[b] = reply[b] /\ stage'[b] = stage[b]
    BY <1>2, <1>3
  <2>2. wait[b] \in Ids
    BY <2>1 DEF TypeOK
  <2>3. CASE reply[b] # NoAnswer
    BY <2>1, <2>3 DEF PendingInv
  <2>4. CASE reply[b] = NoAnswer
    <3>1. pending[wait[b]] = b /\ stage[b] \in RequestStage
      BY <2>1, <2>4 DEF PendingInv
    <3>2. wait[b] # wait[a]
      BY <2>1 DEF PendingInv
    <3>5. pending'[wait[b]] = b
      BY <2>2, <3>1, <3>2
    <3>3. QED
      BY <2>1, <3>1, <3>5
  <2>5. QED
    BY <2>3, <2>4
<1>6. \A b \in Actors : reply'[b] # NoAnswer => wait'[b] # NoId
  BY <1>2, <1>3 DEF PendingInv
<1>7. \A b, d \in Actors : wait'[b] # NoId /\ wait'[b] = wait'[d] => b = d
  BY <1>2, <1>3 DEF PendingInv
<1>8. QED
  BY <1>4, <1>5, <1>6, <1>7 DEF PendingInv

\* What Take and Raise do to the stages of the other actors: nothing.
LEMMA OthersKeepStage ==
  ASSUME TypeOK, NEW a \in Actors, NEW to, Goto(a, to)
  PROVE  \A b \in Actors \ {a} : stage'[b] = stage[b]
  BY DEF Goto, TypeOK

\* An actor without a request has no id and no answer.
LEMMA NotWaiting ==
  ASSUME PendingInv, NEW a \in Actors, stage[a] \notin RequestStage
  PROVE  wait[a] = NoId
  BY DEF PendingInv

LEMMA PendingStep == TypeOK /\ PendingInv /\ QueueInv /\ [Next]_vars => PendingInv'
<1> SUFFICES ASSUME TypeOK, PendingInv, QueueInv, [Next]_vars
             PROVE  PendingInv'
  OBVIOUS
<1>1. ASSUME NEW a \in Actors, Send(a) PROVE PendingInv'
  <2>1. PICK id \in Ids :
          /\ FreshId(id)
          /\ pending' = [pending EXCEPT ![id] = a]
          /\ wait' = [wait EXCEPT ![a] = id]
    BY <1>1 DEF Send
  <2>2. /\ stage[a] \in RequestStage /\ wait[a] = NoId /\ reply[a] = NoAnswer /\ alive
        /\ UNCHANGED <<stage, reply>>
    BY <1>1 DEF Send, PendingInv
  <2>3. id # NoId /\ a # NoActor
    BY HostAssumption
  <2>4. /\ wait'[a] = id /\ pending'[id] = a
        /\ \A b \in Actors : b # a => wait'[b] = wait[b] /\ wait[b] # id
        /\ \A i \in Ids : i # id => pending'[i] = pending[i] /\ pending[i] # a
    BY <2>1, <2>2, HostAssumption DEF FreshId, TypeOK, PendingInv
  <2>5. \A i \in Ids : pending'[i] # NoActor =>
          wait'[pending'[i]] = i /\ reply'[pending'[i]] = NoAnswer
    <3> SUFFICES ASSUME NEW i \in Ids, i # id, pending[i] # NoActor
                 PROVE  wait'[pending[i]] = i /\ reply'[pending[i]] = NoAnswer
      BY <2>2, <2>4
    <3>1. pending[i] \in Actors /\ pending[i] # a
      BY <2>4 DEF TypeOK
    <3>2. QED
      BY <2>2, <2>4, <3>1 DEF PendingInv
  <2>6. \A b \in Actors : wait'[b] # NoId =>
          /\ stage'[b] \in RequestStage
          /\ pending'[wait'[b]] = b \/ reply'[b] # NoAnswer
    <3> SUFFICES ASSUME NEW b \in Actors, b # a, wait'[b] # NoId
                 PROVE  /\ stage'[b] \in RequestStage
                        /\ pending'[wait'[b]] = b \/ reply'[b] # NoAnswer
      BY <2>2, <2>4
    <3>1. wait'[b] = wait[b] /\ wait[b] \in Ids \ {id}
      BY <2>4 DEF TypeOK
    <3>2. pending'[wait[b]] = pending[wait[b]]
      BY <2>4, <3>1
    <3>3. QED
      BY <2>2, <3>1, <3>2 DEF PendingInv
  <2>7. QED
    BY <2>2, <2>3, <2>4, <2>5, <2>6 DEF PendingInv
<1>2. ASSUME NEW a \in Actors, SendFails(a) PROVE PendingInv'
  BY <1>2, PendingKept, OthersKeepStage
  DEF SendFails, Raise, RaiseWith, client, server
<1>3. ASSUME NEW a \in Actors, Timeout(a) PROVE PendingInv'
  BY <1>3, PendingReleased, OthersKeepStage DEF Timeout, Raise, RaiseWith, server
<1>4. ASSUME NEW a \in Actors, reply[a] # NoAnswer,
             \A b \in Actors \ {a} : stage'[b] = stage[b],
             wait' = [wait EXCEPT ![a] = NoId], reply' = [reply EXCEPT ![a] = NoAnswer],
             UNCHANGED <<client, server>>
      PROVE  PendingInv'
  <2>1. \A id \in Ids : pending[id] # a
    BY <1>4, HostAssumption DEF PendingInv
  <2>2. QED
    BY <1>4, <2>1, PendingReleased DEF client, server
<1>5. ASSUME NEW a \in Actors, Accepted(a) \/ ThreadStarted(a) \/ TurnStarted(a) \/ Refused(a)
      PROVE  PendingInv'
  <2>1. reply[a] # NoAnswer
    BY <1>5, AnswerKinds DEF Accepted, ThreadStarted, TurnStarted, Refused, Take, TakeOf
  <2>2. \A b \in Actors \ {a} : stage'[b] = stage[b]
    BY <1>5, OthersKeepStage, Zenon
    DEF Accepted, ThreadStarted, TurnStarted, Refused, Raise, RaiseWith
  <2>3. QED
    BY <1>4, <1>5, <2>1, <2>2
    DEF Accepted, ThreadStarted, TurnStarted, Refused, Take, TakeOf
<1>6. ASSUME NEW a \in Actors, TurnCompletes(a) \/ TurnFails(a) PROVE PendingInv'
  <2>1. wait[a] = NoId
    BY <1>6, NotWaiting DEF TurnCompletes, TurnFails, LeaveTurn, RequestStage
  <2>2. \A b \in Actors \ {a} : stage'[b] = stage[b]
    BY <1>6, OthersKeepStage DEF TurnCompletes, TurnFails, LeaveTurn
  <2>3. QED
    BY <1>6, <2>1, <2>2, PendingKept DEF TurnCompletes, TurnFails, LeaveTurn, client, server
<1>7. ASSUME NEW c \in Calls, TakeCall(c) PROVE PendingInv'
  <2>4. 1 \in 1 .. Len(queue) /\ c = queue[1]
    BY <1>7 DEF TakeCall, TypeOK
  <2>1. stage[c] = "queued" /\ c \in Actors
    BY <2>4, Domains DEF QueueInv
  <2>2. wait[c] = NoId
    BY <2>1, NotWaiting DEF RequestStage
  <2>3. QED
    BY <1>7, <2>1, <2>2, PendingKept, OthersKeepStage DEF TakeCall, server
<1>8. ASSUME NEW c \in Calls, Reserve(c) \/ ReplyCall(c) PROVE PendingInv'
  <2>1. stage[c] \in {"reserve", "reply"} /\ c \in Actors
    BY <1>8, Domains DEF Reserve, ReserveIf, ReplyCall
  <2>2. wait[c] = NoId
    BY <2>1, NotWaiting DEF RequestStage
  <2>3. \A b \in Actors \ {c} : stage'[b] = stage[b]
    BY <1>8, <2>1, OthersKeepStage, Zenon DEF Reserve, ReserveIf, ReplyCall
  <2>4. QED
    BY <1>8, <2>2, <2>3, PendingKept DEF Reserve, ReserveIf, ReplyCall, client, server
<1>9. ASSUME NEW op \in Operations, NEW target \in Targets(op), NEW prompt \in Prompts(op),
              Begin(op, target, prompt)
      PROVE  PendingInv'
  BY <1>9, Domains, NotWaiting, PendingKept, OthersKeepStage
  DEF Begin, RequestStage, client, server
<1>10. ASSUME Shutdown \/ Terminate PROVE PendingInv'
  <2>1. CASE Shutdown
    BY <2>1, Domains, NotWaiting, PendingKept, OthersKeepStage
    DEF Shutdown, RequestStage, client, server
  <2>2. CASE Terminate
    BY <2>2, PendingKept DEF Terminate, Die, client, actors
  <2>3. QED
    BY <1>10, <2>1, <2>2
<1>11. ASSUME CancelQueue PROVE PendingInv'
  <2>1. \A a \in Actors : stage'[a] = stage[a] \/ wait[a] = NoId
    BY <1>11, NotWaiting DEF CancelQueue, RequestStage
  <2>2. QED
    BY <1>11, <2>1, PendingKept DEF CancelQueue, server
<1>12. ASSUME NEW id \in Ids, ReadAnswer(id) PROVE PendingInv'
  <2>1. \A i \in Ids : pending'[i] = IF i = id THEN NoActor ELSE pending[i]
    BY <1>12 DEF ReadAnswer, TypeOK
  <2>2. \A i \in Ids : pending[i] \in Actors \cup {NoActor}
    BY DEF TypeOK
  <2>3. \A a \in Actors : reply'[a] = IF a = pending[id] THEN answer[id] ELSE reply[a]
    BY <1>12, HostAssumption DEF ReadAnswer, TypeOK
  <2>4. UNCHANGED <<stage, wait, alive, closed>> /\ answer[id] # NoAnswer
    BY <1>12 DEF ReadAnswer
  <2>5. \A i \in Ids : pending'[i] # NoActor =>
          wait'[pending'[i]] = i /\ reply'[pending'[i]] = NoAnswer
    BY <2>1, <2>2, <2>3, <2>4, HostAssumption DEF PendingInv
  <2>6. \A a \in Actors : wait'[a] # NoId =>
          /\ stage'[a] \in RequestStage
          /\ pending'[wait'[a]] = a \/ reply'[a] # NoAnswer
    <3> SUFFICES ASSUME NEW a \in Actors, wait[a] # NoId
                 PROVE  /\ stage[a] \in RequestStage
                        /\ pending'[wait[a]] = a \/ reply'[a] # NoAnswer
      BY <2>4
    <3>1. wait[a] \in Ids
      BY DEF TypeOK
    <3>2. QED
      BY <2>1, <2>3, <2>4, <3>1 DEF PendingInv
  <2>7. QED
    BY <2>1, <2>2, <2>3, <2>4, <2>5, <2>6, HostAssumption DEF PendingInv
<1>13. ASSUME NEW c \in Calls, ReadCall(c) PROVE PendingInv'
  BY <1>13, Domains, NotWaiting, PendingKept, OthersKeepStage
  DEF ReadCall, RequestStage, server
<1>14. ASSUME Close(Actors) PROVE PendingInv'
  <2>1. \A id \in Ids : pending'[id] = NoActor
    BY <1>14 DEF Close, TypeOK
  <2>2. \A a \in Actors : stage'[a] = stage[a] \/ stage[a] = "sent"
    BY <1>14 DEF Close
  <2>3. \A a \in Actors : reply'[a] = reply[a] \/ (reply'[a] = Failed /\ wait[a] # NoId)
    BY <1>14, HostAssumption DEF Close, PendingInv
  <2>4. \A a \in Actors : wait[a] # NoId => reply'[a] # NoAnswer
    BY <1>14, AnswerKinds, HostAssumption DEF Close, PendingInv, TypeOK
  <2>5. QED
    BY <1>14, <2>1, <2>2, <2>3, <2>4 DEF Close, PendingInv, RequestStage
<1>15. ASSUME NEW u \in Turns, NEW c \in Calls, NEW tool \in Tools, NEW target \in Targets(tool),
              MakeCall(u, c, tool, target)
       PROVE  PendingInv'
  BY <1>15, Domains, NotWaiting, PendingKept, OthersKeepStage
  DEF MakeCall, RequestStage, client
<1>16. ASSUME \/ \E u \in Turns : ReadTurnCompleted(u) \/ EndTurn(u)
              \/ \E id \in Ids : Handles(id)
              \/ Exit
              \/ UNCHANGED vars
       PROVE  PendingInv'
  BY <1>16, PendingKept
  DEF ReadTurnCompleted, EndTurn, Handles, StartThread, StartTurn, Accept, Refuse, Ignore,
      Answers, Exit, Die, vars, host, client, actors, server
<1>17. ASSUME NEW a \in Actors, Operate(a) PROVE PendingInv'
  BY <1>1, <1>2, <1>3, <1>5, <1>6, <1>17 DEF Operate
<1>18. ASSUME NEW c \in Calls, Worker(c) PROVE PendingInv'
  BY <1>7, <1>8, <1>17, <1>18, Domains DEF Worker
<1>19. ASSUME MainThread PROVE PendingInv'
  BY <1>9, <1>10, <1>11, <1>17, <1>19, Domains DEF MainThread
<1>20. ASSUME Reader PROVE PendingInv'
  BY <1>12, <1>13, <1>14, <1>16, <1>20 DEF Reader, ReadEof, ReaderFails
<1>21. ASSUME AppServer PROVE PendingInv'
  BY <1>15, <1>16, <1>21 DEF AppServer
<1>22. QED
  BY <1>16, <1>18, <1>19, <1>20, <1>21 DEF Next

-----------------------------------------------------------------------------
(* The queue of the pool *)

LEMMA QueueInit == Init => QueueInv
  BY DEF Init, QueueInv

\* No actor but a queued one leaves the queue.
LEMMA QueueKept ==
  ASSUME TypeOK, QueueInv, UNCHANGED queue,
         \A a \in Actors : stage'[a] = stage[a] \/ stage[a] # "queued"
  PROVE  QueueInv'
<1>1. \A i \in 1 .. Len(queue) : queue[i] \in Actors
  BY Domains DEF TypeOK
<1>2. QED
  BY <1>1 DEF QueueInv

LEMMA QueueStep == TypeOK /\ PendingInv /\ QueueInv /\ [Next]_vars => QueueInv'
<1> SUFFICES ASSUME TypeOK, PendingInv, QueueInv, [Next]_vars
             PROVE  QueueInv'
  OBVIOUS
<1>1. ASSUME NEW a \in Actors, Operate(a) PROVE QueueInv'
  <2>1. stage[a] # "queued" \/ UNCHANGED stage
    BY <1>1, AnswerKinds
    DEF Operate, Send, SendFails, Timeout, Accepted, ThreadStarted, TurnStarted, Refused,
        Take, TakeOf, TurnCompletes, TurnFails, LeaveTurn, PendingInv, RequestStage
  <2>2. \A b \in Actors \ {a} : stage'[b] = stage[b]
    BY <1>1, OthersKeepStage, Zenon
    DEF Operate, Send, SendFails, Timeout, Accepted, ThreadStarted, TurnStarted, Refused,
        TurnCompletes, TurnFails, LeaveTurn, Raise, RaiseWith
  <2>3. UNCHANGED queue
    BY <1>1
    DEF Operate, Send, SendFails, Timeout, Accepted, ThreadStarted, TurnStarted, Refused,
        Take, TakeOf, TurnCompletes, TurnFails, LeaveTurn, client
  <2>4. QED
    BY <2>1, <2>2, <2>3, QueueKept
<1>2. ASSUME NEW c \in Calls, TakeCall(c) PROVE QueueInv'
  <2>1. /\ queue # <<>> /\ queue' = Tail(queue) /\ queue \in Seq(Calls) /\ c = queue[1]
        /\ \A b \in Actors \ {c} : stage'[b] = stage[b]
    BY <1>2, OthersKeepStage, Domains DEF TakeCall, TypeOK
  <2>2. /\ Len(queue') = Len(queue) - 1
        /\ \A i \in 1 .. Len(queue') :
             queue'[i] = queue[i + 1] /\ i + 1 \in 1 .. Len(queue) /\ queue'[i] \in Actors
    BY <2>1, Domains
  <2>3. \A i \in 1 .. Len(queue') : queue'[i] # c
    BY <2>1, <2>2 DEF QueueInv
  <2>4. QED
    BY <2>1, <2>2, <2>3 DEF QueueInv
<1>3. ASSUME NEW c \in Calls, Reserve(c) \/ ReplyCall(c) PROVE QueueInv'
  <2>1. stage[c] \in {"reserve", "reply"} /\ c \in Actors /\ UNCHANGED queue
    BY <1>3, Domains DEF Reserve, ReserveIf, ReplyCall, client
  <2>2. \A b \in Actors \ {c} : stage'[b] = stage[b]
    BY <1>3, <2>1, OthersKeepStage, Zenon DEF Reserve, ReserveIf, ReplyCall
  <2>3. QED
    BY <2>1, <2>2, QueueKept
<1>4. ASSUME NEW op \in Operations, NEW target \in Targets(op), NEW prompt \in Prompts(op),
             Begin(op, target, prompt)
      PROVE  QueueInv'
  BY <1>4, Domains, QueueKept, OthersKeepStage DEF Begin, client
<1>5. ASSUME Shutdown \/ Terminate PROVE QueueInv'
  <2>1. \A a \in Actors : stage'[a] = stage[a] \/ stage[a] # "queued"
    BY <1>5, Domains, OthersKeepStage DEF Shutdown, Terminate, actors
  <2>2. QED
    BY <1>5, <2>1, QueueKept DEF Shutdown, Terminate, client
<1>6. ASSUME CancelQueue PROVE QueueInv'
  BY <1>6 DEF CancelQueue, QueueInv
<1>7. ASSUME NEW c \in Calls, ReadCall(c) PROVE QueueInv'
  <2>1. /\ queue' = Append(queue, c) /\ queue \in Seq(Calls)
        /\ stage[c] = "sent" /\ c \in Actors /\ stage' = [stage EXCEPT ![c] = "queued"]
    BY <1>7, Domains DEF ReadCall, Goto, TypeOK
  <2>2. stage'[c] = "queued" /\ \A b \in Actors \ {c} : stage'[b] = stage[b]
    BY <2>1 DEF TypeOK
  <2>3. /\ Len(queue') = Len(queue) + 1 /\ queue'[Len(queue) + 1] = c
        /\ \A i \in 1 .. Len(queue) : queue'[i] = queue[i] /\ queue[i] \in Actors
    BY <2>1, Domains
  <2>4. \A i \in 1 .. Len(queue) : queue[i] # c
    BY <2>1 DEF QueueInv
  <2>5. \A i \in 1 .. Len(queue') : i \in 1 .. Len(queue) \/ i = Len(queue) + 1
    BY <2>1, <2>3
  <2>6. QED
    BY <2>2, <2>3, <2>4, <2>5 DEF QueueInv
<1>8. ASSUME Close(Actors) PROVE QueueInv'
  BY <1>8, QueueKept DEF Close
<1>9. ASSUME NEW u \in Turns, NEW c \in Calls, NEW tool \in Tools, NEW target \in Targets(tool),
             MakeCall(u, c, tool, target)
      PROVE  QueueInv'
  BY <1>9, Domains, QueueKept, OthersKeepStage DEF MakeCall, client
<1>10. ASSUME UNCHANGED <<stage, queue>> PROVE QueueInv'
  BY <1>10, QueueKept
<1>11. ASSUME MainThread PROVE QueueInv'
  BY <1>1, <1>4, <1>5, <1>6, <1>11, Domains DEF MainThread
<1>12. ASSUME Reader PROVE QueueInv'
  BY <1>7, <1>8, <1>10, <1>12
  DEF Reader, ReadAnswer, ReadTurnCompleted, ReadEof, ReaderFails, actors
<1>13. ASSUME AppServer PROVE QueueInv'
  BY <1>9, <1>10, <1>13
  DEF AppServer, Handles, StartThread, StartTurn, Accept, Refuse, Ignore, EndTurn, Exit,
      client, actors
<1>14. ASSUME NEW c \in Calls, Worker(c) PROVE QueueInv'
  BY <1>1, <1>2, <1>3, <1>14, Domains DEF Worker
<1>15. ASSUME UNCHANGED vars PROVE QueueInv'
  BY <1>10, <1>15 DEF vars, client, actors
<1>16. QED
  BY <1>11, <1>12, <1>13, <1>14, <1>15 DEF Next

-----------------------------------------------------------------------------
(* Answers match their requests *)

LEMMA MatchInit == Init => MatchInv
  BY AnswerKinds DEF Init, MatchInv, Matches

\* Who has no request and no answer may do what it likes; nothing that is
\* pending, asked or answered is new.
LEMMA MatchKept ==
  ASSUME TypeOK, MatchInv, TransitInv,
         \A a \in Actors :
           \/ stage'[a] = stage[a] /\ task'[a].parent = task[a].parent
           \/ /\ reply'[a].kind \in {"none", "failed"}
              /\ \A id \in Ids : pending'[id] # a,
         \A id \in Ids : pending'[id] \in {pending[id], NoActor},
         \A id \in Ids : asked'[id] \in {asked[id], NoRequest},
         \A id \in Ids : answer'[id] = answer[id] \/ answer'[id].kind \in {"none", "failed"},
         \A a \in Actors : reply'[a] = reply[a] \/ reply'[a].kind \in {"none", "failed"},
         \A t \in threads : born'[t] = born[t]
  PROVE  MatchInv'
<1>1. \A id \in Ids : pending'[id] # NoActor =>
        /\ pending'[id] = pending[id] /\ pending[id] \in Actors
        /\ stage'[pending[id]] = stage[pending[id]]
        /\ task'[pending[id]].parent = task[pending[id]].parent
  BY DEF TypeOK
<1>2. \A id \in Ids : pending'[id] # NoActor => Matches(answer[id], pending[id])
  BY <1>1 DEF MatchInv
<1>3. \A id \in Ids : answer[id].kind = "thread" => born'[answer[id].thread] = born[answer[id].thread]
  BY DEF TransitInv
<1>4. \A id \in Ids : pending'[id] # NoActor => Matches(answer[id], pending[id])'
  BY <1>1, <1>2, <1>3 DEF Matches
<1>5. \A id \in Ids : pending'[id] # NoActor /\ asked'[id] # NoRequest =>
        /\ asked'[id].method = stage'[pending'[id]]
        /\ asked'[id].parent = task'[pending'[id]].parent
  BY <1>1 DEF MatchInv
<1>6. \A a \in Actors : reply[a].kind = "thread" => born'[reply[a].thread] = born[reply[a].thread]
  BY DEF TransitInv
<1>7. \A a \in Actors : Matches(reply[a], a)'
  BY <1>6 DEF MatchInv, Matches
<1>8. QED
  BY <1>4, <1>5, <1>7 DEF MatchInv

\* An actor in no request that moves leaves the matches alone.
LEMMA MatchMoved ==
  ASSUME TypeOK, PendingInv, MatchInv, TransitInv, NEW a \in Actors, wait[a] = NoId,
         \A b \in Actors \ {a} : stage'[b] = stage[b] /\ task'[b].parent = task[b].parent,
         UNCHANGED <<pending, reply, asked, answer>>,
         \A t \in threads : born'[t] = born[t]
  PROVE  MatchInv'
<1>1. reply[a] = NoAnswer /\ \A id \in Ids : pending[id] # a
  BY HostAssumption DEF PendingInv
<1>2. QED
  BY <1>1, AnswerKinds, MatchKept

\* The variables of an actor that ForgetTask, Raise and Take touch are its own.
LEMMA OthersKeepTask ==
  ASSUME TypeOK, NEW a \in Actors, ForgetTask(a)
  PROVE  \A b \in Actors \ {a} : task'[b] = task[b]
  BY DEF ForgetTask, TypeOK

LEMMA OthersUntouched ==
  ASSUME TypeOK, NEW a \in Actors, Operate(a)
  PROVE  \A b \in Actors \ {a} : stage'[b] = stage[b] /\ task'[b] = task[b]
<1>1. \A b \in Actors \ {a} : stage'[b] = stage[b]
  BY OthersKeepStage, Zenon
  DEF Operate, Send, SendFails, Timeout, Accepted, ThreadStarted, TurnStarted, Refused,
      TurnCompletes, TurnFails, LeaveTurn, Raise, RaiseWith
<1>2. CASE ForgetTask(a)
  BY <1>1, <1>2, OthersKeepTask
<1>3. CASE UNCHANGED task
  BY <1>1, <1>3
<1>4. CASE \E new : task' = [task EXCEPT ![a].target = new]
  BY <1>1, <1>4 DEF TypeOK
<1>5. QED
  BY <1>2, <1>3, <1>4, Zenon
  DEF Operate, Send, SendFails, Timeout, Accepted, ThreadStarted, TurnStarted, Refused,
      TurnCompletes, TurnFails, LeaveTurn, Raise, RaiseWith

LEMMA MatchStep ==
  TypeOK /\ PendingInv /\ QueueInv /\ MatchInv /\ TransitInv /\ [Next]_vars => MatchInv'
<1> SUFFICES ASSUME TypeOK, PendingInv, QueueInv, MatchInv, TransitInv, [Next]_vars
             PROVE  MatchInv'
  OBVIOUS
<1>1. ASSUME NEW a \in Actors, Send(a) PROVE MatchInv'
  <2>1. PICK id \in Ids :
          /\ FreshId(id)
          /\ pending' = [pending EXCEPT ![id] = a]
          /\ asked' = [asked EXCEPT ![id] =
               [method |-> stage[a], thread |-> task[a].target, parent |-> task[a].parent]]
    BY <1>1 DEF Send
  <2>2. UNCHANGED <<stage, task, reply, answer, born>>
    BY <1>1 DEF Send
  <2>3. /\ pending'[id] = a /\ asked'[id].method = stage[a] /\ asked'[id].parent = task[a].parent
        /\ answer[id] = NoAnswer
        /\ \A i \in Ids : i # id => pending'[i] = pending[i] /\ asked'[i] = asked[i]
    BY <2>1 DEF FreshId, TypeOK
  <2>4. QED
    BY <2>2, <2>3, AnswerKinds DEF MatchInv, Matches
<1>2. ASSUME NEW a \in Actors, SendFails(a) \/ TurnCompletes(a) \/ TurnFails(a)
      PROVE  MatchInv'
  <2>1. wait[a] = NoId
    BY <1>2, NotWaiting
    DEF SendFails, TurnCompletes, TurnFails, LeaveTurn, RequestStage
  <2>2. \A b \in Actors \ {a} : stage'[b] = stage[b] /\ task'[b] = task[b]
    BY <1>2, OthersUntouched DEF Operate
  <2>3. UNCHANGED <<pending, reply, asked, answer, born>>
    BY <1>2 DEF SendFails, TurnCompletes, TurnFails, LeaveTurn, client, server
  <2>4. QED
    BY <2>1, <2>2, <2>3, MatchMoved
<1>3. ASSUME NEW a \in Actors,
             \/ Timeout(a) \/ Accepted(a) \/ ThreadStarted(a) \/ TurnStarted(a) \/ Refused(a)
      PROVE  MatchInv'
  <2>1. \A b \in Actors \ {a} : stage'[b] = stage[b] /\ task'[b] = task[b]
    BY <1>3, OthersUntouched DEF Operate
  <2>2. reply' = [reply EXCEPT ![a] = NoAnswer] /\ UNCHANGED <<asked, answer, born>>
    BY <1>3
    DEF Timeout, Accepted, ThreadStarted, TurnStarted, Refused, Take, TakeOf, server
  <2>3. \A id \in Ids : pending'[id] \in {pending[id], NoActor} /\ pending'[id] # a
    <3>1. CASE Timeout(a)
      BY <3>1, HostAssumption DEF Timeout, PendingInv
    <3>2. CASE reply[a] # NoAnswer /\ UNCHANGED pending
      BY <3>2, HostAssumption DEF PendingInv
    <3>3. QED
      BY <1>3, <3>1, <3>2, AnswerKinds
      DEF Accepted, ThreadStarted, TurnStarted, Refused, Take, TakeOf, client
  <2>4. /\ reply'[a].kind = "none"
        /\ \A b \in Actors \ {a} : reply'[b] = reply[b]
    BY <2>2, AnswerKinds DEF TypeOK
  <2>5. QED
    BY <2>1, <2>2, <2>3, <2>4, MatchKept
<1>4. ASSUME NEW c \in Calls, TakeCall(c) \/ Reserve(c) \/ ReplyCall(c) PROVE MatchInv'
  <2>1. CASE TakeCall(c)
    <3>1. 1 \in 1 .. Len(queue) /\ c = queue[1]
      BY <2>1 DEF TakeCall, TypeOK
    <3>2. c \in Actors /\ wait[c] = NoId
      BY <3>1, Domains, NotWaiting DEF QueueInv, RequestStage
    <3>3. QED
      BY <2>1, <3>2, OthersKeepStage, MatchMoved DEF TakeCall, server
  <2>2. CASE Reserve(c)
    <3>1. c \in Actors /\ wait[c] = NoId
      BY <2>2, Domains, NotWaiting DEF Reserve, ReserveIf, RequestStage
    <3>2. \A b \in Actors \ {c} : stage'[b] = stage[b]
      BY <2>2, <3>1, OthersKeepStage, Zenon DEF Reserve, ReserveIf
    <3>3. QED
      BY <2>2, <3>1, <3>2, MatchMoved DEF Reserve, ReserveIf, client, server
  <2>3. CASE ReplyCall(c)
    BY <2>3, Domains, NotWaiting, OthersKeepStage, OthersKeepTask, MatchMoved
    DEF ReplyCall, RequestStage, client
  <2>4. QED
    BY <1>4, <2>1, <2>2, <2>3
<1>5. ASSUME NEW op \in Operations, NEW target \in Targets(op), NEW prompt \in Prompts(op),
             Begin(op, target, prompt)
      PROVE  MatchInv'
  <2>1. Main \in Actors /\ wait[Main] = NoId
    BY <1>5, Domains, NotWaiting DEF Begin, RequestStage
  <2>2. \A b \in Actors \ {Main} : stage'[b] = stage[b] /\ task'[b] = task[b]
    BY <1>5, <2>1, OthersKeepStage DEF Begin, TypeOK
  <2>3. QED
    BY <1>5, <2>1, <2>2, MatchMoved DEF Begin, client, server
<1>6. ASSUME Shutdown PROVE MatchInv'
  BY <1>6, Domains, NotWaiting, OthersKeepStage, MatchMoved
  DEF Shutdown, RequestStage, client, server
<1>7. ASSUME Terminate \/ Exit PROVE MatchInv'
  <2>1. \A id \in Ids : asked'[id] = NoRequest
    BY <1>7 DEF Terminate, Exit, Die
  <2>2. UNCHANGED <<stage, task, pending, answer, reply, born>>
    BY <1>7 DEF Terminate, Exit, client, actors
  <2>3. QED
    BY <2>1, <2>2, MatchKept
<1>8. ASSUME CancelQueue PROVE MatchInv'
  <2>1. \A a \in Actors : \/ stage'[a] = stage[a] /\ task'[a].parent = task[a].parent
                          \/ wait[a] = NoId
    BY <1>8, NotWaiting DEF CancelQueue, RequestStage
  <2>2. \A a \in Actors : wait[a] = NoId => reply[a] = NoAnswer /\ \A id \in Ids : pending[id] # a
    BY HostAssumption DEF PendingInv
  <2>3. QED
    BY <1>8, <2>1, <2>2, AnswerKinds, MatchKept DEF CancelQueue, server
<1>9. ASSUME NEW id \in Ids, ReadAnswer(id) PROVE MatchInv'
  <2>1. UNCHANGED <<stage, task, asked, born>>
    BY <1>9 DEF ReadAnswer
  <2>2. /\ \A i \in Ids : pending'[i] = IF i = id THEN NoActor ELSE pending[i]
        /\ \A i \in Ids : i # id => answer'[i] = answer[i]
    BY <1>9 DEF ReadAnswer, TypeOK
  <2>3. \A a \in Actors : reply'[a] = IF a = pending[id] THEN answer[id] ELSE reply[a]
    BY <1>9, HostAssumption DEF ReadAnswer, TypeOK
  <2>4. \A a \in Actors : Matches(reply'[a], a)
    BY <2>3, HostAssumption DEF MatchInv
  <2>5. \A a \in Actors : Matches(reply[a], a)'
    BY <2>1, <2>4 DEF Matches
  <2>6. QED
    BY <2>1, <2>2, <2>5 DEF MatchInv, Matches
<1>10. ASSUME NEW c \in Calls, ReadCall(c) PROVE MatchInv'
  BY <1>10, Domains, NotWaiting, OthersKeepStage, MatchMoved
  DEF ReadCall, RequestStage, server
<1>11. ASSUME Close(Actors) PROVE MatchInv'
  <2>1. \A id \in Ids : pending'[id] = NoActor /\ answer'[id] = NoAnswer /\ asked'[id] = asked[id]
    BY <1>11 DEF Close, TypeOK
  <2>2. \A a \in Actors : reply'[a] \in {reply[a], Failed}
    BY <1>11 DEF Close
  <2>3. \A a \in Actors : \/ stage'[a] = stage[a] /\ task'[a] = task[a]
                          \/ wait[a] = NoId
    BY <1>11, NotWaiting DEF Close, RequestStage
  <2>4. \A a \in Actors : wait[a] = NoId => reply[a] = NoAnswer
    BY DEF PendingInv
  <2>5. UNCHANGED born
    BY <1>11 DEF Close
  <2>6. \A a \in Actors :
          \/ stage'[a] = stage[a] /\ task'[a].parent = task[a].parent
          \/ /\ reply'[a].kind \in {"none", "failed"}
             /\ \A id \in Ids : pending'[id] # a
    BY <2>1, <2>2, <2>3, <2>4, AnswerKinds, HostAssumption
  <2>7. /\ \A a \in Actors : reply'[a] = reply[a] \/ reply'[a].kind \in {"none", "failed"}
        /\ \A id \in Ids : answer'[id].kind \in {"none", "failed"}
    BY <2>1, <2>2, AnswerKinds
  <2>8. QED
    BY <2>1, <2>5, <2>6, <2>7, MatchKept
<1>12. ASSUME NEW id \in Ids, NEW v \in Answer, Answers(id, v),
              UNCHANGED <<pending, reply, stage, task>>,
              \A t \in threads : born'[t] = born[t],
              v.kind = "thread" => asked[id].method = "thread/start" /\ born'[v.thread] = asked[id].parent,
              v.kind = "turn" => asked[id].method = "turn/start",
              v.kind = "ok" => asked[id].method \notin {"thread/start", "turn/start"}
       PROVE  MatchInv'
  <2>1. /\ asked[id] # NoRequest
        /\ asked'[id] = NoRequest /\ answer'[id] \in {answer[id], v}
        /\ \A i \in Ids : i # id => asked'[i] = asked[i] /\ answer'[i] = answer[i]
    BY <1>12 DEF Answers, TypeOK
  <2>2. pending[id] # NoActor => Matches(answer[id], pending[id])'
    <3>1. CASE answer'[id] = v
      BY <1>12, <2>1, <3>1 DEF MatchInv, Matches
    <3>2. CASE answer'[id] = answer[id]
      BY <1>12, <2>1, <3>2 DEF MatchInv, Matches, TransitInv
    <3>3. QED
      BY <2>1, <3>1, <3>2
  <2>3. \A i \in Ids : i # id /\ pending[i] # NoActor => Matches(answer[i], pending[i])'
    BY <1>12, <2>1 DEF MatchInv, Matches, TransitInv
  <2>4. \A a \in Actors : Matches(reply[a], a)'
    BY <1>12 DEF MatchInv, Matches, TransitInv
  <2>5. QED
    BY <1>12, <2>1, <2>2, <2>3, <2>4 DEF MatchInv
<1>13. ASSUME NEW id \in Ids, StartThread(id) PROVE MatchInv'
  <2>1. NextThread \in Threads \ threads
    BY <1>13, NextThreadIsNew DEF StartThread, TypeOK
  <2>2. /\ \A t \in threads : born'[t] = born[t]
        /\ born'[NextThread] = asked[id].parent
    BY <1>13, <2>1 DEF StartThread, TypeOK
  <2>3. QED
    BY <1>12, <1>13, <2>1, <2>2, AnswerKinds, Domains DEF StartThread, client, actors
<1>14. ASSUME NEW id \in Ids, NEW u \in Turns, StartTurn(id, u) PROVE MatchInv'
  BY <1>12, <1>14, AnswerKinds, Domains DEF StartTurn, client, actors
<1>15. ASSUME NEW id \in Ids, Accept(id) \/ Refuse(id) PROVE MatchInv'
  BY <1>12, <1>15, AnswerKinds, Domains DEF Accept, Refuse, client, actors
<1>16. ASSUME NEW id \in Ids, Ignore(id) PROVE MatchInv'
  BY <1>16, MatchKept DEF Ignore, client, actors, TypeOK
<1>17. ASSUME NEW u \in Turns, NEW c \in Calls, NEW tool \in Tools, NEW target \in Targets(tool),
              MakeCall(u, c, tool, target)
       PROVE  MatchInv'
  <2>1. c \in Actors /\ wait[c] = NoId
    BY <1>17, Domains, NotWaiting DEF MakeCall, RequestStage
  <2>2. \A b \in Actors \ {c} : stage'[b] = stage[b] /\ task'[b] = task[b]
    BY <1>17, <2>1, OthersKeepStage DEF MakeCall, TypeOK
  <2>3. QED
    BY <1>17, <2>1, <2>2, MatchMoved DEF MakeCall, client
<1>18. ASSUME UNCHANGED <<pending, reply, asked, answer, stage, task, born>> PROVE MatchInv'
  BY <1>18, MatchKept
<1>19. ASSUME NEW a \in Actors, Operate(a) PROVE MatchInv'
  BY <1>1, <1>2, <1>3, <1>19 DEF Operate
<1>20. ASSUME MainThread PROVE MatchInv'
  BY <1>5, <1>6, <1>7, <1>8, <1>19, <1>20, Domains DEF MainThread
<1>21. ASSUME Reader PROVE MatchInv'
  BY <1>9, <1>10, <1>11, <1>18, <1>21 DEF Reader, ReadEof, ReaderFails, ReadTurnCompleted, actors
<1>22. ASSUME AppServer PROVE MatchInv'
  BY <1>7, <1>13, <1>14, <1>15, <1>16, <1>17, <1>18, <1>22
  DEF AppServer, Handles, EndTurn, client, actors
<1>23. ASSUME NEW c \in Calls, Worker(c) PROVE MatchInv'
  BY <1>4, <1>19, <1>23, Domains DEF Worker
<1>24. ASSUME UNCHANGED vars PROVE MatchInv'
  BY <1>18, <1>24 DEF vars, client, actors, server
<1>25. QED
  BY <1>20, <1>21, <1>22, <1>23, <1>24 DEF Next

-----------------------------------------------------------------------------
(* Threads on their way to the host *)

LEMMA TransitInit == Init => TransitInv
  BY AnswerKinds DEF Init, TransitInv

LEMMA TransitKept ==
  ASSUME TransitInv, UNCHANGED depths, threads \subseteq threads',
         \A id \in Ids : answer'[id] = answer[id] \/ answer'[id].kind # "thread",
         \A a \in Actors : reply'[a] = reply[a] \/ reply'[a].kind # "thread"
  PROVE  TransitInv'
  BY DEF TransitInv

\* An answer without a thread is nobody's news.
LEMMA OtherAnswer ==
  ASSUME TypeOK, TransitInv, NEW id \in Ids, NEW v, v.kind # "thread", Answers(id, v),
         UNCHANGED <<depths, threads, reply>>
  PROVE  TransitInv'
<1>1. CASE closed
  BY <1>1, TransitKept DEF Answers
<1>2. CASE ~closed
  <2>1. answer' = [answer EXCEPT ![id] = v]
    BY <1>2 DEF Answers
  <2>2. \A i \in Ids : answer'[i] = answer[i] \/ (i = id /\ answer'[i] = v)
    BY <2>1 DEF TypeOK
  <2>3. QED
    BY <2>2, TransitKept
<1>3. QED
  BY <1>1, <1>2

LEMMA TransitStep == TypeOK /\ TransitInv /\ [Next]_vars => TransitInv'
<1> SUFFICES ASSUME TypeOK, TransitInv, [Next]_vars
             PROVE  TransitInv'
  OBVIOUS
<1>1. ASSUME UNCHANGED <<depths, threads, answer>>,
             \A a \in Actors : reply'[a] = reply[a] \/ reply'[a].kind # "thread"
      PROVE  TransitInv'
  BY <1>1, TransitKept
<1>2. ASSUME NEW a \in Actors, Send(a) \/ SendFails(a) \/ TurnCompletes(a) \/ TurnFails(a)
      PROVE  TransitInv'
  BY <1>1, <1>2
  DEF Send, SendFails, Raise, RaiseWith, TurnCompletes, TurnFails, LeaveTurn, host, server
<1>3. ASSUME NEW a \in Actors, Timeout(a) \/ Accepted(a) \/ TurnStarted(a) \/ Refused(a)
      PROVE  TransitInv'
  <2>1. reply' = [reply EXCEPT ![a] = NoAnswer] /\ UNCHANGED <<depths, threads, answer>>
    BY <1>3
    DEF Timeout, Accepted, TurnStarted, Refused, Raise, RaiseWith, Take, TakeOf, server
  <2>2. QED
    BY <1>1, <2>1, AnswerKinds DEF TypeOK
<1>4. ASSUME NEW a \in Actors, ThreadStarted(a) PROVE TransitInv'
  <2>1. /\ reply[a].kind = "thread" /\ UNCHANGED <<threads, answer>>
        /\ DOMAIN depths' = DOMAIN depths \cup {reply[a].thread}
        /\ \A b \in Actors : reply'[b] = IF b = a THEN NoAnswer ELSE reply[b]
    BY <1>4 DEF ThreadStarted, Take, TakeOf, server, TypeOK
  <2>2. reply[a].thread \in threads
    BY <2>1 DEF TransitInv
  <2>3. \A id \in Ids : answer[id].kind = "thread" => answer[id].thread # reply[a].thread
    BY <2>1 DEF TransitInv
  <2>4. \A b \in Actors : reply'[b].kind = "thread" =>
          /\ b # a /\ reply'[b] = reply[b] /\ reply[b].thread # reply[a].thread
    BY <2>1, AnswerKinds DEF TransitInv
  <2>5. QED
    BY <2>1, <2>2, <2>3, <2>4 DEF TransitInv
<1>5. ASSUME NEW c \in Calls, TakeCall(c) \/ Reserve(c) \/ ReplyCall(c) PROVE TransitInv'
  BY <1>1, <1>5 DEF TakeCall, Reserve, ReserveIf, ReplyCall, host, server
<1>6. ASSUME NEW op \in Operations, NEW target \in Targets(op), NEW prompt \in Prompts(op),
             Begin(op, target, prompt)
      PROVE  TransitInv'
  BY <1>1, <1>6 DEF Begin, host, server
<1>7. ASSUME Shutdown \/ Terminate \/ CancelQueue \/ Exit PROVE TransitInv'
  BY <1>1, <1>7 DEF Shutdown, Terminate, CancelQueue, Exit, host, server, actors
<1>8. ASSUME NEW id \in Ids, ReadAnswer(id) PROVE TransitInv'
  <2>1. /\ answer'[id] = NoAnswer /\ UNCHANGED <<depths, threads>>
        /\ \A i \in Ids : i # id => answer'[i] = answer[i]
    BY <1>8 DEF ReadAnswer, host, TypeOK
  <2>2. \A a \in Actors : reply'[a] = IF a = pending[id] THEN answer[id] ELSE reply[a]
    BY <1>8 DEF ReadAnswer, TypeOK
  <2>3. \A i \in Ids : answer'[i].kind = "thread" => i # id /\ answer'[i] = answer[i]
    BY <2>1, AnswerKinds
  <2>4. \A i \in Ids, a \in Actors : answer'[i].kind = "thread" /\ reply'[a].kind = "thread" =>
          answer'[i].thread # reply'[a].thread
    BY <2>2, <2>3 DEF TransitInv
  <2>5. \A a, b \in Actors : a # b /\ reply'[a].kind = "thread" /\ reply'[b].kind = "thread" =>
          reply'[a].thread # reply'[b].thread
    BY <2>2 DEF TransitInv
  <2>6. QED
    BY <2>1, <2>2, <2>3, <2>4, <2>5 DEF TransitInv
<1>9. ASSUME (\E u \in Turns : ReadTurnCompleted(u)) \/ (\E c \in Calls : ReadCall(c))
      PROVE  TransitInv'
  BY <1>1, <1>9 DEF ReadTurnCompleted, ReadCall, host, actors, server
<1>10. ASSUME Close(Actors) PROVE TransitInv'
  <2>1. /\ \A id \in Ids : answer'[id] = NoAnswer
        /\ \A a \in Actors : reply'[a] \in {reply[a], Failed}
        /\ UNCHANGED <<depths, threads>>
    BY <1>10 DEF Close, host
  <2>2. QED
    BY <2>1, AnswerKinds, TransitKept
<1>11. ASSUME NEW id \in Ids, StartThread(id) PROVE TransitInv'
  <2> DEFINE t == NextThread
  <2>1. t \in Threads \ threads
    BY <1>11, NextThreadIsNew DEF StartThread, TypeOK
  <2>2. /\ threads' = threads \cup {t} /\ UNCHANGED <<depths, reply>>
        /\ answer' = answer \/ answer' = [answer EXCEPT ![id] = NewThread(t)]
    BY <1>11 DEF StartThread, Answers, host, actors
  <2>3. \A i \in Ids : answer'[i] = answer[i] \/ (i = id /\ answer'[i] = NewThread(t))
    <3> HIDE DEF t
    <3>1. CASE answer' = answer
      BY <3>1
    <3>2. CASE answer' = [answer EXCEPT ![id] = NewThread(t)]
      BY <3>2 DEF TypeOK
    <3>3. QED
      BY <2>2, <3>1, <3>2
  <2>4. t \notin DOMAIN depths
    BY <2>1 DEF TransitInv
  <2>5. /\ \A i \in Ids : i # id /\ answer[i].kind = "thread" => answer[i].thread # t
        /\ \A a \in Actors : reply[a].kind = "thread" => reply[a].thread # t
    BY <2>1 DEF TransitInv
  <2> HIDE DEF t
  <2>6. QED
    BY <2>1, <2>2, <2>3, <2>4, <2>5, AnswerKinds DEF TransitInv
<1>12. ASSUME NEW id \in Ids, NEW u \in Turns, StartTurn(id, u) PROVE TransitInv'
  BY <1>12, OtherAnswer, AnswerKinds DEF StartTurn, host, actors
<1>13. ASSUME NEW id \in Ids, Accept(id) \/ Refuse(id) PROVE TransitInv'
  BY <1>13, OtherAnswer, AnswerKinds DEF Accept, Refuse, host, actors
<1>14. ASSUME \/ \E id \in Ids : Ignore(id)
              \/ \E u \in Turns, c \in Calls, tool \in Tools : \E target \in Targets(tool) :
                   MakeCall(u, c, tool, target)
              \/ \E u \in Turns : EndTurn(u)
       PROVE  TransitInv'
  BY <1>1, <1>14 DEF Ignore, MakeCall, EndTurn, host, actors
<1>15. ASSUME NEW a \in Actors, Operate(a) PROVE TransitInv'
  BY <1>2, <1>3, <1>4, <1>15 DEF Operate
<1>16. ASSUME MainThread PROVE TransitInv'
  BY <1>6, <1>7, <1>15, <1>16, Domains DEF MainThread
<1>17. ASSUME Reader PROVE TransitInv'
  BY <1>8, <1>9, <1>10, <1>17 DEF Reader, ReadEof, ReaderFails
<1>18. ASSUME AppServer PROVE TransitInv'
  BY <1>7, <1>11, <1>12, <1>13, <1>14, <1>18 DEF AppServer, Handles
<1>19. ASSUME NEW c \in Calls, Worker(c) PROVE TransitInv'
  BY <1>5, <1>15, <1>19, Domains DEF Worker
<1>20. ASSUME UNCHANGED vars PROVE TransitInv'
  BY <1>1, <1>20 DEF vars, host, actors, server
<1>21. QED
  BY <1>16, <1>17, <1>18, <1>19, <1>20 DEF Next

-----------------------------------------------------------------------------
(* The slots of children *)

LEMMA SlotsFinite ==
  ASSUME TypeOK, NEW p
  PROVE  IsFiniteSet(Starting(p)) /\ IsFiniteSet(Children(p))
<1>1. Starting(p) \subseteq Calls /\ Children(p) \subseteq Threads
  BY DEF Starting, Children, TypeOK
<1>2. QED
  BY <1>1, FS_Subset, HostAssumption

LEMMA SlotInit == Init => SlotInv
<1> SUFFICES ASSUME Init PROVE SlotInv
  OBVIOUS
<1>1. task[Main].parent = NoThread
  BY Domains DEF Init, NoTask
<1>2. \A p \in Threads : Starting(p) = {} /\ Children(p) = {} /\ child_counts[p] = 0
  BY Domains DEF Init, Starting, Children
<1>3. QED
  BY <1>1, <1>2, FS_EmptySet, HostAssumption DEF SlotInv, SlotsAccounted

\* A step that starts no child and records none leaves the account as it is.
LEMMA SlotsKept ==
  ASSUME SlotInv, UNCHANGED <<depths, child_counts>>,
         \A t \in DOMAIN depths : born'[t] = born[t],
         task'[Main].parent = NoThread,
         \A c \in Calls :
           \/ stage'[c] = stage[c] /\ task'[c].parent = task[c].parent
           \/ /\ stage[c] = "thread/start" => task[c].parent \notin Threads
              /\ stage'[c] = "thread/start" => task'[c].parent \notin Threads
  PROVE  SlotInv'
<1>1. \A p \in Threads : Starting(p)' = Starting(p) /\ Children(p)' = Children(p)
  BY DEF Starting, Children
<1>2. QED
  BY <1>1 DEF SlotInv, SlotsAccounted

\* The operation that raised held a slot, and gives it back, or held none.
LEMMA SlotsRaise ==
  ASSUME TypeOK, SlotInv, NEW a \in Actors, NEW fatal, Raise(a, fatal), UNCHANGED born
  PROVE  SlotInv'
<1>1. /\ task'[a].parent = NoThread /\ stage'[a] # "thread/start"
      /\ \A b \in Actors \ {a} : stage'[b] = stage[b] /\ task'[b] = task[b]
      /\ UNCHANGED depths
  BY DoneType DEF Raise, RaiseWith, Goto, ForgetTask, TypeOK, NoTask
<1>2. task'[Main].parent = NoThread
  BY <1>1, Domains DEF SlotInv
<1>3. CASE stage[a] = "thread/start" /\ task[a].parent # NoThread
  <2>1. PICK p \in Threads : p = task[a].parent /\ a \in Calls
    BY <1>3 DEF TypeOK, Task, SlotInv, Actors
  <2>2. child_counts' = [child_counts EXCEPT ![p] = @ - 1]
    BY <1>3, <2>1 DEF Raise, RaiseWith
  <2>3. \A q \in Threads : Children(q)' = Children(q)
    BY <1>1 DEF Children
  <2>4. \A q \in Threads \ {p} : Starting(q)' = Starting(q)
    BY <1>1, <2>1, Domains, HostAssumption DEF Starting
  <2>5. Starting(p)' = Starting(p) \ {a} /\ a \in Starting(p)
    BY <1>1, <1>3, <2>1, Domains DEF Starting
  <2>6. /\ Cardinality(Starting(p)') = Cardinality(Starting(p)) - 1
        /\ Cardinality(Starting(p)) \in Nat /\ Cardinality(Children(p)) \in Nat
    BY <2>5, SlotsFinite, FS_RemoveElement, FS_CardinalityType
  <2>7. child_counts \in [Threads -> Int] /\ MaxChildren \in Nat
    BY HostAssumption DEF TypeOK
  <2>8. /\ child_counts'[p] = child_counts[p] - 1
        /\ \A q \in Threads \ {p} : child_counts'[q] = child_counts[q]
    BY <2>1, <2>2, <2>7
  <2>9. \A q \in Threads : child_counts'[q] =
          Cardinality(Starting(q)') + Cardinality(Children(q)')
    <3>1. child_counts'[p] = Cardinality(Starting(p)') + Cardinality(Children(p)')
      BY <2>1, <2>3, <2>6, <2>8 DEF SlotInv, SlotsAccounted
    <3>2. QED
      BY <2>3, <2>4, <2>8, <3>1 DEF SlotInv, SlotsAccounted
  <2>10. \A q \in Threads : child_counts'[q] <= MaxChildren
    BY <2>7, <2>8 DEF SlotInv
  <2>11. QED
    BY <1>2, <2>9, <2>10 DEF SlotInv, SlotsAccounted
<1>4. CASE ~(stage[a] = "thread/start" /\ task[a].parent # NoThread)
  <2>1. UNCHANGED child_counts
    BY <1>4 DEF Raise, RaiseWith
  <2>2. \A c \in Calls :
           \/ stage'[c] = stage[c] /\ task'[c].parent = task[c].parent
           \/ /\ stage[c] = "thread/start" => task[c].parent \notin Threads
              /\ stage'[c] = "thread/start" => task'[c].parent \notin Threads
    BY <1>1, <1>4, HostAssumption, Domains
  <2>3. QED
    BY <1>1, <1>2, <2>1, <2>2, SlotsKept
<1>5. QED
  BY <1>3, <1>4

\* A child that is recorded changes from one side of the account to the other.
LEMMA SlotsRecorded ==
  ASSUME TypeOK, MatchInv, TransitInv, SlotInv, NEW a \in Actors, ThreadStarted(a)
  PROVE  SlotInv'
<1>0. PICK p \in Threads \cup {NoThread}, new \in Threads \ DOMAIN depths :
        p = task[a].parent /\ new = reply[a].thread
  BY DEF ThreadStarted, Take, TakeOf, TransitInv, TypeOK, Task
<1>1. stage[a] = "thread/start" /\ born[new] = p
  BY <1>0 DEF ThreadStarted, Take, TakeOf, MatchInv, Matches
<1>2. /\ DOMAIN depths' = DOMAIN depths \cup {new}
      /\ UNCHANGED <<child_counts, born>>
  BY <1>0 DEF ThreadStarted, Take, TakeOf, server
<1>3. /\ stage'[a] # "thread/start"
      /\ task'[a].parent \in {NoThread, p}
      /\ \A b \in Actors \ {a} : stage'[b] = stage[b] /\ task'[b] = task[b]
  <2>1. CASE /\ Goto(a, "turn/start")
             /\ task' = [task EXCEPT ![a].target = new]
    BY <1>0, <2>1 DEF Goto, TypeOK
  <2>2. CASE Goto(a, Done(a)) /\ ForgetTask(a)
    BY <1>0, <2>2, DoneType DEF Goto, ForgetTask, TypeOK, NoTask
  <2>3. QED
    BY <1>0, <2>1, <2>2, Zenon DEF ThreadStarted
<1>4. task'[Main].parent = NoThread
  BY <1>0, <1>3, Domains DEF SlotInv
<1>5. CASE p = NoThread
  <2>1. \A q \in Threads : Starting(q)' = Starting(q)
    BY <1>0, <1>3, <1>5, HostAssumption, Domains DEF Starting
  <2>2. \A q \in Threads : Children(q)' = Children(q)
    BY <1>1, <1>2, <1>5, HostAssumption DEF Children
  <2>3. SlotsAccounted'
    BY <1>2, <2>1, <2>2 DEF SlotInv, SlotsAccounted
  <2>4. QED
    BY <1>2, <1>4, <2>3 DEF SlotInv
<1>6. CASE p # NoThread
  <2>1. p \in Threads /\ a \in Calls
    BY <1>0, <1>6 DEF SlotInv, Actors
  <2>2. \A q \in Threads \ {p} : Starting(q)' = Starting(q) /\ Children(q)' = Children(q)
    BY <1>0, <1>1, <1>2, <1>3, Domains, HostAssumption DEF Starting, Children
  <2>3. Starting(p)' = Starting(p) \ {a} /\ a \in Starting(p)
    BY <1>0, <1>1, <1>3, <2>1, Domains, HostAssumption DEF Starting
  <2>4. Children(p)' = Children(p) \cup {new} /\ new \notin Children(p)
    BY <1>1, <1>2 DEF Children
  <2>5. /\ Cardinality(Starting(p)') = Cardinality(Starting(p)) - 1
        /\ Cardinality(Children(p)') = Cardinality(Children(p)) + 1
        /\ Cardinality(Starting(p)) \in Nat /\ Cardinality(Children(p)) \in Nat
    <3>1. IsFiniteSet(Starting(p)) /\ IsFiniteSet(Children(p))
      BY SlotsFinite
    <3>2. Cardinality(Starting(p) \ {a}) = Cardinality(Starting(p)) - 1
      BY <2>3, <3>1, FS_RemoveElement
    <3>3. Cardinality(Children(p) \cup {new}) = Cardinality(Children(p)) + 1
      BY <2>4, <3>1, FS_AddElement
    <3>4. QED
      BY <2>3, <2>4, <3>1, <3>2, <3>3, FS_CardinalityType
  <2>6. child_counts'[p] = Cardinality(Starting(p)') + Cardinality(Children(p)')
    BY <1>2, <2>1, <2>5 DEF SlotInv, SlotsAccounted
  <2>7. SlotsAccounted'
    BY <1>2, <2>2, <2>6 DEF SlotInv, SlotsAccounted
  <2>8. QED
    BY <1>2, <1>4, <2>7 DEF SlotInv
<1>7. QED
  BY <1>5, <1>6

\* start_thread takes a slot only while the parent has one left.
LEMMA SlotsReserved ==
  ASSUME TypeOK, SlotInv, NEW c \in Calls, Reserve(c)
  PROVE  SlotInv'
<1>0. PICK p : p = task[c].parent
  OBVIOUS
<1>1. stage[c] = "reserve" /\ c \in Actors /\ UNCHANGED <<depths, task, born>>
  BY Domains DEF Reserve, ReserveIf, server
<1>2. CASE ~(p \in Threads /\ stage'[c] = "thread/start")
  <2>1. CASE UNCHANGED child_counts /\ Goto(c, "reply")
    <3>1. stage'[c] = "reply" /\ \A b \in Actors \ {c} : stage'[b] = stage[b]
      BY <1>1, <2>1 DEF Goto, TypeOK
    <3>2. QED
      BY <1>1, <2>1, <3>1, SlotsKept, Domains DEF SlotInv
  <2>2. CASE Goto(c, "thread/start") /\ child_counts' = [child_counts EXCEPT ![p] = @ + 1]
    <3>1. p \notin Threads /\ \A b \in Actors \ {c} : stage'[b] = stage[b]
      BY <1>1, <1>2, <2>2 DEF Goto, TypeOK
    <3>2. UNCHANGED child_counts
      BY <2>2, <3>1 DEF TypeOK
    <3>3. QED
      BY <1>0, <1>1, <3>1, <3>2, SlotsKept, Domains DEF SlotInv
  <2>3. QED
    BY <1>0, <2>1, <2>2, Zenon DEF Reserve, ReserveIf
<1>3. CASE p \in Threads /\ stage'[c] = "thread/start"
  <2>1. stage' # [stage EXCEPT ![c] = "reply"]
    BY <1>1, <1>3 DEF TypeOK
  <2>2. /\ child_counts[p] < MaxChildren
        /\ stage' = [stage EXCEPT ![c] = "thread/start"]
        /\ child_counts' = [child_counts EXCEPT ![p] = @ + 1]
    BY <1>0, <2>1, Zenon DEF Reserve, ReserveIf, Goto
  <2>3. \A b \in Actors \ {c} : stage'[b] = stage[b]
    BY <2>2 DEF TypeOK
  <2>4. \A q \in Threads : Children(q)' = Children(q)
    BY <1>1 DEF Children
  <2>5. \A q \in Threads \ {p} : Starting(q)' = Starting(q)
    BY <1>0, <1>1, <2>3, Domains DEF Starting
  <2>6. Starting(p)' = Starting(p) \cup {c} /\ c \notin Starting(p)
    BY <1>0, <1>1, <1>3, <2>3, Domains DEF Starting
  <2>7. /\ child_counts'[p] = child_counts[p] + 1
        /\ \A q \in Threads \ {p} : child_counts'[q] = child_counts[q]
        /\ \A q \in Threads : child_counts[q] \in Int
    BY <1>3, <2>2 DEF TypeOK
  <2>8. /\ Cardinality(Starting(p)') = Cardinality(Starting(p)) + 1
        /\ Cardinality(Starting(p)) \in Nat /\ Cardinality(Children(p)) \in Nat
    BY <2>6, SlotsFinite, FS_AddElement, FS_CardinalityType
  <2>9. child_counts'[p] = Cardinality(Starting(p)') + Cardinality(Children(p)')
    BY <1>3, <2>4, <2>7, <2>8 DEF SlotInv, SlotsAccounted
  <2>10. SlotsAccounted'
    BY <2>4, <2>5, <2>7, <2>9 DEF SlotInv, SlotsAccounted
  <2>11. \A q \in Threads : child_counts'[q] <= MaxChildren
    BY <1>3, <2>2, <2>7, HostAssumption DEF SlotInv
  <2>12. task'[Main].parent = NoThread
    BY <1>1 DEF SlotInv
  <2>13. QED
    BY <2>10, <2>11, <2>12 DEF SlotInv
<1>4. QED
  BY <1>2, <1>3

\* An actor that moves from and to a stage in which it holds no slot.
LEMMA SlotsMoved ==
  ASSUME SlotInv, NEW a \in Actors,
         \A b \in Actors \ {a} : stage'[b] = stage[b] /\ task'[b] = task[b],
         stage[a] = "thread/start" => a \notin Calls \/ task[a].parent \notin Threads,
         stage'[a] = "thread/start" => a \notin Calls \/ task'[a].parent \notin Threads,
         a = Main => task'[a].parent = NoThread,
         UNCHANGED <<depths, child_counts>>,
         \A t \in DOMAIN depths : born'[t] = born[t]
  PROVE  SlotInv'
<1>1. task'[Main].parent = NoThread
  BY Domains DEF SlotInv
<1>2. \A c \in Calls :
        \/ stage'[c] = stage[c] /\ task'[c].parent = task[c].parent
        \/ /\ stage[c] = "thread/start" => task[c].parent \notin Threads
           /\ stage'[c] = "thread/start" => task'[c].parent \notin Threads
  BY Domains
<1>3. QED
  BY <1>1, <1>2, SlotsKept

LEMMA SlotStep ==
  TypeOK /\ PendingInv /\ QueueInv /\ MatchInv /\ TransitInv /\ SlotInv /\ [Next]_vars
    => SlotInv'
<1> SUFFICES ASSUME TypeOK, PendingInv, QueueInv, MatchInv, TransitInv, SlotInv, [Next]_vars
             PROVE  SlotInv'
  OBVIOUS
<1>1. ASSUME UNCHANGED <<stage, task, depths, child_counts>>,
             \A t \in DOMAIN depths : born'[t] = born[t]
      PROVE  SlotInv'
  BY <1>1, SlotsKept DEF SlotInv
<1>2. ASSUME NEW a \in Actors, Send(a) PROVE SlotInv'
  BY <1>1, <1>2 DEF Send, host
<1>3. ASSUME NEW a \in Actors, SendFails(a) \/ Timeout(a) \/ Refused(a) PROVE SlotInv'
  <2>1. UNCHANGED born
    BY <1>3 DEF SendFails, Timeout, Refused, server
  <2>2. QED
    BY <1>3, <2>1, SlotsRaise DEF SendFails, Timeout, Refused
<1>4. ASSUME NEW a \in Actors, Accepted(a) PROVE SlotInv'
  <2>1. stage[a] # "thread/start"
    BY <1>4 DEF Accepted, Take, TakeOf, MatchInv, Matches
  <2>2. stage'[a] # "thread/start"
    BY <1>4, FollowingType DEF Accepted, Goto, TypeOK
  <2>3. a = Main => task'[a].parent = NoThread
    BY <1>4 DEF Accepted, ForgetTask, NoTask, TypeOK, SlotInv
  <2>4. UNCHANGED <<depths, child_counts, born>>
    BY <1>4 DEF Accepted, Take, TakeOf, server
  <2>5. \A b \in Actors \ {a} : stage'[b] = stage[b] /\ task'[b] = task[b]
    BY <1>4, OthersUntouched DEF Operate
  <2>6. QED
    BY <2>1, <2>2, <2>3, <2>4, <2>5, SlotsMoved
<1>5. ASSUME NEW a \in Actors, TurnStarted(a) \/ TurnCompletes(a) \/ TurnFails(a) PROVE SlotInv'
  <2>1. stage[a] # "thread/start" /\ stage'[a] # "thread/start"
    <3>1. CASE TurnStarted(a)
      BY <3>1 DEF TurnStarted, Take, TakeOf, Goto, MatchInv, Matches, TypeOK
    <3>2. CASE TurnCompletes(a) \/ TurnFails(a)
      <4>1. stage[a] = "turn" /\ stage' = [stage EXCEPT ![a] = Done(a)]
        BY <3>2 DEF TurnCompletes, TurnFails, LeaveTurn, Goto
      <4>2. QED
        BY <4>1, DoneType DEF TypeOK
    <3>3. QED
      BY <1>5, <3>1, <3>2
  <2>2. a = Main => task'[a].parent = NoThread
    BY <1>5
    DEF TurnStarted, TurnCompletes, TurnFails, LeaveTurn, ForgetTask, NoTask, TypeOK, SlotInv
  <2>3. UNCHANGED <<depths, child_counts, born>>
    BY <1>5 DEF TurnStarted, Take, TakeOf, TurnCompletes, TurnFails, LeaveTurn, host, server
  <2>4. \A b \in Actors \ {a} : stage'[b] = stage[b] /\ task'[b] = task[b]
    BY <1>5, OthersUntouched DEF Operate
  <2>5. QED
    BY <2>1, <2>2, <2>3, <2>4, SlotsMoved
<1>6. ASSUME NEW c \in Calls, TakeCall(c) PROVE SlotInv'
  <2>1. c \in Actors /\ c # Main /\ 1 \in 1 .. Len(queue) /\ c = queue[1]
    BY <1>6, Domains DEF TakeCall, TypeOK
  <2>2. stage[c] = "queued"
    BY <2>1 DEF QueueInv
  <2>3. \A b \in Actors \ {c} : stage'[b] = stage[b]
    BY <1>6, <2>1, OthersKeepStage DEF TakeCall
  <2>4. stage'[c] = "thread/start" => task'[c].parent \notin Threads
    BY <1>6, <2>1, HostAssumption DEF TakeCall, Goto, First, TypeOK, Task, ToolNames
  <2>5. QED
    BY <1>6, <2>1, <2>2, <2>3, <2>4, SlotsMoved DEF TakeCall, host, server
<1>7. ASSUME NEW c \in Calls, ReplyCall(c) PROVE SlotInv'
  <2>1. c \in Actors /\ c # Main /\ stage[c] = "reply" /\ stage'[c] = "idle"
    BY <1>7, Domains DEF ReplyCall, Goto, TypeOK
  <2>2. \A b \in Actors \ {c} : stage'[b] = stage[b] /\ task'[b] = task[b]
    BY <1>7, <2>1, OthersKeepStage, OthersKeepTask DEF ReplyCall
  <2>3. QED
    BY <1>7, <2>1, <2>2, SlotsMoved DEF ReplyCall, host
<1>8. ASSUME NEW op \in Operations, NEW target \in Targets(op), NEW prompt \in Prompts(op),
             Begin(op, target, prompt)
      PROVE  SlotInv'
  <2>1. /\ task'[Main].parent = NoThread
        /\ \A b \in Actors \ {Main} : stage'[b] = stage[b] /\ task'[b] = task[b]
    BY <1>8, Domains, OthersKeepStage DEF Begin, TypeOK
  <2>2. QED
    BY <1>8, <2>1, Domains, SlotsMoved DEF Begin, host, server
<1>9. ASSUME Shutdown PROVE SlotInv'
  <2>1. \A b \in Actors \ {Main} : stage'[b] = stage[b]
    BY <1>9, Domains, OthersKeepStage DEF Shutdown
  <2>2. QED
    BY <1>9, <2>1, Domains, SlotsMoved DEF Shutdown, SlotInv, host, server
<1>10. ASSUME Terminate \/ Exit PROVE SlotInv'
  BY <1>1, <1>10 DEF Terminate, Exit, host, actors
<1>11. ASSUME CancelQueue PROVE SlotInv'
  <2>1. task'[Main].parent = NoThread
    BY <1>11, Domains DEF CancelQueue, SlotInv
  <2>2. \A c \in Calls :
          \/ stage'[c] = stage[c] /\ task'[c].parent = task[c].parent
          \/ stage[c] # "thread/start" /\ stage'[c] # "thread/start"
    BY <1>11, Domains DEF CancelQueue
  <2>3. QED
    BY <1>11, <2>1, <2>2, SlotsKept DEF CancelQueue, host, server
<1>12. ASSUME (\E id \in Ids : ReadAnswer(id)) \/ (\E u \in Turns : ReadTurnCompleted(u))
       PROVE  SlotInv'
  BY <1>1, <1>12 DEF ReadAnswer, ReadTurnCompleted, host, actors
<1>13. ASSUME NEW c \in Calls, ReadCall(c) PROVE SlotInv'
  <2>1. c \in Actors /\ c # Main /\ stage[c] = "sent" /\ stage'[c] = "queued"
    BY <1>13, Domains DEF ReadCall, Goto, TypeOK
  <2>2. \A b \in Actors \ {c} : stage'[b] = stage[b]
    BY <1>13, <2>1, OthersKeepStage DEF ReadCall
  <2>3. QED
    BY <1>13, <2>1, <2>2, SlotsMoved DEF ReadCall, host, server
<1>14. ASSUME Close(Actors) PROVE SlotInv'
  <2>1. task'[Main].parent = NoThread
    BY <1>14, Domains DEF Close, SlotInv, NoTask
  <2>2. \A c \in Calls :
          \/ stage'[c] = stage[c] /\ task'[c].parent = task[c].parent
          \/ stage[c] # "thread/start" /\ stage'[c] # "thread/start"
    BY <1>14, Domains DEF Close
  <2>3. QED
    BY <1>14, <2>1, <2>2, SlotsKept DEF Close, host
<1>15. ASSUME NEW id \in Ids, StartThread(id) PROVE SlotInv'
  <2>1. NextThread \in Threads \ DOMAIN depths
    BY <1>15, NextThreadIsNew DEF StartThread, TypeOK, TransitInv
  <2>2. \A t \in DOMAIN depths : born'[t] = born[t]
    BY <1>15, <2>1 DEF StartThread, TypeOK
  <2>3. QED
    BY <1>1, <1>15, <2>2 DEF StartThread, host, actors
<1>16. ASSUME NEW id \in Ids, NEW u \in Turns, StartTurn(id, u) \/ EndTurn(u) PROVE SlotInv'
  BY <1>1, <1>16 DEF StartTurn, EndTurn, host, actors
<1>17. ASSUME NEW id \in Ids, Accept(id) \/ Refuse(id) \/ Ignore(id) PROVE SlotInv'
  BY <1>1, <1>17 DEF Accept, Refuse, Ignore, host, actors
<1>18. ASSUME NEW u \in Turns, NEW c \in Calls, NEW tool \in Tools, NEW target \in Targets(tool),
              MakeCall(u, c, tool, target)
       PROVE  SlotInv'
  <2>1. c \in Actors /\ c # Main /\ stage[c] = "idle" /\ stage'[c] = "sent"
    BY <1>18, Domains DEF MakeCall, Goto, TypeOK
  <2>2. \A b \in Actors \ {c} : stage'[b] = stage[b] /\ task'[b] = task[b]
    BY <1>18, <2>1, OthersKeepStage DEF MakeCall, TypeOK
  <2>3. QED
    BY <1>18, <2>1, <2>2, SlotsMoved DEF MakeCall, host
<1>19. ASSUME NEW a \in Actors, Operate(a) PROVE SlotInv'
  BY <1>2, <1>3, <1>4, <1>5, <1>19, SlotsRecorded DEF Operate
<1>20. ASSUME MainThread PROVE SlotInv'
  BY <1>8, <1>9, <1>10, <1>11, <1>19, <1>20, Domains DEF MainThread
<1>21. ASSUME Reader PROVE SlotInv'
  BY <1>12, <1>13, <1>14, <1>21 DEF Reader, ReadEof, ReaderFails
<1>22. ASSUME NEW u \in Turns, EndTurn(u) PROVE SlotInv'
  BY <1>1, <1>22 DEF EndTurn, host, actors
<1>23. ASSUME AppServer PROVE SlotInv'
  BY <1>10, <1>15, <1>16, <1>17, <1>18, <1>22, <1>23 DEF AppServer, Handles
<1>24. ASSUME NEW c \in Calls, Worker(c) PROVE SlotInv'
  BY <1>6, <1>7, <1>19, <1>24, SlotsReserved, Domains DEF Worker
<1>25. ASSUME UNCHANGED vars PROVE SlotInv'
  BY <1>1, <1>25 DEF vars, host, actors, server
<1>26. QED
  BY <1>20, <1>21, <1>23, <1>24, <1>25 DEF Next

-----------------------------------------------------------------------------
(* What the thread host guarantees *)

\* The inductive invariant holds in every reachable state.
THEOREM Invariant == Spec => []IInv
<1>1. Init => IInv
  BY TypeInit, PendingInit, QueueInit, MatchInit, TransitInit, SlotInit DEF IInv
<1>2. IInv /\ [Next]_vars => IInv'
  BY TypeStep, PendingStep, QueueStep, MatchStep, TransitStep, SlotStep DEF IInv
<1>3. QED
  BY <1>1, <1>2, PTL DEF Spec

\* Every variable of the thread host keeps its type.
THEOREM TypeCorrect == Spec => []TypeOK
<1>1. IInv => TypeOK
  BY DEF IInv
<1>2. QED
  BY <1>1, Invariant, PTL

\* No operation of the thread host ever takes the answer to another's request,
\* nor one that came after it gave its request up.
THEOREM OperationsTakeTheirAnswers == Spec => []AnswersMatch
<1>1. IInv => AnswersMatch
  BY DEF IInv, PendingInv, MatchInv, Matches, AnswersMatch
<1>2. QED
  BY <1>1, Invariant, PTL

\* start_thread's count of children is exact, whatever times out, is refused or
\* dies.
THEOREM SlotsAreAccounted == Spec => []SlotsAccounted
<1>1. IInv => SlotsAccounted
  BY DEF IInv, SlotInv
<1>2. QED
  BY <1>1, Invariant, PTL

\* No thread gets more than max_children children, however many of its tool
\* calls are in work at once.
THEOREM ChildrenAreBounded == Spec => []ChildrenBounded
<1>1. IInv => ChildrenBounded
  <2> SUFFICES ASSUME IInv, NEW p \in Threads
               PROVE  Cardinality(Children(p)) <= MaxChildren
    BY DEF ChildrenBounded
  <2>1. Cardinality(Starting(p)) \in Nat /\ Cardinality(Children(p)) \in Nat
    BY SlotsFinite, FS_CardinalityType DEF IInv
  <2>2. /\ child_counts[p] = Cardinality(Starting(p)) + Cardinality(Children(p))
        /\ child_counts[p] <= MaxChildren
    BY DEF IInv, SlotInv, SlotsAccounted
  <2>3. QED
    BY <2>1, <2>2, HostAssumption
<1>2. QED
  BY <1>1, Invariant, PTL

\* When the reader ends, no operation is left in a request that it had to wake:
\* every one that waits is still pending, or its answer has come.
THEOREM ClosedIsNoticed == Spec => ClosedFailsAll
<1>1. IInv /\ [Next]_vars =>
        [closed' # closed =>
           \A a \in Actors : wait'[a] # NoId => reply'[a] # NoAnswer]_vars
  <2> SUFFICES ASSUME IInv, [Next]_vars, closed' # closed,
                      NEW a \in Actors, wait'[a] # NoId
               PROVE  reply'[a] # NoAnswer
    OBVIOUS
  <2>1. Close(Actors)
    BY DEF Next, vars, MainThread, Operate, Send, SendFails, Timeout, Raise, RaiseWith,
           Accepted, ThreadStarted, TurnStarted, Refused, Take, TakeOf, TurnCompletes,
           TurnFails, LeaveTurn, Worker, TakeCall, Reserve, ReserveIf, ReplyCall, Begin,
           Shutdown, Terminate, CancelQueue, Reader, ReadAnswer, ReadTurnCompleted,
           ReadCall, ReadEof, ReaderFails, AppServer, Handles, StartThread, StartTurn,
           Accept, Refuse, Ignore, MakeCall, EndTurn, Exit, client
  <2>2. /\ wait[a] \in Ids
        /\ pending[wait[a]] = a \/ reply[a] # NoAnswer
    BY <2>1 DEF Close, IInv, PendingInv, TypeOK
  <2>3. QED
    BY <2>1, <2>2, AnswerKinds DEF Close
<1>2. QED
  BY <1>1, Invariant, PTL DEF Spec, ClosedFailsAll
=============================================================================

----------------------- MODULE ThreadHostLineageProofs -----------------------
(***************************************************************************)
(* TLAPS proofs about the turns the thread host waits for and about the    *)
(* threads that threads start, from the invariant of ThreadHostProofs.     *)
(***************************************************************************)
EXTENDS ThreadHostProofs

-----------------------------------------------------------------------------
(* Turns *)

\* Turns for which a wait can still succeed; all, once the app-server is gone.
Settled ==
  {u \in Turns : u \in completed \/ u \in ended \/ running[u] # NoThread \/ ~alive \/ closed}

\* Who resumes a thread, or starts a turn of it, names a thread.
TargetInv ==
  /\ \A a \in Actors :
       task[a].op = "send_message_to_thread" \/ stage[a] \in {"thread/resume", "turn/start"}
         => task[a].target # NoThread
  /\ \A id \in Ids : asked[id].method = "turn/start" => asked[id].thread # NoThread

\* Every turn on its way to an actor, or awaited by one, is settled.
SettledInv ==
  /\ \A a \in Actors : stage[a] = "turn" <=> turn[a] # NoTurn
  /\ \A a \in Actors : reply[a].kind = "turn" <=> reply[a].turn # NoTurn
  /\ \A id \in Ids : answer[id].kind = "turn" <=> answer[id].turn # NoTurn
  /\ \A a \in Actors : turn[a] # NoTurn => turn[a] \in Settled
  /\ \A a \in Actors : reply[a].turn # NoTurn => reply[a].turn \in Settled
  /\ \A id \in Ids : answer[id].turn # NoTurn => answer[id].turn \in Settled

\* No turn is awaited, or on its way, twice: wait_turn of one actor does not
\* take the completion another waits for.
OwnTurnInv ==
  /\ \A a, b \in Actors : turn[a] # NoTurn /\ turn[a] = turn[b] => a = b
  /\ \A a, b \in Actors : reply[a].turn # NoTurn /\ reply[a].turn = reply[b].turn => a = b
  /\ \A i, j \in Ids : answer[i].turn # NoTurn /\ answer[i].turn = answer[j].turn => i = j
  /\ \A a, b \in Actors : turn[a] # NoTurn => turn[a] # reply[b].turn
  /\ \A a \in Actors, id \in Ids : turn[a] # NoTurn => turn[a] # answer[id].turn
  /\ \A a \in Actors, id \in Ids : reply[a].turn # NoTurn => reply[a].turn # answer[id].turn

-----------------------------------------------------------------------------
(* Lineages *)

Recorded == DOMAIN depths

\* A thread may have one more generation below it.
MayHaveChildren(p) == p \in Recorded /\ depths[p] + 1 <= MaxDepth

\* Turns run in recorded threads, and operations name such threads only.
RecordedInv ==
  /\ \A u \in Turns : running[u] # NoThread => running[u] \in Recorded
  /\ \A a \in Actors :
       /\ task[a].parent # NoThread => task[a].parent \in Recorded
       /\ task[a].target # NoThread => task[a].target \in Recorded
  /\ \A id \in Ids : asked[id].thread # NoThread => asked[id].thread \in Recorded

\* A child is started only below a thread that may have one, its depth is
\* computed before it exists and recorded once its id is known.
LineageInv ==
  /\ \A a \in Actors : stage[a] = "thread/start" /\ task[a].parent # NoThread =>
       MayHaveChildren(task[a].parent) /\ depth[a] = depths[task[a].parent] + 1
  /\ \A id \in Ids : asked[id].method = "thread/start" /\ asked[id].parent # NoThread =>
       MayHaveChildren(asked[id].parent)
  /\ \A t \in Threads : born[t] # NoThread =>
       /\ MayHaveChildren(born[t])
       /\ t \in Recorded => depths[t] = depths[born[t]] + 1

-----------------------------------------------------------------------------
(* Steps *)

\* An operation that raised forgets its task and is in no request; nobody else
\* moves.
LEMMA RaiseLeaves ==
  ASSUME TypeOK, NEW a \in Actors, NEW fatal, Raise(a, fatal)
  PROVE  /\ stage'[a] \in {"closing", "reply", "idle"} /\ task'[a] = NoTask
         /\ \A b \in Actors \ {a} :
              stage'[b] = stage[b] /\ task'[b] = task[b] /\ depth'[b] = depth[b]
<1>1. /\ stage' = [stage EXCEPT ![a] = IF a = Main /\ (fatal \/ stage[a] = "initialize")
                                         THEN "closing" ELSE Done(a)]
      /\ task' = [task EXCEPT ![a] = NoTask] /\ depth' = [depth EXCEPT ![a] = 0]
  BY Zenon DEF Raise, RaiseWith, Goto, ForgetTask
<1>2. Done(a) \in {"reply", "idle", "closing"}
  BY DoneType
<1>3. QED
  BY <1>1, <1>2 DEF TypeOK

LEMMA TargetInit == Init => TargetInv
  BY DEF Init, TargetInv, NoTask, NoRequest

\* Who needs a target after a step has one before it, or gets it by the step.
LEMMA TargetKept ==
  ASSUME TargetInv,
         \A a \in Actors :
           \/ task'[a] = task[a] /\ stage'[a] = stage[a]
           \/ task'[a] = task[a] /\ stage'[a] \notin {"thread/resume", "turn/start"}
           \/ task'[a] = NoTask /\ stage'[a] \notin {"thread/resume", "turn/start"}
           \/ task'[a].target # NoThread,
         \A id \in Ids : asked'[id] \in {asked[id], NoRequest}
  PROVE  TargetInv'
  BY DEF TargetInv, NoTask, NoRequest

LEMMA TargetsGiven ==
  ASSUME TypeOK, NEW t \in Targets("send_message_to_thread")
  PROVE  t # NoThread
  BY HostAssumption DEF Targets, Nameable, TypeOK

LEMMA TargetStep == IInv /\ TargetInv /\ [Next]_vars => TargetInv'
<1> SUFFICES ASSUME IInv, TargetInv, [Next]_vars PROVE TargetInv'
  OBVIOUS
<1> USE DEF IInv
<1>1. ASSUME NEW a \in Actors, Send(a) PROVE TargetInv'
  <2>1. PICK id \in Ids : asked' = [asked EXCEPT ![id] =
               [method |-> stage[a], thread |-> task[a].target, parent |-> task[a].parent]]
    BY <1>1 DEF Send
  <2>2. /\ UNCHANGED <<stage, task>>
        /\ asked'[id].method = stage[a] /\ asked'[id].thread = task[a].target
        /\ \A i \in Ids : i # id => asked'[i] = asked[i]
    BY <1>1, <2>1 DEF Send, TypeOK
  <2>3. QED
    BY <2>2 DEF TargetInv
<1>2. ASSUME NEW a \in Actors, SendFails(a) \/ Timeout(a) \/ Refused(a) PROVE TargetInv'
  <2>1. \E fatal \in BOOLEAN : Raise(a, fatal)
    BY <1>2 DEF SendFails, Timeout, Refused
  <2>2. UNCHANGED asked
    BY <1>2 DEF SendFails, Timeout, Refused, server
  <2>3. QED
    BY <2>1, <2>2, RaiseLeaves, TargetKept
<1>3. ASSUME NEW a \in Actors, Accepted(a) PROVE TargetInv'
  <2>1. \A b \in Actors \ {a} : stage'[b] = stage[b] /\ task'[b] = task[b]
    BY <1>3, OthersUntouched DEF Operate
  <2>2. UNCHANGED asked /\ stage'[a] = Following(a)
    BY <1>3 DEF Accepted, Take, TakeOf, Goto, TypeOK, server
  <2>3. CASE ForgetTask(a) /\ Following(a) = Done(a)
    <3>1. task'[a] = NoTask
      BY <2>3 DEF ForgetTask, TypeOK
    <3>2. stage'[a] \notin {"thread/resume", "turn/start"}
      BY <2>2, <2>3, DoneType
    <3>3. QED
      BY <2>1, <2>2, <3>1, <3>2, TargetKept
  <2>4. CASE UNCHANGED task
    <3>1. stage'[a] = "turn/start" => stage[a] = "thread/resume"
      BY <2>2, DoneType DEF Following
    <3>2. stage'[a] # "thread/resume"
      BY <2>2, FollowingType
    <3>3. QED
      BY <2>1, <2>2, <2>4, <3>1, <3>2 DEF TargetInv
  <2>5. QED
    BY <1>3, <2>3, <2>4, Zenon DEF Accepted
<1>4. ASSUME NEW a \in Actors, ThreadStarted(a) PROVE TargetInv'
  <2>1. \A b \in Actors \ {a} : stage'[b] = stage[b] /\ task'[b] = task[b]
    BY <1>4, OthersUntouched DEF Operate
  <2>2. UNCHANGED asked /\ reply[a].thread \in Threads
    BY <1>4 DEF ThreadStarted, Take, TakeOf, TransitInv, TypeOK, server
  <2>3. CASE task' = [task EXCEPT ![a].target = reply[a].thread]
    <3>1. task'[a].target = reply[a].thread
      BY <2>3 DEF TypeOK, Task
    <3>2. QED
      BY <2>1, <2>2, <3>1, HostAssumption, TargetKept
  <2>4. CASE Goto(a, Done(a)) /\ ForgetTask(a)
    <3>1. task'[a] = NoTask /\ stage'[a] = Done(a)
      BY <2>4 DEF Goto, ForgetTask, TypeOK
    <3>2. QED
      BY <2>1, <2>2, <3>1, DoneType, TargetKept
  <2>5. QED
    BY <1>4, <2>3, <2>4, Zenon DEF ThreadStarted
<1>5. ASSUME NEW a \in Actors, TurnStarted(a) PROVE TargetInv'
  <2>1. \A b \in Actors \ {a} : stage'[b] = stage[b] /\ task'[b] = task[b]
    BY <1>5, OthersUntouched DEF Operate
  <2>2. UNCHANGED asked /\ stage'[a] = "turn" /\ task'[a] = NoTask
    BY <1>5 DEF TurnStarted, Take, TakeOf, Goto, ForgetTask, TypeOK, server
  <2>3. QED
    BY <2>1, <2>2, TargetKept
<1>6. ASSUME NEW a \in Actors, TurnCompletes(a) \/ TurnFails(a) PROVE TargetInv'
  <2>1. \A b \in Actors \ {a} : stage'[b] = stage[b]
    BY <1>6, OthersKeepStage DEF TurnCompletes, TurnFails, LeaveTurn
  <2>2. UNCHANGED <<asked, task>> /\ stage'[a] = Done(a)
    BY <1>6 DEF TurnCompletes, TurnFails, LeaveTurn, Goto, TypeOK, server
  <2>3. QED
    BY <2>1, <2>2, DoneType, TargetKept
<1>7. ASSUME NEW c \in Calls, TakeCall(c) PROVE TargetInv'
  <2>1. /\ c \in Actors /\ stage' = [stage EXCEPT ![c] = First(task[c])]
        /\ UNCHANGED <<task, asked>>
    BY <1>7, Domains DEF TakeCall, Goto, server
  <2>2. stage'[c] = First(task[c]) /\ \A b \in Actors \ {c} : stage'[b] = stage[b]
    BY <2>1 DEF TypeOK
  <2>3. /\ First(task[c]) # "turn/start"
        /\ First(task[c]) = "thread/resume" => task[c].op = "send_message_to_thread"
    BY <2>1 DEF First, TypeOK, Task, ToolNames
  <2>4. QED
    BY <2>1, <2>2, <2>3 DEF TargetInv
<1>8. ASSUME NEW c \in Calls, Reserve(c) PROVE TargetInv'
  <2>1. /\ c \in Actors /\ UNCHANGED <<task, asked>>
        /\ Goto(c, "thread/start") \/ Goto(c, "reply")
    BY <1>8, Domains, Zenon DEF Reserve, ReserveIf, server
  <2>2. /\ stage'[c] \in {"thread/start", "reply"}
        /\ \A b \in Actors \ {c} : stage'[b] = stage[b]
    BY <2>1 DEF Goto, TypeOK
  <2>3. QED
    BY <2>1, <2>2, TargetKept
<1>9. ASSUME NEW c \in Calls, ReplyCall(c) PROVE TargetInv'
  <2>1. /\ c \in Actors /\ stage'[c] = "idle" /\ task'[c] = NoTask /\ UNCHANGED asked
        /\ \A b \in Actors \ {c} : stage'[b] = stage[b] /\ task'[b] = task[b]
    BY <1>9, Domains DEF ReplyCall, Goto, ForgetTask, TypeOK
  <2>2. QED
    BY <2>1, TargetKept
<1>10. ASSUME NEW op \in Operations, NEW target \in Targets(op), NEW prompt \in Prompts(op),
              Begin(op, target, prompt)
       PROVE  TargetInv'
  <2>1. /\ task'[Main] = [op |-> op, parent |-> NoThread, target |-> target, prompt |-> prompt]
        /\ stage'[Main] = First(task'[Main]) /\ UNCHANGED asked
        /\ \A b \in Actors \ {Main} : stage'[b] = stage[b] /\ task'[b] = task[b]
    BY <1>10, Domains DEF Begin, Goto, TypeOK, server
  <2>2. op \in ToolNames
    BY HostAssumption
  <2>3. CASE op = "send_message_to_thread"
    BY <2>1, <2>3, TargetsGiven, TargetKept
  <2>4. CASE op # "send_message_to_thread"
    <3>1. stage'[Main] \notin {"thread/resume", "turn/start"}
      BY <2>1, <2>2, <2>4 DEF First, ToolNames
    <3>2. task'[Main].op # "send_message_to_thread"
      BY <2>1, <2>4
    <3>3. QED
      BY <2>1, <3>1, <3>2 DEF TargetInv
  <2>5. QED
    BY <2>3, <2>4
<1>11. ASSUME Shutdown PROVE TargetInv'
  <2>1. /\ stage'[Main] = "closing" /\ UNCHANGED <<task, asked>>
        /\ \A b \in Actors \ {Main} : stage'[b] = stage[b]
    BY <1>11, Domains DEF Shutdown, Goto, TypeOK, server
  <2>2. QED
    BY <2>1, TargetKept
<1>12. ASSUME Terminate \/ Exit PROVE TargetInv'
  BY <1>12, TargetKept DEF Terminate, Exit, Die, actors
<1>13. ASSUME CancelQueue PROVE TargetInv'
  BY <1>13, TargetKept DEF CancelQueue, server
<1>14. ASSUME NEW c \in Calls, ReadCall(c) PROVE TargetInv'
  <2>1. /\ c \in Actors /\ stage'[c] = "queued" /\ UNCHANGED <<task, asked>>
        /\ \A b \in Actors \ {c} : stage'[b] = stage[b]
    BY <1>14, Domains DEF ReadCall, Goto, TypeOK, server
  <2>2. QED
    BY <2>1, TargetKept
<1>15. ASSUME Close(Actors) PROVE TargetInv'
  BY <1>15, TargetKept DEF Close
<1>16. ASSUME NEW u \in Turns, NEW c \in Calls, NEW tool \in Tools, NEW target \in Targets(tool),
              MakeCall(u, c, tool, target)
       PROVE  TargetInv'
  <2>1. /\ c \in Actors /\ stage'[c] = "sent" /\ UNCHANGED asked
        /\ task'[c] = [op |-> tool, parent |-> running[u], target |-> target, prompt |-> TRUE]
        /\ \A b \in Actors \ {c} : stage'[b] = stage[b] /\ task'[b] = task[b]
    BY <1>16, Domains DEF MakeCall, Goto, TypeOK
  <2>2. tool = "send_message_to_thread" => target # NoThread
    BY TargetsGiven
  <2>3. task'[c].op = tool /\ task'[c].target = target
    BY <2>1
  <2>4. QED
    BY <2>1, <2>2, <2>3 DEF TargetInv
<1>17. ASSUME UNCHANGED <<stage, task>>, \A id \in Ids : asked'[id] \in {asked[id], NoRequest}
       PROVE  TargetInv'
  BY <1>17, TargetKept
<1>18. ASSUME NEW id \in Ids, Handles(id) PROVE TargetInv'
  BY <1>17, <1>18
  DEF Handles, StartThread, StartTurn, Accept, Refuse, Ignore, Answers, actors, TypeOK
<1>19. ASSUME \/ \E id \in Ids : ReadAnswer(id)
              \/ \E u \in Turns : ReadTurnCompleted(u) \/ EndTurn(u)
              \/ UNCHANGED vars
       PROVE  TargetInv'
  BY <1>17, <1>19 DEF ReadAnswer, ReadTurnCompleted, EndTurn, vars, actors, server
<1>20. ASSUME NEW a \in Actors, Operate(a) PROVE TargetInv'
  BY <1>1, <1>2, <1>3, <1>4, <1>5, <1>6, <1>20 DEF Operate
<1>21. ASSUME MainThread PROVE TargetInv'
  BY <1>10, <1>11, <1>12, <1>13, <1>20, <1>21, Domains DEF MainThread
<1>22. ASSUME Reader PROVE TargetInv'
  BY <1>14, <1>15, <1>19, <1>22 DEF Reader, ReadEof, ReaderFails
<1>23. ASSUME AppServer PROVE TargetInv'
  BY <1>12, <1>16, <1>18, <1>19, <1>23 DEF AppServer
<1>24. ASSUME NEW c \in Calls, Worker(c) PROVE TargetInv'
  BY <1>7, <1>8, <1>9, <1>20, <1>24, Domains DEF Worker
<1>25. QED
  BY <1>19, <1>21, <1>22, <1>23, <1>24 DEF Next

-----------------------------------------------------------------------------
(* Turns on their way to the actors that wait for them *)

LEMMA AnswerTurns ==
  /\ NoAnswer.turn = NoTurn /\ Failed.turn = NoTurn /\ Ok.turn = NoTurn
  /\ \A t : NewThread(t).turn = NoTurn
  BY DEF NoAnswer, Failed, Ok, NewThread

TurnInv == SettledInv /\ OwnTurnInv

LEMMA TurnInit == Init => TurnInv
  BY AnswerKinds, AnswerTurns DEF Init, TurnInv, SettledInv, OwnTurnInv

\* No answer with a turn is new and nobody begins or ends a wait for a turn.
LEMMA TurnKept ==
  ASSUME TurnInv,
         UNCHANGED turn,
         \A a \in Actors : stage'[a] = "turn" <=> stage[a] = "turn",
         \A a \in Actors : reply'[a] # reply[a] =>
           reply'[a].turn = NoTurn /\ reply'[a].kind # "turn",
         \A id \in Ids : answer'[id] # answer[id] =>
           answer'[id].turn = NoTurn /\ answer'[id].kind # "turn",
         Settled \subseteq Settled',
         turn \in [Actors -> Turns \cup {NoTurn}], reply \in [Actors -> Answer],
         answer \in [Ids -> Answer]
  PROVE  TurnInv'
<1>1. /\ \A a \in Actors : turn[a] \in Turns \cup {NoTurn} /\ reply[a].turn \in Turns \cup {NoTurn}
      /\ \A id \in Ids : answer[id].turn \in Turns \cup {NoTurn}
  BY DEF Answer
<1>2. SettledInv'
  BY <1>1 DEF TurnInv, SettledInv
<1>3. OwnTurnInv'
  BY DEF TurnInv, OwnTurnInv
<1>4. QED
  BY <1>2, <1>3 DEF TurnInv

\* One actor moves and neither waits for a turn before nor after.
LEMMA TurnMoved ==
  ASSUME TypeOK, TurnInv, NEW a \in Actors,
         stage[a] # "turn", stage'[a] # "turn",
         \A b \in Actors \ {a} : stage'[b] = stage[b],
         UNCHANGED <<turn, completed, answer, ended, running, alive, closed>>,
         \A b \in Actors : reply'[b] \in {reply[b], NoAnswer}
  PROVE  TurnInv'
<1>1. Settled \subseteq Settled'
  BY DEF Settled
<1>2. QED
  BY <1>1, TurnKept, AnswerKinds, AnswerTurns DEF TypeOK

\* TurnStarted: the turn moves from the answer to the actor.
LEMMA TurnTaken ==
  ASSUME IInv, TurnInv, NEW a \in Actors, TurnStarted(a)
  PROVE  TurnInv'
<1> USE DEF IInv
<1>1. /\ reply[a].kind = "turn" /\ reply[a].turn \in Turns \cup {NoTurn} /\ reply[a].turn # NoTurn
      /\ turn'[a] = reply[a].turn /\ reply'[a] = NoAnswer /\ stage'[a] = "turn"
  BY DEF TurnStarted, Take, TakeOf, Goto, TypeOK, Answer, TurnInv, SettledInv
<1>2. /\ \A b \in Actors \ {a} : turn'[b] = turn[b] /\ reply'[b] = reply[b] /\ stage'[b] = stage[b]
      /\ UNCHANGED <<completed, answer, ended, running, alive, closed>>
  BY DEF TurnStarted, Take, TakeOf, Goto, TypeOK, client, server
<1>3. Settled' = Settled
  BY <1>2 DEF Settled
<1>4. SettledInv'
  BY <1>1, <1>2, <1>3, AnswerKinds, AnswerTurns DEF TurnInv, SettledInv
<1>5. OwnTurnInv'
  BY <1>1, <1>2, AnswerTurns DEF TurnInv, OwnTurnInv
<1>6. QED
  BY <1>4, <1>5 DEF TurnInv

\* wait_turn takes a completion that is its own, or gives its wait up.
LEMMA TurnLeft ==
  ASSUME IInv, TurnInv, NEW a \in Actors, TurnCompletes(a) \/ TurnFails(a)
  PROVE  TurnInv'
<1> USE DEF IInv
<1>1. /\ stage[a] = "turn" /\ stage'[a] # "turn" /\ turn'[a] = NoTurn /\ turn[a] # NoTurn
      /\ \A b \in Actors \ {a} : turn'[b] = turn[b] /\ stage'[b] = stage[b]
      /\ UNCHANGED <<reply, answer, ended, running, alive, closed>>
  <2>1. stage[a] = "turn" /\ stage' = [stage EXCEPT ![a] = Done(a)]
    BY DEF TurnCompletes, TurnFails, LeaveTurn, Goto
  <2>2. stage'[a] # "turn" /\ \A b \in Actors \ {a} : stage'[b] = stage[b]
    BY <2>1, DoneType DEF TypeOK
  <2>3. QED
    BY <2>1, <2>2 DEF TurnCompletes, TurnFails, LeaveTurn, TypeOK, TurnInv, SettledInv,
        client, server
<1>2. completed \ {turn[a]} \subseteq completed'
  BY DEF TurnCompletes, TurnFails, LeaveTurn, client
<1>3. Settled \ {turn[a]} \subseteq Settled'
  BY <1>1, <1>2 DEF Settled
<1>4. SettledInv'
  BY <1>1, <1>3 DEF TurnInv, SettledInv, OwnTurnInv
<1>5. OwnTurnInv'
  BY <1>1 DEF TurnInv, OwnTurnInv
<1>6. QED
  BY <1>4, <1>5 DEF TurnInv

\* The reader hands an answer over to the actor that waits for it, if any does.
LEMMA TurnHandedOver ==
  ASSUME IInv, TurnInv, NEW id \in Ids, ReadAnswer(id)
  PROVE  TurnInv'
<1> USE DEF IInv
<1>1. /\ \A a \in Actors : reply'[a] = IF a = pending[id] THEN answer[id] ELSE reply[a]
      /\ \A i \in Ids : answer'[i] = IF i = id THEN NoAnswer ELSE answer[i]
      /\ UNCHANGED <<stage, turn, completed, ended, running, alive, closed>>
  BY HostAssumption DEF ReadAnswer, TypeOK
<1>2. Settled' = Settled
  BY <1>1 DEF Settled
<1>3. SettledInv'
  BY <1>1, <1>2, AnswerKinds, AnswerTurns DEF TurnInv, SettledInv
<1>4. OwnTurnInv'
  BY <1>1, AnswerTurns DEF TurnInv, OwnTurnInv
<1>5. QED
  BY <1>3, <1>4 DEF TurnInv

\* The app-server numbers a turn that nobody holds.
LEMMA TurnBegun ==
  ASSUME IInv, TargetInv, TurnInv, NEW id \in Ids, NEW u \in Turns, StartTurn(id, u)
  PROVE  TurnInv'
<1> USE DEF IInv
<1>1. /\ \A i \in Ids : answer'[i] = IF i = id /\ ~closed THEN NewTurn(u) ELSE answer[i]
      /\ \A v \in Turns : running'[v] = IF v = u THEN asked[id].thread ELSE running[v]
      /\ UNCHANGED <<stage, turn, reply, completed, ended, alive, closed>>
      /\ asked[id].thread # NoThread
  BY DEF StartTurn, Answers, TypeOK, TargetInv, client, actors
<1>2. /\ FreshTurn(u) /\ u # NoTurn
      /\ NewTurn(u).turn = u /\ NewTurn(u).kind = "turn"
  BY AnswerKinds, HostAssumption DEF StartTurn
<1>3. /\ Settled \subseteq Settled'
      /\ u \in Settled'
  BY <1>1 DEF Settled
<1>4. /\ \A a \in Actors : turn[a] \in Turns \cup {NoTurn} /\ reply[a].turn \in Turns \cup {NoTurn}
      /\ \A i \in Ids : answer[i].turn \in Turns \cup {NoTurn}
  BY DEF TypeOK, Answer
<1>5. SettledInv'
  BY <1>1, <1>2, <1>3, <1>4 DEF TurnInv, SettledInv
<1>6. OwnTurnInv'
  BY <1>1, <1>2 DEF TurnInv, OwnTurnInv, FreshTurn
<1>7. QED
  BY <1>5, <1>6 DEF TurnInv

LEMMA TurnStep == IInv /\ TargetInv /\ TurnInv /\ [Next]_vars => TurnInv'
<1> SUFFICES ASSUME IInv, TargetInv, TurnInv, [Next]_vars PROVE TurnInv'
  OBVIOUS
<1> USE DEF IInv
<1>1. ASSUME UNCHANGED <<stage, turn, reply>>,
             \A id \in Ids : answer'[id] # answer[id] =>
               answer'[id].turn = NoTurn /\ answer'[id].kind # "turn",
             Settled \subseteq Settled'
      PROVE  TurnInv'
  BY <1>1, TurnKept DEF TypeOK
<1>2. ASSUME UNCHANGED <<stage, turn, reply, answer, completed, ended, running, alive, closed>>
      PROVE  TurnInv'
  BY <1>1, <1>2 DEF Settled
<1>3. ASSUME NEW a \in Actors, Send(a) PROVE TurnInv'
  BY <1>2, <1>3 DEF Send
<1>4. ASSUME NEW a \in Actors, SendFails(a) \/ Timeout(a) \/ Refused(a) PROVE TurnInv'
  <2>1. stage[a] # "turn"
    BY <1>4, AnswerKinds DEF SendFails, Timeout, Refused, PendingInv, RequestStage
  <2>2. PICK fatal \in BOOLEAN : Raise(a, fatal)
    BY <1>4 DEF SendFails, Timeout, Refused
  <2>3. stage'[a] # "turn" /\ \A b \in Actors \ {a} : stage'[b] = stage[b]
    BY <2>2, RaiseLeaves
  <2>4. UNCHANGED <<turn, completed, answer, ended, running, alive, closed>>
    BY <1>4, <2>2, RaiseType DEF SendFails, Timeout, Refused, client, server
  <2>5. \A b \in Actors : reply'[b] \in {reply[b], NoAnswer}
    BY <1>4 DEF SendFails, Timeout, Refused, TypeOK
  <2>6. QED
    BY <2>1, <2>3, <2>4, <2>5, TurnMoved
<1>5. ASSUME NEW a \in Actors, Accepted(a) \/ ThreadStarted(a) PROVE TurnInv'
  <2>1. stage[a] # "turn"
    BY <1>5, AnswerKinds
    DEF Accepted, ThreadStarted, Take, TakeOf, PendingInv, RequestStage
  <2>2. stage' \in {[stage EXCEPT ![a] = Following(a)], [stage EXCEPT ![a] = Done(a)],
                    [stage EXCEPT ![a] = "turn/start"]}
    BY <1>5, Zenon DEF Accepted, ThreadStarted, Goto
  <2>3. stage'[a] # "turn" /\ \A b \in Actors \ {a} : stage'[b] = stage[b]
    BY <2>2, DoneType, FollowingType DEF TypeOK
  <2>4. /\ UNCHANGED <<turn, completed, answer, ended, running, alive, closed>>
        /\ \A b \in Actors : reply'[b] \in {reply[b], NoAnswer}
    BY <1>5 DEF Accepted, ThreadStarted, Take, TakeOf, TypeOK, client, server
  <2>5. QED
    BY <2>1, <2>3, <2>4, TurnMoved
<1>6. ASSUME NEW a \in Actors, Operate(a) PROVE TurnInv'
  BY <1>3, <1>4, <1>5, <1>6, TurnTaken, TurnLeft DEF Operate
<1>7. ASSUME NEW c \in Calls, TakeCall(c) PROVE TurnInv'
  <2>1. /\ c \in Actors /\ 1 \in 1 .. Len(queue) /\ c = queue[1]
        /\ stage' = [stage EXCEPT ![c] = First(task[c])]
    BY <1>7, Domains DEF TakeCall, Goto, TypeOK
  <2>2. First(task[c]) # "turn"
    BY <2>1 DEF First, TypeOK, Task, ToolNames
  <2>3. /\ stage[c] # "turn" /\ stage'[c] # "turn"
        /\ \A b \in Actors \ {c} : stage'[b] = stage[b]
    BY <2>1, <2>2 DEF QueueInv, TypeOK
  <2>4. QED
    BY <1>7, <2>1, <2>3, TurnMoved DEF TakeCall, server
<1>8. ASSUME NEW c \in Calls, Reserve(c) \/ ReplyCall(c) PROVE TurnInv'
  <2>1. /\ c \in Actors /\ stage[c] # "turn"
        /\ Goto(c, "thread/start") \/ Goto(c, "reply") \/ Goto(c, "idle")
    BY <1>8, Domains, Zenon DEF Reserve, ReserveIf, ReplyCall
  <2>2. stage'[c] # "turn" /\ \A b \in Actors \ {c} : stage'[b] = stage[b]
    BY <2>1 DEF Goto, TypeOK
  <2>3. UNCHANGED <<turn, reply, completed, answer, ended, running, alive, closed>>
    BY <1>8 DEF Reserve, ReserveIf, ReplyCall, client, server
  <2>4. QED
    BY <2>1, <2>2, <2>3, TurnMoved
<1>9. ASSUME NEW op \in Operations, NEW target \in Targets(op), NEW prompt \in Prompts(op),
             Begin(op, target, prompt)
      PROVE  TurnInv'
  <2>1. /\ task'[Main].op = op /\ op \in ToolNames
        /\ stage[Main] = "idle" /\ stage'[Main] = First(task'[Main])
        /\ \A b \in Actors \ {Main} : stage'[b] = stage[b]
    BY <1>9, Domains, HostAssumption DEF Begin, Goto, TypeOK
  <2>2. stage'[Main] # "turn"
    BY <2>1 DEF First, ToolNames
  <2>3. QED
    BY <1>9, <2>1, <2>2, Domains, TurnMoved DEF Begin, client, server
<1>10. ASSUME Shutdown PROVE TurnInv'
  <2>1. /\ stage[Main] = "idle" /\ stage'[Main] = "closing"
        /\ \A b \in Actors \ {Main} : stage'[b] = stage[b]
    BY <1>10, Domains DEF Shutdown, Goto, TypeOK
  <2>2. QED
    BY <1>10, <2>1, Domains, TurnMoved DEF Shutdown, client, server
<1>11. ASSUME Terminate \/ Exit PROVE TurnInv'
  <2>1. UNCHANGED <<stage, turn, reply, answer>> /\ ~alive'
    BY <1>11 DEF Terminate, Exit, Die, actors
  <2>2. QED
    BY <1>1, <2>1 DEF Settled
<1>12. ASSUME CancelQueue PROVE TurnInv'
  <2>1. \A a \in Actors : stage'[a] = "turn" <=> stage[a] = "turn"
    BY <1>12 DEF CancelQueue
  <2>2. QED
    BY <1>12, <2>1, TurnKept DEF CancelQueue, server, Settled, TypeOK
<1>13. ASSUME NEW u \in Turns, ReadTurnCompleted(u) \/ EndTurn(u) PROVE TurnInv'
  <2>1. UNCHANGED <<stage, turn, reply, answer>>
    BY <1>13 DEF ReadTurnCompleted, EndTurn, actors
  <2>2. Settled \subseteq Settled'
    BY <1>13 DEF ReadTurnCompleted, EndTurn, Settled, TypeOK, client
  <2>3. QED
    BY <1>1, <2>1, <2>2
<1>14. ASSUME NEW c \in Calls, ReadCall(c) PROVE TurnInv'
  <2>1. /\ c \in Actors /\ stage[c] = "sent" /\ stage'[c] = "queued"
        /\ \A b \in Actors \ {c} : stage'[b] = stage[b]
    BY <1>14, Domains DEF ReadCall, Goto, TypeOK
  <2>2. QED
    BY <1>14, <2>1, TurnMoved DEF ReadCall, server
<1>15. ASSUME Close(Actors) PROVE TurnInv'
  <2>1. /\ \A a \in Actors : stage'[a] = "turn" <=> stage[a] = "turn"
        /\ \A a \in Actors : reply'[a] \in {reply[a], Failed}
        /\ \A id \in Ids : answer'[id] = NoAnswer
        /\ UNCHANGED turn /\ closed'
    BY <1>15 DEF Close
  <2>2. Settled \subseteq Settled'
    BY <2>1 DEF Settled
  <2>3. QED
    BY <2>1, <2>2, AnswerKinds, AnswerTurns, TurnKept DEF TypeOK
<1>16. ASSUME NEW id \in Ids, NEW v \in Answer, Answers(id, v), v.kind # "turn", v.turn = NoTurn,
              UNCHANGED <<stage, turn, reply, completed, ended, running, alive, closed>>
       PROVE  TurnInv'
  <2>1. \A i \in Ids : answer'[i] \in {answer[i], v}
    BY <1>16 DEF Answers, TypeOK
  <2>2. QED
    BY <1>1, <1>16, <2>1 DEF Settled
<1>17. ASSUME NEW id \in Ids, StartThread(id) PROVE TurnInv'
  <2>1. NextThread \in Threads
    BY <1>17, NextThreadIsNew DEF StartThread, TypeOK
  <2>2. QED
    BY <1>16, <1>17, <2>1, AnswerKinds, AnswerTurns, Domains DEF StartThread, client, actors
<1>18. ASSUME NEW id \in Ids, Accept(id) \/ Refuse(id) PROVE TurnInv'
  BY <1>16, <1>18, AnswerKinds, AnswerTurns, Domains DEF Accept, Refuse, client, actors
<1>19. ASSUME NEW id \in Ids, Handles(id) PROVE TurnInv'
  BY <1>2, <1>17, <1>18, <1>19, TurnBegun DEF Handles, Ignore, client, actors
<1>20. ASSUME NEW u \in Turns, NEW c \in Calls, NEW tool \in Tools, NEW target \in Targets(tool),
              MakeCall(u, c, tool, target)
       PROVE  TurnInv'
  <2>1. /\ c \in Actors /\ stage[c] = "idle" /\ stage'[c] = "sent"
        /\ \A b \in Actors \ {c} : stage'[b] = stage[b]
    BY <1>20, Domains DEF MakeCall, Goto, TypeOK
  <2>2. QED
    BY <1>20, <2>1, TurnMoved DEF MakeCall, client
<1>21. ASSUME UNCHANGED vars PROVE TurnInv'
  BY <1>2, <1>21 DEF vars, client, actors, server
<1>22. ASSUME MainThread PROVE TurnInv'
  BY <1>6, <1>9, <1>10, <1>11, <1>12, <1>22, Domains DEF MainThread
<1>23. ASSUME Reader PROVE TurnInv'
  BY <1>13, <1>14, <1>15, <1>23, TurnHandedOver DEF Reader, ReadEof, ReaderFails
<1>24. ASSUME AppServer PROVE TurnInv'
  BY <1>11, <1>13, <1>19, <1>20, <1>24 DEF AppServer
<1>25. ASSUME NEW c \in Calls, Worker(c) PROVE TurnInv'
  BY <1>6, <1>7, <1>8, <1>25, Domains DEF Worker
<1>26. QED
  BY <1>21, <1>22, <1>23, <1>24, <1>25 DEF Next

\* The invariant of turns holds in every reachable state.
LEMMA TurnsInvariant == Spec => [](IInv /\ TargetInv /\ TurnInv)
<1>1. Init => TargetInv /\ TurnInv
  BY TargetInit, TurnInit
<1>2. IInv /\ TargetInv /\ TurnInv /\ [Next]_vars => TargetInv' /\ TurnInv'
  BY TargetStep, TurnStep
<1>3. QED
  BY <1>1, <1>2, Invariant, PTL DEF Spec

\* A wait for a turn that fails does so for a reason: the turn runs on, its
\* completion is under way, or the app-server or the reader is gone.  It never
\* fails because the completion came before the wait, or because another wait
\* took it.
THEOREM CompletionsAreNotMissed == Spec => NoCompletionMissed
<1>1. TurnInv => \A a \in Actors : stage[a] = "turn" => turn[a] \in Settled
  BY DEF TurnInv, SettledInv
<1>2. (\A a \in Actors : stage[a] = "turn" => turn[a] \in Settled)
        => [\A a \in Actors :
              stage[a] = "turn" /\ stage'[a] # "turn" =>
                \/ turn[a] \in completed
                \/ running[turn[a]] # NoThread
                \/ turn[a] \in ended
                \/ ~alive \/ closed]_vars
  BY DEF Settled
<1>3. QED
  BY <1>1, <1>2, TurnsInvariant, PTL DEF NoCompletionMissed

-----------------------------------------------------------------------------
(* The threads that threads start, when callers name recorded threads only *)

FamilyInv == RecordedInv /\ LineageInv

LEMMA FamilyInit == Init => FamilyInv
  BY DEF Init, FamilyInv, RecordedInv, LineageInv, NoTask, NoRequest

\* Nobody gets to know a thread, and no child is about to be started that was
\* not before.
LEMMA FamilyKept ==
  ASSUME FamilyInv,
         UNCHANGED <<depths, born>>,
         \A u \in Turns : running'[u] \in {running[u], NoThread},
         \A a \in Actors : task'[a] \in {task[a], NoTask},
         \A a \in Actors : stage'[a] = "thread/start" /\ task'[a].parent # NoThread =>
           stage[a] = "thread/start" /\ task'[a] = task[a] /\ depth'[a] = depth[a],
         \A id \in Ids : asked'[id] \in {asked[id], NoRequest}
  PROVE  FamilyInv'
<1>1. RecordedInv'
  BY DEF FamilyInv, RecordedInv, Recorded, NoTask, NoRequest
<1>2. LineageInv'
  BY DEF FamilyInv, LineageInv, MayHaveChildren, Recorded, NoTask, NoRequest
<1>3. QED
  BY <1>1, <1>2 DEF FamilyInv

\* One actor moves and starts no thread.
LEMMA FamilyMoved ==
  ASSUME FamilyInv, NEW a \in Actors,
         stage'[a] # "thread/start", task'[a] \in {task[a], NoTask},
         \A b \in Actors \ {a} : stage'[b] = stage[b] /\ task'[b] = task[b] /\ depth'[b] = depth[b],
         UNCHANGED <<depths, asked, running, born>>
  PROVE  FamilyInv'
  BY FamilyKept

\* An operation reaches thread/start neither from an answer nor from an error,
\* and records no thread but the one it started.
LEMMA OperationGoesOn ==
  ASSUME IInv, NEW a \in Actors, Operate(a), ~Send(a), ~ThreadStarted(a)
  PROVE  /\ stage'[a] # "thread/start" /\ task'[a] \in {task[a], NoTask}
         /\ \A b \in Actors \ {a} : depth'[b] = depth[b]
         /\ UNCHANGED <<depths, asked, running, born>>
<1> USE DEF IInv
<1>1. CASE SendFails(a) \/ Timeout(a) \/ Refused(a)
  <2>1. PICK fatal \in BOOLEAN : Raise(a, fatal)
    BY <1>1 DEF SendFails, Timeout, Refused
  <2>2. QED
    BY <1>1, <2>1, RaiseLeaves, RaiseType DEF SendFails, Timeout, Refused, server
<1>2. CASE Accepted(a)
  <2>1. stage'[a] = Following(a) /\ UNCHANGED <<depths, asked, running, born>>
    BY <1>2 DEF Accepted, Take, TakeOf, Goto, TypeOK, server
  <2>2. stage'[a] # "thread/start"
    BY <2>1, FollowingType
  <2>3. CASE ForgetTask(a)
    BY <2>1, <2>2, <2>3 DEF ForgetTask, TypeOK
  <2>4. CASE UNCHANGED <<task, depth>>
    BY <2>1, <2>2, <2>4
  <2>5. QED
    BY <1>2, <2>3, <2>4, Zenon DEF Accepted
<1>3. CASE TurnStarted(a)
  BY <1>3 DEF TurnStarted, Take, TakeOf, Goto, ForgetTask, TypeOK, server
<1>4. CASE TurnCompletes(a) \/ TurnFails(a)
  <2>1. stage'[a] = Done(a)
    BY <1>4 DEF TurnCompletes, TurnFails, LeaveTurn, Goto, TypeOK
  <2>2. QED
    BY <1>4, <2>1, DoneType DEF TurnCompletes, TurnFails, LeaveTurn, host, server
<1>5. QED
  BY <1>1, <1>2, <1>3, <1>4 DEF Operate

\* The request on behalf of a parent that reserved a slot.
LEMMA FamilyAsked ==
  ASSUME IInv, FamilyInv, NEW a \in Actors, Send(a)
  PROVE  FamilyInv'
<1> USE DEF IInv
<1>1. PICK id \in Ids : asked' = [asked EXCEPT ![id] =
             [method |-> stage[a], thread |-> task[a].target, parent |-> task[a].parent]]
  BY DEF Send
<1>2. /\ asked'[id].method = stage[a] /\ asked'[id].thread = task[a].target
      /\ asked'[id].parent = task[a].parent
      /\ \A i \in Ids : i # id => asked'[i] = asked[i]
      /\ UNCHANGED <<depths, born, running, stage, task, depth>>
  BY <1>1 DEF Send, TypeOK, host
<1>3. RecordedInv'
  BY <1>2 DEF FamilyInv, RecordedInv, Recorded
<1>4. LineageInv'
  BY <1>2 DEF FamilyInv, LineageInv, MayHaveChildren, Recorded
<1>5. QED
  BY <1>3, <1>4 DEF FamilyInv

\* start_thread records the child at the depth it computed for it.
LEMMA FamilyRecorded ==
  ASSUME IInv, FamilyInv, NEW a \in Actors, ThreadStarted(a)
  PROVE  FamilyInv'
<1> USE DEF IInv
<1> DEFINE new == reply[a].thread
<1>1. /\ reply[a].kind = "thread" /\ new \in threads \ DOMAIN depths /\ new \in Threads
      /\ born[new] = task[a].parent /\ stage[a] = "thread/start"
  BY DEF ThreadStarted, Take, TakeOf, TransitInv, MatchInv, Matches, TypeOK
<1>2. /\ DOMAIN depths' = DOMAIN depths \cup {new}
      /\ depths'[new] = depth[a]
      /\ \A t \in DOMAIN depths : depths'[t] = depths[t]
      /\ UNCHANGED <<asked, running, born>>
  BY <1>1 DEF ThreadStarted, Take, TakeOf, server
<1>3. \A b \in Actors \ {a} : stage'[b] = stage[b] /\ task'[b] = task[b]
  BY OthersUntouched DEF Operate
<1>4. /\ stage'[a] # "thread/start"
      /\ task'[a].parent \in {task[a].parent, NoThread}
      /\ task'[a].target \in {new, NoThread}
      /\ \A b \in Actors \ {a} : depth'[b] = depth[b]
  <2>1. CASE /\ Goto(a, "turn/start") /\ UNCHANGED depth
             /\ task' = [task EXCEPT ![a].target = new]
    BY <2>1 DEF Goto, TypeOK, Task
  <2>2. CASE Goto(a, Done(a)) /\ ForgetTask(a)
    <3>1. /\ stage'[a] = Done(a) /\ task'[a] = NoTask
          /\ \A b \in Actors \ {a} : depth'[b] = depth[b]
      BY <2>2 DEF Goto, ForgetTask, TypeOK
    <3>2. QED
      BY <3>1, DoneType DEF NoTask
  <2>3. QED
    BY <2>1, <2>2, Zenon DEF ThreadStarted
<1>5. RecordedInv'
  BY <1>2, <1>3, <1>4 DEF FamilyInv, RecordedInv, Recorded
<1>6. \A p : MayHaveChildren(p) => MayHaveChildren(p)' /\ depths'[p] = depths[p]
  BY <1>2 DEF MayHaveChildren, Recorded
<1>7. \A t \in Threads : born'[t] # NoThread =>
        /\ MayHaveChildren(born[t])'
        /\ t \in Recorded' => depths'[t] = depths'[born'[t]] + 1
  <2> SUFFICES ASSUME NEW t \in Threads, born[t] # NoThread
               PROVE  /\ MayHaveChildren(born[t])'
                      /\ t \in Recorded' => depths'[t] = depths'[born[t]] + 1
    BY <1>2
  <2>1. MayHaveChildren(born[t])
    BY DEF FamilyInv, LineageInv
  <2>2. MayHaveChildren(born[t])' /\ depths'[born[t]] = depths[born[t]]
    BY <1>2, <2>1 DEF MayHaveChildren, Recorded
  <2>3. CASE t = new
    BY <1>1, <1>2, <2>2, <2>3 DEF FamilyInv, LineageInv
  <2>4. CASE t # new
    BY <1>2, <2>2, <2>4 DEF FamilyInv, LineageInv, Recorded
  <2>5. QED
    BY <2>3, <2>4
<1>8. LineageInv'
  BY <1>2, <1>3, <1>4, <1>6, <1>7 DEF FamilyInv, LineageInv
<1>9. QED
  BY <1>5, <1>8 DEF FamilyInv

\* The depth limit is checked under the lock that takes the slot.
LEMMA FamilyReserved ==
  ASSUME IInv, FamilyInv, NEW c \in Calls, Reserve(c)
  PROVE  FamilyInv'
<1> USE DEF IInv
<1>1. c \in Actors /\ UNCHANGED <<depths, task, asked, running, born>>
  BY Domains DEF Reserve, ReserveIf, server
<1>2. CASE Goto(c, "reply") /\ UNCHANGED depth
  <2>1. stage'[c] = "reply" /\ \A b \in Actors \ {c} : stage'[b] = stage[b]
    BY <1>1, <1>2 DEF Goto, TypeOK
  <2>2. QED
    BY <1>1, <1>2, <2>1, FamilyMoved
<1>3. CASE /\ Goto(c, "thread/start") /\ depth' = [depth EXCEPT ![c] = Depth(task[c].parent) + 1]
           /\ Depth(task[c].parent) + 1 <= MaxDepth
  <2>1. /\ depth'[c] = Depth(task[c].parent) + 1
        /\ \A b \in Actors \ {c} : stage'[b] = stage[b] /\ depth'[b] = depth[b]
    BY <1>1, <1>3 DEF Goto, TypeOK
  <2>2. task[c].parent # NoThread =>
          MayHaveChildren(task[c].parent) /\ depth'[c] = depths[task[c].parent] + 1
    BY <1>1, <1>3, <2>1 DEF FamilyInv, RecordedInv, MayHaveChildren, Recorded, Depth
  <2>3. RecordedInv'
    BY <1>1 DEF FamilyInv, RecordedInv, Recorded
  <2>4. LineageInv'
    BY <1>1, <2>1, <2>2 DEF FamilyInv, LineageInv, MayHaveChildren, Recorded
  <2>5. QED
    BY <2>3, <2>4 DEF FamilyInv
<1>4. QED
  BY <1>2, <1>3, Zenon DEF Reserve, ReserveIf

\* The app-server starts a thread below a parent that may have one.
LEMMA FamilyGrows ==
  ASSUME IInv, FamilyInv, NEW id \in Ids, StartThread(id)
  PROVE  FamilyInv'
<1> USE DEF IInv
<1> DEFINE new == NextThread
<1>1. new \in Threads \ DOMAIN depths
  BY NextThreadIsNew DEF StartThread, TypeOK, TransitInv
<1>2. /\ asked[id].method = "thread/start"
      /\ \A t \in Threads : born'[t] = IF t = new THEN asked[id].parent ELSE born[t]
      /\ \A i \in Ids : asked'[i] \in {asked[i], NoRequest}
      /\ UNCHANGED <<depths, running, stage, task, depth>>
  BY DEF StartThread, Answers, TypeOK, host, actors
<1>3. RecordedInv'
  BY <1>2 DEF FamilyInv, RecordedInv, Recorded, NoRequest
<1>4. LineageInv'
  BY <1>1, <1>2 DEF FamilyInv, LineageInv, MayHaveChildren, Recorded, NoRequest
<1>5. QED
  BY <1>3, <1>4 DEF FamilyInv

\* Who names recorded threads only gives its operation recorded targets.
LEMMA TargetsRecorded ==
  ASSUME ~NamesUnrecorded, NEW op, NEW t \in Targets(op)
  PROVE  t # NoThread => t \in Recorded
  BY DEF Targets, Nameable, Recorded

LEMMA FamilyStep ==
  ~NamesUnrecorded /\ IInv /\ FamilyInv /\ [Next]_vars => FamilyInv'
<1> SUFFICES ASSUME ~NamesUnrecorded, IInv, FamilyInv, [Next]_vars PROVE FamilyInv'
  OBVIOUS
<1> USE DEF IInv
<1>1. ASSUME NEW a \in Actors, Operate(a) PROVE FamilyInv'
  <2>1. CASE ~Send(a) /\ ~ThreadStarted(a)
    BY <1>1, <2>1, OperationGoesOn, OthersUntouched, FamilyMoved
  <2>2. QED
    BY <2>1, FamilyAsked, FamilyRecorded
<1>2. ASSUME NEW c \in Calls, TakeCall(c) PROVE FamilyInv'
  <2>1. /\ c \in Actors /\ stage' = [stage EXCEPT ![c] = First(task[c])]
        /\ UNCHANGED <<depths, task, depth, asked, running, born>>
    BY <1>2, Domains DEF TakeCall, Goto, host, server
  <2>2. stage'[c] = First(task[c]) /\ \A b \in Actors \ {c} : stage'[b] = stage[b]
    BY <2>1 DEF TypeOK
  <2>3. stage'[c] = "thread/start" => task[c].parent = NoThread
    BY <2>1, <2>2 DEF First, TypeOK, Task, ToolNames
  <2>4. QED
    BY <2>1, <2>2, <2>3, FamilyKept
<1>3. ASSUME NEW c \in Calls, ReplyCall(c) PROVE FamilyInv'
  <2>1. /\ c \in Actors /\ stage'[c] = "idle" /\ task'[c] = NoTask
        /\ \A b \in Actors \ {c} :
             stage'[b] = stage[b] /\ task'[b] = task[b] /\ depth'[b] = depth[b]
        /\ UNCHANGED <<depths, asked, running, born>>
    BY <1>3, Domains DEF ReplyCall, Goto, ForgetTask, TypeOK, host
  <2>2. QED
    BY <2>1, FamilyMoved
<1>4. ASSUME NEW op \in Operations, NEW target \in Targets(op), NEW prompt \in Prompts(op),
             Begin(op, target, prompt)
      PROVE  FamilyInv'
  <2>1. /\ task'[Main].parent = NoThread /\ task'[Main].target = target
        /\ \A b \in Actors \ {Main} : stage'[b] = stage[b] /\ task'[b] = task[b]
        /\ UNCHANGED <<depths, depth, asked, running, born>>
    BY <1>4, Domains DEF Begin, Goto, TypeOK, host, server
  <2>2. target # NoThread => target \in Recorded
    BY TargetsRecorded
  <2>3. RecordedInv'
    BY <2>1, <2>2 DEF FamilyInv, RecordedInv, Recorded
  <2>4. LineageInv'
    BY <2>1 DEF FamilyInv, LineageInv, MayHaveChildren, Recorded
  <2>5. QED
    BY <2>3, <2>4 DEF FamilyInv
<1>5. ASSUME Shutdown PROVE FamilyInv'
  <2>1. /\ stage'[Main] = "closing" /\ \A b \in Actors \ {Main} : stage'[b] = stage[b]
    BY <1>5, Domains DEF Shutdown, Goto, TypeOK
  <2>2. QED
    BY <1>5, <2>1, Domains, FamilyMoved DEF Shutdown, host, server
<1>6. ASSUME Terminate \/ Exit PROVE FamilyInv'
  <2>1. /\ UNCHANGED <<depths, born, stage, task, depth>>
        /\ \A u \in Turns : running'[u] = NoThread
        /\ \A id \in Ids : asked'[id] = NoRequest
    BY <1>6 DEF Terminate, Exit, Die, host, actors
  <2>2. QED
    BY <2>1, FamilyKept
<1>7. ASSUME CancelQueue \/ Close(Actors) PROVE FamilyInv'
  <2>1. /\ UNCHANGED <<depths, depth, asked, running, born>>
        /\ \A a \in Actors : \/ stage'[a] = stage[a] /\ task'[a] = task[a]
                             \/ stage'[a] # "thread/start" /\ task'[a] \in {task[a], NoTask}
    BY <1>7 DEF CancelQueue, Close, host, server
  <2>2. QED
    BY <2>1, FamilyKept
<1>8. ASSUME NEW c \in Calls, ReadCall(c) PROVE FamilyInv'
  <2>1. /\ c \in Actors /\ stage'[c] = "queued"
        /\ \A b \in Actors \ {c} : stage'[b] = stage[b]
    BY <1>8, Domains DEF ReadCall, Goto, TypeOK
  <2>2. QED
    BY <1>8, <2>1, FamilyMoved DEF ReadCall, host, server
<1>9. ASSUME NEW id \in Ids, NEW u \in Turns, StartTurn(id, u) PROVE FamilyInv'
  <2>1. /\ UNCHANGED <<depths, born, stage, task, depth>>
        /\ \A v \in Turns : running'[v] = IF v = u THEN asked[id].thread ELSE running[v]
        /\ \A i \in Ids : asked'[i] \in {asked[i], NoRequest}
    BY <1>9 DEF StartTurn, Answers, TypeOK, host, actors
  <2>2. RecordedInv'
    BY <2>1 DEF FamilyInv, RecordedInv, Recorded, NoRequest
  <2>3. LineageInv'
    BY <2>1 DEF FamilyInv, LineageInv, MayHaveChildren, Recorded, NoRequest
  <2>4. QED
    BY <2>2, <2>3 DEF FamilyInv
<1>10. ASSUME NEW u \in Turns, NEW c \in Calls, NEW tool \in Tools, NEW target \in Targets(tool),
              MakeCall(u, c, tool, target)
       PROVE  FamilyInv'
  <2>1. /\ c \in Actors /\ stage'[c] = "sent" /\ running[u] # NoThread
        /\ task'[c].parent = running[u] /\ task'[c].target = target
        /\ \A b \in Actors \ {c} : stage'[b] = stage[b] /\ task'[b] = task[b]
        /\ UNCHANGED <<depths, depth, asked, running, born>>
    BY <1>10, Domains DEF MakeCall, Goto, TypeOK, host
  <2>2. target # NoThread => target \in Recorded
    BY TargetsRecorded
  <2>3. RecordedInv'
    BY <2>1, <2>2 DEF FamilyInv, RecordedInv, Recorded
  <2>4. LineageInv'
    BY <2>1 DEF FamilyInv, LineageInv, MayHaveChildren, Recorded
  <2>5. QED
    BY <2>3, <2>4 DEF FamilyInv
<1>11. ASSUME UNCHANGED <<depths, born, stage, task, depth>>,
              \A u \in Turns : running'[u] \in {running[u], NoThread},
              \A id \in Ids : asked'[id] \in {asked[id], NoRequest}
       PROVE  FamilyInv'
  BY <1>11, FamilyKept
<1>12. ASSUME NEW id \in Ids, Handles(id) PROVE FamilyInv'
  <2>1. CASE Accept(id) \/ Refuse(id) \/ Ignore(id)
    BY <1>11, <2>1 DEF Accept, Refuse, Ignore, Answers, TypeOK, host, actors
  <2>2. QED
    BY <1>9, <1>12, <2>1, FamilyGrows DEF Handles
<1>13. ASSUME NEW u \in Turns, ReadTurnCompleted(u) \/ EndTurn(u) PROVE FamilyInv'
  BY <1>11, <1>13 DEF ReadTurnCompleted, EndTurn, TypeOK, host, actors
<1>14. ASSUME (\E id \in Ids : ReadAnswer(id)) \/ UNCHANGED vars PROVE FamilyInv'
  BY <1>11, <1>14 DEF ReadAnswer, vars, host, actors, server
<1>15. ASSUME MainThread PROVE FamilyInv'
  BY <1>1, <1>4, <1>5, <1>6, <1>7, <1>15, Domains DEF MainThread
<1>16. ASSUME Reader PROVE FamilyInv'
  BY <1>7, <1>8, <1>13, <1>14, <1>16 DEF Reader, ReadEof, ReaderFails
<1>17. ASSUME AppServer PROVE FamilyInv'
  BY <1>6, <1>10, <1>12, <1>13, <1>17 DEF AppServer
<1>18. ASSUME NEW c \in Calls, Worker(c) PROVE FamilyInv'
  BY <1>1, <1>2, <1>3, <1>18, FamilyReserved, Domains DEF Worker
<1>19. QED
  BY <1>14, <1>15, <1>16, <1>17, <1>18 DEF Next

-----------------------------------------------------------------------------
(* The recursion limit *)

\* Every set of numbers has a least one: induction, for a set in place of the
\* predicate.
LEMMA LeastNumber ==
  ASSUME NEW T, T \subseteq Nat, T # {}
  PROVE  \E n \in T : \A m \in T : n <= m
<1>1. PICK R : IsWellFoundedOn(R, Nat) /\ \A m, k \in Nat : m < k => <<m, k>> \in R
  <2>1. IsWellFoundedOn(OpToRel(<, Nat), Nat)
    BY NatLessThanWellFounded, Zenon
  <2>2. \A m, k \in Nat : m < k => <<m, k>> \in OpToRel(<, Nat)
    BY Zenon DEF OpToRel
  <2>3. QED
    BY <2>1, <2>2, Zenon
<1>2. PICK n \in T : \A m \in T : ~(<<m, n>> \in R)
  <2>1. IsWellFoundedOn(R, Nat)
    BY <1>1
  <2>2. QED
    BY <2>1, WFMin, Zenon
<1>3. ASSUME NEW m \in T PROVE n <= m
  <2>1. m \in Nat /\ n \in Nat
    BY <1>2
  <2>2. ~(m < n)
    BY <1>1, <1>2, <2>1, Zenon
  <2>3. QED
    BY <2>1, <2>2
<1>4. QED
  BY <1>3

\* The i-th thread of a line is recorded at depth i at least, if it has a child
\* in the line, and one at depth MaxDepth may have none.
LEMMA LinesAreShort ==
  ASSUME TypeOK, FamilyInv
  PROVE  RecursionBounded
<1> SUFFICES ASSUME NEW line \in [0 .. MaxDepth + 1 -> Threads],
                    \A i \in 0 .. MaxDepth : born[line[i + 1]] = line[i]
             PROVE  FALSE
  BY DEF RecursionBounded
<1>1. MaxDepth \in Nat /\ NoThread \notin Threads
  BY HostAssumption
<1>2. ASSUME NEW i \in 0 .. MaxDepth
      PROVE  /\ line[i] \in Threads /\ line[i + 1] \in Threads
             /\ born[line[i + 1]] = line[i] /\ MayHaveChildren(line[i])
             /\ line[i + 1] \in Recorded => depths[line[i + 1]] = depths[line[i]] + 1
  <2>1. line[i] \in Threads /\ line[i + 1] \in Threads /\ born[line[i + 1]] = line[i]
    BY <1>1
  <2>2. born[line[i + 1]] # NoThread
    BY <1>1, <2>1
  <2>3. QED
    BY <2>1, <2>2 DEF FamilyInv, LineageInv
<1>3. \A i \in 0 .. MaxDepth : depths[line[i]] \in Nat /\ depths[line[i]] + 1 <= MaxDepth
  BY <1>2 DEF MayHaveChildren, Recorded, TypeOK
<1> DEFINE Shallow == {i \in 0 .. MaxDepth : depths[line[i]] < i}
<1>4. Shallow = {}
  <2> SUFFICES ASSUME Shallow # {} PROVE FALSE
    OBVIOUS
  <2>1. PICK n \in Shallow : \A m \in Shallow : n <= m
    <3>1. Shallow \subseteq Nat
      BY <1>1
    <3>2. QED
      BY <3>1, LeastNumber
  <2>2. n \in 0 .. MaxDepth /\ depths[line[n]] < n
    BY <2>1
  <2>3. n # 0
    BY <1>1, <1>3, <2>2
  <2>4. n - 1 \in 0 .. MaxDepth /\ ~(n - 1 \in Shallow)
    BY <1>1, <2>1, <2>2, <2>3
  <2>5. depths[line[n]] = depths[line[n - 1]] + 1
    BY <1>1, <1>2, <2>2, <2>4 DEF MayHaveChildren
  <2>6. QED
    BY <1>1, <1>3, <2>2, <2>4, <2>5
<1>5. MaxDepth \in 0 .. MaxDepth
  BY <1>1
<1>6. ~(depths[line[MaxDepth]] < MaxDepth)
  BY <1>4, <1>5
<1>7. QED
  BY <1>1, <1>3, <1>5, <1>6

\* The recursion limit bounds real lineages, as long as callers name only
\* threads that the host has recorded: nothing in the code makes them, and
\* without it the bound fails.
THEOREM RecursionIsBounded ==
  ASSUME ~NamesUnrecorded
  PROVE  Spec => []RecursionBounded
<1>1. Init => FamilyInv
  BY FamilyInit
<1>2. IInv /\ FamilyInv /\ [Next]_vars => FamilyInv'
  BY FamilyStep
<1>3. IInv /\ FamilyInv => RecursionBounded
  BY LinesAreShort DEF IInv
<1>4. QED
  BY <1>1, <1>2, <1>3, Invariant, PTL DEF Spec
=============================================================================

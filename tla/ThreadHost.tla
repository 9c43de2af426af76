----------------------------- MODULE ThreadHost -----------------------------
(***************************************************************************)
(* codex-radar thread rpc: one host process that drives a Codex app-server *)
(* over the app-server's stdin and stdout.  The main thread serves an RPC  *)
(* client, one request after the other.  A reader thread takes the lines   *)
(* the app-server writes: answers, turn completions, and tool calls that   *)
(* running turns make.  Tool calls are handled by a pool of workers, which *)
(* send requests of their own and wait for turns of other threads.         *)
(*                                                                         *)
(* An actor is the main thread or a tool call: a worker lives only as long *)
(* as the call it handles, so the pool is a bound on the calls in work.    *)
(*                                                                         *)
(* The app-server writes its lines in any order, so the lines between it   *)
(* and the reader are not a queue.  Request ids and turn ids are taken     *)
(* from finite sets: an id that nothing refers to any more stands for a    *)
(* new one.                                                                *)
(***************************************************************************)
EXTENDS Integers, FiniteSets, Sequences

CONSTANTS
  Threads, Turns, Calls, Ids,          \* what the app-server and host number
  Main,                                \* the main thread
  NoThread, NoTurn, NoId, NoActor,
  PoolSize,                            \* workers of the pool
  MaxChildren, MaxDepth,               \* limits of create_thread
  Tools,                               \* the tools that turns call
  Operations,                          \* what the RPC client asks for
  OneShot,                             \* run_thread_action: one operation only
  NamesUnrecorded                      \* callers name threads not yet recorded

Actors == Calls \cup {Main}

ToolNames == {"create_thread", "list_threads", "read_thread",
              "send_message_to_thread", "other"}

ASSUME HostAssumption ==
  /\ Main \notin Calls /\ NoActor \notin Actors
  /\ NoThread \notin Threads /\ NoTurn \notin Turns /\ NoId \notin Ids
  /\ IsFiniteSet(Threads) /\ IsFiniteSet(Calls)
  /\ PoolSize \in Nat \ {0} /\ MaxChildren \in Nat /\ MaxDepth \in Nat
  /\ Tools \subseteq ToolNames /\ Operations \subseteq ToolNames \ {"other"}
  /\ OneShot \in BOOLEAN /\ NamesUnrecorded \in BOOLEAN

VARIABLES
  pending,       \* _pending: the actor that waits for the answer to an id
  completed,     \* _completed_turns
  closed,        \* _closed_error is set
  queue,         \* the calls submitted to the pool and not yet in work
  depths,        \* depths, a function on the threads recorded so far
  child_counts,  \* child_counts; 0 where the code has no entry
  stage,         \* what each actor is about to do, or waits for
  task,          \* the operation each actor performs
  depth,         \* the depth start_thread computed
  wait,          \* the id whose answer an actor waits for
  reply,         \* the answer that the reader left for an actor
  turn,          \* the turn an actor waits for
  alive,         \* the app-server runs and has its end of the pipes
  asked,         \* requests the app-server has yet to answer
  answer,        \* answers on their way to the reader
  ended,         \* turn completions on their way to the reader
  threads,       \* the app-server's threads
  running,       \* the thread of each running turn
  maker,         \* the turn that made a call
  born           \* the thread whose tool call started each thread

host == <<depths, child_counts>>
client == <<pending, completed, closed, queue>>
actors == <<stage, task, depth, wait, reply, turn>>
server == <<alive, asked, answer, ended, threads, running, maker, born>>
vars == <<host, client, actors, server>>

-----------------------------------------------------------------------------

RequestStage == {"initialize", "thread/start", "thread/resume", "turn/start",
                 "thread/read", "thread/list", "thread/list archived"}

Stage == RequestStage \cup
  {"idle", "sent", "queued", "reserve", "turn", "reply", "closing", "stopped"}

\* parent is the thread whose turn called the tool, if any did.
Task == [op : ToolNames, parent : Threads \cup {NoThread},
         target : Threads \cup {NoThread}, prompt : BOOLEAN]

NoTask == [op |-> "other", parent |-> NoThread, target |-> NoThread, prompt |-> FALSE]

\* parent is not part of the message: it records on whose behalf it is sent.
Request == [method : RequestStage \cup {"none"}, thread : Threads \cup {NoThread},
            parent : Threads \cup {NoThread}]

NoRequest == [method |-> "none", thread |-> NoThread, parent |-> NoThread]

Answer == [kind : {"none", "failed", "ok", "thread", "turn"},
           thread : Threads \cup {NoThread}, turn : Turns \cup {NoTurn}]

NoAnswer == [kind |-> "none", thread |-> NoThread, turn |-> NoTurn]
Failed == [kind |-> "failed", thread |-> NoThread, turn |-> NoTurn]
Ok == [kind |-> "ok", thread |-> NoThread, turn |-> NoTurn]
NewThread(t) == [kind |-> "thread", thread |-> t, turn |-> NoTurn]
NewTurn(u) == [kind |-> "turn", thread |-> NoThread, turn |-> u]

Init ==
  /\ pending = [id \in Ids |-> NoActor]
  /\ completed = {}
  /\ closed = FALSE
  /\ queue = <<>>
  /\ depths = [t \in {} |-> 0]
  /\ child_counts = [t \in Threads |-> 0]
  /\ stage = [a \in Actors |-> IF a = Main THEN "initialize" ELSE "idle"]
  /\ task = [a \in Actors |-> NoTask]
  /\ depth = [a \in Actors |-> 0]
  /\ wait = [a \in Actors |-> NoId]
  /\ reply = [a \in Actors |-> NoAnswer]
  /\ turn = [a \in Actors |-> NoTurn]
  /\ alive = TRUE
  /\ asked = [id \in Ids |-> NoRequest]
  /\ answer = [id \in Ids |-> NoAnswer]
  /\ ended = {}
  /\ threads = {}
  /\ running = [u \in Turns |-> NoThread]
  /\ maker = [c \in Calls |-> NoTurn]
  /\ born = [t \in Threads |-> NoThread]

\* depths.get(t, 0)
Depth(t) == IF t \in DOMAIN depths THEN depths[t] ELSE 0

\* A caller knows a thread from the host's answers, or from the app-server's
\* list, which has it from the moment it exists.
Nameable == IF NamesUnrecorded THEN threads ELSE DOMAIN depths

Goto(a, to) == stage' = [stage EXCEPT ![a] = to]

-----------------------------------------------------------------------------
(* AppServerClient.request *)

FreshId(id) ==
  /\ pending[id] = NoActor
  /\ asked[id] = NoRequest
  /\ answer[id] = NoAnswer
  /\ \A a \in Actors : wait[a] # id

\* An operation needs its arguments no more once it waits for a turn or ends.
ForgetTask(a) ==
  /\ task' = [task EXCEPT ![a] = NoTask]
  /\ depth' = [depth EXCEPT ![a] = 0]

\* A worker replies to its call in a step of its own; the main thread's answer
\* to the RPC client leaves nothing behind.
Done(a) == CASE a # Main -> "reply"
             [] a = Main /\ OneShot /\ stage[a] # "initialize" -> "closing"
             [] OTHER -> "idle"

\* An error in the handshake, or in the pipe below the main thread, ends the
\* main thread.
RaiseWith(a, fatal, counts) ==
  /\ Goto(a, IF a = Main /\ (fatal \/ stage[a] = "initialize") THEN "closing"
             ELSE Done(a))
  /\ child_counts' = counts
  /\ ForgetTask(a)
  /\ UNCHANGED <<depths, turn>>

\* Mutant: the slot of a child that was not started stays taken.
RaiseKeepsSlot(a, fatal) == RaiseWith(a, fatal, child_counts)

\* The operation raised: start_thread gives back the slot it reserved if it
\* did not learn the new thread's id.
Raise(a, fatal) ==
  RaiseWith(a, fatal,
    IF stage[a] = "thread/start" /\ task[a].parent # NoThread
    THEN [child_counts EXCEPT ![task[a].parent] = @ - 1]
    ELSE child_counts)

Send(a) ==
  /\ stage[a] \in RequestStage
  /\ wait[a] = NoId
  /\ alive
  /\ \E id \in Ids :
       /\ FreshId(id)
       /\ pending' = [pending EXCEPT ![id] = a]
       /\ wait' = [wait EXCEPT ![a] = id]
       /\ asked' = [asked EXCEPT ![id] =
            [method |-> stage[a], thread |-> task[a].target, parent |-> task[a].parent]]
  /\ UNCHANGED <<host, completed, closed, queue, stage, task, depth, reply, turn,
                 alive, answer, ended, threads, running, maker, born>>

\* The pipe is broken or the process is gone.  The entry that stays in _pending
\* is nobody's, and no answer to it will come.
SendFails(a) ==
  /\ stage[a] \in RequestStage
  /\ wait[a] = NoId
  /\ ~alive
  /\ Raise(a, TRUE)
  /\ UNCHANGED <<client, wait, reply, server>>

\* Mutant: the request stays pending after its timeout.
TimeoutKeepsPending(a) ==
  /\ wait[a] # NoId
  /\ wait' = [wait EXCEPT ![a] = NoId]
  /\ reply' = [reply EXCEPT ![a] = NoAnswer]
  /\ Raise(a, FALSE)
  /\ UNCHANGED <<client, server>>

\* The event is not set after request_timeout.  Before the request is dropped
\* the reader may still find it and leave an answer, which nobody takes.
Timeout(a) ==
  /\ wait[a] # NoId
  /\ pending' = [id \in Ids |-> IF id = wait[a] THEN NoActor ELSE pending[id]]
  /\ wait' = [wait EXCEPT ![a] = NoId]
  /\ reply' = [reply EXCEPT ![a] = NoAnswer]
  /\ Raise(a, FALSE)
  /\ UNCHANGED <<completed, closed, queue, server>>

-----------------------------------------------------------------------------
(* The host's operations: start_thread, list_threads, read_thread,          *)
(* send_message                                                             *)

First(t) ==
  CASE t.op = "create_thread" -> IF t.parent = NoThread THEN "thread/start" ELSE "reserve"
    [] t.op = "list_threads" -> "thread/list"
    [] t.op = "read_thread" -> "thread/read"
    [] t.op = "send_message_to_thread" -> "thread/resume"
    [] t.op = "other" -> "reply"

\* Where an operation goes on after an answer without a result of its own.
Following(a) ==
  CASE stage[a] = "thread/resume" -> "turn/start"
    [] stage[a] = "thread/list" -> "thread/list archived"
    [] OTHER -> Done(a)

ReserveIf(c, allowed) ==
  LET parent == task[c].parent
  IN  /\ stage[c] = "reserve"
      /\ \/ /\ allowed
            /\ Goto(c, "thread/start")
            /\ depth' = [depth EXCEPT ![c] = Depth(parent) + 1]
            /\ child_counts' = [child_counts EXCEPT ![parent] = @ + 1]
         \/ /\ ~allowed
            /\ Goto(c, "reply")
            /\ UNCHANGED <<depth, child_counts>>
      /\ UNCHANGED <<depths, client, task, wait, reply, turn, server>>

\* Mutant: one child too many fits.
ReserveTooMany(c) ==
  ReserveIf(c, /\ Depth(task[c].parent) + 1 <= MaxDepth
               /\ child_counts[task[c].parent] <= MaxChildren)

\* Mutant: the depth of the parent, not of its child, is limited.
ReserveTooDeep(c) ==
  ReserveIf(c, /\ Depth(task[c].parent) <= MaxDepth
               /\ child_counts[task[c].parent] < MaxChildren)

\* start_thread under _limits_lock: both limits, then the child's slot.
Reserve(c) ==
  ReserveIf(c, /\ Depth(task[c].parent) + 1 <= MaxDepth
               /\ child_counts[task[c].parent] < MaxChildren)

TakeOf(a, kinds) ==
  /\ reply[a].kind \in kinds
  /\ wait' = [wait EXCEPT ![a] = NoId]
  /\ reply' = [reply EXCEPT ![a] = NoAnswer]
  /\ UNCHANGED <<child_counts, client, server>>

\* Mutant: an error, or an answer without an id, passes for a result.
TakeAnything(a, kind) == TakeOf(a, {kind, "failed"})

\* request returned, and the operation goes on.
Take(a, kind) == TakeOf(a, {kind})

Accepted(a) ==
  /\ Take(a, "ok")
  /\ Goto(a, Following(a))
  /\ \/ Following(a) = Done(a) /\ ForgetTask(a)
     \/ Following(a) # Done(a) /\ UNCHANGED <<task, depth>>
  /\ UNCHANGED <<depths, turn>>

\* start_thread under _limits_lock again; with a prompt it goes on to send it.
ThreadStarted(a) ==
  LET new == reply[a].thread
  IN  /\ Take(a, "thread")
      /\ depths' = [t \in DOMAIN depths \cup {new} |->
                      IF t = new THEN depth[a] ELSE depths[t]]
      /\ \/ /\ task[a].prompt
            /\ Goto(a, "turn/start")
            /\ task' = [task EXCEPT ![a].target = new]
            /\ UNCHANGED depth
         \/ ~task[a].prompt /\ Goto(a, Done(a)) /\ ForgetTask(a)
      /\ UNCHANGED turn

TurnStarted(a) ==
  /\ Take(a, "turn")
  /\ Goto(a, "turn")
  /\ turn' = [turn EXCEPT ![a] = reply[a].turn]
  /\ ForgetTask(a)
  /\ UNCHANGED depths

\* request raised the app-server's error, or app_server_closed.
Refused(a) ==
  /\ reply[a].kind = "failed"
  /\ wait' = [wait EXCEPT ![a] = NoId]
  /\ reply' = [reply EXCEPT ![a] = NoAnswer]
  /\ Raise(a, FALSE)
  /\ UNCHANGED <<client, server>>

\* wait_turn finds the completion, perhaps one that came before it waited.
TurnCompletes(a) ==
  /\ stage[a] = "turn"
  /\ turn[a] \in completed
  /\ completed' = completed \ {turn[a]}
  /\ turn' = [turn EXCEPT ![a] = NoTurn]
  /\ Goto(a, Done(a))
  /\ UNCHANGED <<host, pending, closed, queue, task, depth, wait, reply, server>>

LeaveTurn(a) ==
  /\ stage[a] = "turn"
  /\ turn[a] \notin completed
  /\ turn' = [turn EXCEPT ![a] = NoTurn]
  /\ Goto(a, Done(a))
  /\ UNCHANGED <<host, client, task, depth, wait, reply, server>>

\* Mutant: a turn is awaited without a timeout.
TurnNeverTimesOut(a) == closed /\ LeaveTurn(a)

\* wait_turn gives up after its timeout, or because the app-server is gone.
TurnFails(a) == LeaveTurn(a)

Operate(a) ==
  \/ Send(a) \/ SendFails(a) \/ Timeout(a)
  \/ Accepted(a) \/ ThreadStarted(a) \/ TurnStarted(a) \/ Refused(a)
  \/ TurnCompletes(a) \/ TurnFails(a)

-----------------------------------------------------------------------------
(* The pool's workers: _handle_server_request *)

InWork == {c \in Calls : stage[c] \notin {"idle", "sent", "queued"}}

TakeCall(c) ==
  /\ queue # <<>> /\ c = Head(queue)
  /\ Cardinality(InWork) < PoolSize
  /\ queue' = Tail(queue)
  /\ Goto(c, First(task[c]))
  /\ UNCHANGED <<host, pending, completed, closed, task, depth, wait, reply, turn, server>>

\* The tool's result, an error of the tool, or the decline of a request that
\* is no tool call.  Writing it to a dead app-server has no effect.
ReplyCall(c) ==
  /\ stage[c] = "reply"
  /\ Goto(c, "idle")
  /\ ForgetTask(c)
  /\ maker' = [maker EXCEPT ![c] = NoTurn]
  /\ UNCHANGED <<host, client, wait, reply, turn,
                 alive, asked, answer, ended, threads, running, born>>

Worker(c) == TakeCall(c) \/ Reserve(c) \/ Operate(c) \/ ReplyCall(c)

-----------------------------------------------------------------------------
(* The main thread: run_thread_rpc, and run_thread_action for one operation *)

\* The RPC client asks for an operation.  A request that is refused at once
\* changes nothing and is no step.
Begin(op, target, prompt) ==
  /\ stage[Main] = "idle"
  /\ task' = [task EXCEPT ![Main] =
       [op |-> op, parent |-> NoThread, target |-> target, prompt |-> prompt]]
  /\ Goto(Main, First(task'[Main]))
  /\ UNCHANGED <<host, client, depth, wait, reply, turn, server>>

\* shutdown, or the end of the RPC client's input
Shutdown ==
  /\ stage[Main] = "idle"
  /\ Goto(Main, "closing")
  /\ UNCHANGED <<host, client, task, depth, wait, reply, turn, server>>

\* What the app-server has read and its turns die with it; what it has written
\* is still in the pipe.
Die ==
  /\ alive
  /\ alive' = FALSE
  /\ asked' = [id \in Ids |-> NoRequest]
  /\ running' = [u \in Turns |-> NoThread]
  /\ maker' = [c \in Calls |-> NoTurn]

\* close: terminate the app-server, then cancel the calls not yet in work.
Terminate ==
  /\ stage[Main] = "closing"
  /\ Die
  /\ UNCHANGED <<host, client, actors, answer, ended, threads, born>>

CancelQueue ==
  /\ stage[Main] = "closing"
  /\ ~alive
  /\ stage' = [a \in Actors |-> IF a = Main THEN "stopped"
                                ELSE IF stage[a] = "queued" THEN "idle" ELSE stage[a]]
  /\ task' = [a \in Actors |-> IF stage[a] = "queued" THEN NoTask ELSE task[a]]
  /\ queue' = <<>>
  /\ UNCHANGED <<host, pending, completed, closed, depth, wait, reply, turn, server>>

Targets(op) ==
  IF op \in {"read_thread", "send_message_to_thread"} THEN Nameable ELSE {NoThread}

\* Of the RPC client's operations only thread/start may come without a prompt
\* and still be carried out.
Prompts(op) == IF op = "create_thread" THEN BOOLEAN ELSE {TRUE}

MainThread ==
  \/ \E op \in Operations : \E target \in Targets(op), prompt \in Prompts(op) :
       Begin(op, target, prompt)
  \/ Operate(Main)
  \/ Shutdown \/ Terminate \/ CancelQueue

-----------------------------------------------------------------------------
(* The reader: _read_stdout and _handle_message *)

ReadAnswer(id) ==
  LET a == pending[id]
  IN  /\ ~closed
      /\ answer[id] # NoAnswer
      /\ answer' = [answer EXCEPT ![id] = NoAnswer]
      /\ pending' = [pending EXCEPT ![id] = NoActor]
      /\ reply' = IF a \in Actors THEN [reply EXCEPT ![a] = answer[id]] ELSE reply
      /\ UNCHANGED <<host, completed, closed, queue, stage, task, depth, wait, turn,
                     alive, asked, ended, threads, running, maker, born>>

\* Mutant: a completion is kept only for a turn somebody waits for already.
ReadTurnIfAwaited(u) ==
  /\ ~closed
  /\ u \in ended
  /\ ended' = ended \ {u}
  /\ completed' = IF \E a \in Actors : turn[a] = u THEN completed \cup {u} ELSE completed
  /\ UNCHANGED <<host, pending, closed, queue, actors,
                 alive, asked, answer, threads, running, maker, born>>

ReadTurnCompleted(u) ==
  /\ ~closed
  /\ u \in ended
  /\ ended' = ended \ {u}
  /\ completed' = completed \cup {u}
  /\ UNCHANGED <<host, pending, closed, queue, actors,
                 alive, asked, answer, threads, running, maker, born>>

ReadCall(c) ==
  /\ ~closed
  /\ stage[Main] # "stopped"
  /\ stage[c] = "sent"
  /\ Goto(c, "queued")
  /\ queue' = Append(queue, c)
  /\ UNCHANGED <<host, pending, completed, closed, task, depth, wait, reply, turn, server>>

\* The reader's end.  What it has not read by then is lost.
Close(failed) ==
  /\ ~closed
  /\ closed' = TRUE
  /\ pending' = [id \in Ids |-> IF pending[id] \in failed THEN NoActor ELSE pending[id]]
  /\ reply' = [a \in Actors |->
                 IF \E id \in Ids : pending[id] = a /\ a \in failed THEN Failed ELSE reply[a]]
  /\ answer' = [id \in Ids |-> NoAnswer]
  /\ ended' = {}
  /\ stage' = [a \in Actors |-> IF stage[a] = "sent" THEN "idle" ELSE stage[a]]
  /\ task' = [a \in Actors |-> IF stage[a] = "sent" THEN NoTask ELSE task[a]]
  /\ UNCHANGED <<host, completed, queue, depth, wait, turn,
                 alive, asked, threads, running, maker, born>>

\* Mutant: the end of the app-server's output fails nobody.
ReadEofSilently == ~alive /\ Close({})

\* The end of the app-server's output, or a call that the closed pool does not
\* take: _fail_all.
ReadEof == ~alive /\ Close(Actors)

\* The same while the app-server lives: _handle_message raises on a line that is
\* no answer, call or completion as it expects them, or stdout alone is closed.
\* Requests are sent on, and nobody reads the answers.
ReaderFails == alive /\ Close(Actors)

Reader ==
  \/ \E id \in Ids : ReadAnswer(id)
  \/ \E u \in Turns : ReadTurnCompleted(u)
  \/ \E c \in Calls : ReadCall(c)
  \/ ReadEof \/ ReaderFails

-----------------------------------------------------------------------------
(* The app-server, as far as the host depends on it.  What it writes when    *)
(* the reader has ended is read by nobody.                                  *)

Answers(id, value) ==
  /\ alive
  /\ asked[id] # NoRequest
  /\ asked' = [asked EXCEPT ![id] = NoRequest]
  /\ answer' = IF closed THEN answer ELSE [answer EXCEPT ![id] = value]

\* Threads are numbered in the order in which they are started.
NextThread == CHOOSE t \in Threads : t \notin threads

StartThread(id) ==
  LET t == NextThread IN
  /\ asked[id].method = "thread/start"
  /\ threads # Threads
  /\ Answers(id, NewThread(t))
  /\ threads' = threads \cup {t}
  /\ born' = [born EXCEPT ![t] = asked[id].parent]
  /\ UNCHANGED <<host, client, actors, alive, ended, running, maker>>

FreshTurn(u) ==
  /\ running[u] = NoThread
  /\ u \notin ended \cup completed
  /\ \A a \in Actors : turn[a] # u /\ reply[a].turn # u
  /\ \A id \in Ids : answer[id].turn # u

StartTurn(id, u) ==
  /\ asked[id].method = "turn/start"
  /\ Answers(id, NewTurn(u))
  /\ FreshTurn(u)
  /\ running' = [running EXCEPT ![u] = asked[id].thread]
  /\ UNCHANGED <<host, client, actors, alive, ended, threads, maker, born>>

\* Requests that leave nothing behind.
Accept(id) ==
  /\ asked[id].method \notin {"thread/start", "turn/start"}
  /\ Answers(id, Ok)
  /\ UNCHANGED <<host, client, actors, alive, ended, threads, running, maker, born>>

Refuse(id) ==
  /\ Answers(id, Failed)
  /\ UNCHANGED <<host, client, actors, alive, ended, threads, running, maker, born>>

\* The app-server never answers a request that the host has given up.
Ignore(id) ==
  /\ asked[id] # NoRequest
  /\ pending[id] = NoActor
  /\ asked' = [asked EXCEPT ![id] = NoRequest]
  /\ UNCHANGED <<host, client, actors, alive, answer, ended, threads, running, maker, born>>

\* A running turn calls a tool and waits for the result.
MakeCall(u, c, tool, target) ==
  /\ alive /\ ~closed
  /\ running[u] # NoThread
  /\ stage[c] = "idle"
  /\ Goto(c, "sent")
  /\ task' = [task EXCEPT ![c] =
       [op |-> tool, parent |-> running[u], target |-> target, prompt |-> TRUE]]
  /\ maker' = [maker EXCEPT ![c] = u]
  /\ UNCHANGED <<host, client, depth, wait, reply, turn,
                 alive, asked, answer, ended, threads, running, born>>

EndTurn(u) ==
  /\ alive
  /\ running[u] # NoThread
  /\ \A c \in Calls : maker[c] # u
  /\ running' = [running EXCEPT ![u] = NoThread]
  /\ ended' = IF closed THEN ended ELSE ended \cup {u}
  /\ UNCHANGED <<host, client, actors, alive, asked, answer, threads, maker, born>>

\* The app-server dies.
Exit ==
  /\ Die
  /\ UNCHANGED <<host, client, actors, answer, ended, threads, born>>

Handles(id) ==
  \/ StartThread(id)
  \/ \E u \in Turns : StartTurn(id, u)
  \/ Accept(id) \/ Refuse(id) \/ Ignore(id)

AppServer ==
  \/ \E id \in Ids : Handles(id)
  \/ \E u \in Turns, c \in Calls, tool \in Tools : \E target \in Targets(tool) :
       MakeCall(u, c, tool, target)
  \/ \E u \in Turns : EndTurn(u)
  \/ Exit

Next == MainThread \/ Reader \/ (\E c \in Calls : Worker(c)) \/ AppServer

Spec == Init /\ [][Next]_vars

\* Threads are scheduled and waits end in their timeouts.  The app-server owes
\* nothing, not even an answer: that a request the host has given up is settled
\* one day, if only by being ignored for ever, gives its id free.
Fairness ==
  /\ \A c \in Calls : WF_vars(TakeCall(c)) /\ WF_vars(Reserve(c)) /\ WF_vars(ReplyCall(c))
  /\ \A a \in Actors : WF_vars(Operate(a)) /\ SF_vars(Send(a))
  /\ WF_vars(Terminate) /\ WF_vars(CancelQueue)
  /\ \A id \in Ids : WF_vars(ReadAnswer(id)) /\ WF_vars(Ignore(id))
  /\ \A u \in Turns : WF_vars(ReadTurnCompleted(u))
  /\ \A c \in Calls : WF_vars(ReadCall(c))
  /\ WF_vars(ReadEof)

FairSpec == Spec /\ Fairness
=============================================================================

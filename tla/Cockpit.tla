-------------------------------- MODULE Cockpit --------------------------------
(***************************************************************************)
(* The Android cockpit: ForegroundSshProtocolClient with its generations   *)
(* and its executor of one thread, JschForegroundTransport, the reducer,   *)
(* and MainActivity's polling, connected to a codex-radar mobile rpc       *)
(* process that answers as ReadProtocol says.                              *)
(*                                                                         *)
(* Three threads meet: the main thread, which handles taps, timers and     *)
(* posted events one at a time; the executor; and the monitor of a         *)
(* connection, which reports its end.  A connection is named by the        *)
(* generation it was made for.                                             *)
(***************************************************************************)
EXTENDS ReadProtocol

CONSTANTS
  Keys, NoKey,      \* host keys
  Hosts,            \* [status, key, pin]: a host and what the profile says of it
  Shown,            \* statuses a session may get
  EventLimit,       \* MAX_EVENTS_PER_CALL
  MaxMoves,         \* bound: what user, host and network do of their own
  Nothing           \* no session, list or event

ASSUME CockpitAssumption ==
  /\ NoKey \notin Keys /\ Nothing \notin Sessions
  /\ Hosts \subseteq [status : States, key : Keys, pin : Keys \cup {NoKey}]
  /\ Shown \subseteq Statuses \cup {Absent}
  /\ MaxMoves \in Nat /\ EventLimit \in Nat

VARIABLES
  host,          \* what the host shows, how often it has changed, and its key
  process,       \* the rpc process of the connection made last
  heard,         \* lastAttentionSequence of the connection made last
  rejected,      \* the client has refused what a process answered
  links,         \* the SSH connection of each generation
  generation, transport, terminal, pendingPin,   \* ForegroundSshProtocolClient
  pin,           \* the host key in the profile
  tasks,         \* the queue of the executor
  cancellable,   \* work still refers to the task submitted last
  worker,        \* the local variables of the running task
  posts,         \* events posted to the main thread
  moves,         \* taps, changes and losses so far
  polling,       \* pollInFlight and how many timers are set
  ui             \* CockpitState

hostVars == <<host, process, heard, rejected>>
clientVars == <<generation, transport, terminal, pendingPin, pin, tasks, cancellable>>
mainVars == <<polling, ui>>
vars == <<moves, hostVars, links, clientVars, worker, posts, mainVars>>

Generations == 1 .. MaxMoves
NoGeneration == 0

Event(kind, value) == [kind |-> kind, value |-> value, banner |-> Nothing]
NoEvent == Event("none", Nothing)
Failed == Event("Failed", Nothing)
RefreshFailed == Event("RefreshFailed", Nothing)

Idle == [stage |-> "idle", kind |-> "none", token |-> NoGeneration,
         session |-> Nothing, interrupted |-> FALSE, event |-> NoEvent]

NewState ==
  [phase |-> "DISCONNECTED", list |-> Nothing, screen |-> "list", selected |-> Nothing,
   preview |-> Nothing, loading |-> FALSE, attention |-> Nothing, review |-> NoKey,
   refreshFailed |-> FALSE]

Init ==
  /\ \E h \in Hosts : /\ host = [status |-> h.status, changes |-> 0, key |-> h.key]
                     /\ pin = h.pin
  /\ process = NewProcess
  /\ heard = 0
  /\ rejected = FALSE
  /\ moves = 0
  /\ links = [g \in Generations |-> "none"]
  /\ generation = 0 /\ transport = NoGeneration /\ terminal = NoGeneration
  /\ pendingPin = NoKey
  /\ tasks = <<>> /\ cancellable = FALSE
  /\ worker = Idle
  /\ posts = <<>>
  /\ polling = [inFlight |-> FALSE, timers |-> 0]
  /\ ui = NewState

-----------------------------------------------------------------------------
(* CockpitReducer.  A list is the sessions shown with the time of the host *)
(* at which they were read; screens without a thread or a key to review    *)
(* are all "list".                                                         *)

Listed(list, s) == list # Nothing /\ list.status[s] # Absent

NoPreview(u) == [u EXCEPT !.preview = Nothing, !.loading = FALSE]

Reconcile(u, e) ==
  LET kept == u.selected # Nothing /\ Listed(e.value, u.selected) IN
  [u EXCEPT !.list = e.value,
            !.selected = IF kept THEN @ ELSE Nothing,
            !.screen = IF @ = "thread" /\ ~kept THEN "list" ELSE @,
            !.attention = IF e.banner # Nothing THEN e.banner ELSE @,
            !.refreshFailed = FALSE]

\* Mutant: a preview is shown whatever has been opened since.
ShowAnyPreview(u, p) == [NoPreview(u) EXCEPT !.preview = p]

\* A preview p is of a session and was read over the connection of a generation.
ShowPreview(u, p) ==
  IF u.selected = p.session THEN [NoPreview(u) EXCEPT !.preview = p] ELSE u

Reduce(u, e) ==
  CASE e.kind = "Connect" ->
         [NoPreview(u) EXCEPT !.phase = "CONNECTING", !.screen = "list", !.selected = Nothing,
                              !.attention = Nothing, !.review = NoKey, !.refreshFailed = FALSE]
    [] e.kind = "ReviewHostKey" ->
         [NoPreview(u) EXCEPT !.phase = "REVIEW_HOST", !.screen = "review", !.review = e.value,
                              !.attention = Nothing, !.refreshFailed = FALSE]
    [] e.kind = "Connected" ->
         [u EXCEPT !.phase = "CONNECTED", !.list = e.value, !.screen = "list",
                   !.selected = Nothing, !.review = NoKey, !.refreshFailed = FALSE]
    [] e.kind = "Failed" ->
         [NoPreview(u) EXCEPT !.phase = "ERROR", !.screen = "list", !.selected = Nothing,
                              !.review = NoKey, !.attention = Nothing, !.refreshFailed = TRUE]
    [] e.kind = "Disconnect" -> NewState
    [] e.kind = "RefreshStarted" ->
         IF u.phase = "CONNECTED" THEN [u EXCEPT !.refreshFailed = FALSE] ELSE u
    [] e.kind = "RefreshReconciled" -> Reconcile(u, e)
    [] e.kind = "RefreshFailed" -> [u EXCEPT !.refreshFailed = TRUE]
    [] e.kind = "OpenThread" ->
         [NoPreview(u) EXCEPT !.screen = "thread", !.selected = e.value,
                              !.attention = IF @ = e.value THEN Nothing ELSE @]
    [] e.kind = "OpenHome" -> [NoPreview(u) EXCEPT !.screen = "list", !.selected = Nothing]
    [] e.kind = "PreviewStarted" -> [NoPreview(u) EXCEPT !.loading = TRUE]
    [] e.kind = "PreviewLoaded" -> ShowPreview(u, e.value)
    [] e.kind = "PreviewFailed" -> NoPreview(u)

\* Mutant: pollInFlight is not taken back.
ScheduleInFlight(p, u) ==
  [p EXCEPT !.timers = IF u.phase = "CONNECTED" THEN @ + 1 ELSE @]

ScheduleNextPoll(p, u) ==
  [inFlight |-> FALSE,
   timers |-> IF u.phase = "CONNECTED" THEN p.timers + 1 ELSE p.timers]

\* What MainActivity.dispatch does to the polling once the state is u.
Repoll(p, u, e) ==
  CASE e.kind = "Connected" -> [inFlight |-> FALSE, timers |-> 1]
    [] e.kind \in {"RefreshReconciled", "RefreshFailed"} -> ScheduleNextPoll(p, u)
    [] e.kind \in {"Failed", "Disconnect"} -> [inFlight |-> FALSE, timers |-> 0]
    [] OTHER -> p

Dispatch(e) ==
  /\ ui' = Reduce(ui, e)
  /\ polling' = Repoll(polling, ui', e)

-----------------------------------------------------------------------------
(* The main thread: ForegroundSshProtocolClient *)

\* explicitClose takes effect on what has been opened and not yet ended.
Close(t) == [g \in Generations |-> IF g = t /\ links[g] = "up" THEN "closed" ELSE links[g]]

\* work?.cancel(true): a task that is still queued will not run, a running one
\* is interrupted.
CancelledTasks ==
  IF cancellable /\ tasks # <<>> THEN SubSeq(tasks, 1, Len(tasks) - 1) ELSE tasks

CancelledWorker ==
  IF cancellable /\ tasks = <<>> /\ worker.stage # "idle"
  THEN [worker EXCEPT !.interrupted = TRUE] ELSE worker

Submit(kind, session) ==
  /\ tasks' = Append(tasks, [kind |-> kind, token |-> generation, session |-> session])
  /\ cancellable' = TRUE

\* connect, under a profile with the given pin
Connect(profilePin) ==
  /\ generation' = generation + 1
  /\ links' = Close(transport)
  /\ transport' = NoGeneration /\ terminal' = NoGeneration /\ pendingPin' = NoKey
  /\ pin' = profilePin
  /\ worker' = CancelledWorker
  /\ tasks' = Append(CancelledTasks,
                     [kind |-> "connect", token |-> generation + 1, session |-> Nothing])
  /\ cancellable' = TRUE
  /\ Dispatch(Event("Connect", Nothing))
  /\ UNCHANGED <<hostVars, posts>>

\* disconnect, after which the profile may lose its pin
Disconnect(profilePin) ==
  /\ generation' = generation + 1
  /\ links' = Close(transport)
  /\ transport' = NoGeneration /\ pendingPin' = NoKey
  /\ pin' = profilePin
  /\ worker' = CancelledWorker
  /\ tasks' = CancelledTasks
  /\ cancellable' = FALSE
  /\ Dispatch(Event("Disconnect", Nothing))
  /\ UNCHANGED <<hostVars, posts, terminal>>

-----------------------------------------------------------------------------
(* The main thread: MainActivity *)

\* MainActivity first stops the polling, which is no step: outside a
\* connection no timer is set and no poll is under way.
TapConnect ==
  /\ ui.phase \in {"DISCONNECTED", "ERROR"}
  /\ Connect(pin)

TapApprove ==
  /\ ui.phase = "REVIEW_HOST"
  /\ pendingPin # NoKey
  /\ Connect(pendingPin)

\* The button, the cancelled review, or onStop
TapDisconnect == Disconnect(pin)

RepairPin ==
  /\ pin # NoKey
  /\ Disconnect(NoKey)

\* requestRefresh, with the timers p has left; without a connection pollAttention
\* reports that at once.
RequestRefresh(p) ==
  /\ \/ /\ ui.phase # "CONNECTED" \/ p.inFlight
        /\ polling' = p
        /\ UNCHANGED <<ui, tasks, cancellable>>
     \/ /\ ui.phase = "CONNECTED" /\ ~p.inFlight /\ transport = NoGeneration
        /\ ui' = Reduce(ui, RefreshFailed)
        /\ polling' = Repoll(p, ui', RefreshFailed)
        /\ UNCHANGED <<tasks, cancellable>>
     \/ /\ ui.phase = "CONNECTED" /\ ~p.inFlight /\ transport # NoGeneration
        /\ ui' = Reduce(ui, Event("RefreshStarted", Nothing))
        /\ polling' = [p EXCEPT !.inFlight = TRUE]
        /\ Submit("poll", Nothing)
  /\ UNCHANGED <<hostVars, links, generation, transport, terminal, pendingPin, pin,
                 worker, posts>>

TapRefresh ==
  /\ ui.phase = "CONNECTED" /\ ~polling.inFlight
  /\ RequestRefresh(polling)

\* Mutant: the timer stays set beside the one that the poll sets.
TimerFiresAgain ==
  /\ polling.timers > 0
  /\ RequestRefresh(polling)

TimerFires ==
  /\ polling.timers > 0
  /\ RequestRefresh([polling EXCEPT !.timers = @ - 1])

OpenThread(s) ==
  /\ Listed(ui.list, s)
  /\ ui.screen = "list" \/ (ui.screen = "thread" /\ ui.attention = s)
  /\ Dispatch(Event("OpenThread", s))
  /\ UNCHANGED <<hostVars, links, clientVars, worker, posts>>

OpenHome ==
  /\ ui.screen = "thread"
  /\ Dispatch(Event("OpenHome", Nothing))
  /\ UNCHANGED <<hostVars, links, clientVars, worker, posts>>

ReadPreview ==
  /\ ui.screen = "thread" /\ Listed(ui.list, ui.selected) /\ ~ui.loading
  /\ LET started == Reduce(ui, Event("PreviewStarted", Nothing)) IN
     IF transport = NoGeneration
     THEN /\ ui' = Reduce(started, Event("PreviewFailed", Nothing))
          /\ UNCHANGED <<tasks, cancellable>>
     ELSE /\ ui' = started
          /\ Submit("preview", ui.selected)
  /\ UNCHANGED <<hostVars, links, generation, transport, terminal, pendingPin, pin,
                 worker, posts, polling>>

\* Mutant: events of every generation are taken.
DeliverAll ==
  /\ posts # <<>>
  /\ posts' = Tail(posts)
  /\ Dispatch(Head(posts).event)
  /\ UNCHANGED <<hostVars, links, clientVars, worker>>

\* post: an event of another generation is dropped.
Deliver ==
  /\ posts # <<>>
  /\ posts' = Tail(posts)
  /\ IF Head(posts).token = generation
     THEN Dispatch(Head(posts).event)
     ELSE UNCHANGED mainVars
  /\ UNCHANGED <<hostVars, links, clientVars, worker>>

User ==
  \/ TapConnect \/ TapApprove \/ TapDisconnect \/ RepairPin \/ TapRefresh
  \/ OpenHome \/ ReadPreview
  \/ \E s \in Sessions : OpenThread(s)

-----------------------------------------------------------------------------
(* The executor *)

ownerVars == <<generation, terminal, pin, tasks, cancellable>>
Live == links[worker.token] = "up"

\* The executor is blocked in a read: it has sent a request, and neither the
\* answer nor the end of the connection is there.  No timeout ends the read.
Asking ==
  /\ worker.stage \in {"initialize", "state", "baseline", "poll", "reread", "preview"}
  /\ Live

Goto(stage) == worker' = [worker EXCEPT !.stage = stage]

\* The task has its event; a connect has one more look at its generation
\* before it posts.
Finished(event) ==
  [worker EXCEPT !.stage = IF worker.kind = "connect" THEN "result" ELSE "post",
                 !.event = event]

Break == links' = Close(worker.token) /\ worker' = Finished(Failed)

Begin ==
  /\ worker.stage = "idle" /\ tasks # <<>>
  /\ tasks' = Tail(tasks)
  /\ worker' = [Idle EXCEPT !.stage = Head(tasks).kind, !.kind = Head(tasks).kind,
                            !.token = Head(tasks).token, !.session = Head(tasks).session]
  /\ UNCHANGED <<hostVars, links, generation, transport, terminal, pendingPin, pin,
                 cancellable, posts, mainVars>>

\* A fresh transport becomes that of its generation or is given up.
OwnTransport ==
  /\ worker.stage = "connect"
  /\ IF worker.token = generation
     THEN transport' = worker.token /\ Goto("open")
     ELSE worker' = Idle /\ UNCHANGED transport
  /\ UNCHANGED <<hostVars, links, ownerVars, pendingPin, posts, mainVars>>

\* Until here close() finds nothing to close, and only the interrupt keeps the
\* socket from opening.  The key is compared with the pin before anything else
\* is done; without a pin it is to be reviewed.
OpenSsh ==
  /\ worker.stage = "open"
  /\ \/ /\ pin = host.key /\ ~worker.interrupted
        /\ links' = [links EXCEPT ![worker.token] = "up"]
        /\ process' = NewProcess
        /\ heard' = 0
        /\ Goto("initialize")
     \/ /\ pin = NoKey /\ ~worker.interrupted
        /\ worker' = Finished(Event("ReviewHostKey", host.key))
        /\ UNCHANGED <<links, process, heard>>
     \/ /\ worker' = Finished(Failed)
        /\ UNCHANGED <<links, process, heard>>
  /\ UNCHANGED <<host, rejected, transport, ownerVars, pendingPin, posts, mainVars>>

\* What the process may answer that is no error
Replies(request) ==
  {r \in {o.reply : o \in Outcomes(process, request, host.status)} : r.ok}

\* One request of the running task.  next takes the replies that the client
\* accepts to what becomes of the task.  Any other one, and a connection that
\* has ended, is the end of the connection; an error is posted as refusal.
Exchange(stage, request, next, refusal) ==
  /\ worker.stage = stage
  /\ \/ /\ Live
        /\ \E o \in Outcomes(process, request, host.status) :
             /\ process' = o.process
             /\ heard' = LastSequence(o.reply.events, heard)
             /\ rejected' = (rejected \/ (o.reply.ok /\ o.reply \notin DOMAIN next))
             /\ CASE o.reply.ok /\ o.reply \in DOMAIN next ->
                        worker' = next[o.reply] /\ UNCHANGED links
                  [] ~o.reply.ok /\ refusal # Failed ->
                        worker' = Finished(refusal) /\ UNCHANGED links
                  [] OTHER -> Break
     \/ /\ ~Live
        /\ Break
        /\ UNCHANGED <<process, heard, rejected>>
  /\ UNCHANGED <<host, transport, ownerVars, pendingPin, posts, mainVars>>

Request(method) == [method |-> method]

\* The largest preview version that both sides know
Handshake ==
  LET request == [method |-> "initialize", protocols |-> {1}, previews |-> {1, 2}]
      known == {r \in Replies(request) : r.value \in {1, 2}}
  IN  Exchange("initialize", request,
               [r \in known |-> [worker EXCEPT !.stage = "state"]], Failed)

List(reply) == [at |-> host.changes, status |-> reply.value]

ReadState ==
  LET request == Request("state/read") IN
  Exchange("state", request,
           [r \in Replies(request) |->
              [worker EXCEPT !.stage = "baseline", !.event = Event("Connected", List(r))]],
           Failed)

Acceptable(reply) ==
  reply.value = Len(reply.events) /\ AcceptableEvents(reply.events, heard, EventLimit)

\* The first poll may not report anything.
TakeBaseline ==
  LET request == Request("attention/poll")
      quiet == {r \in Replies(request) : Acceptable(r) /\ r.events = <<>>}
  IN  Exchange("baseline", request, [r \in quiet |-> Finished(worker.event)], Failed)

\* Of several events the last one is shown.
PollAttention ==
  LET request == Request("attention/poll")
      last(events) == IF events = <<>> THEN Nothing ELSE events[Len(events)].session
  IN  Exchange("poll", request,
               [r \in {q \in Replies(request) : Acceptable(q)} |->
                  [worker EXCEPT !.stage = "reread", !.session = last(r.events)]],
               RefreshFailed)

RereadState ==
  LET request == Request("state/read") IN
  Exchange("reread", request,
           [r \in Replies(request) |->
              Finished([kind |-> "RefreshReconciled", value |-> List(r),
                        banner |-> worker.session])],
           RefreshFailed)

CallPreview ==
  LET request == [method |-> "preview/read", session |-> worker.session,
                  version |-> process.preview]
      same == {r \in Replies(request) : r.value = worker.session}
      preview == [session |-> worker.session, over |-> worker.token]
  IN  Exchange("preview", request,
               [r \in same |-> Finished(Event("PreviewLoaded", preview))],
               Event("PreviewFailed", Nothing))

\* After a connect: the presented key is kept for the approval, and nothing is
\* posted when the connection has ended and its monitor has said so.
Conclude ==
  /\ worker.stage = "result"
  /\ pendingPin' = IF worker.event.kind = "ReviewHostKey" THEN worker.event.value
                   ELSE pendingPin
  /\ IF terminal = worker.token THEN worker' = Idle ELSE Goto("post")
  /\ UNCHANGED <<hostVars, links, transport, ownerVars, posts, mainVars>>

Post ==
  /\ worker.stage = "post"
  /\ posts' = Append(posts, [token |-> worker.token, event |-> worker.event])
  /\ worker' = Idle
  /\ UNCHANGED <<hostVars, links, clientVars, mainVars>>

Executor ==
  \/ Begin \/ OwnTransport \/ OpenSsh \/ Handshake \/ ReadState \/ TakeBaseline
  \/ PollAttention \/ RereadState \/ CallPreview \/ Conclude \/ Post

-----------------------------------------------------------------------------
(* The monitor of a connection, and the host *)

\* The remote end closes, SSH is lost, or stderr says too much.
Lose(g) ==
  /\ links[g] = "up"
  /\ links' = [links EXCEPT ![g] = "lost"]
  /\ UNCHANGED <<hostVars, clientVars, worker, posts, mainVars>>

ReportLoss(g) ==
  /\ links[g] = "lost"
  /\ links' = [links EXCEPT ![g] = "closed"]
  /\ IF g = generation
     THEN terminal' = g /\ transport' = NoGeneration
     ELSE UNCHANGED <<terminal, transport>>
  /\ posts' = Append(posts, [token |-> g, event |-> Failed])
  /\ UNCHANGED <<hostVars, generation, pendingPin, pin, tasks, cancellable, worker, mainVars>>

\* A thread of Codex changes its status, appears or is pruned.
Change(s, status) ==
  /\ status # host.status[s]
  /\ host' = [host EXCEPT !.status[s] = status, !.changes = @ + 1]
  /\ UNCHANGED <<process, heard, rejected, links, clientVars, worker, posts, mainVars>>

Rekey(key) ==
  /\ key # host.key
  /\ host' = [host EXCEPT !.key = key, !.changes = @ + 1]
  /\ UNCHANGED <<process, heard, rejected, links, clientVars, worker, posts, mainVars>>

Surroundings ==
  \/ User
  \/ \E g \in Generations : Lose(g)
  \/ \E s \in Sessions, status \in Shown : Change(s, status)
  \/ \E key \in Keys : Rekey(key)

MonitorReports == \E g \in Generations : ReportLoss(g)

Next ==
  \/ /\ moves < MaxMoves /\ moves' = moves + 1
     /\ Surroundings
  \/ /\ UNCHANGED moves
     /\ TimerFires \/ Deliver \/ Executor \/ MonitorReports

Spec == Init /\ [][Next]_vars

\* The executor and the monitors run, and the main thread takes what is posted
\* and due.  Opening a connection ends by its timeout at the latest; that a
\* request is ever answered is not taken for granted.
Fairness ==
  /\ WF_vars(Executor /\ ~Asking /\ UNCHANGED moves)
  /\ WF_vars(Deliver /\ UNCHANGED moves)
  /\ WF_vars(TimerFires /\ UNCHANGED moves)
  /\ WF_vars(MonitorReports /\ UNCHANGED moves)

FairSpec == Spec /\ Fairness
=============================================================================

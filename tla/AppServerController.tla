-------------------------- MODULE AppServerController --------------------------
(***************************************************************************)
(* CodexAppServerController and its callers in the extension: listThreads  *)
(* for the catalog of each refresh of the dashboard, readRateLimits for    *)
(* the status bar, and the app-server processes it starts.                 *)
(*                                                                         *)
(* JavaScript runs one callback at a time and all promise continuations    *)
(* that a callback has made ready before the next one: an event needs      *)
(* Quiet.  A call that is at "called" is the part of a callback that       *)
(* still runs.  The app-server is the environment: it answers what it was  *)
(* asked in any order, with a result or an error, or never, and may exit   *)
(* at any time.  Whether a line is a result or an error is chosen when it  *)
(* is read; a caller falls back alike from an error and from a failure.    *)
(***************************************************************************)
EXTENDS Naturals, Sequences

CONSTANTS
  Lists,       \* callers of listThreads, one call each at a time
  Usage,       \* UsageStatusBar, the caller of readRateLimits
  Parts,       \* whether a chunk of output may end within a line
  MaxMoves     \* bound: refreshes and changes of the configuration

ASSUME ControllerAssumption == Usage \notin Lists /\ Parts \subseteq BOOLEAN /\ MaxMoves \in Nat

VARIABLES
  process,     \* this.process, None before the first and after the last
  start,       \* startPromise, and the id of its initialize request
  pending,     \* this.pending: ids, and the process that each was sent to
  nextId,      \* nextRequestId
  buffer,      \* whose unfinished line stands in stdoutBuffer
  disposed,
  calls,       \* how far the call of each caller has come
  queued,      \* refreshQueued of the status bar
  shown,       \* for which executable the status bar was refreshed last
  command,     \* codexRadar.codexExecutable, counted by its changes
  handled,     \* for the properties: the last change that the host acted on
  procs,       \* the processes
  moves

controllerVars == <<process, start, pending, nextId, buffer, disposed>>
callerVars == <<calls, queued, shown, command, handled>>
vars == <<controllerVars, callerVars, procs, moves>>

Callers == Lists \cup {Usage}
\* Each move makes at most one call, and the activation one.
Processes == 1 .. MaxMoves + 1
None == 0

\* The buffer when it is empty, and when it holds parts of two lines.
Empty == 0
Mixed == MaxMoves + 2

NoStart == [state |-> "none", id |-> 0]
NoCall == [stage |-> "idle", waits |-> {}, command |-> 0]
Call(n) == [stage |-> "called", waits |-> {}, command |-> n]

\* A process: what it was asked, and the answers in its pipe, of which the first
\* may have been read in part.
NoProcess ==
  [state |-> "none", command |-> 0, ready |-> FALSE, asked |-> {}, out |-> <<>>,
   split |-> FALSE]

Init ==
  /\ process = None /\ start = NoStart /\ pending = {} /\ nextId = 1
  /\ buffer = Empty /\ disposed = FALSE
  /\ calls = [c \in Callers |-> IF c = Usage THEN Call(0) ELSE NoCall]
  /\ queued = FALSE /\ shown = 0 /\ command = 0 /\ handled = 0
  /\ procs = [p \in Processes |-> NoProcess]
  /\ moves = 0

At(stages) == {c \in Callers : calls[c].stage \in stages}
Calling == At({"called"}) # {}
Quiet ==
  /\ start.state \notin {"ok", "failed"}
  /\ At({"called", "started", "settled"}) = {}

-----------------------------------------------------------------------------
(* Promises *)

Ids(requests) == {r.id : r \in requests}

\* The start and the calls, once the requests got are resolved and the
\* requests lost are rejected.
StartAfter(got, lost) ==
  IF start.state = "running" /\ start.id \in got \cup lost
    THEN [start EXCEPT !.state = IF start.id \in lost THEN "failed" ELSE "ok"]
    ELSE start

\* Promise.all: the first rejection settles the call.
CallAfter(call, got, lost) ==
  IF call.stage = "waiting" /\ (call.waits \cap lost # {} \/ call.waits \subseteq got)
    THEN [call EXCEPT !.stage = "settled", !.waits = {}]
    ELSE [call EXCEPT !.waits = @ \ got]

CallsAfter(got, lost) == [c \in Callers |-> CallAfter(calls[c], got, lost)]

Settle(got, lost) ==
  /\ start' = StartAfter(got, lost)
  /\ calls' = CallsAfter(got, lost)

-----------------------------------------------------------------------------
(* Stopping *)

\* stopProcess, but for the promises it rejects.
StopProcess ==
  /\ process' = None
  /\ IF process = None THEN UNCHANGED <<buffer, pending>>
                       ELSE buffer' = Empty /\ pending' = {}
  /\ procs' = [p \in Processes |->
       IF p = process /\ procs[p].state = "up" THEN [procs[p] EXCEPT !.state = "stopped"]
                                              ELSE procs[p]]

\* Mutant: the promises of a stopped process are forgotten.
NoneRejected == {}
Rejected == IF process = None THEN {} ELSE Ids(pending)

Dispose ==
  /\ Quiet /\ ~disposed
  /\ disposed' = TRUE
  /\ StopProcess
  /\ Settle({}, Rejected)
  /\ UNCHANGED <<nextId, queued, shown, command, handled, moves>>

-----------------------------------------------------------------------------
(* Starting *)

Fresh(p) ==
  procs[p].state = "none" /\ \A q \in Processes : procs[q].state = "none" => p <= q

\* startProcess up to its await.  spawn may throw, and it may return a process
\* that could not be started, whose error event is still to come.
StartProcess ==
  \/ /\ start' = [state |-> "failed", id |-> 0]
     /\ UNCHANGED <<process, pending, nextId, buffer, procs>>
  \/ \E p \in Processes, state \in {"up", "gone"} :
       /\ Fresh(p)
       /\ process' = p
       /\ buffer' = Empty
       /\ nextId' = nextId + 1
       /\ pending' = pending \cup {[id |-> nextId, to |-> p]}
       /\ procs' = [procs EXCEPT ![p] =
            [NoProcess EXCEPT !.state = state, !.command = command,
                              !.asked = IF state = "up" THEN {nextId} ELSE {}]]
       /\ start' = [state |-> "running", id |-> nextId]

\* ensureStarted up to its await.
EnsureStarted(c) ==
  /\ calls[c].stage = "called"
  /\ \E stage \in {"settled", "starting", "started"} :
       /\ calls' = [calls EXCEPT ![c].stage = stage]
       /\ \/ disposed /\ stage = "settled" /\ UNCHANGED <<controllerVars, procs>>
          \/ /\ ~disposed /\ start.state # "none" /\ stage = "starting"
             /\ UNCHANGED <<controllerVars, procs>>
          \/ /\ ~disposed /\ start.state = "none" /\ process # None /\ stage = "started"
             /\ UNCHANGED <<controllerVars, procs>>
          \/ /\ ~disposed /\ start.state = "none" /\ process = None /\ stage = "starting"
             /\ StartProcess
             /\ UNCHANGED disposed
  /\ UNCHANGED <<queued, shown, command, handled, moves>>

\* The continuations of the start: its finally, and the calls that wait for it.
Started(stage, failed) ==
  /\ start' = NoStart
  /\ calls' = [c \in Callers |->
       IF calls[c].stage = "starting" THEN [calls[c] EXCEPT !.stage = stage]
                                      ELSE CallAfter(calls[c], {}, failed)]

\* initialize has been answered: "initialized" is sent, if stdin takes it.  There
\* is a process: ContinuationsHaveProcess.
Initialized ==
  /\ start.state = "ok" /\ ~Calling
  /\ procs' = [procs EXCEPT ![process].ready = TRUE]
  /\ Started("started", {})
  /\ UNCHANGED <<process, pending, nextId, buffer, disposed, queued, shown, command, handled, moves>>

StartFails ==
  /\ ~Calling
  /\ \/ start.state = "failed"
     \/ start.state = "ok" /\ procs[process].state # "up"
  /\ StopProcess
  /\ Started("settled", Rejected)
  /\ UNCHANGED <<nextId, disposed, queued, shown, command, handled, moves>>

-----------------------------------------------------------------------------
(* Requests *)

\* The requests of a call, which listThreads makes at once.
Count(c) == IF c \in Lists THEN 2 ELSE 1
Requests(c) == nextId .. nextId + Count(c) - 1

Asked(p, ids) == [procs EXCEPT ![p].asked = IF procs[p].state = "up" THEN @ \cup ids ELSE @]

\* listThreads and readRateLimits after ensureStarted.  A process whose exit
\* event is still to come may refuse what is written, or lose it.  There is a
\* process: ContinuationsHaveProcess.
Proceed(c) ==
  /\ ~Calling /\ calls[c].stage = "started"
  /\ nextId' = nextId + Count(c)
  /\ \/ /\ calls' = [calls EXCEPT ![c].stage = "waiting", ![c].waits = Requests(c)]
        /\ pending' = pending \cup {[id |-> i, to |-> process] : i \in Requests(c)}
        /\ procs' = Asked(process, Requests(c))
     \/ /\ procs[process].state # "up"
        /\ calls' = [calls EXCEPT ![c].stage = "settled"]
        /\ UNCHANGED <<pending, procs>>
  /\ UNCHANGED <<process, start, buffer, disposed, queued, shown, command, handled, moves>>

TimedOut(r) ==
  /\ Quiet /\ r \in pending
  /\ pending' = pending \ {r}
  /\ Settle({}, {r.id})
  /\ UNCHANGED <<process, nextId, buffer, disposed, queued, shown, command, handled, procs, moves>>

-----------------------------------------------------------------------------
(* What comes from a process *)

\* The first line is read as it was written only if the buffer holds its
\* beginning and nothing else.
Intact(p) == IF procs[p].split THEN buffer = p ELSE buffer = Empty

\* handleStdout: a chunk of n lines and perhaps the beginning of the next.
\* The listener stays when the process is replaced.  A line that is no JSON is
\* dropped, an answer that nothing waits for too.
Data(p) ==
  /\ Quiet
  /\ \E n \in 0 .. Len(procs[p].out), part \in Parts :
       /\ part => n < Len(procs[p].out)
       /\ n = 0 => part /\ ~procs[p].split
       /\ LET first == IF Intact(p) THEN 1 ELSE 2
              answered == {procs[p].out[i] : i \in first .. n} \cap Ids(pending)
          IN  /\ pending' = {r \in pending : r.id \notin answered}
              /\ \E errors \in SUBSET answered : Settle(answered \ errors, errors)
       /\ buffer' = IF ~part THEN Empty
                    ELSE IF n = 0 /\ buffer # Empty THEN Mixed ELSE p
       /\ procs' = [procs EXCEPT ![p].out = SubSeq(@, n + 1, Len(@)), ![p].split = part]
  /\ UNCHANGED <<process, nextId, disposed, queued, shown, command, handled, moves>>

\* Mutant: whatever process ends, the present one is forgotten.
IsAny(p) == TRUE
IsPresent(p) == p = process

\* The error or exit event of a process; detachProcess.
Ended(p) ==
  /\ Quiet /\ procs[p].state = "gone"
  /\ procs' = [procs EXCEPT ![p].state = "reaped"]
  /\ \/ /\ IsPresent(p)
        /\ process' = None /\ buffer' = Empty /\ pending' = {}
        /\ Settle({}, Ids(pending))
     \/ ~IsPresent(p) /\ UNCHANGED <<process, buffer, pending, start, calls>>
  /\ UNCHANGED <<nextId, disposed, queued, shown, command, handled, moves>>

-----------------------------------------------------------------------------
(* The app-server *)

Alive(p) == procs[p].state \in {"up", "stopped"}

Answer(p) ==
  /\ Alive(p)
  /\ \E id \in procs[p].asked :
       procs' = [procs EXCEPT ![p].asked = @ \ {id}, ![p].out = Append(@, id)]
  /\ UNCHANGED <<controllerVars, callerVars, moves>>

Exit(p) ==
  /\ Alive(p)
  /\ procs' = [procs EXCEPT ![p].state = "gone", ![p].asked = {}]
  /\ UNCHANGED <<controllerVars, callerVars, moves>>

-----------------------------------------------------------------------------
(* The callers *)

\* A refresh of the dashboard has read its sessions and asks for their titles.
RefreshList(c) ==
  /\ ~Calling /\ calls[c].stage = "idle" /\ moves < MaxMoves
  /\ calls' = [calls EXCEPT ![c] = Call(0)]
  /\ moves' = moves + 1
  /\ UNCHANGED <<controllerVars, queued, shown, command, handled, procs>>

\* Mutant: a refresh that is asked for during another one is dropped.
NotQueued == FALSE
Queued == TRUE

\* UsageStatusBar.refresh, given the calls as they stand.
RefreshUsage(now, n) ==
  IF now[Usage].stage = "idle"
    THEN calls' = [now EXCEPT ![Usage] = Call(n)] /\ UNCHANGED queued
    ELSE calls' = now /\ queued' = Queued

\* The timer of five minutes, and the watcher of the rollout files.
UsageDue ==
  /\ Quiet /\ ~disposed /\ moves < MaxMoves
  /\ RefreshUsage(calls, command)
  /\ moves' = moves + 1
  /\ UNCHANGED <<controllerVars, shown, command, handled, procs>>

\* onDidChangeConfiguration, when codexRadar.codexExecutable has changed and
\* neither codexRadar.stateDir nor codexRadar.readSource with it.  The refresh of
\* the dashboard that it starts too is a RefreshList to come.
ChangeExecutable ==
  /\ Quiet /\ ~disposed /\ moves < MaxMoves
  /\ command' = command + 1
  /\ handled' = command + 1
  /\ StopProcess
  /\ start' = StartAfter({}, Rejected)
  /\ RefreshUsage(CallsAfter({}, Rejected), command + 1)
  /\ moves' = moves + 1
  /\ UNCHANGED <<nextId, disposed, shown>>

\* One event for several settings, as a saved settings.json makes it, takes the
\* first branch that fits: the dashboard is refreshed (a RefreshList to come), and
\* neither the controller nor the status bar hears of the executable.
ChangeSeveral ==
  /\ Quiet /\ ~disposed /\ moves < MaxMoves
  /\ command' = command + 1
  /\ moves' = moves + 1
  /\ UNCHANGED <<controllerVars, calls, queued, shown, handled, procs>>

\* The caller's await ends, with an answer or with what it falls back to.
Finish(c) ==
  /\ ~Calling /\ calls[c].stage = "settled"
  /\ calls' = [calls EXCEPT ![c] = IF c = Usage /\ queued THEN Call(command) ELSE NoCall]
  /\ queued' = (queued /\ c # Usage)
  /\ shown' = IF c = Usage THEN calls[c].command ELSE shown
  /\ UNCHANGED <<controllerVars, command, handled, procs, moves>>

-----------------------------------------------------------------------------

Continuation ==
  \/ \E c \in Callers : EnsureStarted(c) \/ Proceed(c) \/ Finish(c)
  \/ Initialized \/ StartFails

Timeout == \E r \in pending : TimedOut(r)

Output == \E p \in Processes : Data(p) \/ Ended(p)

Environment ==
  \/ \E p \in Processes : Answer(p) \/ Exit(p)
  \/ \E c \in Lists : RefreshList(c)
  \/ UsageDue \/ ChangeExecutable \/ ChangeSeveral \/ Dispose

Next == Continuation \/ Timeout \/ Output \/ Environment

Spec == Init /\ [][Next]_vars

\* The event loop runs what is ready, and the timers of requests fire.
FairSpec == Spec /\ WF_vars(Continuation) /\ WF_vars(Timeout)
=============================================================================

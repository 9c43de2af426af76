-------------------------- MODULE AppServerProperties --------------------------
(* What the app-server controller owes its callers and the host. *)
EXTENDS AppServerController

StartType == [state : {"none", "running", "ok", "failed"}, id : Nat]

CallType ==
  [stage : {"idle", "called", "starting", "started", "waiting", "settled"},
   waits : SUBSET Nat, command : Nat]

ProcessType ==
  [state : {"none", "up", "stopped", "gone", "reaped"}, command : Nat, ready : BOOLEAN,
   asked : SUBSET Nat, out : Seq(Nat), split : BOOLEAN]

\* The variables of the controller, its callers and its processes have their
\* types.
TypeOK ==
  /\ process \in Processes \cup {None}
  /\ start \in StartType
  /\ pending \subseteq [id : Nat, to : Processes]
  /\ nextId \in Nat
  /\ disposed \in BOOLEAN
  /\ command \in Nat
  /\ handled \in 0 .. command
  /\ calls \in [Callers -> CallType]
  /\ procs \in [Processes -> ProcessType]

\* Whatever is reset, disposed, timed out or has exited while a start was under
\* way: a process that runs and was not told to stop is the controller's
\* present one, and there is none after dispose (ensureStarted, detachProcess,
\* stopProcess).
NoOrphan ==
  \A p \in Processes : procs[p].state = "up" => p = process /\ ~disposed

\* What a process was asked or has answered is no answer for a request that
\* was sent to another one, although the output of a replaced process is still
\* read (nextRequestId, handleMessage).
AnswersAreOwn ==
  \A p \in Processes, r \in pending :
    r.id \in procs[p].asked \cup {procs[p].out[i] : i \in DOMAIN procs[p].out}
      => r.to = p

\* The present process was started from an executable that was configured no
\* earlier than the last change that the host acted on, even if that change came
\* while a process was being started (currentCommand, reset).  A change that came
\* in one event with one of stateDir or readSource is not acted on, and the process
\* of the earlier executable stays (onDidChangeConfiguration).
PresentIsCurrent ==
  process # None =>
    handled <= procs[process].command /\ procs[process].command <= command

\* A continuation that goes on with the process it was promised finds one: no
\* exit, reset or failed start comes between an answer and what waits for it
\* (startProcess and request after their awaits).
ContinuationsHaveProcess ==
  start.state = "ok" \/ At({"started"}) # {} => process # None

\* Nothing but initialize is asked of a process before it was told that the
\* handshake is complete, whoever starts it and however many wait for it
\* (startPromise, ensureStarted).
AskedWhenReady ==
  \A r \in pending :
    procs[r.to].ready \/ (start.state = "running" /\ r.id = start.id)

\* Every answer that a present process has given to a request that is still
\* waited for is on its way to it (SPEC.md: the controller manages the routing
\* of request ids).
AnswersReachRequests ==
  \A r \in pending :
    procs[r.to].state = "up" =>
      r.id \in procs[r.to].asked
                 \cup {procs[r.to].out[i] : i \in DOMAIN procs[r.to].out}

\* Refreshes of the status bar that are asked for during another one are
\* coalesced, not lost: the bar comes to show a reading that was begun after the
\* last change of the executable that the host acted on (UsageStatusBar.refresh).
\* Of a change that came in one event with stateDir or readSource nothing is
\* claimed: the bar waits for its timer then, and asks the earlier executable.
UsageCatchesUp == \A n \in 1 .. MaxMoves : (handled = n) ~> (shown >= n)

\* No caller waits for ever, whatever the app-server does: a call ends
\* (request timeouts, rejectPending, startPromise).
CallsEnd == \A c \in Callers : (calls[c].stage # "idle") ~> (calls[c].stage = "idle")
=============================================================================

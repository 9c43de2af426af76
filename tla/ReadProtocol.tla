----------------------------- MODULE ReadProtocol -----------------------------
(***************************************************************************)
(* codex-radar mobile rpc: one process per connection, which answers one   *)
(* request line after the other from the display state as it is then.      *)
(* Outcomes gives what the process may have become and what it may have    *)
(* answered after a request; a reader that fails is one of the choices.    *)
(***************************************************************************)
EXTENDS Integers, FiniteSetsExt, SequencesExt

CONSTANTS
  Sessions,
  Absent           \* the status of a session that is not in the display state

RunningStatuses == {"running", "tool_running"}
AttentionStatuses == {"waiting_approval"}
Statuses == RunningStatuses \cup AttentionStatuses \cup {"done", "unknown"}

ASSUME ReadProtocolAssumption == Absent \notin Statuses /\ IsFiniteSet(Sessions)

States == [Sessions -> Statuses \cup {Absent}]
NoSession == [s \in Sessions |-> Absent]

ProtocolVersion == 1
PreviewVersions == {1, 2}

\* ReadProtocolSession and the loop around it
NewProcess ==
  [up |-> TRUE, preview |-> 0, started |-> FALSE, baseline |-> NoSession, sequence |-> 0]

Initialized(p) == p.preview # 0

Processes ==
  [up : BOOLEAN, preview : {0} \cup PreviewVersions, started : BOOLEAN,
   baseline : States, sequence : Nat]

\* Requests that name no method of the protocol, or give it bad parameters.
BadRequests == {"invalid_json", "invalid_request", "unknown_method"}

Methods == BadRequests \cup
  {"oversized", "initialize", "state/read", "preview/read", "attention/poll", "shutdown"}

Result(value) == [ok |-> TRUE, value |-> value, events |-> <<>>]
Failure == [ok |-> FALSE, events |-> <<>>]

-----------------------------------------------------------------------------

\* Only a version that both sides know, and the largest of them.
Initialize(p, q) ==
  LET mutual == q.previews \cap PreviewVersions IN
  IF ProtocolVersion \notin q.protocols \/ mutual = {}
  THEN {[process |-> p, reply |-> Failure]}
  ELSE {[process |-> [p EXCEPT !.preview = Max(mutual), !.started = FALSE,
                               !.baseline = NoSession],
         reply |-> Result(Max(mutual))]}

\* A change that deserves attention, against the status at the last poll.
Eligible(p, state) ==
  {s \in Sessions :
     \/ state[s] \in AttentionStatuses /\ p.baseline[s] # state[s]
     \/ state[s] = "done" /\ p.baseline[s] \in RunningStatuses}

\* The events of a poll, in the order of the display state.
EventLists(p, state) ==
  LET reported == IF p.started THEN Eligible(p, state) ELSE {}
      event(order, i) == [sequence |-> p.sequence + i, session |-> order[i],
                          status |-> state[order[i]]]
  IN  {[i \in DOMAIN order |-> event(order, i)] : order \in SetToSeqs(reported)}

\* Mutant: the sequence is not carried on to the next poll.
PollAfresh(p, state) ==
  {[process |-> [p EXCEPT !.baseline = state, !.started = TRUE],
    reply |-> [ok |-> TRUE, value |-> Len(events), events |-> events]] :
     events \in EventLists(p, state)}

Poll(p, state) ==
  {[process |-> [p EXCEPT !.baseline = state, !.started = TRUE,
                          !.sequence = @ + Len(events)],
    reply |-> [ok |-> TRUE, value |-> Len(events), events |-> events]] :
     events \in EventLists(p, state)}

\* A session that export_adapter does not find is an error.
Preview(p, q, state) ==
  IF q.version = p.preview /\ state[q.session] # Absent
  THEN {[process |-> p, reply |-> Result(q.session)]}
  ELSE {}

Refused(p) == [process |-> p, reply |-> Failure]

\* ReadProtocolSession.handle, for a request after initialize.
Handle(p, q, state) ==
  CASE q.method \in BadRequests -> {Refused(p)}
    [] q.method = "state/read" -> {Refused(p), [process |-> p, reply |-> Result(state)]}
    [] q.method = "preview/read" -> {Refused(p)} \cup Preview(p, q, state)
    [] q.method = "attention/poll" -> {Refused(p)} \cup Poll(p, state)
    [] q.method = "shutdown" ->
         {[process |-> [p EXCEPT !.up = FALSE], reply |-> Result("shutdown")]}

\* And any request, with what run_protocol makes of the exceptions.
Outcomes(p, q, state) ==
  CASE q.method = "oversized" -> {[process |-> [p EXCEPT !.up = FALSE], reply |-> Failure]}
    [] q.method = "initialize" -> Initialize(p, q)
    [] q.method \in Methods \ {"oversized", "initialize"} ->
         IF Initialized(p) THEN Handle(p, q, state) ELSE {Refused(p)}

-----------------------------------------------------------------------------
(* The client's side: BoundedJsonlSession and JschForegroundTransport *)

\* The client takes no event out of sequence, and not more than its limit.
AcceptableEvents(events, last, limit) ==
  /\ Len(events) <= limit
  /\ \A i \in DOMAIN events :
       events[i].sequence > (IF i = 1 THEN last ELSE events[i - 1].sequence)

LastSequence(events, last) ==
  IF events = <<>> THEN last ELSE events[Len(events)].sequence
=============================================================================

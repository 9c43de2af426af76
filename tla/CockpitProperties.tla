--------------------------- MODULE CockpitProperties ---------------------------
(* What the cockpit shows, and what it and the read protocol owe each other. *)
EXTENDS Cockpit

Lists == [at : 0 .. MaxMoves, status : States]

EventKinds ==
  {"none", "Connected", "ReviewHostKey", "Failed", "RefreshReconciled", "RefreshFailed",
   "PreviewLoaded", "PreviewFailed"}

Previews == [session : Sessions, over : Generations]

Events ==
  [kind : EventKinds, value : {Nothing} \cup Lists \cup Keys \cup Previews,
   banner : {Nothing} \cup Sessions]

Tokens == Generations \cup {NoGeneration}

\* The variables of the three threads and of the host have their types.
TypeOK ==
  /\ host \in [status : States, changes : 0 .. MaxMoves, key : Keys]
  /\ process \in Processes
  /\ moves \in 0 .. MaxMoves
  /\ heard \in Nat
  /\ rejected \in BOOLEAN
  /\ links \in [Generations -> {"none", "up", "lost", "closed"}]
  /\ {generation, transport, terminal} \subseteq Tokens
  /\ {pendingPin, pin} \subseteq Keys \cup {NoKey}
  /\ \A i \in DOMAIN tasks :
       tasks[i] \in [kind : {"connect", "poll", "preview"}, token : Generations,
                     session : Sessions \cup {Nothing}]
  /\ cancellable \in BOOLEAN
  /\ worker \in
       [stage : {"idle", "connect", "open", "initialize", "state", "baseline", "poll",
                 "reread", "preview", "result", "post"},
        kind : {"none", "connect", "poll", "preview"}, token : Tokens,
        session : Sessions \cup {Nothing}, interrupted : BOOLEAN, event : Events]
  /\ \A i \in DOMAIN posts : posts[i] \in [token : Generations, event : Events]
  /\ polling \in [inFlight : BOOLEAN, timers : 0 .. MaxMoves]
  /\ ui \in
       [phase : {"DISCONNECTED", "CONNECTING", "REVIEW_HOST", "CONNECTED", "ERROR"},
        list : {Nothing} \cup Lists, screen : {"list", "thread", "review"},
        selected : {Nothing} \cup Sessions, preview : {Nothing} \cup Previews,
        loading : BOOLEAN,
        attention : {Nothing} \cup Sessions, review : Keys \cup {NoKey},
        refreshFailed : BOOLEAN]

\* The client never refuses what a process of the same protocol answers: the
\* first poll of a connection reports nothing, and the sequence of the events
\* rises through all later polls (_attention_events against
\* validateAttentionEvent, JschForegroundTransport.connect and validateAttentionPoll).
\* The sizes of frames are left out: a state of more than 1 MiB is refused.
NothingRejected == ~rejected

Announced(g) ==
  \/ worker.token = g /\ worker.stage \in {"result", "post"} /\ worker.event = Failed
  \/ \E i \in DOMAIN posts : posts[i] = [token |-> g, event |-> Failed]

\* A screen that says connected speaks of the connection of this generation:
\* it is there, or its end is about to be noticed, is on its way to the screen,
\* or has been noticed by the monitor, which may overtake the good news (post
\* drops the events of another generation; connect, disconnect and the monitor
\* write transport and terminal).
ConnectedHasConnection ==
  ui.phase = "CONNECTED" =>
    \/ terminal = generation
    \/ /\ transport = generation
       /\ links[generation] \in {"up", "lost"} \/ Announced(generation)

\* The key that an approval would pin is the key the user is looking at
\* (pendingPin is written by the executor, the review shown by a posted event).
ReviewedKeyIsPinned ==
  ui.phase = "REVIEW_HOST" => pendingPin = ui.review /\ pendingPin # NoKey

\* A preview on the screen was read over the connection of this generation, and
\* on the screen of a thread stands the preview of that thread (a preview is
\* read by the executor and shown by a posted event, while threads are opened and
\* connections end and are made anew; one that was asked for before the same
\* thread was left and opened again may still come to be shown).
PreviewIsOfThread ==
  /\ ui.preview = Nothing \/ ui.preview.over = generation
  /\ ui.screen = "thread" =>
       /\ ui.selected # Nothing /\ Listed(ui.list, ui.selected)
       /\ ui.preview = Nothing \/ ui.preview.session = ui.selected

\* A connection lasts at most as long as its generation: what the user has
\* stopped or replaced is closed.
OnlyOwnConnection ==
  \A g \in Generations : links[g] = "up" => g = generation

\* No request stays unanswered for ever on a connection that stands: an
\* assumption about the host, for the client has no read timeout.
HostAnswers == []<>~Asking

\* While the app says that it is connected to a host that answers, polling goes
\* on: a change on the host comes to be shown, unless a refresh reports an error
\* (scheduleNextPoll sets the timer when the event of the last poll is handled).
ListCatchesUp ==
  HostAnswers =>
    ((ui.phase = "CONNECTED" /\ ui.list.at # host.changes) ~>
       \/ ui.phase # "CONNECTED"
       \/ ui.list.at = host.changes
       \/ ui.refreshFailed)
=============================================================================

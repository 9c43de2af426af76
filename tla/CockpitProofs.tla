---------------------------- MODULE CockpitProofs ----------------------------
(***************************************************************************)
(* TLAPS proofs about what the cockpit shows, for every set of sessions    *)
(* and keys and any number of moves.                                       *)
(***************************************************************************)
EXTENDS CockpitProperties, SequenceTheorems, FiniteSetTheorems, TLAPS

-----------------------------------------------------------------------------
(* Sequences *)

IsSeq(s) == \E S : s \in Seq(S)

LEMMA AppendSeq ==
  ASSUME NEW s, IsSeq(s), NEW x
  PROVE  /\ IsSeq(Append(s, x)) /\ Len(s) \in Nat
         /\ Len(Append(s, x)) = Len(s) + 1
         /\ \A i \in 1 .. Len(s) : Append(s, x)[i] = s[i]
         /\ Append(s, x)[Len(s) + 1] = x
<1>1. PICK S : s \in Seq(S)
  BY DEF IsSeq
<1>2. s \in Seq(S \cup {x}) /\ x \in S \cup {x}
  BY <1>1, SeqMonotonic
<1>3. QED
  BY <1>2, AppendProperties, LenProperties DEF IsSeq

LEMMA TailSeq ==
  ASSUME NEW s, IsSeq(s), s # <<>>
  PROVE  /\ IsSeq(Tail(s)) /\ Len(s) \in Nat \ {0} /\ Head(s) = s[1]
         /\ Len(Tail(s)) = Len(s) - 1
         /\ \A i \in 1 .. Len(s) - 1 : Tail(s)[i] = s[i + 1]
<1>1. PICK S : s \in Seq(S)
  BY DEF IsSeq
<1>2. QED
  BY <1>1, HeadTailProperties, EmptySeq, LenProperties DEF IsSeq

-----------------------------------------------------------------------------
(* The reducer *)

UiFields == DOMAIN NewState

QuietKinds == {"RefreshStarted", "RefreshReconciled", "RefreshFailed", "OpenThread",
               "OpenHome", "PreviewStarted", "PreviewLoaded", "PreviewFailed"}

PostKinds == EventKinds \ {"none"}

\* What the screen says of a thread is about that thread.
UiOk(u) ==
  /\ DOMAIN u = UiFields
  /\ u.screen = "thread" =>
       /\ u.selected \in Sessions /\ Listed(u.list, u.selected)
       /\ u.preview = Nothing \/ u.preview.session = u.selected

LEMMA ReducedPhase ==
  ASSUME NEW u, DOMAIN u = UiFields, NEW e
  PROVE  LET v == Reduce(u, e) IN
         /\ e.kind = "Connect" => v.phase = "CONNECTING"
         /\ e.kind = "ReviewHostKey" => v.phase = "REVIEW_HOST" /\ v.review = e.value
         /\ e.kind = "Connected" => v.phase = "CONNECTED"
         /\ e.kind = "Failed" => v.phase = "ERROR"
         /\ e.kind = "Disconnect" => v.phase = "DISCONNECTED"
         /\ e.kind \in QuietKinds => v.phase = u.phase /\ v.review = u.review
  BY DEF Reduce, NoPreview, Reconcile, ShowPreview, NewState, QuietKinds, UiFields

LEMMA Reduced ==
  ASSUME NEW u, UiOk(u), NEW e,
         e.kind \in QuietKinds \cup PostKinds \cup {"Connect", "Disconnect"},
         e.kind = "OpenThread" => e.value \in Sessions /\ Listed(u.list, e.value)
  PROVE  UiOk(Reduce(u, e))
<1> USE DEF UiOk, UiFields, Reduce, NewState, NoPreview
<1>1. CASE e.kind \in {"Connect", "ReviewHostKey", "Connected", "Failed", "Disconnect"}
  BY <1>1
<1>2. CASE e.kind \in {"RefreshStarted", "RefreshFailed"}
  BY <1>2 DEF Listed
<1>3. CASE e.kind = "RefreshReconciled"
  BY <1>3, CockpitAssumption DEF Reconcile
<1>4. CASE e.kind = "OpenThread"
  BY <1>4 DEF Listed
<1>5. CASE e.kind \in {"OpenHome", "PreviewStarted", "PreviewFailed"}
  BY <1>5 DEF Listed
<1>6. CASE e.kind = "PreviewLoaded"
  BY <1>6 DEF ShowPreview, Listed
<1>7. QED
  BY <1>1, <1>2, <1>3, <1>4, <1>5, <1>6 DEF QuietKinds, PostKinds, EventKinds

LEMMA DispatchedFields ==
  ASSUME NEW u, DOMAIN u = UiFields, NEW e,
         e.kind \in QuietKinds \cup PostKinds \cup {"Connect", "Disconnect"}
  PROVE  DOMAIN Reduce(u, e) = UiFields
  BY DEF Reduce, NoPreview, Reconcile, ShowPreview, NewState, QuietKinds, UiFields,
     PostKinds, EventKinds

-----------------------------------------------------------------------------
(* Types, and which task is at which stage *)

ConnectStage == {"connect", "open", "initialize", "state", "baseline", "result"}

Tasks ==
  {t \in [kind : {"connect", "poll", "preview"}, token : Nat, session : {Nothing} \cup Sessions] :
     t.kind = "preview" => t.session \in Sessions}

WorkerInv ==
  /\ DOMAIN worker = DOMAIN Idle
  /\ worker.token \in 0 .. generation
  /\ worker.stage # "idle" => worker.token # NoGeneration
  /\ worker.stage \in ConnectStage => worker.kind = "connect"
  /\ worker.stage \in {"poll", "reread"} => worker.kind = "poll"
  /\ worker.stage = "preview" => worker.kind = "preview" /\ worker.session \in Sessions
  /\ worker.stage = "baseline" => worker.event.kind = "Connected"
  /\ worker.stage \in {"result", "post"} =>
       /\ worker.event.kind \in PostKinds
       /\ worker.event.kind \in {"ReviewHostKey", "Connected"} => worker.kind = "connect"
       /\ worker.event.kind = "ReviewHostKey" => worker.event.value \in Keys

PostsInv ==
  /\ IsSeq(posts)
  /\ \A i \in 1 .. Len(posts) :
       posts[i].event.kind \in PostKinds /\ posts[i].token \in 1 .. generation

\* Only a generation that there has been has a connection.
LinksInv ==
  /\ DOMAIN links = Generations
  /\ \A g \in Generations : links[g] # "none" => g <= generation

TypeInv ==
  /\ moves \in 0 .. MaxMoves /\ generation \in 0 .. moves
  /\ DOMAIN host = {"status", "changes", "key"} /\ host.key \in Keys
  /\ LinksInv
  /\ transport # NoGeneration => generation # 0
  /\ tasks \in Seq(Tasks)
  /\ \A i \in 1 .. Len(tasks) : tasks[i].token \in 1 .. generation
  /\ WorkerInv
  /\ PostsInv
  /\ UiOk(ui)
  /\ ui.phase = "CONNECTED" => generation # 0

LEMMA TypeInit == Init => TypeInv
<1> SUFFICES ASSUME Init PROVE TypeInv
  OBVIOUS
<1>1. /\ generation = 0 /\ moves = 0 /\ tasks = <<>> /\ posts = <<>>
      /\ worker = Idle /\ ui = NewState /\ LinksInv /\ transport = NoGeneration
  BY DEF Init, LinksInv
<1>2. DOMAIN host = {"status", "changes", "key"} /\ host.key \in Keys
  BY CockpitAssumption DEF Init
<1>3. UiOk(ui) /\ ui.phase = "DISCONNECTED"
  BY <1>1 DEF UiOk, UiFields, NewState
<1>4. WorkerInv
  BY <1>1 DEF WorkerInv, Idle, ConnectStage, NoGeneration
<1>5. tasks \in Seq(Tasks) /\ Len(tasks) = 0 /\ PostsInv
  BY <1>1, EmptySeq DEF PostsInv, IsSeq
<1>6. QED
  BY <1>1, <1>2, <1>3, <1>4, <1>5, CockpitAssumption DEF TypeInv

-----------------------------------------------------------------------------
(* What the steps do, as far as the invariants depend on it *)

\* A tap, a timer or a change of the host that at most submits a task.
Tapped ==
  /\ UNCHANGED <<links, generation, transport, terminal, pendingPin, worker, posts>>
  /\ ui'.phase = ui.phase /\ ui'.review = ui.review /\ UiOk(ui')
  /\ DOMAIN host' = DOMAIN host /\ host'.key \in Keys
  /\ \/ tasks' = tasks
     \/ \E kind \in {"poll", "preview"}, session \in {Nothing} \cup Sessions :
          /\ generation # 0
          /\ kind = "preview" => session \in Sessions
          /\ tasks' = Append(tasks, [kind |-> kind, token |-> generation, session |-> session])

\* If an event brings a preview, then one read over the connection of g.
ReadOver(e, g) == e.kind = "PreviewLoaded" => e.value.over = g

\* A request of the running task has been answered, or its connection is over.
Exchanged ==
  /\ UNCHANGED <<host, generation, transport, terminal, pendingPin, tasks, posts, mainVars>>
  /\ DOMAIN worker' = DOMAIN worker
  /\ worker'.token = worker.token /\ worker'.kind = worker.kind
  /\ worker.stage \in {"initialize", "state", "baseline", "poll", "reread", "preview"}
  /\ \/ /\ links' = Close(worker.token)
        /\ worker'.event = Failed
        /\ worker'.stage = IF worker.kind = "connect" THEN "result" ELSE "post"
     \/ /\ links' = links /\ Live
        /\ \/ worker.stage = "initialize" /\ worker'.stage = "state"
           \/ /\ worker.stage = "state" /\ worker'.stage = "baseline"
              /\ worker'.event.kind = "Connected"
           \/ /\ worker.stage = "baseline" /\ worker'.stage = "result"
              /\ worker'.event = worker.event
           \/ worker.stage = "poll" /\ worker'.stage = "reread"
           \/ /\ worker.stage \in {"poll", "reread"} /\ worker'.stage = "post"
              /\ worker'.event.kind \in {"RefreshReconciled", "RefreshFailed"}
           \/ /\ worker.stage = "preview" /\ worker'.stage = "post"
              /\ worker'.event.kind \in {"PreviewLoaded", "PreviewFailed"}
              /\ ReadOver(worker'.event, worker.token)

LEMMA ExchangeCases ==
  ASSUME NEW stage, NEW request, NEW next, NEW refusal, Exchange(stage, request, next, refusal)
  PROVE  /\ worker.stage = stage
         /\ UNCHANGED <<host, generation, transport, terminal, pendingPin, tasks, posts, mainVars>>
         /\ \/ /\ links' = links /\ Live
               /\ \/ \E r \in DOMAIN next : worker' = next[r]
                  \/ refusal # Failed /\ worker' = Finished(refusal)
            \/ Break
<1>1. /\ worker.stage = stage
      /\ UNCHANGED <<host, generation, transport, terminal, pendingPin, tasks, posts, mainVars>>
  BY DEF Exchange, ownerVars, mainVars
<1>2. CASE ~Live
  BY <1>1, <1>2 DEF Exchange
<1>3. CASE Live
  <2>1. \E o \in Outcomes(process, request, host.status) :
          CASE o.reply.ok /\ o.reply \in DOMAIN next ->
                 worker' = next[o.reply] /\ UNCHANGED links
            [] ~o.reply.ok /\ refusal # Failed ->
                 worker' = Finished(refusal) /\ UNCHANGED links
            [] OTHER -> Break
    BY <1>3 DEF Exchange
  <2>2. QED
    BY <1>1, <1>3, <2>1
<1>4. QED
  BY <1>2, <1>3

LEMMA FinishedFields ==
  ASSUME WorkerInv, NEW e
  PROVE  /\ DOMAIN Finished(e) = DOMAIN worker
         /\ Finished(e).token = worker.token /\ Finished(e).kind = worker.kind
         /\ Finished(e).event = e
         /\ Finished(e).stage = IF worker.kind = "connect" THEN "result" ELSE "post"
  BY DEF WorkerInv, Idle, Finished

LEMMA ExchangeStep ==
  ASSUME TypeInv,
         \/ Handshake \/ ReadState \/ TakeBaseline
         \/ PollAttention \/ RereadState \/ CallPreview
  PROVE  Exchanged
<1>0. WorkerInv
  BY DEF TypeInv
<1>b. ASSUME Break,
             worker.stage \in {"initialize", "state", "baseline", "poll", "reread", "preview"},
             UNCHANGED <<host, generation, transport, terminal, pendingPin, tasks, posts, mainVars>>
      PROVE  Exchanged
  BY <1>0, <1>b, FinishedFields DEF Break, Exchanged
<1>1. CASE Handshake
  <2> DEFINE request == [method |-> "initialize", protocols |-> {1}, previews |-> {1, 2}]
             known == {r \in Replies(request) : r.value \in {1, 2}}
             next == [r \in known |-> [worker EXCEPT !.stage = "state"]]
  <2>1. Exchange("initialize", request, next, Failed)
    BY <1>1 DEF Handshake
  <2>2. \A r \in DOMAIN next : next[r] = [worker EXCEPT !.stage = "state"]
    OBVIOUS
  <2> HIDE DEF request, known, next
  <2>3. /\ worker.stage = "initialize"
        /\ UNCHANGED <<host, generation, transport, terminal, pendingPin, tasks, posts, mainVars>>
        /\ \/ /\ links' = links /\ Live
              /\ \/ \E r \in DOMAIN next : worker' = next[r]
                 \/ FALSE
           \/ Break
    BY <2>1, ExchangeCases
  <2>4. CASE Break
    BY <2>3, <2>4, <1>b
  <2>5. CASE /\ links' = links /\ Live
              /\ \E r \in DOMAIN next : worker' = next[r]
    BY <2>2, <2>3, <2>5, <1>0, FinishedFields
       DEF Exchanged, WorkerInv, ConnectStage, Idle, Event
  <2>6. QED
    BY <2>3, <2>4, <2>5
<1>2. CASE ReadState
  <2> DEFINE request == Request("state/read")
             event(r) == Event("Connected", List(r))
             next == [r \in Replies(request) |->
                        [worker EXCEPT !.stage = "baseline", !.event = event(r)]]
  <2>1. Exchange("state", request, next, Failed)
    BY <1>2 DEF ReadState
  <2>2. \A r \in DOMAIN next :
          next[r] = [worker EXCEPT !.stage = "baseline", !.event = event(r)]
    OBVIOUS
  <2>e. \A r : event(r).kind = "Connected"
    BY DEF Event
  <2> HIDE DEF request, event, next
  <2>3. /\ worker.stage = "state"
        /\ UNCHANGED <<host, generation, transport, terminal, pendingPin, tasks, posts, mainVars>>
        /\ \/ /\ links' = links /\ Live
              /\ \/ \E r \in DOMAIN next : worker' = next[r]
                 \/ FALSE
           \/ Break
    BY <2>1, ExchangeCases
  <2>4. CASE Break
    BY <2>3, <2>4, <1>b
  <2>5. CASE /\ links' = links /\ Live
              /\ \E r \in DOMAIN next : worker' = next[r]
    <3>1. PICK r \in DOMAIN next : worker' = next[r]
      BY <2>5
    <3>2. worker' = [worker EXCEPT !.stage = "baseline", !.event = event(r)]
      BY <3>1, <2>2
    <3>3. QED
      BY <3>2, <2>e, <2>3, <2>5, <1>0 DEF Exchanged, WorkerInv, Idle
  <2>6. QED
    BY <2>3, <2>4, <2>5
<1>3. CASE TakeBaseline
  <2> DEFINE request == Request("attention/poll")
             quiet == {r \in Replies(request) : Acceptable(r) /\ r.events = <<>>}
             next == [r \in quiet |-> Finished(worker.event)]
  <2>1. Exchange("baseline", request, next, Failed)
    BY <1>3 DEF TakeBaseline
  <2>2. \A r \in DOMAIN next : next[r] = Finished(worker.event)
    OBVIOUS
  <2> HIDE DEF request, quiet, next
  <2>3. /\ worker.stage = "baseline"
        /\ UNCHANGED <<host, generation, transport, terminal, pendingPin, tasks, posts, mainVars>>
        /\ \/ /\ links' = links /\ Live
              /\ \/ \E r \in DOMAIN next : worker' = next[r]
                 \/ FALSE
           \/ Break
    BY <2>1, ExchangeCases
  <2>4. CASE Break
    BY <2>3, <2>4, <1>b
  <2>5. CASE /\ links' = links /\ Live
              /\ \E r \in DOMAIN next : worker' = next[r]
    BY <2>2, <2>3, <2>5, <1>0, FinishedFields
       DEF Exchanged, WorkerInv, ConnectStage, Idle, Event
  <2>6. QED
    BY <2>3, <2>4, <2>5
<1>4. CASE PollAttention
  <2> DEFINE request == Request("attention/poll")
             last(events) == IF events = <<>> THEN Nothing ELSE events[Len(events)].session
             next == [r \in {q \in Replies(request) : Acceptable(q)} |->
                        [worker EXCEPT !.stage = "reread", !.session = last(r.events)]]
  <2>1. Exchange("poll", request, next, RefreshFailed)
    BY <1>4 DEF PollAttention
  <2>2. \A r \in DOMAIN next :
          next[r] = [worker EXCEPT !.stage = "reread", !.session = last(r.events)]
    OBVIOUS
  <2> HIDE DEF request, last, next
  <2>3. /\ worker.stage = "poll"
        /\ UNCHANGED <<host, generation, transport, terminal, pendingPin, tasks, posts, mainVars>>
        /\ \/ /\ links' = links /\ Live
              /\ \/ \E r \in DOMAIN next : worker' = next[r]
                 \/ worker' = Finished(RefreshFailed)
           \/ Break
    BY <2>1, ExchangeCases
  <2>4. CASE Break
    BY <2>3, <2>4, <1>b
  <2>5. CASE /\ links' = links /\ Live
              /\ \E r \in DOMAIN next : worker' = next[r]
    <3>1. PICK r \in DOMAIN next : worker' = next[r]
      BY <2>5
    <3>2. worker' = [worker EXCEPT !.stage = "reread", !.session = last(r.events)]
      BY <3>1, <2>2
    <3>3. QED
      BY <3>2, <2>3, <2>5, <1>0 DEF Exchanged, WorkerInv, Idle
  <2>6. CASE links' = links /\ Live /\ worker' = Finished(RefreshFailed)
    BY <2>3, <2>6, <1>0, FinishedFields
       DEF Exchanged, WorkerInv, ConnectStage, Event, RefreshFailed
  <2>7. QED
    BY <2>3, <2>4, <2>5, <2>6
<1>5. CASE RereadState
  <2> DEFINE request == Request("state/read")
             event(r) == [kind |-> "RefreshReconciled", value |-> List(r),
                          banner |-> worker.session]
             next == [r \in Replies(request) |-> Finished(event(r))]
  <2>1. Exchange("reread", request, next, RefreshFailed)
    BY <1>5 DEF RereadState
  <2>2. \A r \in DOMAIN next : next[r] = Finished(event(r))
    OBVIOUS
  <2>3. \A r : event(r).kind = "RefreshReconciled"
    OBVIOUS
  <2> HIDE DEF request, event, next
  <2>4. /\ worker.stage = "reread"
        /\ UNCHANGED <<host, generation, transport, terminal, pendingPin, tasks, posts, mainVars>>
        /\ \/ /\ links' = links /\ Live
              /\ \/ \E r \in DOMAIN next : worker' = next[r]
                 \/ worker' = Finished(RefreshFailed)
           \/ Break
    BY <2>1, ExchangeCases
  <2>5. CASE Break
    BY <2>4, <2>5, <1>b
  <2>6. CASE /\ links' = links /\ Live
              /\ \E r \in DOMAIN next : worker' = next[r]
    BY <2>2, <2>3, <2>4, <2>6, <1>0, FinishedFields
       DEF Exchanged, WorkerInv, ConnectStage, Idle, Event
  <2>7. CASE links' = links /\ Live /\ worker' = Finished(RefreshFailed)
    BY <2>4, <2>7, <1>0, FinishedFields
       DEF Exchanged, WorkerInv, ConnectStage, Event, RefreshFailed
  <2>8. QED
    BY <2>4, <2>5, <2>6, <2>7
<1>6. CASE CallPreview
  <2> DEFINE request == [method |-> "preview/read", session |-> worker.session,
                         version |-> process.preview]
             same == {r \in Replies(request) : r.value = worker.session}
             preview == [session |-> worker.session, over |-> worker.token]
             loaded == Event("PreviewLoaded", preview)
             next == [r \in same |-> Finished(loaded)]
  <2>1. Exchange("preview", request, next, Event("PreviewFailed", Nothing))
    BY <1>6 DEF CallPreview
  <2>2. \A r \in DOMAIN next : next[r] = Finished(loaded)
    OBVIOUS
  <2>e. loaded.kind = "PreviewLoaded" /\ ReadOver(loaded, worker.token)
    BY DEF Event, ReadOver
  <2> HIDE DEF request, same, next, loaded, preview
  <2>3. /\ worker.stage = "preview"
        /\ UNCHANGED <<host, generation, transport, terminal, pendingPin, tasks, posts, mainVars>>
        /\ \/ /\ links' = links /\ Live
              /\ \/ \E r \in DOMAIN next : worker' = next[r]
                 \/ worker' = Finished(Event("PreviewFailed", Nothing))
           \/ Break
    BY <2>1, ExchangeCases
  <2>4. CASE Break
    BY <2>3, <2>4, <1>b
  <2>5. CASE /\ links' = links /\ Live
              /\ \E r \in DOMAIN next : worker' = next[r]
    <3>1. worker' = Finished(loaded)
      BY <2>2, <2>5
    <3>2. QED
      BY <3>1, <2>e, <2>3, <2>5, <1>0, FinishedFields DEF Exchanged, WorkerInv, ConnectStage
  <2>6. CASE links' = links /\ Live /\ worker' = Finished(Event("PreviewFailed", Nothing))
    BY <2>3, <2>6, <1>0, FinishedFields
       DEF Exchanged, WorkerInv, ConnectStage, Event, RefreshFailed, ReadOver
  <2>7. QED
    BY <2>3, <2>4, <2>5, <2>6
<1>7. QED
  BY <1>1, <1>2, <1>3, <1>4, <1>5, <1>6

LEMMA TapStep ==
  ASSUME TypeInv,
         \/ TapRefresh \/ TimerFires \/ OpenHome \/ ReadPreview
         \/ \E s \in Sessions : OpenThread(s)
         \/ \E s \in Sessions, status \in Shown : Change(s, status)
         \/ \E key \in Keys : Rekey(key)
         \/ UNCHANGED vars
  PROVE  Tapped
<1>0. UiOk(ui) /\ DOMAIN ui = UiFields
  BY DEF TypeInv, UiOk
<1>1. ASSUME NEW p, RequestRefresh(p) PROVE Tapped
  <2>1. CASE ui' = ui /\ tasks' = tasks
    BY <1>1, <2>1, <1>0 DEF TypeInv, RequestRefresh, Tapped, hostVars
  <2>2. CASE ui' = Reduce(ui, RefreshFailed) /\ tasks' = tasks
    <3>1. RefreshFailed.kind = "RefreshFailed"
      BY DEF RefreshFailed, Event
    <3>2. UiOk(ui') /\ ui'.phase = ui.phase /\ ui'.review = ui.review
      BY <1>0, <2>2, <3>1, Reduced, ReducedPhase DEF QuietKinds
    <3>3. QED
      BY <1>1, <2>2, <3>2 DEF TypeInv, RequestRefresh, Tapped, hostVars
  <2>3. CASE /\ ui' = Reduce(ui, Event("RefreshStarted", Nothing))
             /\ Submit("poll", Nothing)
    <3>1. Event("RefreshStarted", Nothing).kind = "RefreshStarted"
      BY DEF Event
    <3>2. UiOk(ui') /\ ui'.phase = ui.phase /\ ui'.review = ui.review
      BY <1>0, <2>3, <3>1, Reduced, ReducedPhase DEF QuietKinds
    <3>3. QED
      BY <1>1, <2>3, <3>2 DEF TypeInv, RequestRefresh, Tapped, hostVars, Submit
  <2>4. QED
    BY <1>1, <2>1, <2>2, <2>3 DEF RequestRefresh
<1>2. CASE TapRefresh
  BY <1>1, <1>2 DEF TapRefresh
<1>3. CASE TimerFires
  BY <1>1, <1>3 DEF TimerFires
<1>4. CASE OpenHome
  <2>1. Event("OpenHome", Nothing).kind = "OpenHome"
    BY DEF Event
  <2>2. UiOk(ui') /\ ui'.phase = ui.phase /\ ui'.review = ui.review
    BY <1>0, <1>4, <2>1, Reduced, ReducedPhase DEF QuietKinds, OpenHome, Dispatch
  <2>3. QED
    BY <1>4, <2>2 DEF TypeInv, OpenHome, Tapped, hostVars, clientVars
<1>5. CASE ReadPreview
  <2> DEFINE started == Reduce(ui, Event("PreviewStarted", Nothing))
             failed == Reduce(started, Event("PreviewFailed", Nothing))
  <2>1. /\ Event("PreviewStarted", Nothing).kind = "PreviewStarted"
        /\ Event("PreviewFailed", Nothing).kind = "PreviewFailed"
    BY DEF Event
  <2>2. UiOk(started) /\ started.phase = ui.phase /\ started.review = ui.review
    BY <1>0, <2>1, Reduced, ReducedPhase DEF QuietKinds
  <2>3. DOMAIN started = UiFields
    BY <2>2 DEF UiOk
  <2>4. UiOk(failed) /\ failed.phase = ui.phase /\ failed.review = ui.review
    BY <2>1, <2>2, <2>3, Reduced, ReducedPhase DEF QuietKinds
  <2>5. ui.selected \in Sessions
    BY <1>0, <1>5 DEF UiOk, ReadPreview
  <2>6. \/ ui' = failed /\ tasks' = tasks
        \/ ui' = started /\ Submit("preview", ui.selected)
    BY <1>5 DEF ReadPreview
  <2> HIDE DEF started, failed
  <2>7. QED
    BY <1>5, <2>2, <2>4, <2>5, <2>6 DEF TypeInv, ReadPreview, Tapped, hostVars, Submit
<1>6. ASSUME NEW s \in Sessions, OpenThread(s) PROVE Tapped
  <2>1. Event("OpenThread", s).kind = "OpenThread" /\ Event("OpenThread", s).value = s
    BY DEF Event
  <2>2. UiOk(ui') /\ ui'.phase = ui.phase /\ ui'.review = ui.review
    BY <1>0, <1>6, <2>1, Reduced, ReducedPhase DEF QuietKinds, OpenThread, Dispatch
  <2>3. QED
    BY <1>6, <2>2 DEF TypeInv, OpenThread, Tapped, hostVars, clientVars
<1>7. ASSUME NEW s \in Sessions, NEW status, Change(s, status) PROVE Tapped
  BY <1>7, <1>0 DEF TypeInv, Change, Tapped, hostVars, clientVars, mainVars
<1>8. ASSUME NEW key \in Keys, Rekey(key) PROVE Tapped
  BY <1>8, <1>0 DEF TypeInv, Rekey, Tapped, hostVars, clientVars, mainVars
<1>9. CASE UNCHANGED vars
  BY <1>9, <1>0 DEF TypeInv, vars, Tapped, hostVars, clientVars, mainVars
<1>10. QED
  BY <1>2, <1>3, <1>4, <1>5, <1>6, <1>7, <1>8, <1>9

\* connect or disconnect: the generation is over, and of the queued tasks at
\* most the last one is gone.
Restarted ==
  /\ generation' = generation + 1 /\ transport' = NoGeneration /\ pendingPin' = NoKey
  /\ links' = Close(transport)
  /\ UNCHANGED <<host, posts>>
  /\ UiOk(ui') /\ ui'.phase \in {"CONNECTING", "DISCONNECTED"}
  /\ worker' \in {worker, [worker EXCEPT !.interrupted = TRUE]}
  /\ \E n \in 0 .. Len(tasks) :
       \/ tasks' = SubSeq(tasks, 1, n)
       \/ tasks' = Append(SubSeq(tasks, 1, n),
                          [kind |-> "connect", token |-> generation + 1, session |-> Nothing])

LEMMA RestartStep ==
  ASSUME TypeInv, NEW p, Connect(p) \/ Disconnect(p)
  PROVE  Restarted
<1>0. UiOk(ui) /\ DOMAIN ui = UiFields /\ tasks \in Seq(Tasks)
  BY DEF TypeInv, UiOk
<1>1. \E n \in 0 .. Len(tasks) : CancelledTasks = SubSeq(tasks, 1, n)
  <2>1. CASE CancelledTasks = tasks
    <3>1. tasks = SubSeq(tasks, 1, Len(tasks))
      BY <1>0, LenProperties, SubSeqProperties
    <3>2. CancelledTasks = SubSeq(tasks, 1, Len(tasks))
      BY <2>1, <3>1
    <3>3. Len(tasks) \in 0 .. Len(tasks)
      BY <1>0, LenProperties
    <3>4. QED
      BY <3>2, <3>3
  <2>2. CASE tasks # <<>> /\ CancelledTasks = SubSeq(tasks, 1, Len(tasks) - 1)
    <3>1. Len(tasks) - 1 \in 0 .. Len(tasks)
      BY <1>0, <2>2, LenProperties, EmptySeq
    <3>2. QED
      BY <2>2, <3>1
  <2>3. QED
    BY <2>1, <2>2 DEF CancelledTasks
<1>2. worker' \in {worker, [worker EXCEPT !.interrupted = TRUE]}
  BY DEF Connect, Disconnect, CancelledWorker
<1>3. /\ Event("Connect", Nothing).kind = "Connect"
      /\ Event("Disconnect", Nothing).kind = "Disconnect"
  BY DEF Event
<1>4. UiOk(ui') /\ ui'.phase \in {"CONNECTING", "DISCONNECTED"}
  BY <1>0, <1>3, Reduced, ReducedPhase DEF Connect, Disconnect, Dispatch
<1>5. CASE Connect(p)
  BY <1>1, <1>2, <1>4, <1>5 DEF Connect, Restarted, hostVars
<1>6. CASE Disconnect(p)
  BY <1>1, <1>2, <1>4, <1>6 DEF Disconnect, Restarted, hostVars
<1>7. QED
  BY <1>5, <1>6

\* Every step begins a task or is one of these.
Continued ==
  \/ Tapped \/ Restarted \/ Deliver
  \/ OwnTransport \/ OpenSsh \/ Exchanged \/ Conclude \/ Post
  \/ \E g \in Generations : Lose(g) \/ ReportLoss(g)

AnyStep == Begin \/ Continued

LEMMA Steps ==
  ASSUME TypeInv, [Next]_vars
  PROVE  AnyStep
<1>1. CASE User
  BY <1>1, TapStep, RestartStep
     DEF User, TapConnect, TapApprove, TapDisconnect, RepairPin, AnyStep, Continued
<1>2. CASE Executor
  BY <1>2, ExchangeStep DEF Executor, AnyStep, Continued
<1>3. CASE TimerFires \/ UNCHANGED vars \/ Deliver \/ MonitorReports
  BY <1>3, TapStep DEF AnyStep, Continued, MonitorReports
<1>4. CASE \/ \E g \in Generations : Lose(g)
           \/ \E s \in Sessions, status \in Shown : Change(s, status)
           \/ \E key \in Keys : Rekey(key)
  BY <1>4, TapStep DEF AnyStep, Continued
<1>5. QED
  BY <1>1, <1>2, <1>3, <1>4 DEF Next, Surroundings

-----------------------------------------------------------------------------
(* Types *)

LEMMA BoundStep ==
  ASSUME TypeInv, [Next]_vars
  PROVE  moves' \in 0 .. MaxMoves /\ generation' \in 0 .. moves'
<1>1. CASE UNCHANGED vars
  BY <1>1 DEF TypeInv, vars, clientVars
<1>2. CASE moves < MaxMoves /\ moves' = moves + 1 /\ Surroundings
  <2>1. generation' \in {generation, generation + 1}
    BY <1>2 DEF Surroundings, User, TapConnect, TapApprove, TapDisconnect, RepairPin,
       Connect, Disconnect, TapRefresh, RequestRefresh, OpenHome, OpenThread, ReadPreview,
       Lose, Change, Rekey, clientVars
  <2>2. QED
    BY <1>2, <2>1, CockpitAssumption DEF TypeInv
<1>3. CASE UNCHANGED moves /\ (TimerFires \/ Deliver \/ Executor \/ MonitorReports)
  <2>1. generation' = generation
    BY <1>3 DEF TimerFires, RequestRefresh, Deliver, Executor, Begin, OwnTransport, OpenSsh,
       Handshake, ReadState, TakeBaseline, PollAttention, RereadState, CallPreview, Exchange,
       Conclude, Post, MonitorReports, ReportLoss, clientVars, ownerVars
  <2>2. QED
    BY <1>3, <2>1 DEF TypeInv
<1>4. QED
  BY <1>1, <1>2, <1>3 DEF Next

LEMMA Prefix ==
  ASSUME NEW s \in Seq(Tasks), NEW n \in 0 .. Len(s), NEW t \in Tasks
  PROVE  LET r == SubSeq(s, 1, n) IN
         /\ r \in Seq(Tasks) /\ Len(r) = n /\ \A i \in 1 .. n : r[i] = s[i]
         /\ Append(r, t) \in Seq(Tasks) /\ Len(Append(r, t)) = n + 1
         /\ \A i \in 1 .. n : Append(r, t)[i] = s[i]
         /\ Append(r, t)[n + 1] = t
<1>1. /\ SubSeq(s, 1, n) \in Seq(Tasks) /\ Len(SubSeq(s, 1, n)) = n
      /\ \A i \in 1 .. n : SubSeq(s, 1, n)[i] = s[i]
  BY SubSeqProperties, LenProperties
<1>2. QED
  BY <1>1, AppendProperties

\* What the queue of the executor becomes when nothing is taken from it.
LEMMA QueueAfter ==
  ASSUME TypeInv, Tapped \/ Restarted
  PROVE  \E n \in 0 .. Len(tasks) :
           /\ tasks' \in Seq(Tasks) /\ Len(tasks') \in {n, n + 1}
           /\ \A i \in 1 .. n : tasks'[i] = tasks[i]
           /\ Len(tasks') = n + 1 =>
                /\ tasks'[n + 1].token = generation' /\ generation' \in Nat \ {0}
                /\ tasks'[n + 1].kind = "connect" => generation' = generation + 1
<1>0. tasks \in Seq(Tasks) /\ Len(tasks) \in Nat /\ generation \in Nat
  BY LenProperties DEF TypeInv
<1>1. CASE Tapped
  <2>1. Len(tasks) \in 0 .. Len(tasks)
    BY <1>0
  <2>2. CASE tasks' = tasks
    BY <1>0, <2>1, <2>2
  <2>3. CASE /\ generation # 0
             /\ \E kind \in {"poll", "preview"}, session \in {Nothing} \cup Sessions :
                  /\ kind = "preview" => session \in Sessions
                  /\ tasks' = Append(tasks, [kind |-> kind, token |-> generation,
                                             session |-> session])
    <3>1. PICK kind \in {"poll", "preview"}, session \in {Nothing} \cup Sessions :
            /\ kind = "preview" => session \in Sessions
            /\ tasks' = Append(tasks, [kind |-> kind, token |-> generation,
                                       session |-> session])
      BY <2>3
    <3>2. [kind |-> kind, token |-> generation, session |-> session] \in Tasks
      BY <1>0, <3>1 DEF Tasks
    <3>3. /\ tasks' \in Seq(Tasks) /\ Len(tasks') = Len(tasks) + 1
          /\ \A i \in 1 .. Len(tasks) : tasks'[i] = tasks[i]
          /\ tasks'[Len(tasks) + 1] =
               [kind |-> kind, token |-> generation, session |-> session]
      BY <1>0, <3>1, <3>2, AppendProperties
    <3>4. generation' = generation
      BY <1>1 DEF Tapped
    <3>5. QED
      BY <1>0, <2>1, <2>3, <3>3, <3>4
  <2>4. QED
    BY <1>1, <2>2, <2>3 DEF Tapped
<1>2. CASE Restarted
  <2> DEFINE t == [kind |-> "connect", token |-> generation + 1, session |-> Nothing]
  <2>1. t \in Tasks /\ t.token = generation + 1 /\ generation' = generation + 1
    BY <1>0, <1>2 DEF Tasks, Restarted
  <2>2. PICK n \in 0 .. Len(tasks) :
          tasks' = SubSeq(tasks, 1, n) \/ tasks' = Append(SubSeq(tasks, 1, n), t)
    BY <1>2 DEF Restarted
  <2> HIDE DEF t
  <2>3. /\ tasks' \in Seq(Tasks) /\ Len(tasks') \in {n, n + 1}
        /\ \A i \in 1 .. n : tasks'[i] = tasks[i]
        /\ Len(tasks') = n + 1 => tasks'[n + 1] = t
    <3>1. LET r == SubSeq(tasks, 1, n) IN
          /\ r \in Seq(Tasks) /\ Len(r) = n /\ \A i \in 1 .. n : r[i] = tasks[i]
          /\ Append(r, t) \in Seq(Tasks) /\ Len(Append(r, t)) = n + 1
          /\ \A i \in 1 .. n : Append(r, t)[i] = tasks[i]
          /\ Append(r, t)[n + 1] = t
      BY <1>0, <2>1, Prefix
    <3>2. n \in Nat
      BY <1>0
    <3>3. QED
      BY <2>2, <3>1, <3>2
  <2>4. Len(tasks') = n + 1 => tasks'[n + 1].token = generation'
    BY <2>1, <2>3
  <2>5. generation' \in Nat \ {0} /\ generation' = generation + 1
    BY <1>0, <2>1
  <2>6. QED
    BY <2>3, <2>4, <2>5
<1>3. QED
  BY <1>1, <1>2

\* What is posted is appended.
LEMMA PostAfter ==
  ASSUME TypeInv, NEW p, posts' = Append(posts, p),
         p.event.kind \in PostKinds, p.token \in 1 .. generation
  PROVE  /\ Len(posts) \in Nat /\ Len(posts') = Len(posts) + 1 /\ IsSeq(posts')
         /\ \A i \in 1 .. Len(posts) : posts'[i] = posts[i]
         /\ posts'[Len(posts) + 1] = p
         /\ generation' = generation => PostsInv'
<1>1. IsSeq(posts)
  BY DEF TypeInv, PostsInv
<1>2. /\ Len(posts) \in Nat /\ Len(posts') = Len(posts) + 1 /\ IsSeq(posts')
      /\ \A i \in 1 .. Len(posts) : posts'[i] = posts[i]
      /\ posts'[Len(posts) + 1] = p
  BY <1>1, AppendSeq
<1>3. ASSUME generation' = generation PROVE PostsInv'
  BY <1>2, <1>3 DEF TypeInv, PostsInv
<1>4. QED
  BY <1>2, <1>3

LEMMA TypeStep ==
  ASSUME TypeInv, AnyStep, moves' \in 0 .. MaxMoves, generation' \in 0 .. moves'
  PROVE  TypeInv'
<1>0. /\ tasks \in Seq(Tasks) /\ Len(tasks) \in Nat /\ generation \in Nat
      /\ WorkerInv /\ PostsInv /\ UiOk(ui) /\ DOMAIN ui = UiFields
      /\ DOMAIN host = {"status", "changes", "key"} /\ host.key \in Keys
      /\ LinksInv
  BY LenProperties DEF TypeInv, UiOk
<1>c. ASSUME NEW t, links' = Close(t), generation <= generation' PROVE LinksInv'
  BY <1>0, <1>c DEF Close, LinksInv, Generations
<1>1. CASE Tapped \/ Restarted
  <2>1. /\ tasks' \in Seq(Tasks)
        /\ \A i \in 1 .. Len(tasks') : tasks'[i].token \in 1 .. generation'
    <3>1. generation' \in {generation, generation + 1}
      BY <1>1 DEF Tapped, Restarted
    <3>2. PICK n \in 0 .. Len(tasks) :
           /\ tasks' \in Seq(Tasks) /\ Len(tasks') \in {n, n + 1}
           /\ \A i \in 1 .. n : tasks'[i] = tasks[i]
           /\ Len(tasks') = n + 1 =>
                /\ tasks'[n + 1].token = generation' /\ generation' \in Nat \ {0}
                /\ tasks'[n + 1].kind = "connect" => generation' = generation + 1
      BY <1>1, QueueAfter
    <3>3. \A i \in 1 .. n : tasks'[i].token \in 1 .. generation'
      BY <1>0, <3>1, <3>2 DEF TypeInv
    <3>4. Len(tasks') = n + 1 => tasks'[n + 1].token \in 1 .. generation'
      BY <3>2
    <3>5. QED
      BY <1>0, <3>2, <3>3, <3>4
  <2>2. /\ DOMAIN host' = DOMAIN host /\ host'.key \in Keys
        /\ transport' # NoGeneration => generation' # 0
    BY <1>0, <1>1 DEF Tapped, Restarted, TypeInv
  <2>l. LinksInv'
    BY <1>0, <1>1, <1>c DEF Tapped, Restarted, LinksInv
  <2>3. WorkerInv'
    <3>1. /\ worker' = worker \/ worker' = [worker EXCEPT !.interrupted = TRUE]
          /\ generation' \in {generation, generation + 1}
      BY <1>1 DEF Tapped, Restarted
    <3>2. /\ DOMAIN worker' = DOMAIN worker /\ worker'.stage = worker.stage
          /\ worker'.kind = worker.kind /\ worker'.token = worker.token
          /\ worker'.event = worker.event /\ worker'.session = worker.session
      BY <1>0, <3>1 DEF WorkerInv, Idle
    <3>3. QED
      BY <1>0, <3>1, <3>2 DEF WorkerInv
  <2>4. PostsInv'
    BY <1>0, <1>1 DEF Tapped, Restarted, PostsInv
  <2>5. UiOk(ui') /\ (ui'.phase = "CONNECTED" => generation' # 0)
    BY <1>1 DEF Tapped, Restarted, TypeInv
  <2>6. QED
    BY <1>0, <2>1, <2>2, <2>l, <2>3, <2>4, <2>5 DEF TypeInv
<1>2. CASE Deliver
  <2>1. /\ UNCHANGED <<host, links, transport, generation, tasks, worker>>
        /\ posts # <<>> /\ posts' = Tail(posts)
    BY <1>2 DEF Deliver, hostVars, clientVars
  <2>2. /\ PostsInv' /\ Head(posts).event.kind \in PostKinds
        /\ Head(posts).token # 0
    BY <1>0, <2>1, TailSeq DEF PostsInv
  <2>3. UiOk(ui') /\ (ui'.phase = "CONNECTED" => generation # 0)
    <3>1. CASE Head(posts).token = generation
      <4>1. ui' = Reduce(ui, Head(posts).event)
        BY <1>2, <3>1 DEF Deliver, Dispatch
      <4>2. Head(posts).event.kind # "OpenThread"
        BY <2>2 DEF PostKinds, EventKinds
      <4>3. UiOk(ui')
        BY <1>0, <2>2, <4>1, <4>2, Reduced
      <4>4. QED
        BY <2>2, <3>1, <4>3
    <3>2. CASE Head(posts).token # generation
      BY <1>0, <1>2, <3>2 DEF Deliver, mainVars, TypeInv
    <3>3. QED
      BY <3>1, <3>2
  <2>4. QED
    BY <1>0, <2>1, <2>2, <2>3 DEF TypeInv, WorkerInv, LinksInv
<1>3. CASE Begin
  <2>1. /\ UNCHANGED <<host, links, transport, generation, posts, ui>>
        /\ tasks # <<>> /\ tasks' = Tail(tasks)
    BY <1>3 DEF Begin, hostVars, mainVars
  <2>2. /\ tasks' \in Seq(Tasks) /\ Len(tasks') = Len(tasks) - 1 /\ Len(tasks) # 0
        /\ \A i \in 1 .. Len(tasks') : tasks'[i] = tasks[i + 1]
        /\ Head(tasks) = tasks[1] /\ tasks[1] \in Tasks
    BY <1>0, <2>1, HeadTailProperties, EmptySeq, ElementOfSeq
  <2>3. WorkerInv'
    BY <1>0, <1>3, <2>1, <2>2
       DEF Begin, WorkerInv, TypeInv, Tasks, Idle, ConnectStage, NoGeneration
  <2>4. QED
    BY <1>0, <2>1, <2>2, <2>3 DEF TypeInv, PostsInv, LinksInv
<1>4. CASE OwnTransport
  <2>1. WorkerInv'
    BY <1>0, <1>4
       DEF OwnTransport, WorkerInv, Idle, ConnectStage, Goto, NoGeneration, ownerVars
  <2>2. transport' # NoGeneration => generation # 0
    BY <1>0, <1>4 DEF OwnTransport, TypeInv, WorkerInv, NoGeneration
  <2>3. UNCHANGED <<host, links, generation, tasks, posts, ui>>
    BY <1>4 DEF OwnTransport, ownerVars, hostVars, mainVars
  <2>4. QED
    BY <1>0, <2>1, <2>2, <2>3 DEF TypeInv, PostsInv, LinksInv
<1>5. CASE OpenSsh
  <2>1. /\ UNCHANGED <<host, generation, transport, tasks, posts, ui>>
        /\ LinksInv'
    BY <1>0, <1>5 DEF OpenSsh, ownerVars, mainVars, LinksInv, WorkerInv
  <2>2. WorkerInv'
    BY <1>0, <1>5, <2>1, FinishedFields
       DEF OpenSsh, WorkerInv, ConnectStage, Goto, Event, Failed, PostKinds, EventKinds, Idle
  <2>3. QED
    BY <1>0, <2>1, <2>2 DEF TypeInv, PostsInv, LinksInv
<1>6. CASE Exchanged
  <2>1. WorkerInv'
    <3>1. /\ DOMAIN worker' = DOMAIN worker /\ generation' = generation
          /\ worker'.token = worker.token /\ worker'.kind = worker.kind
      BY <1>6 DEF Exchanged
    <3>2. CASE worker'.event = Failed
      BY <1>0, <1>6, <3>1, <3>2
         DEF Exchanged, WorkerInv, ConnectStage, Failed, Event, PostKinds, EventKinds
    <3>3. CASE worker'.event # Failed
      BY <1>0, <1>6, <3>1, <3>3 DEF Exchanged, WorkerInv, ConnectStage, PostKinds, EventKinds
    <3>4. QED
      BY <3>2, <3>3
  <2>2. LinksInv'
    BY <1>0, <1>6, <1>c DEF Exchanged, LinksInv
  <2>3. QED
    BY <1>0, <1>6, <2>1, <2>2 DEF TypeInv, Exchanged, PostsInv, mainVars
<1>7. CASE Conclude
  <2>1. WorkerInv'
    BY <1>0, <1>7
       DEF Conclude, WorkerInv, Idle, ConnectStage, Goto, NoGeneration, ownerVars
  <2>2. QED
    BY <1>0, <1>7, <2>1 DEF TypeInv, Conclude, ownerVars, hostVars, mainVars, PostsInv, LinksInv
<1>8. CASE Post
  <2>1. UNCHANGED <<host, links, transport, generation, tasks, ui>> /\ worker' = Idle
    BY <1>8 DEF Post, hostVars, clientVars, mainVars
  <2>2. WorkerInv'
    BY <1>0, <2>1 DEF WorkerInv, Idle, ConnectStage, NoGeneration
  <2>3. worker.event.kind \in PostKinds /\ worker.token \in 1 .. generation
    BY <1>0, <1>8 DEF Post, WorkerInv, NoGeneration
  <2>4. PostsInv'
    <3> DEFINE p == [token |-> worker.token, event |-> worker.event]
    <3>1. posts' = Append(posts, p) /\ p.event.kind \in PostKinds /\ p.token \in 1 .. generation
      BY <1>8, <2>3 DEF Post
    <3>2. QED
      BY <2>1, <3>1, PostAfter
  <2>5. QED
    BY <1>0, <2>1, <2>2, <2>4 DEF TypeInv, LinksInv
<1>9. ASSUME NEW g \in Generations, Lose(g) PROVE TypeInv'
  BY <1>0, <1>9
     DEF TypeInv, Lose, hostVars, clientVars, mainVars, PostsInv, LinksInv, WorkerInv
<1>10. ASSUME NEW g \in Generations, ReportLoss(g) PROVE TypeInv'
  <2>1. /\ UNCHANGED <<host, generation, tasks, ui, worker>>
        /\ LinksInv' /\ g \in 1 .. generation
        /\ transport' \in {transport, NoGeneration}
    BY <1>0, <1>10 DEF ReportLoss, hostVars, mainVars, LinksInv, Generations
  <2>2. PostsInv'
    <3> DEFINE p == [token |-> g, event |-> Failed]
    <3>1. posts' = Append(posts, p) /\ p.event.kind \in PostKinds /\ p.token \in 1 .. generation
      BY <1>10, <2>1 DEF ReportLoss, Failed, Event, PostKinds, EventKinds
    <3>2. QED
      BY <2>1, <3>1, PostAfter
  <2>3. QED
    BY <1>0, <2>1, <2>2 DEF TypeInv, WorkerInv, LinksInv
<1>11. QED
  BY <1>1, <1>2, <1>3, <1>4, <1>5, <1>6, <1>7, <1>8, <1>9, <1>10 DEF AnyStep, Continued

-----------------------------------------------------------------------------
(* The tasks are queued in the order of their generations, and a connect is *)
(* the first of its generation.                                             *)

Before(a, b) == a.token <= b.token /\ (b.kind = "connect" => a.token < b.token)

QueueInv ==
  /\ \A i, j \in 1 .. Len(tasks) : i < j => Before(tasks[i], tasks[j])
  /\ worker.stage # "idle" => \A j \in 1 .. Len(tasks) : Before(worker, tasks[j])

\* What a step does to a running task, if it neither begins nor ends it.
SameTask ==
  worker'.stage # "idle" =>
    worker.stage # "idle" /\ worker'.token = worker.token /\ worker'.kind = worker.kind

LEMMA WorkerSteps ==
  ASSUME TypeInv, Continued
  PROVE  SameTask
<1>0. WorkerInv
  BY DEF TypeInv
<1>1. CASE Tapped \/ Deliver \/ \E g \in Generations : Lose(g) \/ ReportLoss(g)
  BY <1>1 DEF Tapped, Deliver, Lose, ReportLoss, SameTask
<1>2. CASE Restarted
  BY <1>0, <1>2 DEF Restarted, SameTask, WorkerInv, Idle
<1>3. CASE OwnTransport \/ Conclude \/ Post
  BY <1>0, <1>3 DEF OwnTransport, Conclude, Post, Goto, SameTask, WorkerInv, Idle
<1>4. CASE OpenSsh
  BY <1>0, <1>4, FinishedFields DEF OpenSsh, Goto, SameTask, WorkerInv, Idle
<1>5. CASE Exchanged
  BY <1>5 DEF Exchanged, SameTask
<1>6. QED
  BY <1>1, <1>2, <1>3, <1>4, <1>5 DEF Continued

LEMMA TasksKept ==
  ASSUME Continued, ~Tapped, ~Restarted
  PROVE  tasks' = tasks /\ generation' = generation
  BY DEF Continued, Deliver, OwnTransport, OpenSsh, Exchanged, Conclude, Post, Lose, ReportLoss,
     clientVars, ownerVars

LEMMA BegunFields ==
  ASSUME TypeInv, Begin
  PROVE  /\ Len(tasks) \in Nat \ {0} /\ Len(tasks') = Len(tasks) - 1
         /\ \A i \in 1 .. Len(tasks') : tasks'[i] = tasks[i + 1]
         /\ worker'.stage = tasks[1].kind /\ worker'.kind = tasks[1].kind
         /\ worker'.token = tasks[1].token /\ worker'.event = NoEvent
         /\ tasks[1].kind \in {"connect", "poll", "preview"}
<1>1. tasks \in Seq(Tasks) /\ tasks # <<>>
  BY DEF TypeInv, Begin
<1>2. /\ tasks' = Tail(tasks) /\ Len(tasks) \in Nat \ {0} /\ Len(tasks') = Len(tasks) - 1
      /\ \A i \in 1 .. Len(tasks') : tasks'[i] = tasks[i + 1]
      /\ Head(tasks) = tasks[1] /\ tasks[1] \in Tasks
  BY <1>1, HeadTailProperties, EmptySeq, LenProperties, ElementOfSeq DEF Begin
<1>3. QED
  BY <1>2 DEF Begin, Tasks, Idle

LEMMA QueueStep ==
  ASSUME TypeInv, TypeInv', QueueInv, AnyStep
  PROVE  QueueInv'
<1>0. /\ Len(tasks) \in Nat /\ generation \in Nat
      /\ \A i \in 1 .. Len(tasks) : tasks[i].token \in 1 .. generation
      /\ worker.token \in 0 .. generation
  BY LenProperties DEF TypeInv, WorkerInv
<1>1. CASE Tapped \/ Restarted
  <2>1. generation' \in {generation, generation + 1}
    BY <1>1 DEF Tapped, Restarted
  <2>2. PICK n \in 0 .. Len(tasks) :
          /\ tasks' \in Seq(Tasks) /\ Len(tasks') \in {n, n + 1}
          /\ \A i \in 1 .. n : tasks'[i] = tasks[i]
          /\ Len(tasks') = n + 1 =>
               /\ tasks'[n + 1].token = generation' /\ generation' \in Nat \ {0}
               /\ tasks'[n + 1].kind = "connect" => generation' = generation + 1
    BY <1>1, QueueAfter
  <2>3. \A i \in 1 .. n : i \in 1 .. Len(tasks)
    BY <1>0
  <2>4. SameTask
    BY <1>1, WorkerSteps DEF Continued
  <2>5. ASSUME NEW a, a.token \in 0 .. generation, Len(tasks') = n + 1
        PROVE  Before(a, tasks'[n + 1])
    BY <1>0, <2>1, <2>2, <2>5 DEF Before
  <2>6. ASSUME NEW i \in 1 .. Len(tasks'), NEW j \in 1 .. Len(tasks'), i < j
        PROVE  Before(tasks'[i], tasks'[j])
    <3>1. i \in 1 .. n /\ tasks'[i] = tasks[i] /\ tasks[i].token \in 1 .. generation
      BY <1>0, <2>2, <2>3, <2>6
    <3>2. CASE j \in 1 .. n
      BY <2>2, <2>3, <2>6, <3>1, <3>2 DEF QueueInv
    <3>3. CASE j = n + 1 /\ Len(tasks') = n + 1
      <4>1. tasks[i].token \in 0 .. generation
        BY <3>1
      <4>2. QED
        BY <2>5, <3>1, <3>3, <4>1
    <3>4. QED
      BY <2>2, <2>6, <3>2, <3>3
  <2>7. ASSUME worker'.stage # "idle", NEW j \in 1 .. Len(tasks')
        PROVE  Before(worker', tasks'[j])
    <3>1. CASE j \in 1 .. n
      <4>1. Before(worker, tasks[j]) /\ tasks'[j] = tasks[j]
        BY <2>2, <2>3, <2>4, <2>7, <3>1 DEF QueueInv, SameTask
      <4>2. worker'.token = worker.token
        BY <2>4, <2>7 DEF SameTask
      <4>3. QED
        BY <4>1, <4>2 DEF Before
    <3>2. CASE j = n + 1
      BY <1>0, <2>2, <2>4, <2>5, <2>7, <3>2 DEF SameTask, Before
    <3>3. QED
      BY <2>2, <2>7, <3>1, <3>2
  <2>8. QED
    BY <2>6, <2>7 DEF QueueInv
<1>2. CASE Begin
  <2>1. /\ Len(tasks) \in Nat \ {0} /\ Len(tasks') = Len(tasks) - 1
        /\ \A i \in 1 .. Len(tasks') : tasks'[i] = tasks[i + 1]
        /\ worker'.token = tasks[1].token
    BY <1>2, BegunFields
  <2>2. ASSUME NEW i \in 1 .. Len(tasks'), NEW j \in 1 .. Len(tasks'), i < j
        PROVE  Before(tasks'[i], tasks'[j])
    <3>1. i + 1 \in 1 .. Len(tasks) /\ j + 1 \in 1 .. Len(tasks) /\ i + 1 < j + 1
      BY <2>1, <2>2
    <3>2. QED
      BY <2>1, <3>1 DEF QueueInv
  <2>3. ASSUME NEW j \in 1 .. Len(tasks') PROVE Before(worker', tasks'[j])
    <3>1. 1 \in 1 .. Len(tasks) /\ j + 1 \in 1 .. Len(tasks) /\ 1 < j + 1
      BY <2>1, <2>3
    <3>2. Before(tasks[1], tasks[j + 1]) /\ tasks'[j] = tasks[j + 1]
      BY <2>1, <3>1 DEF QueueInv
    <3>3. QED
      BY <2>1, <3>2 DEF Before
  <2>4. QED
    BY <2>2, <2>3 DEF QueueInv
<1>3. CASE Continued /\ ~Tapped /\ ~Restarted
  <2>1. tasks' = tasks /\ SameTask
    BY <1>3, TasksKept, WorkerSteps
  <2>2. QED
    BY <2>1 DEF QueueInv, SameTask, Before
<1>4. QED
  BY <1>1, <1>2, <1>3 DEF AnyStep

-----------------------------------------------------------------------------
(* The key under review.  Once a key is shown or on its way to the screen,  *)
(* no task is left that could find another one: a connect of this or an     *)
(* earlier generation would have to begin after its successor.              *)

Stale(t) == t.token < generation \/ t.kind = "connect"

Settled ==
  /\ worker.stage # "idle" => ~Stale(worker)
  /\ \A i \in 1 .. Len(tasks) : ~Stale(tasks[i])

IsPending(key) == pendingPin = key /\ pendingPin # NoKey

ReviewInv ==
  /\ ui.phase = "REVIEW_HOST" => Settled /\ IsPending(ui.review)
  /\ \A i \in 1 .. Len(posts) :
       posts[i].token = generation /\ posts[i].event.kind = "ReviewHostKey" =>
         Settled /\ IsPending(posts[i].event.value)
  /\ worker.stage = "post" /\ worker.token = generation
       /\ worker.event.kind = "ReviewHostKey" => IsPending(worker.event.value)

LEMMA SettledKept ==
  ASSUME TypeInv, AnyStep, Settled, ~Restarted
  PROVE  Settled'
<1>0. Len(tasks) \in Nat /\ generation \in Nat
  BY LenProperties DEF TypeInv
<1>1. CASE Tapped
  <2>1. PICK n \in 0 .. Len(tasks) :
          /\ tasks' \in Seq(Tasks) /\ Len(tasks') \in {n, n + 1}
          /\ \A i \in 1 .. n : tasks'[i] = tasks[i]
          /\ Len(tasks') = n + 1 =>
               /\ tasks'[n + 1].token = generation' /\ generation' \in Nat \ {0}
               /\ tasks'[n + 1].kind = "connect" => generation' = generation + 1
    BY <1>1, QueueAfter
  <2>2. generation' = generation /\ worker' = worker
    BY <1>1 DEF Tapped
  <2>3. QED
    <3>1. ASSUME NEW i \in 1 .. Len(tasks') PROVE ~Stale(tasks[i])'
      <4>1. CASE i \in 1 .. n
        <5>1. i \in 1 .. Len(tasks) /\ tasks'[i] = tasks[i]
          BY <1>0, <2>1, <4>1
        <5>2. QED
          BY <2>2, <5>1 DEF Settled, Stale
      <4>2. CASE i = n + 1 /\ Len(tasks') = n + 1
        BY <1>0, <2>1, <2>2, <4>2 DEF Stale
      <4>3. QED
        BY <2>1, <3>1, <4>1, <4>2
    <3>2. QED
      BY <2>2, <3>1 DEF Settled, Stale
<1>2. CASE Begin
  <2>1. /\ Len(tasks) \in Nat \ {0} /\ Len(tasks') = Len(tasks) - 1
        /\ \A i \in 1 .. Len(tasks') : tasks'[i] = tasks[i + 1]
        /\ worker'.token = tasks[1].token /\ worker'.kind = tasks[1].kind
    BY <1>2, BegunFields
  <2>2. generation' = generation
    BY <1>2 DEF Begin
  <2>3. 1 \in 1 .. Len(tasks) /\ \A i \in 1 .. Len(tasks') : i + 1 \in 1 .. Len(tasks)
    BY <2>1
  <2>4. QED
    BY <2>1, <2>2, <2>3 DEF Settled, Stale
<1>3. CASE Continued /\ ~Tapped
  BY <1>3, TasksKept, WorkerSteps DEF Settled, Stale, SameTask
<1>4. QED
  BY <1>1, <1>2, <1>3 DEF AnyStep

LEMMA ReviewStep ==
  ASSUME TypeInv, TypeInv', QueueInv, ReviewInv, AnyStep
  PROVE  ReviewInv'
<1>0. /\ Len(tasks) \in Nat /\ generation \in Nat /\ WorkerInv /\ PostsInv
      /\ IsSeq(posts) /\ DOMAIN ui = UiFields
      /\ \A i \in 1 .. Len(tasks) : tasks[i].token \in 1 .. generation
  BY LenProperties DEF TypeInv, PostsInv, UiOk
<1>1. CASE Restarted
  BY <1>0, <1>1 DEF Restarted, ReviewInv, PostsInv, WorkerInv, Idle
<1>2. CASE Deliver
  <2>1. /\ UNCHANGED <<generation, worker, tasks, pendingPin>>
        /\ posts # <<>> /\ posts' = Tail(posts)
    BY <1>2 DEF Deliver, clientVars
  <2>2. /\ Len(posts) \in Nat \ {0} /\ Head(posts) = posts[1]
        /\ Len(posts') = Len(posts) - 1
        /\ \A i \in 1 .. Len(posts) - 1 : posts'[i] = posts[i + 1]
    BY <1>0, <2>1, TailSeq
  <2>3. Settled' <=> Settled
    BY <2>1 DEF Settled, Stale
  <2>4. ASSUME ui'.phase = "REVIEW_HOST" PROVE Settled /\ IsPending(ui'.review)
    <3>1. CASE posts[1].token # generation
      BY <1>2, <2>2, <2>4, <3>1 DEF Deliver, mainVars, ReviewInv
    <3>2. CASE posts[1].token = generation
      <4>1. ui' = Reduce(ui, posts[1].event) /\ posts[1].event.kind \in PostKinds
        BY <1>0, <1>2, <2>2, <3>2 DEF Deliver, Dispatch, PostsInv
      <4>2. CASE posts[1].event.kind \in QuietKinds
        BY <1>0, <2>4, <4>1, <4>2, ReducedPhase DEF ReviewInv
      <4>3. CASE posts[1].event.kind = "ReviewHostKey"
        BY <1>0, <2>2, <3>2, <4>1, <4>3, ReducedPhase DEF ReviewInv
      <4>4. posts[1].event.kind \notin {"Connected", "Failed"}
        BY <1>0, <2>4, <4>1, ReducedPhase
      <4>5. QED
        BY <4>1, <4>2, <4>3, <4>4 DEF PostKinds, EventKinds, QuietKinds
    <3>3. QED
      BY <3>1, <3>2
  <2>5. ASSUME NEW i \in 1 .. Len(posts'), posts'[i].token = generation,
               posts'[i].event.kind = "ReviewHostKey"
        PROVE  Settled /\ IsPending(posts'[i].event.value)
    BY <2>2, <2>5 DEF ReviewInv
  <2>6. QED
    BY <2>1, <2>3, <2>4, <2>5 DEF ReviewInv, IsPending
<1>3. CASE Conclude
  <2>1. UNCHANGED <<generation, tasks, posts, ui>> /\ worker.stage = "result"
    BY <1>3 DEF Conclude, ownerVars, mainVars
  <2>2. CASE worker.event.kind = "ReviewHostKey"
    <3>1. worker.kind = "connect" /\ worker.event.value \in Keys
      BY <1>0, <2>1, <2>2 DEF WorkerInv
    <3>2. ~Settled
      BY <2>1, <3>1 DEF Settled, Stale
    <3>3. worker'.stage = "post" =>
            pendingPin' = worker'.event.value /\ pendingPin' # NoKey
      BY <1>0, <1>3, <2>2, <3>1, CockpitAssumption
         DEF Conclude, Goto, WorkerInv, Idle
    <3>4. QED
      BY <2>1, <3>2, <3>3 DEF ReviewInv, IsPending
  <2>3. CASE worker.event.kind # "ReviewHostKey"
    <3>1. pendingPin' = pendingPin
      BY <1>3, <2>3 DEF Conclude
    <3>2. worker'.event.kind # "ReviewHostKey"
      BY <1>0, <1>3, <2>3 DEF Conclude, Goto, WorkerInv, Idle, NoEvent, Event
    <3>3. Settled => Settled'
      BY <1>0, <1>3, <2>1 DEF Settled, Stale, Conclude, Goto, Idle, WorkerInv
    <3>4. QED
      BY <2>1, <3>1, <3>2, <3>3 DEF ReviewInv, IsPending
  <2>4. QED
    BY <2>2, <2>3
<1>4. CASE Post
  <2> DEFINE p == [token |-> worker.token, event |-> worker.event]
  <2>1. /\ UNCHANGED <<generation, tasks, pendingPin, ui>> /\ worker' = Idle
        /\ posts' = Append(posts, p) /\ worker.stage = "post"
    BY <1>4 DEF Post, clientVars, mainVars
  <2>2. p.event.kind \in PostKinds /\ p.token \in 1 .. generation
    BY <1>0, <2>1 DEF WorkerInv, NoGeneration
  <2>3. /\ Len(posts) \in Nat /\ Len(posts') = Len(posts) + 1
        /\ \A i \in 1 .. Len(posts) : posts'[i] = posts[i]
        /\ posts'[Len(posts) + 1] = p
    BY <2>1, <2>2, PostAfter
  <2>4. Settled => Settled'
    BY <2>1 DEF Settled, Stale, Idle
  <2>5. ASSUME p.token = generation, p.event.kind = "ReviewHostKey"
        PROVE  Settled' /\ IsPending(p.event.value)
    <3>1. \A j \in 1 .. Len(tasks) : Before(worker, tasks[j])
      BY <2>1 DEF QueueInv
    <3>2. QED
      BY <1>0, <2>1, <2>5, <3>1 DEF ReviewInv, Settled, Stale, Before, Idle
  <2> HIDE DEF p
  <2>6. QED
    BY <2>1, <2>3, <2>4, <2>5 DEF ReviewInv, IsPending, Idle
<1>5. CASE \E g \in Generations : ReportLoss(g)
  <2>1. PICK g \in Generations : ReportLoss(g)
    BY <1>5
  <2> DEFINE p == [token |-> g, event |-> Failed]
  <2>2. /\ UNCHANGED <<generation, tasks, pendingPin, ui, worker>>
        /\ posts' = Append(posts, p) /\ links[g] = "lost"
    BY <2>1 DEF ReportLoss, mainVars
  <2>3. p.event.kind = "Failed" /\ p.token = g
    BY DEF Failed, Event
  <2> HIDE DEF p
  <2>4. /\ Len(posts) \in Nat /\ Len(posts') = Len(posts) + 1
        /\ \A i \in 1 .. Len(posts) : posts'[i] = posts[i]
        /\ posts'[Len(posts) + 1] = p
    BY <1>0, <2>2, AppendSeq
  <2>5. Settled => Settled'
    BY <2>2 DEF Settled, Stale
  <2>6. QED
    BY <2>2, <2>3, <2>4, <2>5 DEF ReviewInv, IsPending
<1>6. CASE \/ Tapped \/ Begin \/ OwnTransport \/ OpenSsh \/ Exchanged
           \/ \E g \in Generations : Lose(g)
  <2>1. UNCHANGED <<generation, posts, pendingPin>> /\ ui'.phase = ui.phase
        /\ ui'.review = ui.review
    BY <1>6
       DEF Tapped, Begin, OwnTransport, OpenSsh, Exchanged, Lose, ownerVars, clientVars, mainVars
  <2>2. ~Restarted
    BY <1>0, <2>1 DEF Restarted
  <2>3. Settled => Settled'
    BY <2>2, SettledKept
  <2>4. worker'.stage = "post" /\ worker'.event.kind = "ReviewHostKey" =>
          worker' = worker
    <3>1. CASE Tapped \/ \E g \in Generations : Lose(g)
      BY <3>1 DEF Tapped, Lose
    <3>2. CASE Begin
      BY <3>2, BegunFields
    <3>3. CASE OwnTransport
      BY <1>0, <3>3 DEF OwnTransport, Goto, WorkerInv, Idle
    <3>4. CASE OpenSsh
      BY <1>0, <3>4, FinishedFields DEF OpenSsh, Goto, WorkerInv, Idle, ConnectStage
    <3>5. CASE Exchanged
      <4>1. Failed.kind = "Failed"
        BY DEF Failed, Event
      <4>2. QED
        BY <3>5, <4>1 DEF Exchanged
    <3>6. QED
      BY <1>6, <3>1, <3>2, <3>3, <3>4, <3>5
  <2>5. QED
    BY <2>1, <2>3, <2>4 DEF ReviewInv, IsPending
<1>7. QED
  BY <1>1, <1>2, <1>3, <1>4, <1>5, <1>6 DEF AnyStep, Continued

-----------------------------------------------------------------------------
(* The connection that the screen speaks of *)

Failing ==
  /\ worker.token = generation
  /\ worker.stage \in {"result", "post"} /\ worker.event = Failed

FailurePosted(i) ==
  \E j \in 1 .. Len(posts) : j > i /\ posts[j] = [token |-> generation, event |-> Failed]

\* The news at place i of posts (0: on the screen) that this generation is
\* connected is true, or word to the contrary comes after it.
Sound(i) ==
  \/ terminal = generation
  \/ /\ transport = generation
     /\ links[generation] \in {"up", "lost"} \/ Failing \/ FailurePosted(i)

Owned == terminal = generation \/ transport = generation

ConnectionInv ==
  /\ ui.phase = "CONNECTED" => Sound(0)
  /\ \A i \in 1 .. Len(posts) :
       posts[i].token = generation /\ posts[i].event.kind = "Connected" => Sound(i)
  /\ worker.token = generation /\ worker.stage \in ConnectStage \ {"connect"} => Owned
  /\ worker.token = generation /\ worker.stage \in {"result", "post"}
       /\ worker.event.kind = "Connected" =>
          terminal = generation \/ (Owned /\ links[generation] \in {"up", "lost"})

\* When neither the posts nor the screen change, it is enough that good news
\* stays true.
LEMMA NewsKept ==
  ASSUME TypeInv, ConnectionInv,
         UNCHANGED <<generation, posts>>, ui'.phase = ui.phase,
         terminal = generation => terminal' = generation',
         transport = generation => transport' = generation' \/ terminal' = generation',
         generation # 0 /\ links[generation] \in {"up", "lost"} =>
           \/ terminal' = generation' \/ Failing'
           \/ links'[generation'] \in {"up", "lost"},
         Failing => Failing' \/ terminal' = generation'
  PROVE  /\ (ui.phase = "CONNECTED" => Sound(0))'
         /\ (\A i \in 1 .. Len(posts) :
               posts[i].token = generation /\ posts[i].event.kind = "Connected" => Sound(i))'
<1>1. ASSUME NEW i, generation # 0, Sound(i) PROVE Sound(i)'
  <2>1. FailurePosted(i) => FailurePosted(i)'
    BY DEF FailurePosted
  <2>2. QED
    BY <1>1, <2>1 DEF Sound
<1>2. (ui.phase = "CONNECTED" => Sound(0))'
  BY <1>1 DEF ConnectionInv, TypeInv
<1>3. ASSUME NEW i \in 1 .. Len(posts'), posts'[i].token = generation',
             posts'[i].event.kind = "Connected"
      PROVE  Sound(i)'
  BY <1>1, <1>3 DEF ConnectionInv, TypeInv, PostsInv
<1>4. QED
  BY <1>2, <1>3

LEMMA ConnectionStep ==
  ASSUME TypeInv, TypeInv', ConnectionInv, AnyStep
  PROVE  ConnectionInv'
<1>0. /\ generation \in Nat /\ WorkerInv /\ PostsInv /\ LinksInv /\ IsSeq(posts)
      /\ DOMAIN ui = UiFields
  BY DEF TypeInv, PostsInv, UiOk
<1>f. Failed.kind = "Failed"
  BY DEF Failed, Event
<1>g. generation # 0 => generation \in Generations
  BY CockpitAssumption DEF TypeInv, Generations
<1>1. CASE Restarted
  <2>1. /\ generation' = generation + 1 /\ posts' = posts
        /\ ui'.phase # "CONNECTED" /\ worker'.token = worker.token
    BY <1>0, <1>1 DEF Restarted, WorkerInv, Idle
  <2>2. /\ worker'.token # generation'
        /\ \A i \in 1 .. Len(posts') : posts'[i].token # generation'
    BY <1>0, <2>1 DEF WorkerInv, PostsInv
  <2>3. QED
    BY <2>1, <2>2 DEF ConnectionInv
<1>2. CASE Deliver
  <2>1. /\ UNCHANGED <<generation, worker, transport, terminal, links>>
        /\ posts # <<>> /\ posts' = Tail(posts)
    BY <1>2 DEF Deliver, clientVars
  <2>2. /\ Len(posts) \in Nat \ {0} /\ Head(posts) = posts[1]
        /\ Len(posts') = Len(posts) - 1
        /\ \A i \in 1 .. Len(posts) - 1 : posts'[i] = posts[i + 1]
    BY <1>0, <2>1, TailSeq
  <2>3. ASSUME NEW i \in 0 .. Len(posts) - 1, Sound(i + 1) PROVE Sound(i)'
    <3>1. ASSUME FailurePosted(i + 1) PROVE FailurePosted(i)'
      <4>1. PICK j \in 1 .. Len(posts) :
              j > i + 1 /\ posts[j] = [token |-> generation, event |-> Failed]
        BY <3>1 DEF FailurePosted
      <4>2. /\ j - 1 \in 1 .. Len(posts') /\ j - 1 > i
            /\ posts'[j - 1] = [token |-> generation, event |-> Failed]
        BY <2>2, <2>3, <4>1
      <4>3. QED
        BY <2>1, <4>2 DEF FailurePosted
    <3>2. QED
      BY <2>1, <2>3, <3>1 DEF Sound, Failing
  <2>4. ASSUME ui'.phase = "CONNECTED" PROVE Sound(0)'
    <3>1. ASSUME Sound(0), posts[1] # [token |-> generation, event |-> Failed]
          PROVE  Sound(1)
      <4>1. ASSUME FailurePosted(0) PROVE FailurePosted(1)
        BY <2>2, <3>1, <4>1 DEF FailurePosted
      <4>2. QED
        BY <3>1, <4>1 DEF Sound
    <3>2. CASE posts[1].token # generation
      <4>1. ui' = ui
        BY <1>2, <2>2, <3>2 DEF Deliver, mainVars
      <4>2. posts[1] # [token |-> generation, event |-> Failed]
        BY <3>2
      <4>3. QED
        BY <2>2, <2>3, <2>4, <3>1, <4>1, <4>2 DEF ConnectionInv
    <3>3. CASE posts[1].token = generation
      <4>1. ui' = Reduce(ui, posts[1].event) /\ posts[1].event.kind \in PostKinds
        BY <1>0, <1>2, <2>2, <3>3 DEF Deliver, Dispatch, PostsInv
      <4>2. CASE posts[1].event.kind \in QuietKinds
        <5>1. posts[1] # [token |-> generation, event |-> Failed]
          BY <1>f, <4>2 DEF QuietKinds
        <5>2. ui.phase = "CONNECTED"
          BY <1>0, <2>4, <4>1, <4>2, ReducedPhase
        <5>3. QED
          BY <2>2, <2>3, <3>1, <5>1, <5>2 DEF ConnectionInv
      <4>3. CASE posts[1].event.kind = "Connected"
        BY <2>2, <2>3, <3>3, <4>3 DEF ConnectionInv
      <4>4. posts[1].event.kind \notin {"ReviewHostKey", "Failed"}
        BY <1>0, <2>4, <4>1, ReducedPhase
      <4>5. QED
        BY <4>1, <4>2, <4>3, <4>4 DEF PostKinds, EventKinds, QuietKinds
    <3>4. QED
      BY <3>2, <3>3
  <2>5. ASSUME NEW i \in 1 .. Len(posts'), posts'[i].token = generation,
               posts'[i].event.kind = "Connected"
        PROVE  Sound(i)'
    <3>1. /\ i + 1 \in 1 .. Len(posts) /\ posts'[i] = posts[i + 1]
          /\ i \in 0 .. Len(posts) - 1
      BY <2>2, <2>5
    <3>2. Sound(i + 1)
      BY <2>5, <3>1 DEF ConnectionInv
    <3>3. QED
      BY <2>3, <3>1, <3>2
  <2>6. QED
    BY <2>1, <2>4, <2>5 DEF ConnectionInv, Owned
<1>3. CASE Tapped
  BY <1>3, NewsKept DEF Tapped, ConnectionInv, Owned, Failing
<1>4. CASE Begin
  <2>1. /\ UNCHANGED <<generation, posts, ui, transport, terminal, links>>
        /\ worker.stage = "idle"
    BY <1>4 DEF Begin, mainVars
  <2>2. worker'.stage \in {"connect", "poll", "preview"}
    BY <1>4, BegunFields
  <2>3. QED
    BY <2>1, <2>2, NewsKept DEF ConnectionInv, Owned, Failing, ConnectStage
<1>5. CASE OwnTransport
  <2>1. /\ UNCHANGED <<generation, posts, ui, terminal, links>>
        /\ worker.stage = "connect"
    BY <1>5 DEF OwnTransport, ownerVars, mainVars
  <2>2. \/ worker'.stage = "open" /\ transport' = generation
        \/ worker'.stage = "idle" /\ transport' = transport
    BY <1>0, <1>5 DEF OwnTransport, Goto, WorkerInv, Idle
  <2>3. QED
    BY <2>1, <2>2, NewsKept DEF ConnectionInv, Owned, Failing, ConnectStage
<1>6. CASE OpenSsh
  <2>1. /\ UNCHANGED <<generation, posts, ui, terminal, transport>>
        /\ worker.stage = "open"
    BY <1>6 DEF OpenSsh, ownerVars, mainVars
  <2>2. worker'.token = worker.token /\ worker'.stage \in {"initialize", "result"}
    BY <1>0, <1>6, FinishedFields DEF OpenSsh, Goto, WorkerInv, Idle, ConnectStage
  <2>3. worker'.stage = "result" => worker'.event.kind # "Connected"
    BY <1>0, <1>6, <1>f, FinishedFields DEF OpenSsh, Goto, WorkerInv, Idle, Event
  <2>4. links[generation] \in {"up", "lost"} /\ generation # 0 =>
          links'[generation] \in {"up", "lost"}
    BY <1>0, <1>6, <1>g DEF OpenSsh, LinksInv
  <2>5. worker.token = generation => Owned
    BY <2>1 DEF ConnectionInv, ConnectStage
  <2>6. /\ (ui.phase = "CONNECTED" => Sound(0))'
        /\ (\A i \in 1 .. Len(posts) :
              posts[i].token = generation /\ posts[i].event.kind = "Connected" => Sound(i))'
    BY <2>1, <2>4, NewsKept DEF Failing
  <2>7. QED
    BY <2>1, <2>2, <2>3, <2>5, <2>6 DEF ConnectionInv, Owned, ConnectStage
<1>7. CASE Exchanged
  <2>1. /\ UNCHANGED <<generation, posts, ui, terminal, transport>>
        /\ worker'.token = worker.token /\ worker.token # 0
        /\ worker.stage \in {"initialize", "state", "baseline", "poll", "reread", "preview"}
    BY <1>0, <1>7 DEF Exchanged, WorkerInv, NoGeneration, mainVars
  <2>2. worker.token = generation /\ worker'.stage \in ConnectStage => Owned
    <3>1. worker'.stage \in ConnectStage => worker.stage \in ConnectStage \ {"connect"}
      BY <1>0, <1>7 DEF Exchanged, WorkerInv, ConnectStage
    <3>2. QED
      BY <3>1 DEF ConnectionInv
  <2>3. CASE links' = Close(worker.token) /\ worker'.event = Failed
             /\ worker'.stage \in {"result", "post"}
    <3>1. links[generation] \in {"up", "lost"} /\ generation # 0 =>
             Failing' \/ links'[generation] \in {"up", "lost"}
      BY <1>g, <2>1, <2>3 DEF Close, Failing
    <3>2. /\ (ui.phase = "CONNECTED" => Sound(0))'
          /\ (\A i \in 1 .. Len(posts) :
                posts[i].token = generation /\ posts[i].event.kind = "Connected" => Sound(i))'
      BY <2>1, <3>1, NewsKept DEF Failing
    <3>3. QED
      BY <1>f, <2>1, <2>2, <2>3, <3>2 DEF ConnectionInv, Owned
  <2>4. CASE links' = links /\ Live
    <3>1. worker'.stage \in {"result", "post"} /\ worker'.event.kind = "Connected" =>
            worker'.stage = "result"
      BY <1>7, <1>f DEF Exchanged
    <3>2. QED
      BY <2>1, <2>2, <2>4, <3>1, NewsKept
         DEF ConnectionInv, Owned, Failing, Live, ConnectStage
  <2>5. QED
    BY <1>7, <2>3, <2>4 DEF Exchanged
<1>8. CASE Conclude
  <2>1. /\ UNCHANGED <<generation, posts, ui, terminal, transport, links>>
        /\ worker.stage = "result"
    BY <1>8 DEF Conclude, ownerVars, mainVars
  <2>2. \/ terminal = worker.token /\ worker'.stage = "idle"
        \/ /\ worker'.stage = "post" /\ worker'.token = worker.token
           /\ worker'.event = worker.event
    BY <1>0, <1>8 DEF Conclude, Goto, WorkerInv, Idle
  <2>3. QED
    BY <2>1, <2>2, NewsKept DEF ConnectionInv, Owned, Failing, ConnectStage
<1>9. CASE Post
  <2> DEFINE p == [token |-> worker.token, event |-> worker.event]
  <2>1. /\ UNCHANGED <<generation, ui, terminal, transport, links>> /\ worker'.stage = "idle"
        /\ posts' = Append(posts, p) /\ worker.stage = "post"
    BY <1>9 DEF Post, clientVars, mainVars, Idle
  <2>2. p.token = worker.token /\ p.event = worker.event
    OBVIOUS
  <2>3. Failing => p = [token |-> generation, event |-> Failed]
    BY DEF Failing
  <2> HIDE DEF p
  <2>4. /\ Len(posts) \in Nat /\ Len(posts') = Len(posts) + 1
        /\ \A i \in 1 .. Len(posts) : posts'[i] = posts[i]
        /\ posts'[Len(posts) + 1] = p
    BY <1>0, <2>1, AppendSeq
  <2>5. ASSUME NEW i \in 0 .. Len(posts), Sound(i) PROVE Sound(i)'
    <3>1. Failing \/ FailurePosted(i) => FailurePosted(i)'
      BY <2>1, <2>3, <2>4 DEF FailurePosted
    <3>2. QED
      BY <2>1, <2>5, <3>1 DEF Sound
  <2>6. ASSUME p.token = generation, p.event.kind = "Connected", NEW i
        PROVE  Sound(i)'
    <3>1. terminal = generation \/ (Owned /\ links[generation] \in {"up", "lost"})
      BY <2>1, <2>2, <2>6 DEF ConnectionInv
    <3>2. QED
      BY <2>1, <3>1 DEF Sound, Owned
  <2>7. ASSUME NEW i \in 1 .. Len(posts'), posts'[i].token = generation,
               posts'[i].event.kind = "Connected"
        PROVE  Sound(i)'
    <3>1. CASE i \in 1 .. Len(posts)
      BY <2>4, <2>5, <2>7, <3>1 DEF ConnectionInv
    <3>2. CASE i = Len(posts) + 1
      BY <2>1, <2>4, <2>6, <2>7, <3>2
    <3>3. QED
      BY <2>4, <2>7, <3>1, <3>2
  <2>8. QED
    BY <2>1, <2>4, <2>5, <2>7 DEF ConnectionInv, ConnectStage
<1>10. ASSUME NEW g \in Generations, Lose(g) PROVE ConnectionInv'
  <2>1. /\ UNCHANGED <<generation, posts, ui, terminal, transport, worker>>
        /\ links' = [links EXCEPT ![g] = "lost"] /\ links[g] = "up"
    BY <1>10 DEF Lose, clientVars, mainVars
  <2>2. links[generation] \in {"up", "lost"} /\ generation # 0 =>
          links'[generation] \in {"up", "lost"}
    BY <1>0, <1>g, <2>1 DEF LinksInv
  <2>3. QED
    <3>1. worker.stage # "idle" => worker.token # 0
      BY <1>0 DEF WorkerInv, NoGeneration
    <3>2. /\ (ui.phase = "CONNECTED" => Sound(0))'
          /\ (\A i \in 1 .. Len(posts) :
                posts[i].token = generation /\ posts[i].event.kind = "Connected" => Sound(i))'
      BY <2>1, <2>2, NewsKept DEF Failing
    <3>3. QED
      BY <2>1, <2>2, <3>1, <3>2 DEF ConnectionInv, Owned
<1>11. ASSUME NEW g \in Generations, ReportLoss(g) PROVE ConnectionInv'
  <2> DEFINE p == [token |-> g, event |-> Failed]
  <2>1. /\ UNCHANGED <<generation, ui, worker>>
        /\ posts' = Append(posts, p) /\ links' = [links EXCEPT ![g] = "closed"]
        /\ IF g = generation THEN terminal' = generation
           ELSE terminal' = terminal /\ transport' = transport
    BY <1>11 DEF ReportLoss, mainVars
  <2>2. p.event.kind = "Failed"
    BY <1>f
  <2> HIDE DEF p
  <2>3. /\ Len(posts) \in Nat /\ Len(posts') = Len(posts) + 1
        /\ \A i \in 1 .. Len(posts) : posts'[i] = posts[i]
        /\ posts'[Len(posts) + 1] = p
    BY <1>0, <2>1, AppendSeq
  <2>4. ASSUME NEW i \in 0 .. Len(posts), Sound(i) PROVE Sound(i)'
    <3>1. FailurePosted(i) => FailurePosted(i)'
      BY <2>1, <2>3 DEF FailurePosted
    <3>2. CASE g # generation
      <4>1. links'[generation] = links[generation] \/ generation = 0
        BY <1>0, <1>g, <2>1, <3>2 DEF LinksInv
      <4>2. QED
        BY <2>1, <2>4, <3>1, <3>2, <4>1 DEF Sound, Failing
    <3>3. QED
      BY <2>1, <3>2 DEF Sound
  <2>5. QED
    BY <1>0, <1>g, <2>1, <2>2, <2>3, <2>4 DEF ConnectionInv, Owned, LinksInv, WorkerInv
<1>12. QED
  BY <1>1, <1>2, <1>3, <1>4, <1>5, <1>6, <1>7, <1>8, <1>9, <1>10, <1>11 DEF AnyStep, Continued

-----------------------------------------------------------------------------
(* The process of the read protocol and the client's count of its events *)

\* The events of a poll are numbered on from those of the polls before; the
\* first poll has none.
LEMMA PolledEvents ==
  ASSUME NEW p \in Processes, NEW state, NEW events \in EventLists(p, state)
  PROVE  /\ Len(events) \in Nat /\ Len(events) <= Cardinality(Sessions)
         /\ DOMAIN events = 1 .. Len(events)
         /\ \A i \in DOMAIN events : /\ events[i].sequence = p.sequence + i
                                     /\ events[i].session \in Sessions
         /\ p.started = FALSE => events = <<>>
         /\ events = <<>> <=> Len(events) = 0
<1> DEFINE reported == IF p.started THEN Eligible(p, state) ELSE {}
           n == Cardinality(reported)
<1>1. reported \in SUBSET Sessions
  BY DEF Eligible
<1>2. PICK order \in SetToSeqs(reported) :
        events = [i \in DOMAIN order |->
                    [sequence |-> p.sequence + i, session |-> order[i],
                     status |-> state[order[i]]]]
  BY DEF EventLists
<1>3. order \in [1 .. n -> reported]
  BY <1>2 DEF SetToSeqs
<1>4. IsFiniteSet(reported) /\ n \in Nat /\ n <= Cardinality(Sessions)
  BY <1>1, ReadProtocolAssumption, FS_Subset, FS_CardinalityType
<1>5. p.started = FALSE => n = 0
  <2>1. p.started = FALSE => reported = {}
    OBVIOUS
  <2>2. QED
    BY <2>1, FS_EmptySet
<1> HIDE DEF n, reported
<1>6. /\ DOMAIN events = 1 .. n
      /\ \A i \in 1 .. n : /\ events[i].sequence = p.sequence + i
                           /\ events[i].session = order[i]
  BY <1>2, <1>3
<1>7. events = [i \in 1 .. n |-> events[i]]
  BY <1>2, <1>6
<1>8. Len(events) = n
  BY <1>4, <1>6, <1>7, LenProperties
<1>9. n = 0 => events = <<>>
  BY <1>7
<1>10. events = <<>> => Len(events) = 0
  OBVIOUS
<1>11. QED
  BY <1>1, <1>3, <1>4, <1>5, <1>6, <1>8, <1>9, <1>10

\* The host and the process have their types, the client counts as the process
\* does, and a process whose attention has not been polled reports nothing.
ProcessInv ==
  /\ host \in [status : States, changes : 0 .. moves, key : Keys]
  /\ process \in Processes
  /\ heard = process.sequence
  /\ worker.stage \in {"state", "baseline"} => process.started = FALSE

\* What a request does to the process and to the count.
Served(o, next) ==
  /\ process' = o.process
  /\ heard' = LastSequence(o.reply.events, heard)
  /\ rejected' = (rejected \/ (o.reply.ok /\ o.reply \notin DOMAIN next))

LEMMA Serving ==
  ASSUME NEW stage, NEW request, NEW next, NEW refusal, Exchange(stage, request, next, refusal)
  PROVE  /\ worker.stage = stage /\ UNCHANGED host
         /\ \/ UNCHANGED <<process, heard, rejected>> /\ worker' = Finished(Failed)
            \/ \E o \in Outcomes(process, request, host.status) : Served(o, next)
  BY DEF Exchange, Served, Break

\* The two sides agree about every request that the client sends.
Agreed ==
  /\ UNCHANGED host
  /\ process' \in Processes /\ heard' = process'.sequence
  /\ rejected \in BOOLEAN => rejected' \in BOOLEAN
  /\ Cardinality(Sessions) <= EventLimit /\ ~rejected => ~rejected'
  /\ worker'.stage \in {"state", "baseline"} => process'.started = FALSE

\* It is enough that each outcome of the request keeps the count, and that its
\* reply is one that the client takes.
LEMMA Agreement ==
  ASSUME WorkerInv, ProcessInv,
         NEW stage, NEW request, NEW next, NEW refusal, Exchange(stage, request, next, refusal),
         \A o \in Outcomes(process, request, host.status) :
           /\ o.process \in Processes
           /\ LastSequence(o.reply.events, process.sequence) = o.process.sequence
           /\ worker'.stage \in {"state", "baseline"} => o.process.started = FALSE
           /\ o.reply.ok /\ Cardinality(Sessions) <= EventLimit => o.reply \in DOMAIN next
  PROVE  Agreed
<1>1. CASE UNCHANGED <<process, heard, rejected>> /\ worker' = Finished(Failed)
  <2>1. worker'.stage \in {"result", "post"}
    BY <1>1, FinishedFields
  <2>2. QED
    BY <1>1, <2>1, Serving DEF Agreed, ProcessInv
<1>2. ASSUME NEW o \in Outcomes(process, request, host.status), Served(o, next)
      PROVE  Agreed
  <2>1. UNCHANGED host
    BY Serving
  <2>2. /\ o.process \in Processes
        /\ LastSequence(o.reply.events, process.sequence) = o.process.sequence
        /\ worker'.stage \in {"state", "baseline"} => o.process.started = FALSE
        /\ o.reply.ok /\ Cardinality(Sessions) <= EventLimit => o.reply \in DOMAIN next
    OBVIOUS
  <2>3. process' = o.process /\ heard' = o.process.sequence
    BY <1>2, <2>2 DEF Served, ProcessInv
  <2>4. rejected' = (rejected \/ (o.reply.ok /\ o.reply \notin DOMAIN next))
    BY <1>2 DEF Served
  <2>4a. rejected' \in BOOLEAN
    BY <2>4, Zenon
  <2>4b. Cardinality(Sessions) <= EventLimit /\ ~rejected => ~rejected'
    BY <2>2, <2>4, Zenon
  <2>5. QED
    BY <2>1, <2>2, <2>3, <2>4a, <2>4b DEF Agreed
<1>3. QED
  BY <1>1, <1>2, Serving

\* What a process makes of the requests that the client sends.
LEMMA OutcomesOf ==
  ASSUME NEW p, NEW q, NEW state, NEW o \in Outcomes(p, q, state)
  PROVE  /\ q.method = "initialize" => o \in Initialize(p, q)
         /\ q.method = "state/read" =>
              o.process = p /\ o.reply \in {Failure, Result(state)}
         /\ q.method = "preview/read" =>
              o.process = p /\ o.reply \in {Failure, Result(q.session)}
         /\ q.method = "attention/poll" =>
              o \in {[process |-> p, reply |-> Failure]} \cup Poll(p, state)
<1>1. CASE q.method = "initialize"
  BY <1>1 DEF Outcomes
<1>2. CASE q.method = "state/read"
  BY <1>2 DEF Outcomes, Handle, Refused, Methods, BadRequests
<1>3. CASE q.method = "preview/read"
  BY <1>3 DEF Outcomes, Handle, Refused, Methods, BadRequests, Preview
<1>4. CASE q.method = "attention/poll"
  BY <1>4 DEF Outcomes, Handle, Refused, Methods, BadRequests
<1>5. QED
  BY <1>1, <1>2, <1>3, <1>4

\* A reply that is no failure is one of the replies.
LEMMA ReplyOf ==
  ASSUME NEW request, NEW o \in Outcomes(process, request, host.status), o.reply.ok
  PROVE  o.reply \in Replies(request)
  BY DEF Replies

\* A reply without events leaves the count as it is.
LEMMA Uncounted ==
  /\ Failure.events = <<>> /\ Failure.ok = FALSE
  /\ \A value : Result(value).events = <<>> /\ Result(value).value = value
  /\ \A last : LastSequence(<<>>, last) = last
  BY DEF Failure, Result, LastSequence

\* A poll goes on from the count, and its reply is one that the client takes.
LEMMA PollKeepsCount ==
  ASSUME ProcessInv,
         NEW o \in {[process |-> process, reply |-> Failure]} \cup Poll(process, host.status)
  PROVE  /\ o.process \in Processes
         /\ LastSequence(o.reply.events, process.sequence) = o.process.sequence
         /\ process.started = FALSE /\ o.reply.ok => o.reply.events = <<>>
         /\ o.reply.ok /\ (o.reply.events = <<>> \/ Cardinality(Sessions) <= EventLimit) =>
              Acceptable(o.reply)
<1>1. CASE o = [process |-> process, reply |-> Failure]
  <2>1. o.process = process /\ o.reply = Failure
    BY <1>1
  <2>2. QED
    BY <2>1, Uncounted, Zenon DEF ProcessInv
<1>2. CASE o \in Poll(process, host.status)
  <2>1. PICK events \in EventLists(process, host.status) :
          o = [process |-> [process EXCEPT !.baseline = host.status, !.started = TRUE,
                                           !.sequence = @ + Len(events)],
               reply |-> [ok |-> TRUE, value |-> Len(events), events |-> events]]
    BY <1>2 DEF Poll
  <2>2. /\ o.reply.events = events /\ o.reply.value = Len(events)
        /\ o.process = [process EXCEPT !.baseline = host.status, !.started = TRUE,
                                       !.sequence = @ + Len(events)]
    BY <2>1
  <2>3. process \in Processes /\ host.status \in States /\ heard = process.sequence
    BY DEF ProcessInv
  <2>4. /\ Len(events) \in Nat /\ Len(events) <= Cardinality(Sessions)
        /\ DOMAIN events = 1 .. Len(events)
        /\ \A i \in DOMAIN events : /\ events[i].sequence = process.sequence + i
                                    /\ events[i].session \in Sessions
        /\ process.started = FALSE => events = <<>>
        /\ events = <<>> <=> Len(events) = 0
    BY <2>3, PolledEvents
  <2>5. process.sequence \in Nat
    BY <2>3 DEF Processes
  <2>6. o.process \in Processes /\ o.process.sequence = process.sequence + Len(events)
    <3>1. process.sequence + Len(events) \in Nat
      BY <2>4, <2>5
    <3> DEFINE n == process.sequence + Len(events)
    <3>2. o.process = [process EXCEPT !.baseline = host.status, !.started = TRUE,
                                      !.sequence = n]
      BY <2>2, <2>3 DEF Processes
    <3> HIDE DEF n
    <3>3. n \in Nat => o.process \in Processes /\ o.process.sequence = n
      BY <2>3, <3>2 DEF Processes
    <3>4. QED
      BY <3>1, <3>3 DEF n
  <2>7. LastSequence(events, process.sequence) = process.sequence + Len(events)
    BY <2>4, <2>5 DEF LastSequence
  <2>8. Len(events) <= EventLimit => AcceptableEvents(events, process.sequence, EventLimit)
    BY <2>4, <2>5 DEF AcceptableEvents
  <2>9. Cardinality(Sessions) \in Nat
    BY ReadProtocolAssumption, FS_CardinalityType
  <2>10. events = <<>> \/ Cardinality(Sessions) <= EventLimit => Len(events) <= EventLimit
    BY <2>4, <2>9, CockpitAssumption
  <2>11. QED
    BY <2>2, <2>3, <2>4, <2>6, <2>7, <2>8, <2>10 DEF Acceptable
<1>3. QED
  BY <1>1, <1>2

LEMMA ExchangeAgrees ==
  ASSUME TypeInv, ProcessInv,
         \/ Handshake \/ ReadState \/ TakeBaseline
         \/ PollAttention \/ RereadState \/ CallPreview
  PROVE  Agreed
<1>0. WorkerInv /\ process \in Processes
  BY DEF TypeInv, ProcessInv
<1>x. Exchanged
  BY ExchangeStep
<1>1. CASE Handshake
  <2> DEFINE request == [method |-> "initialize", protocols |-> {1}, previews |-> {1, 2}]
             known == {r \in Replies(request) : r.value \in {1, 2}}
             next == [r \in known |-> [worker EXCEPT !.stage = "state"]]
  <2>1. Exchange("initialize", request, next, Failed)
    BY <1>1 DEF Handshake
  <2>2. Max({1, 2}) \in {1, 2}
    <3>1. \E x \in {1, 2} : \A y \in {1, 2} : x >= y
      OBVIOUS
    <3>2. QED
      BY <3>1 DEF Max
  <2>3. Outcomes(process, request, host.status) = Initialize(process, request)
    BY DEF Outcomes
  <2>4. request.previews \cap PreviewVersions = {1, 2} /\ ProtocolVersion \in request.protocols
    BY DEF PreviewVersions, ProtocolVersion
  <2>5. Initialize(process, request) =
          {[process |-> [process EXCEPT !.preview = Max({1, 2}), !.started = FALSE,
                                        !.baseline = NoSession],
            reply |-> Result(Max({1, 2}))]}
    BY <2>4 DEF Initialize
  <2>6. NoSession \in States
    BY DEF NoSession, States
  <2>7. ASSUME NEW o \in Outcomes(process, request, host.status)
        PROVE  /\ o.process \in Processes
               /\ LastSequence(o.reply.events, process.sequence) = o.process.sequence
               /\ o.process.started = FALSE
               /\ o.reply.ok => o.reply \in DOMAIN next
    <3>1. /\ o.process = [process EXCEPT !.preview = Max({1, 2}), !.started = FALSE,
                                         !.baseline = NoSession]
          /\ o.reply = Result(Max({1, 2}))
      BY <2>3, <2>5, <2>7
    <3>2. o.process \in Processes /\ o.process.started = FALSE
          /\ o.process.sequence = process.sequence
      BY <1>0, <2>2, <2>6, <3>1 DEF Processes, PreviewVersions
    <3>3. o.reply.value \in {1, 2} /\ o.reply.events = <<>>
      BY <2>2, <3>1, Uncounted
    <3>4. o.reply.ok => o.reply \in Replies(request)
      BY <2>7, ReplyOf
    <3>5. LastSequence(o.reply.events, process.sequence) = process.sequence
      BY <3>3, Uncounted
    <3>6. QED
      BY <3>2, <3>3, <3>4, <3>5
  <2> HIDE DEF request, known, next
  <2>8. QED
    BY <1>0, <2>1, <2>7, Agreement
<1>2. CASE ReadState
  <2> DEFINE request == Request("state/read")
             next == [r \in Replies(request) |->
                        [worker EXCEPT !.stage = "baseline", !.event = Event("Connected", List(r))]]
  <2>1. Exchange("state", request, next, Failed)
    BY <1>2 DEF ReadState
  <2>2. DOMAIN next = Replies(request)
    OBVIOUS
  <2>3. worker.stage = "state"
    BY <2>1, Serving
  <2>4. request.method = "state/read"
    BY DEF Request
  <2> HIDE DEF request, next
  <2>5. ASSUME NEW o \in Outcomes(process, request, host.status)
        PROVE  /\ o.process = process /\ o.reply.events = <<>>
               /\ o.reply.ok => o.reply \in Replies(request)
    BY <2>4, OutcomesOf, Uncounted, ReplyOf
  <2>6. process.started = FALSE
    BY <2>3 DEF ProcessInv
  <2>7. QED
    BY <1>0, <2>1, <2>2, <2>5, <2>6, Uncounted, Agreement
<1>3. CASE TakeBaseline
  <2> DEFINE request == Request("attention/poll")
             quiet == {r \in Replies(request) : Acceptable(r) /\ r.events = <<>>}
             next == [r \in quiet |-> Finished(worker.event)]
  <2>1. Exchange("baseline", request, next, Failed)
    BY <1>3 DEF TakeBaseline
  <2>2. DOMAIN next = quiet
    OBVIOUS
  <2>3. \A r \in Replies(request) : Acceptable(r) /\ r.events = <<>> => r \in quiet
    OBVIOUS
  <2>4. request.method = "attention/poll"
    BY DEF Request
  <2>5. process.started = FALSE /\ worker.kind = "connect"
    BY <1>0, <2>1, Serving DEF ProcessInv, WorkerInv, ConnectStage
  <2>6. worker'.stage \notin {"state", "baseline"}
    <3>1. \A r \in DOMAIN next : next[r] = Finished(worker.event)
      OBVIOUS
    <3> HIDE DEF next
    <3>2. \/ \E r \in DOMAIN next : worker' = next[r]
          \/ worker' = Finished(Failed)
      BY <2>1, ExchangeCases DEF Break
    <3>3. QED
      BY <1>0, <3>1, <3>2, FinishedFields
  <2> HIDE DEF request, quiet, next
  <2>7. ASSUME NEW o \in Outcomes(process, request, host.status)
        PROVE  /\ o.process \in Processes
               /\ LastSequence(o.reply.events, process.sequence) = o.process.sequence
               /\ o.reply.ok => o.reply.events = <<>> /\ Acceptable(o.reply)
    BY <1>0, <2>4, <2>5, <2>7, OutcomesOf, PollKeepsCount
  <2>8. QED
    BY <1>0, <2>1, <2>2, <2>3, <2>6, <2>7, ReplyOf, Agreement
<1>4. CASE PollAttention
  <2> DEFINE request == Request("attention/poll")
             last(events) == IF events = <<>> THEN Nothing ELSE events[Len(events)].session
             next == [r \in {q \in Replies(request) : Acceptable(q)} |->
                        [worker EXCEPT !.stage = "reread", !.session = last(r.events)]]
  <2>1. Exchange("poll", request, next, RefreshFailed)
    BY <1>4 DEF PollAttention
  <2>2. \A r \in Replies(request) : Acceptable(r) => r \in DOMAIN next
    OBVIOUS
  <2>3. request.method = "attention/poll"
    BY DEF Request
  <2> HIDE DEF request, last, next
  <2>4. worker'.stage \notin {"state", "baseline"}
    BY <1>x, <2>1, Serving DEF Exchanged
  <2>5. ASSUME NEW o \in Outcomes(process, request, host.status)
        PROVE  /\ o.process \in Processes
               /\ LastSequence(o.reply.events, process.sequence) = o.process.sequence
               /\ o.reply.ok /\ Cardinality(Sessions) <= EventLimit => Acceptable(o.reply)
    BY <1>0, <2>3, OutcomesOf, PollKeepsCount
  <2>6. QED
    BY <1>0, <2>1, <2>2, <2>4, <2>5, ReplyOf, Agreement
<1>5. CASE RereadState
  <2> DEFINE request == Request("state/read")
             event(r) == [kind |-> "RefreshReconciled", value |-> List(r),
                          banner |-> worker.session]
             next == [r \in Replies(request) |-> Finished(event(r))]
  <2>1. Exchange("reread", request, next, RefreshFailed)
    BY <1>5 DEF RereadState
  <2>2. DOMAIN next = Replies(request) /\ request.method = "state/read"
    BY DEF Request
  <2> HIDE DEF request, event, next
  <2>3. worker'.stage \notin {"state", "baseline"}
    BY <1>x, <2>1, Serving DEF Exchanged
  <2>4. ASSUME NEW o \in Outcomes(process, request, host.status)
        PROVE  /\ o.process = process /\ o.reply.events = <<>>
               /\ o.reply.ok => o.reply \in Replies(request)
    BY <2>2, OutcomesOf, Uncounted, ReplyOf
  <2>5. QED
    BY <1>0, <2>1, <2>2, <2>3, <2>4, Uncounted, Agreement
<1>6. CASE CallPreview
  <2> DEFINE request == [method |-> "preview/read", session |-> worker.session,
                         version |-> process.preview]
             same == {r \in Replies(request) : r.value = worker.session}
             preview == [session |-> worker.session, over |-> worker.token]
             next == [r \in same |-> Finished(Event("PreviewLoaded", preview))]
  <2>1. Exchange("preview", request, next, Event("PreviewFailed", Nothing))
    BY <1>6 DEF CallPreview
  <2>2. DOMAIN next = same /\ request.method = "preview/read"
        /\ request.session = worker.session
    OBVIOUS
  <2>3. \A r \in Replies(request) : r.value = worker.session => r \in same
    OBVIOUS
  <2> HIDE DEF request, same, next
  <2>4. worker'.stage \notin {"state", "baseline"}
    BY <1>x, <2>1, Serving DEF Exchanged
  <2>5. ASSUME NEW o \in Outcomes(process, request, host.status)
        PROVE  /\ o.process = process /\ o.reply.events = <<>>
               /\ o.reply.ok => o.reply \in same
    <3>1. o.process = process /\ o.reply \in {Failure, Result(worker.session)}
      BY <2>2, OutcomesOf
    <3>2. o.reply.ok => o.reply \in Replies(request) /\ o.reply.value = worker.session
      BY <3>1, Uncounted, ReplyOf
    <3>3. QED
      BY <2>3, <3>1, <3>2, Uncounted
  <2>6. QED
    BY <1>0, <2>1, <2>2, <2>4, <2>5, Uncounted, Agreement
<1>7. QED
  BY <1>1, <1>2, <1>3, <1>4, <1>5, <1>6

\* The host changes with the moves, and nobody else speaks to the process.
LEMMA ProcessStep ==
  ASSUME TypeInv, ProcessInv, rejected \in BOOLEAN, [Next]_vars
  PROVE  /\ ProcessInv' /\ rejected' \in BOOLEAN
         /\ Cardinality(Sessions) <= EventLimit /\ ~rejected => ~rejected'
<1>0. /\ moves \in Nat /\ host \in [status : States, changes : 0 .. moves, key : Keys]
      /\ process \in Processes /\ heard = process.sequence /\ WorkerInv
  BY DEF ProcessInv, TypeInv
<1>k. ASSUME UNCHANGED <<process, heard, rejected>>,
             host' \in [status : States, changes : 0 .. moves', key : Keys],
             worker'.stage \in {"state", "baseline"} => worker'.stage = worker.stage
      PROVE  /\ ProcessInv' /\ rejected' \in BOOLEAN
             /\ Cardinality(Sessions) <= EventLimit /\ ~rejected => ~rejected'
  BY <1>0, <1>k DEF ProcessInv
<1>1. CASE moves' = moves + 1 /\ Surroundings
  <2>1. UNCHANGED <<process, heard, rejected>>
    BY <1>1 DEF Surroundings, User, TapConnect, TapApprove, TapDisconnect, RepairPin, Connect,
       Disconnect, TapRefresh, RequestRefresh, OpenHome, OpenThread, ReadPreview, Lose, Change,
       Rekey, hostVars
  <2>2. worker' \in {worker, [worker EXCEPT !.interrupted = TRUE]}
    BY <1>1 DEF Surroundings, User, TapConnect, TapApprove, TapDisconnect, RepairPin, Connect,
       Disconnect, CancelledWorker, TapRefresh, RequestRefresh, OpenHome, OpenThread,
       ReadPreview, Lose, Change, Rekey
  <2>3. worker'.stage = worker.stage
    BY <1>0, <2>2 DEF WorkerInv, Idle
  <2>4. \/ host' = host
        \/ \E s \in Sessions, status \in Shown : Change(s, status)
        \/ \E key \in Keys : Rekey(key)
    BY <1>1 DEF Surroundings, User, TapConnect, TapApprove, TapDisconnect, RepairPin, Connect,
       Disconnect, TapRefresh, RequestRefresh, OpenHome, OpenThread, ReadPreview, Lose, hostVars
  <2>5. host' \in [status : States, changes : 0 .. moves', key : Keys]
    <3>1. ASSUME NEW s \in Sessions, NEW status \in Shown, Change(s, status)
          PROVE  host' \in [status : States, changes : 0 .. moves', key : Keys]
      <4>1. [host.status EXCEPT ![s] = status] \in States
        BY <1>0, CockpitAssumption DEF States
      <4>2. host' = [host EXCEPT !.status = [host.status EXCEPT ![s] = status],
                                 !.changes = host.changes + 1]
        BY <1>0, <3>1 DEF Change
      <4>3. host.changes + 1 \in 0 .. moves'
        BY <1>0, <1>1
      <4>4. QED
        BY <1>0, <4>1, <4>2, <4>3
    <3>2. ASSUME NEW key \in Keys, Rekey(key)
          PROVE  host' \in [status : States, changes : 0 .. moves', key : Keys]
      <4>1. host.changes + 1 \in 0 .. moves'
        BY <1>0, <1>1
      <4>2. host' = [host EXCEPT !.key = key, !.changes = host.changes + 1]
        BY <1>0, <3>2 DEF Rekey
      <4>3. QED
        BY <1>0, <3>2, <4>1, <4>2
    <3>3. CASE host' = host
      BY <1>0, <1>1, <3>3
    <3>4. QED
      BY <2>4, <3>1, <3>2, <3>3
  <2>6. QED
    BY <2>1, <2>3, <2>5, <1>k
<1>2. CASE UNCHANGED moves /\ (\/ Handshake \/ ReadState \/ TakeBaseline
                                \/ PollAttention \/ RereadState \/ CallPreview)
  <2>1. Agreed
    BY <1>2, ExchangeAgrees
  <2>2. QED
    BY <1>0, <1>2, <2>1, Zenon DEF Agreed, ProcessInv
<1>3. CASE UNCHANGED moves /\ OpenSsh
  <2>1. /\ UNCHANGED <<host, rejected>>
        /\ \/ process' = NewProcess /\ heard' = 0
           \/ UNCHANGED <<process, heard>>
        /\ worker'.stage \notin {"state", "baseline"}
    BY <1>0, <1>3, FinishedFields DEF OpenSsh, Goto, WorkerInv, Idle, ConnectStage
  <2>2. NewProcess \in Processes /\ NewProcess.sequence = 0
    <3>1. NoSession \in States
      BY DEF NoSession, States
    <3>2. QED
      BY <3>1 DEF NewProcess, Processes
  <2>3. QED
    BY <1>0, <1>3, <2>1, <2>2, Zenon DEF ProcessInv
<1>4. CASE UNCHANGED moves /\ (\/ TimerFires \/ Deliver \/ MonitorReports
                                \/ Begin \/ OwnTransport \/ Conclude \/ Post)
  <2>1. UNCHANGED <<process, heard, rejected, host>>
    BY <1>4 DEF TimerFires, RequestRefresh, Deliver, Begin, OwnTransport, Conclude, Post,
       MonitorReports, ReportLoss, hostVars
  <2>2. worker'.stage \in {"state", "baseline"} => worker'.stage = worker.stage
    <3>1. CASE Begin
      BY <3>1, BegunFields
    <3>2. CASE OwnTransport \/ Conclude \/ Post
      BY <1>0, <3>2 DEF OwnTransport, Conclude, Post, Goto, WorkerInv, Idle
    <3>3. CASE TimerFires \/ Deliver \/ MonitorReports
      BY <3>3 DEF TimerFires, RequestRefresh, Deliver, MonitorReports, ReportLoss
    <3>4. QED
      BY <1>4, <3>1, <3>2, <3>3
  <2>3. QED
    BY <1>0, <1>4, <2>1, <2>2, <1>k
<1>5. CASE UNCHANGED vars
  BY <1>0, <1>5, <1>k DEF vars, hostVars
<1>6. QED
  BY <1>1, <1>2, <1>3, <1>4, <1>5 DEF Next, Executor

-----------------------------------------------------------------------------
(* The polling.  What a generation does for its list - its connect, or a    *)
(* poll - is at one place at most: queued, running, or posted.              *)

RefreshKinds == {"RefreshReconciled", "RefreshFailed"}
NewsKinds == RefreshKinds \cup {"Connected", "ReviewHostKey"}

Refreshes(x, g) == x.kind # "preview" /\ x.token = g
News(p, g) == p.event.kind \in NewsKinds /\ p.token = g

Running == worker.stage # "idle" /\ Refreshes(worker, generation)

Alone ==
  /\ \A i, j \in 1 .. Len(tasks) :
       Refreshes(tasks[i], generation) /\ Refreshes(tasks[j], generation) => i = j
  /\ \A i, j \in 1 .. Len(posts) :
       News(posts[i], generation) /\ News(posts[j], generation) => i = j
  /\ \A i \in 1 .. Len(tasks), j \in 1 .. Len(posts) :
       ~(Refreshes(tasks[i], generation) /\ News(posts[j], generation))
  /\ Running =>
       /\ \A i \in 1 .. Len(tasks) : ~Refreshes(tasks[i], generation)
       /\ \A j \in 1 .. Len(posts) : ~News(posts[j], generation)

InFlight == polling.inFlight = TRUE

\* While the screen says connected, that is a poll and it is in flight.
Awaited ==
  ui.phase = "CONNECTED" =>
    /\ \A i \in 1 .. Len(tasks) :
         Refreshes(tasks[i], generation) => tasks[i].kind = "poll" /\ InFlight
    /\ Running => worker.kind = "poll" /\ InFlight
    /\ \A j \in 1 .. Len(posts) :
         News(posts[j], generation) => posts[j].event.kind \in RefreshKinds /\ InFlight

PollingInv ==
  /\ polling \in [inFlight : BOOLEAN, timers : Nat]
  /\ polling.timers <= moves /\ (InFlight => polling.timers < moves)
  /\ ui.phase # "CONNECTED" => polling.timers = 0 /\ ~InFlight
  /\ worker.stage \in {"result", "post"} /\ worker.event.kind \in RefreshKinds =>
       worker.kind = "poll"
  /\ Alone
  /\ Awaited

LEMMA PollingInit == Init => PollingInv
<1> SUFFICES ASSUME Init PROVE PollingInv
  OBVIOUS
<1>1. /\ polling = [inFlight |-> FALSE, timers |-> 0] /\ moves = 0
      /\ worker.stage = "idle" /\ ui.phase = "DISCONNECTED"
      /\ Len(tasks) = 0 /\ Len(posts) = 0
  BY EmptySeq DEF Init, Idle, NewState
<1>2. QED
  BY <1>1 DEF PollingInv, Alone, Awaited, Running, InFlight

\* When no task, post or screen changes but the running task may end.
LEMMA PollingKept ==
  ASSUME PollingInv, UNCHANGED <<generation, tasks, posts, polling>>, ui'.phase = ui.phase,
         SameTask, moves <= moves', moves \in Nat, moves' \in Nat,
         worker'.stage \in {"result", "post"} /\ worker'.event.kind \in RefreshKinds =>
           worker'.kind = "poll"
  PROVE  PollingInv'
<1>1. Running' => Running /\ worker'.kind = worker.kind
  BY DEF SameTask, Running, Refreshes
<1>2. InFlight' <=> InFlight
  BY DEF InFlight
<1>3. Alone'
  BY <1>1 DEF PollingInv, Alone
<1>4. Awaited'
  BY <1>1, <1>2 DEF PollingInv, Awaited
<1>5. QED
  BY <1>2, <1>3, <1>4 DEF PollingInv

\* What requestRefresh does.
LEMMA RefreshCases ==
  ASSUME NEW p, p \in [inFlight : BOOLEAN, timers : Nat], RequestRefresh(p)
  PROVE  /\ UNCHANGED <<generation, posts, worker>>
         /\ \/ /\ ui.phase # "CONNECTED" \/ p.inFlight = TRUE
               /\ polling' = p /\ UNCHANGED <<ui, tasks>>
            \/ /\ ui.phase = "CONNECTED" /\ p.inFlight = FALSE
               /\ ui' = Reduce(ui, RefreshFailed) /\ tasks' = tasks
               /\ polling' = Repoll(p, ui', RefreshFailed)
            \/ /\ ui.phase = "CONNECTED" /\ p.inFlight = FALSE
               /\ ui' = Reduce(ui, Event("RefreshStarted", Nothing))
               /\ polling' = [p EXCEPT !.inFlight = TRUE]
               /\ tasks' = Append(tasks, [kind |-> "poll", token |-> generation,
                                          session |-> Nothing])
  BY DEF RequestRefresh, Submit

\* Without a poll in flight, nothing refreshes the list of a connected screen.
LEMMA NothingAwaited ==
  ASSUME PollingInv, ui.phase = "CONNECTED", ~InFlight
  PROVE  /\ \A i \in 1 .. Len(tasks) : ~Refreshes(tasks[i], generation)
         /\ ~Running
         /\ \A j \in 1 .. Len(posts) : ~News(posts[j], generation)
  BY DEF PollingInv, Awaited

LEMMA RefreshPolls ==
  ASSUME TypeInv, PollingInv,
         NEW p, p \in [inFlight : BOOLEAN, timers : Nat], RequestRefresh(p),
         p.inFlight = polling.inFlight, ui.phase # "CONNECTED" => p = polling,
         moves' \in Nat, p.timers <= moves',
         p.inFlight = FALSE /\ ui.phase = "CONNECTED" => p.timers < moves',
         p.inFlight = TRUE => p.timers < moves',
         moves <= moves'
  PROVE  PollingInv'
<1>a. UNCHANGED <<generation, posts, worker>>
  BY RefreshCases
<1>b. DOMAIN ui = UiFields /\ tasks \in Seq(Tasks) /\ moves \in Nat
  BY DEF TypeInv, UiOk
<1>0. /\ UNCHANGED <<generation, posts, worker>> /\ DOMAIN ui = UiFields
      /\ tasks \in Seq(Tasks) /\ moves \in Nat
  BY <1>a, <1>b
<1>e. /\ RefreshFailed.kind = "RefreshFailed"
      /\ Event("RefreshStarted", Nothing).kind = "RefreshStarted"
  BY DEF RefreshFailed, Event
<1>s. SameTask /\ (Running' <=> Running)
  BY <1>0 DEF SameTask, Running
<1>1. CASE polling' = p /\ UNCHANGED <<ui, tasks>>
  <2>1. InFlight' <=> InFlight
    BY <1>1 DEF InFlight
  <2>2. Alone' /\ Awaited'
    BY <1>0, <1>1, <1>s, <2>1 DEF PollingInv, Alone, Awaited
  <2>3. InFlight' => p.timers < moves'
    BY <1>1 DEF InFlight
  <2>4. QED
    BY <1>0, <1>1, <2>1, <2>2, <2>3 DEF PollingInv
<1>2. CASE /\ ui.phase = "CONNECTED" /\ p.inFlight = FALSE
           /\ ui' = Reduce(ui, RefreshFailed) /\ tasks' = tasks
           /\ polling' = Repoll(p, ui', RefreshFailed)
  <2>1. ui'.phase = "CONNECTED"
    BY <1>0, <1>2, <1>e, ReducedPhase DEF QuietKinds
  <2>2. polling' = [inFlight |-> FALSE, timers |-> p.timers + 1]
    BY <1>2, <1>e, <2>1 DEF Repoll, ScheduleNextPoll
  <2>3. ~InFlight /\ ~InFlight'
    BY <1>2, <2>2 DEF InFlight
  <2>4. Alone' /\ Awaited'
    BY <1>0, <1>2, <1>s, <2>3, NothingAwaited DEF PollingInv, Alone, Awaited
  <2>5. p.timers + 1 <= moves'
    BY <1>2
  <2>6. QED
    BY <1>0, <2>1, <2>2, <2>3, <2>4, <2>5 DEF PollingInv
<1>3. CASE /\ ui.phase = "CONNECTED" /\ p.inFlight = FALSE
           /\ ui' = Reduce(ui, Event("RefreshStarted", Nothing))
           /\ polling' = [p EXCEPT !.inFlight = TRUE]
           /\ tasks' = Append(tasks, [kind |-> "poll", token |-> generation,
                                      session |-> Nothing])
  <2> DEFINE t == [kind |-> "poll", token |-> generation, session |-> Nothing]
  <2>1. ui'.phase = "CONNECTED"
    BY <1>0, <1>3, <1>e, ReducedPhase DEF QuietKinds
  <2>2. ~InFlight /\ InFlight' /\ polling'.timers = p.timers
        /\ polling' \in [inFlight : BOOLEAN, timers : Nat]
    BY <1>3 DEF InFlight
  <2>3. t \in Tasks /\ t.kind = "poll"
    BY DEF Tasks, TypeInv
  <2>4. tasks' = Append(tasks, t)
    BY <1>3
  <2> HIDE DEF t
  <2>5. /\ Len(tasks) \in Nat /\ Len(tasks') = Len(tasks) + 1
        /\ \A i \in 1 .. Len(tasks) : tasks'[i] = tasks[i]
        /\ tasks'[Len(tasks) + 1] = t
    BY <1>0, <2>3, <2>4, AppendProperties, LenProperties
  <2>6. \A i \in 1 .. Len(tasks') :
          Refreshes(tasks'[i], generation) => i = Len(tasks) + 1 /\ tasks'[i].kind = "poll"
    BY <1>3, <2>2, <2>3, <2>5, NothingAwaited
  <2>7. ~Running' /\ \A j \in 1 .. Len(posts) : ~News(posts[j], generation)
    BY <1>3, <1>s, <2>2, NothingAwaited
  <2>8. Alone' /\ Awaited'
    BY <1>0, <2>2, <2>6, <2>7 DEF Alone, Awaited
  <2>9. p.timers < moves'
    BY <1>0, <1>3, <2>2 DEF PollingInv
  <2>10. QED
    BY <1>0, <2>1, <2>2, <2>8, <2>9 DEF PollingInv
<1>4. QED
  BY <1>1, <1>2, <1>3, RefreshCases

\* A tap that makes no request of the list.
LEMMA QuietPolls ==
  ASSUME TypeInv, PollingInv, moves' \in Nat, moves <= moves',
         \/ OpenHome \/ ReadPreview
         \/ \E s \in Sessions : OpenThread(s)
         \/ \E s \in Sessions, status \in Shown : Change(s, status)
         \/ \E key \in Keys : Rekey(key)
         \/ \E g \in Generations : Lose(g)
         \/ UNCHANGED vars
  PROVE  PollingInv'
<1>0. moves \in Nat /\ tasks \in Seq(Tasks) /\ generation \in Nat /\ WorkerInv
  BY DEF TypeInv
<1>1. UNCHANGED <<generation, posts, worker>>
  BY DEF OpenHome, ReadPreview, OpenThread, Change, Rekey, Lose, clientVars, vars
<1>2. polling' = polling
  <2>1. \A s : /\ Event("OpenThread", s).kind = "OpenThread"
               /\ Event("OpenHome", Nothing).kind = "OpenHome"
    BY DEF Event
  <2>2. CASE OpenHome \/ \E s \in Sessions : OpenThread(s)
    BY <2>1, <2>2 DEF OpenHome, OpenThread, Dispatch, Repoll
  <2>3. QED
    BY <2>2 DEF ReadPreview, Change, Rekey, Lose, mainVars, vars
<1>3. ui'.phase = ui.phase
  <2>1. CASE \E g \in Generations : Lose(g)
    BY <2>1 DEF Lose, mainVars
  <2>2. QED
    BY <2>1, TapStep DEF Tapped
<1>4. SameTask /\ (Running' <=> Running) /\ (InFlight' <=> InFlight)
  BY <1>1, <1>2 DEF SameTask, Running, InFlight
<1>5. CASE tasks' = tasks
  <2>1. worker'.stage \in {"result", "post"} /\ worker'.event.kind \in RefreshKinds =>
          worker'.kind = "poll"
    BY <1>1 DEF PollingInv
  <2>2. QED
    BY <1>0, <1>1, <1>2, <1>3, <1>4, <1>5, <2>1, PollingKept
<1>6. CASE ReadPreview /\ Submit("preview", ui.selected)
  <2> DEFINE t == [kind |-> "preview", token |-> generation, session |-> ui.selected]
  <2>1. t \in Tasks /\ t.kind = "preview"
    BY <1>0, <1>6 DEF Tasks, TypeInv, UiOk, ReadPreview
  <2>2. tasks' = Append(tasks, t)
    BY <1>6 DEF Submit
  <2> HIDE DEF t
  <2>3. /\ Len(tasks) \in Nat /\ Len(tasks') = Len(tasks) + 1
        /\ \A i \in 1 .. Len(tasks) : tasks'[i] = tasks[i]
        /\ tasks'[Len(tasks) + 1] = t
    BY <1>0, <2>1, <2>2, AppendProperties, LenProperties
  <2>4. \A i \in 1 .. Len(tasks') :
          Refreshes(tasks'[i], generation) => i \in 1 .. Len(tasks) /\ tasks'[i] = tasks[i]
    BY <2>1, <2>3 DEF Refreshes
  <2>5. Alone'
    BY <1>1, <1>4, <2>4 DEF PollingInv, Alone
  <2>6. Awaited'
    BY <1>1, <1>3, <1>4, <2>4 DEF PollingInv, Awaited
  <2>7. QED
    BY <1>0, <1>1, <1>2, <1>3, <1>4, <2>5, <2>6 DEF PollingInv
<1>7. QED
  BY <1>5, <1>6
     DEF OpenHome, ReadPreview, OpenThread, Change, Rekey, Lose, clientVars, vars

\* A new generation has at most its connect.
LEMMA RestartPolls ==
  ASSUME TypeInv, PollingInv, moves' \in Nat,
         TapConnect \/ TapApprove \/ TapDisconnect \/ RepairPin
  PROVE  PollingInv'
<1>0. /\ generation \in Nat /\ Len(tasks) \in Nat /\ WorkerInv /\ PostsInv
      /\ \A i \in 1 .. Len(tasks) : tasks[i].token \in 1 .. generation
  BY LenProperties DEF TypeInv
<1>1. Restarted
  BY RestartStep DEF TapConnect, TapApprove, TapDisconnect, RepairPin
<1>2. /\ generation' = generation + 1 /\ posts' = posts
      /\ worker' \in {worker, [worker EXCEPT !.interrupted = TRUE]}
      /\ ui'.phase # "CONNECTED"
  BY <1>1 DEF Restarted
<1>3. worker'.token = worker.token /\ worker'.stage = worker.stage
      /\ worker'.kind = worker.kind /\ worker'.event = worker.event
  BY <1>0, <1>2 DEF WorkerInv, Idle
<1>4. polling' = [inFlight |-> FALSE, timers |-> 0]
  <2>1. /\ Event("Connect", Nothing).kind = "Connect"
        /\ Event("Disconnect", Nothing).kind = "Disconnect"
    BY DEF Event
  <2>2. CASE TapDisconnect \/ RepairPin
    BY <2>1, <2>2 DEF TapDisconnect, RepairPin, Disconnect, Dispatch, Repoll
  <2>3. CASE TapConnect \/ TapApprove
    <3>1. polling' = polling
      BY <2>1, <2>3 DEF TapConnect, TapApprove, Connect, Dispatch, Repoll
    <3>2. ui.phase # "CONNECTED"
      BY <2>3 DEF TapConnect, TapApprove
    <3>3. QED
      BY <3>1, <3>2 DEF PollingInv, InFlight
  <2>4. QED
    BY <2>2, <2>3
<1>5. ~Running' /\ \A j \in 1 .. Len(posts') : ~News(posts'[j], generation')
  BY <1>0, <1>2, <1>3 DEF Running, Refreshes, News, WorkerInv, PostsInv
<1>6. PICK n \in 0 .. Len(tasks) :
        /\ tasks' \in Seq(Tasks) /\ Len(tasks') \in {n, n + 1}
        /\ \A i \in 1 .. n : tasks'[i] = tasks[i]
        /\ Len(tasks') = n + 1 =>
             /\ tasks'[n + 1].token = generation' /\ generation' \in Nat \ {0}
             /\ tasks'[n + 1].kind = "connect" => generation' = generation + 1
  BY <1>1, QueueAfter
<1>7. \A i \in 1 .. Len(tasks') : Refreshes(tasks'[i], generation') => i = n + 1
  <2>1. ASSUME NEW i \in 1 .. n PROVE ~Refreshes(tasks'[i], generation')
    BY <1>0, <1>2, <1>6, <2>1 DEF Refreshes
  <2>2. QED
    BY <1>6, <2>1
<1>8. Alone'
  BY <1>5, <1>7 DEF Alone
<1>9. Awaited' /\ ~InFlight'
  BY <1>2, <1>4 DEF Awaited, InFlight
<1>10. QED
  BY <1>2, <1>3, <1>4, <1>8, <1>9 DEF PollingInv

LEMMA DeliverPolls ==
  ASSUME TypeInv, PollingInv, Deliver, moves' = moves
  PROVE  PollingInv'
<1>0. DOMAIN ui = UiFields /\ PostsInv /\ IsSeq(posts) /\ moves \in Nat
      /\ (ui.phase = "CONNECTED" => generation # 0)
      /\ generation \in 0 .. moves
  BY DEF TypeInv, UiOk, PostsInv
<1>1. /\ UNCHANGED <<generation, worker, tasks>>
      /\ posts # <<>> /\ posts' = Tail(posts)
  BY DEF Deliver, clientVars
<1>2. /\ Len(posts) \in Nat \ {0} /\ Head(posts) = posts[1]
      /\ Len(posts') = Len(posts) - 1
      /\ \A i \in 1 .. Len(posts) - 1 : posts'[i] = posts[i + 1]
  BY <1>0, <1>1, TailSeq
<1>3. Running' <=> Running
  BY <1>1 DEF Running
<1>4. \A i \in 1 .. Len(posts') : i + 1 \in 1 .. Len(posts) /\ posts'[i] = posts[i + 1]
  BY <1>2
<1>5. Alone'
  <2>1. \A i, j \in 1 .. Len(posts') : i + 1 = j + 1 => i = j
    BY <1>2
  <2>2. QED
    BY <1>1, <1>3, <1>4, <2>1 DEF PollingInv, Alone
<1>6. worker'.stage \in {"result", "post"} /\ worker'.event.kind \in RefreshKinds =>
        worker'.kind = "poll"
  BY <1>1 DEF PollingInv
<1>7. CASE UNCHANGED <<ui, polling>>
  <2>1. Awaited'
    BY <1>1, <1>3, <1>4, <1>7 DEF PollingInv, Awaited, InFlight
  <2>2. QED
    BY <1>0, <1>5, <1>6, <1>7, <2>1 DEF PollingInv, InFlight
<1>8. CASE posts[1].token = generation /\ Dispatch(posts[1].event)
  <2> DEFINE e == posts[1].event
  <2>1. /\ ui' = Reduce(ui, e) /\ polling' = Repoll(polling, ui', e) /\ e.kind \in PostKinds
        /\ generation # 0 /\ 1 \in 1 .. Len(posts)
    BY <1>0, <1>2, <1>8 DEF Dispatch, PostsInv
  <2>2. News(posts[1], generation) <=> e.kind \in NewsKinds
    BY <1>8 DEF News
  <2>3. e.kind \in NewsKinds =>
          /\ \A i \in 1 .. Len(tasks) : ~Refreshes(tasks[i], generation)
          /\ ~Running
          /\ \A j \in 1 .. Len(posts') : ~News(posts'[j], generation)
    <3>1. SUFFICES ASSUME e.kind \in NewsKinds
                   PROVE  /\ \A i \in 1 .. Len(tasks) : ~Refreshes(tasks[i], generation)
                          /\ ~Running
                          /\ \A j \in 1 .. Len(posts') : ~News(posts'[j], generation)
      OBVIOUS
    <3>2. Alone /\ News(posts[1], generation)
      BY <2>2, <3>1 DEF PollingInv
    <3>3. ~Running /\ \A i \in 1 .. Len(tasks) : ~Refreshes(tasks[i], generation)
      BY <2>1, <3>2 DEF Alone
    <3>4. \A j \in 1 .. Len(posts') : j + 1 # 1
      BY <1>2
    <3>5. \A j \in 1 .. Len(posts') : ~News(posts'[j], generation)
      BY <1>4, <2>1, <3>2, <3>4 DEF Alone
    <3>6. QED
      BY <3>3, <3>5
  <2>4. e.kind \in NewsKinds => Awaited'
    BY <1>1, <1>3, <2>3 DEF Awaited
  <2>5. e.kind \in RefreshKinds /\ ui.phase = "CONNECTED" => InFlight
    BY <2>1, <2>2 DEF PollingInv, Awaited, NewsKinds
  <2> HIDE DEF e
  <2>6. CASE e.kind \in {"PreviewLoaded", "PreviewFailed"}
    <3>1. polling' = polling /\ ui'.phase = ui.phase
      BY <1>0, <2>1, <2>6, ReducedPhase DEF Repoll, QuietKinds
    <3>2. Awaited'
      BY <1>1, <1>3, <1>4, <3>1 DEF PollingInv, Awaited, InFlight
    <3>3. QED
      BY <1>0, <1>5, <1>6, <3>1, <3>2 DEF PollingInv, InFlight
  <2>7. CASE e.kind \in RefreshKinds
    <3>1. ui'.phase = ui.phase /\ polling' = ScheduleNextPoll(polling, ui')
      BY <1>0, <2>1, <2>7, ReducedPhase DEF Repoll, QuietKinds, RefreshKinds
    <3>2. /\ ~InFlight' /\ polling' \in [inFlight : BOOLEAN, timers : Nat]
          /\ polling'.timers = IF ui.phase = "CONNECTED" THEN polling.timers + 1
                               ELSE polling.timers
      BY <3>1 DEF ScheduleNextPoll, InFlight, PollingInv
    <3>3. polling'.timers <= moves /\ (ui.phase # "CONNECTED" => polling'.timers = 0)
      BY <1>0, <2>5, <2>7, <3>2 DEF PollingInv
    <3>4. QED
      BY <1>5, <1>6, <2>4, <2>7, <3>1, <3>2, <3>3 DEF PollingInv, NewsKinds
  <2>8. CASE e.kind = "Failed"
    <3>1. ui'.phase = "ERROR" /\ polling' = [inFlight |-> FALSE, timers |-> 0]
      BY <1>0, <2>1, <2>8, ReducedPhase DEF Repoll
    <3>2. QED
      BY <1>0, <1>5, <1>6, <3>1 DEF PollingInv, Awaited, InFlight
  <2>9. CASE e.kind = "Connected"
    <3>1. ui'.phase = "CONNECTED" /\ polling' = [inFlight |-> FALSE, timers |-> 1]
      BY <1>0, <2>1, <2>9, ReducedPhase DEF Repoll
    <3>2. 1 <= moves
      BY <1>0, <2>1
    <3>3. QED
      BY <1>0, <1>5, <1>6, <2>4, <2>9, <3>1, <3>2 DEF PollingInv, InFlight, NewsKinds
  <2>10. CASE e.kind = "ReviewHostKey"
    <3>1. ui'.phase = "REVIEW_HOST" /\ polling' = polling
      BY <1>0, <2>1, <2>10, ReducedPhase DEF Repoll
    <3>2. ui.phase # "CONNECTED"
      BY <2>1, <2>2, <2>10 DEF PollingInv, Awaited, NewsKinds, RefreshKinds, e
    <3>3. QED
      BY <1>0, <1>5, <1>6, <2>4, <2>10, <3>1, <3>2 DEF PollingInv, InFlight, NewsKinds
  <2>11. QED
    BY <2>1, <2>6, <2>7, <2>8, <2>9, <2>10 DEF PostKinds, EventKinds, RefreshKinds
<1>9. QED
  BY <1>2, <1>7, <1>8 DEF Deliver, mainVars

LEMMA BeginPolls ==
  ASSUME TypeInv, PollingInv, Begin, moves' = moves
  PROVE  PollingInv'
<1>1. /\ Len(tasks) \in Nat \ {0} /\ Len(tasks') = Len(tasks) - 1
      /\ \A i \in 1 .. Len(tasks') : tasks'[i] = tasks[i + 1]
      /\ worker'.stage = tasks[1].kind /\ worker'.kind = tasks[1].kind
      /\ worker'.token = tasks[1].token
      /\ tasks[1].kind \in {"connect", "poll", "preview"}
  BY BegunFields
<1>2. UNCHANGED <<generation, posts, ui, polling>>
  BY DEF Begin, mainVars
<1>3. /\ 1 \in 1 .. Len(tasks)
      /\ \A i \in 1 .. Len(tasks') : /\ i + 1 \in 1 .. Len(tasks) /\ i + 1 # 1
                                     /\ tasks'[i] = tasks[i + 1]
      /\ \A i, j \in 1 .. Len(tasks') : i + 1 = j + 1 => i = j
  BY <1>1
<1>4. Running' => Refreshes(tasks[1], generation)
  BY <1>1, <1>2 DEF Running, Refreshes
<1>5. Alone'
  BY <1>2, <1>3, <1>4 DEF PollingInv, Alone
<1>6. Awaited'
  BY <1>1, <1>2, <1>3, <1>4 DEF PollingInv, Awaited, InFlight
<1>7. QED
  BY <1>1, <1>2, <1>5, <1>6 DEF PollingInv, InFlight

\* What is posted about the list was what the running task did.
LEMMA PostPolls ==
  ASSUME TypeInv, PollingInv, moves' = moves,
         Post \/ \E g \in Generations : ReportLoss(g)
  PROVE  PollingInv'
<1>0. IsSeq(posts) /\ WorkerInv
  BY DEF TypeInv, PostsInv
<1>1. UNCHANGED <<generation, tasks, ui, polling>>
  BY DEF Post, ReportLoss, clientVars, mainVars
<1>2. PICK p : /\ posts' = Append(posts, p)
               /\ News(p, generation) =>
                    /\ Running /\ ~Running'
                    /\ worker.kind = "poll" => p.event.kind \in RefreshKinds
  <2>1. CASE Post
    <3> DEFINE p == [token |-> worker.token, event |-> worker.event]
    <3>1. posts' = Append(posts, p) /\ worker' = Idle /\ worker.stage = "post"
      BY <2>1 DEF Post
    <3>2. ~Running'
      BY <3>1 DEF Running, Idle
    <3>3. p.token = worker.token /\ p.event = worker.event
      OBVIOUS
    <3> HIDE DEF p
    <3>4. News(p, generation) => /\ worker.kind \in {"connect", "poll"}
                                 /\ worker.kind = "poll" => p.event.kind \in RefreshKinds
      BY <1>0, <3>1, <3>3 DEF News, NewsKinds, WorkerInv, PollingInv
    <3>5. News(p, generation) => Running
      BY <3>1, <3>3, <3>4 DEF News, Running, Refreshes
    <3>6. QED
      BY <3>1, <3>2, <3>4, <3>5
  <2>2. ASSUME NEW g \in Generations, ReportLoss(g)
        PROVE  \E p : posts' = Append(posts, p) /\ ~News(p, generation)
    <3> DEFINE p == [token |-> g, event |-> Failed]
    <3>1. posts' = Append(posts, p)
      BY <2>2 DEF ReportLoss
    <3>2. p.event.kind = "Failed"
      BY DEF Failed, Event
    <3> HIDE DEF p
    <3>3. ~News(p, generation)
      BY <3>2 DEF News, NewsKinds, RefreshKinds
    <3>4. QED
      BY <3>1, <3>3
  <2>3. QED
    BY <2>1, <2>2
<1>3. /\ Len(posts) \in Nat /\ Len(posts') = Len(posts) + 1
      /\ \A i \in 1 .. Len(posts) : posts'[i] = posts[i]
      /\ posts'[Len(posts) + 1] = p
  BY <1>0, <1>2, AppendSeq
<1>w. worker' = worker \/ worker' = Idle
  BY DEF Post, ReportLoss
<1>4. Running' => Running /\ worker'.kind = worker.kind
  BY <1>1, <1>w DEF Running, Idle
<1>5. worker'.stage \in {"result", "post"} /\ worker'.event.kind \in RefreshKinds =>
        worker'.kind = "poll"
  BY <1>w DEF PollingInv, Idle
<1>6. Alone'
  BY <1>1, <1>2, <1>3, <1>4 DEF PollingInv, Alone
<1>7. Awaited'
  BY <1>1, <1>2, <1>3, <1>4 DEF PollingInv, Awaited, InFlight
<1>8. QED
  BY <1>1, <1>5, <1>6, <1>7 DEF PollingInv, InFlight

LEMMA PollingStep ==
  ASSUME TypeInv, TypeInv', PollingInv, [Next]_vars
  PROVE  PollingInv'
<1>0. moves \in Nat /\ moves' \in Nat /\ WorkerInv
  BY DEF TypeInv
<1>1. CASE moves' = moves + 1 /\ Surroundings
  <2>1. CASE TapConnect \/ TapApprove \/ TapDisconnect \/ RepairPin
    BY <1>0, <2>1, RestartPolls
  <2>2. CASE TapRefresh
    <3>1. polling \in [inFlight : BOOLEAN, timers : Nat] /\ polling.timers <= moves
      BY DEF PollingInv
    <3>2. polling.timers < moves' /\ polling.timers <= moves' /\ moves <= moves'
      BY <1>0, <1>1, <3>1
    <3>3. RequestRefresh(polling)
      BY <2>2 DEF TapRefresh
    <3>4. QED
      BY <1>0, <3>1, <3>2, <3>3, RefreshPolls
  <2>3. QED
    BY <1>0, <1>1, <2>1, <2>2, QuietPolls DEF Surroundings, User
<1>2. CASE UNCHANGED moves /\ TimerFires
  <2> DEFINE p == [polling EXCEPT !.timers = @ - 1]
  <2>1. /\ polling \in [inFlight : BOOLEAN, timers : Nat] /\ polling.timers > 0
        /\ polling.timers <= moves /\ ui.phase = "CONNECTED"
    BY <1>2 DEF PollingInv, TimerFires
  <2>2. /\ p \in [inFlight : BOOLEAN, timers : Nat] /\ p.inFlight = polling.inFlight
        /\ p.timers < moves' /\ p.timers <= moves' /\ moves <= moves'
    BY <1>0, <1>2, <2>1
  <2>3. RequestRefresh(p)
    BY <1>2 DEF TimerFires
  <2> HIDE DEF p
  <2>4. QED
    BY <1>0, <2>1, <2>2, <2>3, RefreshPolls
<1>3. CASE UNCHANGED moves /\ (Deliver \/ Begin \/ Post \/ MonitorReports)
  BY <1>3, DeliverPolls, BeginPolls, PostPolls DEF MonitorReports
<1>4. CASE /\ UNCHANGED moves
           /\ OwnTransport \/ OpenSsh \/ Exchanged \/ Conclude
  <2>1. SameTask
    BY <1>4, WorkerSteps DEF Continued
  <2>2. UNCHANGED <<generation, tasks, posts, ui>>
    BY <1>4 DEF OwnTransport, OpenSsh, Exchanged, Conclude, ownerVars, mainVars
  <2>3. worker'.stage \in {"result", "post"} /\ worker'.event.kind \in RefreshKinds =>
          worker'.kind = "poll"
    <3>1. CASE OwnTransport
      BY <1>0, <3>1 DEF OwnTransport, Goto, WorkerInv, Idle
    <3>2. CASE OpenSsh
      BY <1>0, <3>2, FinishedFields
         DEF OpenSsh, Goto, WorkerInv, Idle, Event, Failed, RefreshKinds
    <3>3. CASE Exchanged
      <4>1. Failed.kind = "Failed"
        BY DEF Failed, Event
      <4>2. QED
        BY <1>0, <3>3, <4>1 DEF Exchanged, WorkerInv, PollingInv, RefreshKinds
    <3>4. CASE Conclude
      BY <1>0, <3>4 DEF Conclude, Goto, WorkerInv, Idle, PollingInv
    <3>5. QED
      BY <1>4, <3>1, <3>2, <3>3, <3>4
  <2>4. polling' = polling
    BY <1>4 DEF OwnTransport, OpenSsh, Exchanged, Conclude, mainVars
  <2>5. QED
    BY <1>0, <1>4, <2>1, <2>2, <2>3, <2>4, PollingKept
<1>5. CASE UNCHANGED vars
  <2>1. moves' = moves
    BY <1>5 DEF vars
  <2>2. QED
    BY <1>0, <1>5, <2>1, QuietPolls
<1>6. QED
  BY <1>1, <1>2, <1>3, <1>4, <1>5, ExchangeStep DEF Next, Executor

-----------------------------------------------------------------------------
(* The types of what is shown, posted and worked on *)

\* The value of an event is one that its kind calls for.
Fits(e) ==
  /\ e \in Events
  /\ e.kind \in {"Connected", "RefreshReconciled"} => e.value \in Lists
  /\ e.kind = "ReviewHostKey" => e.value \in Keys
  /\ e.kind = "PreviewLoaded" => e.value \in Previews

UiType ==
  [phase : {"DISCONNECTED", "CONNECTING", "REVIEW_HOST", "CONNECTED", "ERROR"},
   list : {Nothing} \cup Lists, screen : {"list", "thread", "review"},
   selected : {Nothing} \cup Sessions, preview : {Nothing} \cup Previews,
   loading : BOOLEAN,
   attention : {Nothing} \cup Sessions, review : Keys \cup {NoKey},
   refreshFailed : BOOLEAN]

Stages == {"idle", "connect", "open", "initialize", "state", "baseline", "poll",
           "reread", "preview", "result", "post"}

WorkerType ==
  [stage : Stages, kind : {"none", "connect", "poll", "preview"}, token : Nat,
   session : Sessions \cup {Nothing}, interrupted : BOOLEAN, event : Events]

LEMMA ReducedType ==
  ASSUME NEW u \in UiType, NEW e,
         e.kind \in QuietKinds \cup PostKinds \cup {"Connect", "Disconnect"},
         e.kind \in PostKinds => Fits(e),
         e.kind = "OpenThread" => e.value \in Sessions
  PROVE  Reduce(u, e) \in UiType
<1> USE DEF UiType, Reduce, NewState, NoPreview
<1>1. CASE e.kind \in {"Connect", "Failed", "Disconnect"}
  BY <1>1, ZenonT(40)
<1>2. CASE e.kind \in {"RefreshStarted", "RefreshFailed"}
  BY <1>2, ZenonT(40)
<1>3. CASE e.kind = "RefreshReconciled"
  <2>1. e.value \in Lists /\ e.banner \in {Nothing} \cup Sessions
    BY <1>3 DEF Fits, PostKinds, EventKinds, Events
  <2>2. QED
    BY <1>3, <2>1, ZenonT(40) DEF Reconcile
<1>4. CASE e.kind = "OpenThread"
  BY <1>4
<1>5. CASE e.kind \in {"OpenHome", "PreviewStarted", "PreviewFailed"}
  BY <1>5, ZenonT(40)
<1>6. CASE e.kind = "PreviewLoaded"
  <2>1. e.value \in Previews
    BY <1>6 DEF Fits, PostKinds, EventKinds
  <2>2. QED
    BY <1>6, <2>1 DEF ShowPreview
<1>7. CASE e.kind = "ReviewHostKey"
  BY <1>7, ZenonT(40) DEF Fits, PostKinds, EventKinds
<1>8. CASE e.kind = "Connected"
  BY <1>8 DEF Fits, PostKinds, EventKinds
<1>9. QED
  BY <1>1, <1>2, <1>3, <1>4, <1>5, <1>6, <1>7, <1>8 DEF QuietKinds, PostKinds, EventKinds

LinkType == [Generations -> {"none", "up", "lost", "closed"}]
PinType == Keys \cup {NoKey}

\* The connections and what the client keeps of them
ClientTyped ==
  /\ links \in LinkType
  /\ transport \in 0 .. generation /\ terminal \in 0 .. generation
  /\ pendingPin \in PinType /\ pin \in PinType
  /\ cancellable \in BOOLEAN

WorkerTyped == worker \in WorkerType /\ Fits(worker.event)

PostsTyped ==
  \A i \in 1 .. Len(posts) :
    posts[i] \in [token : Nat, event : Events] /\ Fits(posts[i].event)

FieldsInv == ClientTyped /\ WorkerTyped /\ PostsTyped /\ ui \in UiType

LEMMA SimpleFits ==
  /\ Fits(NoEvent) /\ Fits(Failed) /\ Fits(RefreshFailed)
  /\ Fits(Event("PreviewFailed", Nothing))
  /\ \A p \in Previews : Fits(Event("PreviewLoaded", p))
  /\ \A key \in Keys : Fits(Event("ReviewHostKey", key))
  /\ \A list \in Lists : Fits(Event("Connected", list))
  /\ \A list \in Lists, s \in Sessions \cup {Nothing} :
       Fits([kind |-> "RefreshReconciled", value |-> list, banner |-> s])
  BY DEF Fits, NoEvent, Failed, RefreshFailed, Event, Events, EventKinds

LEMMA FieldsInit == Init => FieldsInv
<1> SUFFICES ASSUME Init PROVE FieldsInv
  OBVIOUS
<1>1. worker = Idle /\ ui = NewState /\ Len(posts) = 0
  BY EmptySeq DEF Init
<1>2. /\ links \in [Generations -> {"none", "up", "lost", "closed"}]
      /\ transport = 0 /\ terminal = 0 /\ generation = 0 /\ cancellable = FALSE
      /\ {pendingPin, pin} \subseteq Keys \cup {NoKey}
  BY CockpitAssumption DEF Init, NoGeneration
<1>3. worker \in WorkerType /\ Fits(worker.event)
  <2>1. NoEvent \in Events
    BY SimpleFits DEF Fits
  <2>2. QED
    BY <1>1, <2>1, SimpleFits DEF Idle, WorkerType, Stages, NoGeneration
<1>4. ui \in UiType
  BY <1>1 DEF NewState, UiType
<1>5. transport \in 0 .. generation /\ terminal \in 0 .. generation
  BY <1>2
<1>6. \A i \in 1 .. Len(posts) : FALSE
  BY <1>1
<1>7. ClientTyped
  BY <1>2, <1>5 DEF ClientTyped, LinkType, PinType
<1>8. QED
  BY <1>3, <1>4, <1>6, <1>7 DEF FieldsInv, WorkerTyped, PostsTyped

\* The screen
LEMMA UiStep ==
  ASSUME TypeInv, FieldsInv, [Next]_vars
  PROVE  ui' \in UiType
<1>0. ui \in UiType /\ IsSeq(posts) /\ UiOk(ui)
  BY DEF FieldsInv, TypeInv, PostsInv
<1>e. /\ Event("Connect", Nothing).kind = "Connect"
      /\ Event("Disconnect", Nothing).kind = "Disconnect"
      /\ Event("RefreshStarted", Nothing).kind = "RefreshStarted"
      /\ RefreshFailed.kind = "RefreshFailed"
      /\ Event("OpenHome", Nothing).kind = "OpenHome"
      /\ Event("PreviewStarted", Nothing).kind = "PreviewStarted"
      /\ Event("PreviewFailed", Nothing).kind = "PreviewFailed"
  BY DEF Event, RefreshFailed
<1>k. ASSUME NEW u \in UiType, NEW e,
             e.kind \in {"Connect", "Disconnect", "RefreshStarted", "OpenHome",
                         "PreviewStarted"}
      PROVE  Reduce(u, e) \in UiType
  <2>1. /\ e.kind \in QuietKinds \cup PostKinds \cup {"Connect", "Disconnect"}
        /\ e.kind \notin PostKinds /\ e.kind # "OpenThread"
    BY <1>k DEF QuietKinds, PostKinds, EventKinds
  <2>2. QED
    BY <2>1, ReducedType
<1>p. ASSUME NEW u \in UiType, NEW e, Fits(e), e.kind \in PostKinds
      PROVE  Reduce(u, e) \in UiType
  <2>1. e.kind # "OpenThread"
    BY <1>p DEF PostKinds, EventKinds
  <2>2. QED
    BY <1>p, <2>1, ReducedType
<1>r. ASSUME NEW p, RequestRefresh(p) PROVE ui' \in UiType
  <2>1. ui' \in {ui, Reduce(ui, RefreshFailed),
                 Reduce(ui, Event("RefreshStarted", Nothing))}
    BY <1>r DEF RequestRefresh
  <2>2. Fits(RefreshFailed) /\ RefreshFailed.kind \in PostKinds
    BY <1>e, SimpleFits DEF PostKinds, EventKinds
  <2>3. QED
    BY <1>0, <1>e, <1>k, <1>p, <2>1, <2>2
<1>1. CASE TapConnect \/ TapApprove \/ TapDisconnect \/ RepairPin
  <2>1. ui' \in {Reduce(ui, Event("Connect", Nothing)),
                 Reduce(ui, Event("Disconnect", Nothing))}
    BY <1>1 DEF TapConnect, TapApprove, TapDisconnect, RepairPin, Connect, Disconnect, Dispatch
  <2>2. QED
    BY <1>0, <1>e, <1>k, <2>1
<1>2. CASE TapRefresh \/ TimerFires
  BY <1>2, <1>r DEF TapRefresh, TimerFires
<1>3. CASE OpenHome
  <2>1. ui' = Reduce(ui, Event("OpenHome", Nothing))
    BY <1>3 DEF OpenHome, Dispatch
  <2>2. QED
    BY <1>0, <1>e, <1>k, <2>1
<1>4. CASE ReadPreview
  <2> DEFINE started == Reduce(ui, Event("PreviewStarted", Nothing))
  <2>1. started \in UiType
    BY <1>0, <1>e, <1>k
  <2>2. ui' \in {started, Reduce(started, Event("PreviewFailed", Nothing))}
    BY <1>4 DEF ReadPreview
  <2> HIDE DEF started
  <2>3. /\ Fits(Event("PreviewFailed", Nothing))
        /\ Event("PreviewFailed", Nothing).kind \in PostKinds
    BY <1>e, SimpleFits DEF PostKinds, EventKinds
  <2>4. QED
    BY <1>p, <2>1, <2>2, <2>3
<1>5. ASSUME NEW s \in Sessions, OpenThread(s) PROVE ui' \in UiType
  <2>1. Event("OpenThread", s).kind = "OpenThread" /\ Event("OpenThread", s).value = s
    BY DEF Event
  <2>2. "OpenThread" \in QuietKinds /\ "OpenThread" \notin PostKinds
    BY DEF QuietKinds, PostKinds, EventKinds
  <2>3. Reduce(ui, Event("OpenThread", s)) \in UiType
    BY <1>0, <2>1, <2>2, ReducedType
  <2>4. QED
    BY <1>5, <2>3 DEF OpenThread, Dispatch
<1>6. CASE Deliver
  <2>1. posts # <<>>
    BY <1>6 DEF Deliver
  <2>2. Head(posts) = posts[1] /\ 1 \in 1 .. Len(posts)
    BY <1>0, <2>1, TailSeq
  <2>3. Fits(posts[1].event) /\ posts[1].event.kind \in PostKinds
    BY <2>2 DEF FieldsInv, PostsTyped, TypeInv, PostsInv
  <2>4. ui' \in {ui, Reduce(ui, posts[1].event)}
    BY <1>6, <2>2 DEF Deliver, Dispatch, mainVars
  <2>5. QED
    BY <1>0, <1>p, <2>3, <2>4
<1>7. CASE \/ Executor \/ MonitorReports \/ UNCHANGED vars
           \/ \E g \in Generations : Lose(g)
           \/ \E s \in Sessions, status \in Shown : Change(s, status)
           \/ \E key \in Keys : Rekey(key)
  <2>1. ui' = ui
    BY <1>7, ExchangeStep DEF Executor, Begin, OwnTransport, OpenSsh, Conclude, Post,
       Exchanged, MonitorReports, ReportLoss, Lose, Change, Rekey, mainVars, vars
  <2>2. QED
    BY <1>0, <2>1
<1>8. QED
  BY <1>1, <1>2, <1>3, <1>4, <1>5, <1>6, <1>7 DEF Next, Surroundings, User

LEMMA FinishedType ==
  ASSUME worker \in WorkerType, NEW e, Fits(e)
  PROVE  Finished(e) \in WorkerType /\ Finished(e).event = e
  BY DEF WorkerType, Stages, Finished, Fits

\* What the replies of a request become in the running task.
LEMMA RepliesType ==
  ASSUME TypeInv, ProcessInv, NEW request, NEW r \in Replies(request)
  PROVE  /\ request.method = "state/read" => List(r) \in Lists
         /\ request.method = "attention/poll" =>
              r.events = <<>> \/ r.events[Len(r.events)].session \in Sessions
<1>1. PICK o \in Outcomes(process, request, host.status) : r = o.reply
  BY DEF Replies
<1>2. r.ok
  BY DEF Replies
<1>3. /\ moves \in 0 .. MaxMoves /\ host.status \in States /\ host.changes \in 0 .. moves
      /\ process \in Processes
  BY DEF TypeInv, ProcessInv
<1>4. ASSUME request.method = "state/read" PROVE List(r) \in Lists
  <2>1. o.reply \in {Failure, Result(host.status)}
    BY <1>4, OutcomesOf
  <2>2. r = Result(host.status)
    BY <1>1, <1>2, <2>1, Uncounted
  <2>3. r.value = host.status
    BY <2>2, Uncounted
  <2>4. QED
    BY <1>3, <2>3, CockpitAssumption DEF List, Lists
<1>5. ASSUME request.method = "attention/poll"
      PROVE  r.events = <<>> \/ r.events[Len(r.events)].session \in Sessions
  <2>1. o \in {[process |-> process, reply |-> Failure]} \cup Poll(process, host.status)
    BY <1>5, OutcomesOf
  <2>2. o # [process |-> process, reply |-> Failure]
    BY <1>1, <1>2, Uncounted
  <2>3. PICK events \in EventLists(process, host.status) :
          o = [process |-> [process EXCEPT !.baseline = host.status, !.started = TRUE,
                                           !.sequence = @ + Len(events)],
               reply |-> [ok |-> TRUE, value |-> Len(events), events |-> events]]
    BY <2>1, <2>2 DEF Poll
  <2>4. r.events = events
    BY <1>1, <2>3
  <2>5. Len(events) \in 1 .. Len(events) \/ events = <<>>
    BY <1>3, PolledEvents
  <2>6. QED
    BY <1>3, <2>4, <2>5, PolledEvents
<1>6. QED
  BY <1>4, <1>5

LEMMA ExchangeTypes ==
  ASSUME TypeInv, ProcessInv, FieldsInv,
         \/ Handshake \/ ReadState \/ TakeBaseline
         \/ PollAttention \/ RereadState \/ CallPreview
  PROVE  WorkerTyped'
<1>0. worker \in WorkerType /\ Fits(worker.event) /\ worker.session \in Sessions \cup {Nothing}
  BY DEF FieldsInv, WorkerTyped, WorkerType
<1>f. ASSUME NEW e, Fits(e), worker' = Finished(e) PROVE WorkerTyped'
  BY <1>0, <1>f, FinishedType DEF WorkerTyped
<1>b. ASSUME Break PROVE WorkerTyped'
  BY <1>b, <1>f, SimpleFits DEF Break
<1>1. CASE Handshake
  <2> DEFINE request == [method |-> "initialize", protocols |-> {1}, previews |-> {1, 2}]
             known == {r \in Replies(request) : r.value \in {1, 2}}
             next == [r \in known |-> [worker EXCEPT !.stage = "state"]]
  <2>1. Exchange("initialize", request, next, Failed)
    BY <1>1 DEF Handshake
  <2>2. \A r \in DOMAIN next : next[r] = [worker EXCEPT !.stage = "state"]
    OBVIOUS
  <2> HIDE DEF request, known, next
  <2>3. Break \/ worker' = [worker EXCEPT !.stage = "state"]
    BY <2>1, <2>2, ExchangeCases
  <2>4. CASE worker' = [worker EXCEPT !.stage = "state"]
    BY <1>0, <2>4 DEF WorkerTyped, WorkerType, Stages
  <2>5. QED
    BY <1>b, <2>3, <2>4
<1>2. CASE ReadState
  <2> DEFINE request == Request("state/read")
             event(r) == Event("Connected", List(r))
             next == [r \in Replies(request) |->
                        [worker EXCEPT !.stage = "baseline", !.event = event(r)]]
  <2>1. Exchange("state", request, next, Failed)
    BY <1>2 DEF ReadState
  <2>2. /\ DOMAIN next = Replies(request) /\ request.method = "state/read"
        /\ \A r \in DOMAIN next :
             next[r] = [worker EXCEPT !.stage = "baseline", !.event = event(r)]
    BY DEF Request
  <2> HIDE DEF request, next
  <2>3. \A r \in Replies(request) : Fits(event(r))
    BY <2>2, RepliesType, SimpleFits
  <2> HIDE DEF event
  <2>n. Break \/ \E r \in DOMAIN next : worker' = next[r]
    BY <2>1, ExchangeCases
  <2>4. Break \/ \E r \in Replies(request) :
                   worker' = [worker EXCEPT !.stage = "baseline", !.event = event(r)]
    BY <2>2, <2>n
  <2>5. ASSUME NEW r \in Replies(request),
               worker' = [worker EXCEPT !.stage = "baseline", !.event = event(r)]
        PROVE  WorkerTyped'
    <3>1. Fits(event(r)) /\ event(r) \in Events
      BY <2>3 DEF Fits
    <3>2. QED
      BY <1>0, <2>5, <3>1 DEF WorkerTyped, WorkerType, Stages
  <2>6. QED
    BY <1>b, <2>4, <2>5
<1>3. CASE TakeBaseline
  <2> DEFINE request == Request("attention/poll")
             quiet == {r \in Replies(request) : Acceptable(r) /\ r.events = <<>>}
             next == [r \in quiet |-> Finished(worker.event)]
  <2>1. Exchange("baseline", request, next, Failed)
    BY <1>3 DEF TakeBaseline
  <2>2. \A r \in DOMAIN next : next[r] = Finished(worker.event)
    OBVIOUS
  <2> HIDE DEF request, quiet, next
  <2>3. Break \/ worker' = Finished(worker.event)
    BY <2>1, <2>2, ExchangeCases
  <2>4. QED
    BY <1>0, <1>b, <1>f, <2>3
<1>4. CASE PollAttention
  <2> DEFINE request == Request("attention/poll")
             last(events) == IF events = <<>> THEN Nothing ELSE events[Len(events)].session
             next == [r \in {q \in Replies(request) : Acceptable(q)} |->
                        [worker EXCEPT !.stage = "reread", !.session = last(r.events)]]
  <2>1. Exchange("poll", request, next, RefreshFailed)
    BY <1>4 DEF PollAttention
  <2>2. /\ DOMAIN next \subseteq Replies(request) /\ request.method = "attention/poll"
        /\ \A r \in DOMAIN next :
             next[r] = [worker EXCEPT !.stage = "reread", !.session = last(r.events)]
    BY DEF Request
  <2> HIDE DEF request, next
  <2>3. \A r \in Replies(request) : last(r.events) \in Sessions \cup {Nothing}
    BY <2>2, RepliesType
  <2> HIDE DEF last
  <2>n. \/ Break \/ worker' = Finished(RefreshFailed)
        \/ \E r \in DOMAIN next : worker' = next[r]
    BY <2>1, ExchangeCases
  <2>4. \/ Break \/ worker' = Finished(RefreshFailed)
        \/ \E r \in Replies(request) :
             worker' = [worker EXCEPT !.stage = "reread", !.session = last(r.events)]
    BY <2>2, <2>n
  <2>5. ASSUME NEW r \in Replies(request),
               worker' = [worker EXCEPT !.stage = "reread", !.session = last(r.events)]
        PROVE  WorkerTyped'
    BY <1>0, <2>3, <2>5 DEF WorkerTyped, WorkerType, Stages
  <2>6. QED
    BY <1>b, <1>f, <2>4, <2>5, SimpleFits
<1>5. CASE RereadState
  <2> DEFINE request == Request("state/read")
             event(r) == [kind |-> "RefreshReconciled", value |-> List(r),
                          banner |-> worker.session]
             next == [r \in Replies(request) |-> Finished(event(r))]
  <2>1. Exchange("reread", request, next, RefreshFailed)
    BY <1>5 DEF RereadState
  <2>2. /\ DOMAIN next = Replies(request) /\ request.method = "state/read"
        /\ \A r \in DOMAIN next : next[r] = Finished(event(r))
    BY DEF Request
  <2> HIDE DEF request, next
  <2>3. \A r \in Replies(request) : Fits(event(r))
    BY <1>0, <2>2, RepliesType, SimpleFits
  <2> HIDE DEF event
  <2>4. \/ Break \/ worker' = Finished(RefreshFailed)
        \/ \E r \in Replies(request) : worker' = Finished(event(r))
    BY <2>1, <2>2, ExchangeCases
  <2>5. QED
    BY <1>b, <1>f, <2>3, <2>4, SimpleFits
<1>6. CASE CallPreview
  <2> DEFINE request == [method |-> "preview/read", session |-> worker.session,
                         version |-> process.preview]
             same == {r \in Replies(request) : r.value = worker.session}
             preview == [session |-> worker.session, over |-> worker.token]
             next == [r \in same |-> Finished(Event("PreviewLoaded", preview))]
  <2>1. Exchange("preview", request, next, Event("PreviewFailed", Nothing))
    BY <1>6 DEF CallPreview
  <2>2. \A r \in DOMAIN next : next[r] = Finished(Event("PreviewLoaded", preview))
    OBVIOUS
  <2>3. worker.stage = "preview"
    BY <2>1 DEF Exchange
  <2>4. worker.token \in Generations
    BY <2>3, CockpitAssumption DEF TypeInv, WorkerInv, Generations, NoGeneration
  <2>5. preview \in Previews
    BY <2>3, <2>4 DEF Previews, TypeInv, WorkerInv
  <2> HIDE DEF request, same, next, preview
  <2>6. \/ Break \/ worker' = Finished(Event("PreviewFailed", Nothing))
        \/ worker' = Finished(Event("PreviewLoaded", preview))
    BY <2>1, <2>2, ExchangeCases
  <2>7. QED
    BY <1>b, <1>f, <2>5, <2>6, SimpleFits
<1>7. QED
  BY <1>1, <1>2, <1>3, <1>4, <1>5, <1>6

LEMMA WorkerStep ==
  ASSUME TypeInv, ProcessInv, FieldsInv, [Next]_vars
  PROVE  WorkerTyped'
<1>0. worker \in WorkerType /\ Fits(worker.event) /\ host.key \in Keys
      /\ generation \in Nat /\ WorkerTyped
  BY DEF FieldsInv, TypeInv, WorkerTyped
<1>i. Idle \in WorkerType /\ Fits(Idle.event)
  <2>1. NoEvent \in Events /\ Fits(NoEvent)
    BY SimpleFits DEF Fits
  <2>2. QED
    BY <2>1 DEF Idle, WorkerType, Stages, NoGeneration
<1>1. CASE worker' \in {worker, [worker EXCEPT !.interrupted = TRUE]}
  BY <1>0, <1>1 DEF WorkerTyped, WorkerType
<1>2. CASE Begin
  <2>1. tasks \in Seq(Tasks) /\ tasks # <<>>
    BY <1>2 DEF TypeInv, Begin
  <2>2. Head(tasks) \in Tasks
    BY <2>1, HeadTailProperties
  <2>3. /\ Head(tasks).kind \in {"connect", "poll", "preview"} /\ Head(tasks).token \in Nat
        /\ Head(tasks).session \in {Nothing} \cup Sessions
    BY <2>2 DEF Tasks
  <2>4. worker' = [Idle EXCEPT !.stage = Head(tasks).kind, !.kind = Head(tasks).kind,
                               !.token = Head(tasks).token, !.session = Head(tasks).session]
    BY <1>2 DEF Begin
  <2>5. QED
    BY <1>i, <2>3, <2>4 DEF WorkerTyped, WorkerType, Stages
<1>3. CASE worker' = Idle \/ \E stage \in Stages : Goto(stage)
  BY <1>0, <1>i, <1>3 DEF Goto, WorkerTyped, WorkerType
<1>4. CASE OpenSsh
  <2>1. \/ Goto("initialize")
        \/ \E e \in {Failed, Event("ReviewHostKey", host.key)} : worker' = Finished(e)
    BY <1>4 DEF OpenSsh
  <2>2. Fits(Failed) /\ Fits(Event("ReviewHostKey", host.key))
    BY <1>0, SimpleFits
  <2>3. CASE \E e \in {Failed, Event("ReviewHostKey", host.key)} : worker' = Finished(e)
    BY <1>0, <2>2, <2>3, FinishedType DEF WorkerTyped
  <2>4. "initialize" \in Stages
    BY DEF Stages
  <2>5. QED
    BY <1>3, <2>1, <2>3, <2>4
<1>5. CASE OwnTransport \/ Conclude \/ Post
  <2>1. worker' = Idle \/ \E stage \in Stages : Goto(stage)
    BY <1>5 DEF OwnTransport, Conclude, Post, Stages
  <2>2. QED
    BY <1>3, <2>1
<1>6. CASE \/ Surroundings \/ TimerFires \/ Deliver \/ MonitorReports \/ UNCHANGED vars
  BY <1>1, <1>6
     DEF Surroundings, User, TapConnect, TapApprove, TapDisconnect, RepairPin, Connect,
         Disconnect, CancelledWorker, TapRefresh, RequestRefresh, OpenHome, OpenThread,
         ReadPreview, Lose, Change, Rekey, TimerFires, Deliver, MonitorReports, ReportLoss, vars
<1>7. QED
  BY <1>2, <1>4, <1>5, <1>6, ExchangeTypes DEF Next, Executor

LEMMA ClientStep ==
  ASSUME TypeInv, TypeInv', ClientTyped, [Next]_vars
  PROVE  ClientTyped'
<1>0. /\ links \in LinkType /\ transport \in 0 .. generation /\ terminal \in 0 .. generation
      /\ pendingPin \in PinType /\ pin \in PinType /\ cancellable \in BOOLEAN
      /\ generation \in Nat /\ WorkerInv /\ NoKey \in PinType
  BY DEF ClientTyped, TypeInv, PinType
<1>c. \A t : Close(t) \in LinkType
  BY <1>0 DEF Close, LinkType
<1>1. CASE TapConnect \/ TapApprove \/ TapDisconnect \/ RepairPin
  <2>1. \E p \in PinType : Connect(p) \/ Disconnect(p)
    BY <1>0, <1>1 DEF TapConnect, TapApprove, TapDisconnect, RepairPin
  <2>2. PICK p \in PinType : Connect(p) \/ Disconnect(p)
    BY <2>1
  <2>3. /\ generation' = generation + 1 /\ transport' = 0 /\ terminal' \in {0, terminal}
        /\ links' = Close(transport) /\ pendingPin' = NoKey /\ pin' = p
        /\ cancellable' \in BOOLEAN
    BY <2>2 DEF Connect, Disconnect, NoGeneration
  <2>4. QED
    BY <1>0, <1>c, <2>3 DEF ClientTyped
<1>2. CASE TapRefresh \/ TimerFires \/ ReadPreview
  <2>1. UNCHANGED <<links, generation, transport, terminal, pendingPin, pin>>
        /\ cancellable' \in {cancellable, TRUE}
    BY <1>2 DEF TapRefresh, TimerFires, RequestRefresh, ReadPreview, Submit
  <2>2. QED
    BY <1>0, <2>1 DEF ClientTyped
<1>3. CASE \/ Deliver \/ Begin \/ Post \/ UNCHANGED vars \/ OpenHome
           \/ \E s \in Sessions : OpenThread(s)
           \/ \E s \in Sessions, status \in Shown : Change(s, status)
           \/ \E key \in Keys : Rekey(key)
  <2>1. UNCHANGED <<links, generation, transport, terminal, pendingPin, pin, cancellable>>
    BY <1>3 DEF Deliver, Begin, Post, OpenHome, OpenThread, Change, Rekey, clientVars, vars
  <2>2. QED
    BY <1>0, <2>1 DEF ClientTyped
<1>4. CASE OwnTransport \/ Conclude
  <2>1. UNCHANGED <<links, generation, terminal, pin, cancellable>>
        /\ transport' \in {transport, generation}
        /\ pendingPin' \in {pendingPin, worker.event.value}
        /\ (pendingPin' # pendingPin =>
              worker.stage = "result" /\ worker.event.kind = "ReviewHostKey")
    BY <1>4 DEF OwnTransport, Conclude, ownerVars
  <2>2. pendingPin' \in PinType
    BY <1>0, <2>1 DEF WorkerInv, PinType
  <2>3. QED
    BY <1>0, <2>1, <2>2 DEF ClientTyped
<1>5. CASE OpenSsh
  <2>1. UNCHANGED <<generation, transport, terminal, pendingPin, pin, cancellable>>
        /\ links' \in {links, [links EXCEPT ![worker.token] = "up"]}
    BY <1>5 DEF OpenSsh, ownerVars
  <2>2. [links EXCEPT ![worker.token] = "up"] \in LinkType
    BY <1>0 DEF LinkType
  <2>3. QED
    BY <1>0, <2>1, <2>2 DEF ClientTyped
<1>6. CASE \/ Handshake \/ ReadState \/ TakeBaseline
           \/ PollAttention \/ RereadState \/ CallPreview
  <2>1. UNCHANGED <<generation, transport, terminal, pendingPin>>
        /\ links' \in {links, Close(worker.token)}
    BY <1>6, ExchangeStep DEF Exchanged
  <2>2. UNCHANGED <<pin, cancellable>>
    BY <1>6 DEF Handshake, ReadState, TakeBaseline, PollAttention, RereadState, CallPreview,
       Exchange, ownerVars
  <2>3. QED
    BY <1>0, <1>c, <2>1, <2>2 DEF ClientTyped
<1>7. CASE \E g \in Generations : Lose(g) \/ ReportLoss(g)
  <2>1. PICK g \in Generations : Lose(g) \/ ReportLoss(g)
    BY <1>7
  <2>2. /\ UNCHANGED <<generation, pendingPin, pin, cancellable>>
        /\ \E v \in {"lost", "closed"} : links' = [links EXCEPT ![g] = v]
        /\ transport' \in {transport, 0} /\ terminal' \in {terminal, generation}
    BY <2>1 DEF Lose, ReportLoss, clientVars, NoGeneration
  <2>3. links' \in LinkType
    BY <1>0, <2>2 DEF LinkType
  <2>4. QED
    BY <1>0, <2>2, <2>3 DEF ClientTyped
<1>8. QED
  BY <1>1, <1>2, <1>3, <1>4, <1>5, <1>6, <1>7
     DEF Next, Surroundings, User, Executor, MonitorReports

LEMMA PostsStep ==
  ASSUME TypeInv, WorkerTyped, PostsTyped, [Next]_vars
  PROVE  PostsTyped'
<1>0. IsSeq(posts) /\ Generations \subseteq Nat
  BY DEF TypeInv, PostsInv, Generations
<1>1. CASE Deliver
  <2>1. posts # <<>> /\ posts' = Tail(posts)
    BY <1>1 DEF Deliver
  <2>2. \A i \in 1 .. Len(posts') : i + 1 \in 1 .. Len(posts) /\ posts'[i] = posts[i + 1]
    BY <1>0, <2>1, TailSeq
  <2>3. QED
    BY <2>2 DEF PostsTyped
<1>2. ASSUME NEW t \in Nat, NEW e, Fits(e), posts' = Append(posts, [token |-> t, event |-> e])
      PROVE  PostsTyped'
  <2> DEFINE p == [token |-> t, event |-> e]
  <2>1. p \in [token : Nat, event : Events] /\ Fits(p.event) /\ posts' = Append(posts, p)
    BY <1>2 DEF Fits
  <2> HIDE DEF p
  <2>2. /\ Len(posts) \in Nat /\ Len(posts') = Len(posts) + 1
        /\ \A i \in 1 .. Len(posts) : posts'[i] = posts[i]
        /\ posts'[Len(posts) + 1] = p
    BY <1>0, <2>1, AppendSeq
  <2>3. QED
    BY <2>1, <2>2 DEF PostsTyped
<1>3. CASE Post
  BY <1>2, <1>3 DEF Post, WorkerTyped, WorkerType
<1>4. CASE MonitorReports
  BY <1>0, <1>2, <1>4, SimpleFits DEF MonitorReports, ReportLoss
<1>5. CASE posts' = posts
  BY <1>5 DEF PostsTyped
<1>6. QED
  <2>1. CASE Surroundings \/ TimerFires \/ Begin \/ OwnTransport \/ OpenSsh \/ Conclude
             \/ UNCHANGED vars
    BY <1>5, <2>1
       DEF Surroundings, User, TapConnect, TapApprove, TapDisconnect, RepairPin, Connect,
           Disconnect, TapRefresh, RequestRefresh, OpenHome, OpenThread, ReadPreview, Lose,
           Change, Rekey, TimerFires, Begin, OwnTransport, OpenSsh, Conclude, vars
  <2>2. CASE \/ Handshake \/ ReadState \/ TakeBaseline
             \/ PollAttention \/ RereadState \/ CallPreview
    BY <1>5, <2>2, ExchangeStep DEF Exchanged
  <2>3. QED
    BY <1>1, <1>3, <1>4, <2>1, <2>2 DEF Next, Executor

LEMMA FieldsStep ==
  ASSUME TypeInv, TypeInv', ProcessInv, FieldsInv, [Next]_vars
  PROVE  FieldsInv'
  BY ClientStep, PostsStep, WorkerStep, UiStep DEF FieldsInv

-----------------------------------------------------------------------------
(* Where the preview on the screen was read.  An event of an older generation *)
(* is dropped, and a new generation starts with an empty screen.              *)

PreviewInv ==
  /\ ui.preview = Nothing \/ ui.preview.over = generation
  /\ worker.stage \in {"result", "post"} => ReadOver(worker.event, worker.token)
  /\ \A i \in 1 .. Len(posts) : ReadOver(posts[i].event, posts[i].token)

LEMMA ReducedPreview ==
  ASSUME NEW u, DOMAIN u = UiFields, NEW e,
         e.kind \in QuietKinds \cup PostKinds \cup {"Connect", "Disconnect"}
  PROVE  LET v == Reduce(u, e) IN
         /\ e.kind \in {"Connect", "Disconnect", "OpenThread", "OpenHome",
                        "PreviewStarted", "PreviewFailed"} => v.preview = Nothing
         /\ \/ v.preview \in {Nothing, u.preview}
            \/ e.kind = "PreviewLoaded" /\ v.preview = e.value
<1> USE DEF UiFields, Reduce, NewState, NoPreview
<1>1. CASE e.kind \in {"Connect", "ReviewHostKey", "Connected", "Failed", "Disconnect"}
  BY <1>1
<1>2. CASE e.kind \in {"RefreshStarted", "RefreshFailed", "OpenThread", "OpenHome"}
  BY <1>2
<1>3. CASE e.kind \in {"PreviewStarted", "PreviewFailed"}
  BY <1>3
<1>4. CASE e.kind = "RefreshReconciled"
  BY <1>4 DEF Reconcile
<1>5. CASE e.kind = "PreviewLoaded"
  BY <1>5 DEF ShowPreview
<1>6. QED
  BY <1>1, <1>2, <1>3, <1>4, <1>5 DEF QuietKinds, PostKinds, EventKinds

\* What the executor has done is posted as of its generation.
LEMMA PreviewOnItsWay ==
  ASSUME TypeInv, PreviewInv, posts' = posts, generation' = generation, ui' = ui,
         worker'.stage \in {"result", "post"} => ReadOver(worker'.event, worker'.token)
  PROVE  PreviewInv'
  BY DEF PreviewInv

LEMMA PreviewAppended ==
  ASSUME IsSeq(posts), PreviewInv, NEW p, ReadOver(p.event, p.token),
         posts' = Append(posts, p)
  PROVE  \A i \in 1 .. Len(posts') : ReadOver(posts'[i].event, posts'[i].token)
<1>1. \A i \in 1 .. Len(posts') : i \in 1 .. Len(posts) \/ i = Len(posts) + 1
  BY AppendSeq
<1>2. QED
  BY <1>1, AppendSeq DEF PreviewInv

LEMMA PreviewStep ==
  ASSUME TypeInv, PreviewInv, [Next]_vars
  PROVE  PreviewInv'
<1>0. WorkerInv /\ IsSeq(posts) /\ DOMAIN ui = UiFields
  BY DEF TypeInv, PostsInv, UiOk
<1>1. CASE TapConnect \/ TapApprove \/ TapDisconnect \/ RepairPin
  <2>1. \E e \in {Event("Connect", Nothing), Event("Disconnect", Nothing)} : ui' = Reduce(ui, e)
    BY <1>1 DEF TapConnect, TapApprove, TapDisconnect, RepairPin, Connect, Disconnect, Dispatch
  <2>2. ui'.preview = Nothing
    BY <1>0, <2>1, ReducedPreview DEF Event
  <2>3. posts' = posts /\ worker' \in {worker, [worker EXCEPT !.interrupted = TRUE]}
    BY <1>1 DEF TapConnect, TapApprove, TapDisconnect, RepairPin, Connect, Disconnect,
       CancelledWorker
  <2>4. worker'.stage = worker.stage /\ worker'.event = worker.event
        /\ worker'.token = worker.token
    BY <1>0, <2>3 DEF WorkerInv, Idle
  <2>5. QED
    BY <2>2, <2>3, <2>4 DEF PreviewInv
<1>2. ASSUME UNCHANGED <<generation, worker, posts>>, ui'.preview \in {Nothing, ui.preview}
      PROVE  PreviewInv'
  BY <1>2 DEF PreviewInv
<1>3. CASE TapRefresh \/ TimerFires
  <2>1. /\ UNCHANGED <<generation, worker, posts>>
        /\ ui' = ui \/ \E e \in {RefreshFailed, Event("RefreshStarted", Nothing)} :
                         ui' = Reduce(ui, e)
    BY <1>3 DEF TapRefresh, TimerFires, RequestRefresh
  <2>2. \A e \in {RefreshFailed, Event("RefreshStarted", Nothing)} :
          e.kind \in QuietKinds /\ e.kind # "PreviewLoaded"
    BY DEF Event, RefreshFailed, QuietKinds
  <2>3. QED
    BY <1>0, <1>2, <2>1, <2>2, ReducedPreview
<1>4. CASE OpenHome \/ \E s \in Sessions : OpenThread(s)
  <2>1. /\ UNCHANGED <<generation, worker, posts>>
        /\ \E v \in {Nothing} \cup Sessions, k \in {"OpenHome", "OpenThread"} :
             ui' = Reduce(ui, Event(k, v))
    BY <1>4 DEF OpenHome, OpenThread, Dispatch, clientVars
  <2>2. \A v \in {Nothing} \cup Sessions, k \in {"OpenHome", "OpenThread"} :
          Event(k, v).kind = k /\ k \in QuietKinds /\ k # "PreviewLoaded"
    BY DEF Event, QuietKinds
  <2>3. QED
    BY <1>0, <1>2, <2>1, <2>2, ReducedPreview
<1>5. CASE ReadPreview
  <2> DEFINE started == Reduce(ui, Event("PreviewStarted", Nothing))
  <2>1. /\ UNCHANGED <<generation, worker, posts>>
        /\ ui' = started \/ ui' = Reduce(started, Event("PreviewFailed", Nothing))
    BY <1>5 DEF ReadPreview
  <2>2. \A k \in {"PreviewStarted", "PreviewFailed"} :
          Event(k, Nothing).kind = k /\ k \in QuietKinds
    BY DEF Event, QuietKinds
  <2>3. started.preview = Nothing /\ DOMAIN started = UiFields
    BY <1>0, <2>2, ReducedPreview, DispatchedFields
  <2> HIDE DEF started
  <2>4. Reduce(started, Event("PreviewFailed", Nothing)).preview = Nothing
    BY <2>2, <2>3, ReducedPreview
  <2>5. QED
    BY <1>2, <2>1, <2>3, <2>4
<1>6. CASE Deliver
  <2>1. posts # <<>> /\ posts' = Tail(posts) /\ UNCHANGED <<generation, worker>>
    BY <1>6 DEF Deliver, clientVars
  <2>2. /\ Head(posts) = posts[1] /\ 1 \in 1 .. Len(posts)
        /\ \A i \in 1 .. Len(posts') : i + 1 \in 1 .. Len(posts) /\ posts'[i] = posts[i + 1]
    BY <1>0, <2>1, TailSeq
  <2>3. \/ ui' = ui
        \/ posts[1].token = generation /\ ui' = Reduce(ui, posts[1].event)
    BY <1>6, <2>2 DEF Deliver, Dispatch, mainVars
  <2>4. posts[1].event.kind \in PostKinds /\ ReadOver(posts[1].event, posts[1].token)
    BY <2>2 DEF TypeInv, PostsInv, PreviewInv
  <2>5. ui'.preview = Nothing \/ ui'.preview.over = generation
    BY <1>0, <2>3, <2>4, ReducedPreview DEF PreviewInv, ReadOver
  <2>6. QED
    BY <2>1, <2>2, <2>5 DEF PreviewInv
<1>7. CASE Begin
  <2>1. worker'.stage = Head(tasks).kind /\ UNCHANGED <<generation, posts, ui>>
    BY <1>7 DEF Begin, Idle, mainVars
  <2>2. Head(tasks) \in Tasks
    BY <1>7, HeadTailProperties DEF TypeInv, Begin
  <2>3. worker'.stage \notin {"result", "post"}
    BY <2>1, <2>2 DEF Tasks
  <2>4. QED
    BY <2>1, <2>3, PreviewOnItsWay
<1>8. CASE OwnTransport \/ OpenSsh
  <2>1. UNCHANGED <<generation, posts, ui>> /\ worker.stage \in {"connect", "open"}
    BY <1>8 DEF OwnTransport, OpenSsh, ownerVars, mainVars
  <2>2. \/ worker' = Idle \/ \E stage \in {"open", "initialize"} : Goto(stage)
        \/ \E e \in {Failed, Event("ReviewHostKey", host.key)} : worker' = Finished(e)
    BY <1>8 DEF OwnTransport, OpenSsh
  <2>3. worker'.stage \in {"result", "post"} => worker'.event.kind # "PreviewLoaded"
    BY <1>0, <2>2, FinishedFields DEF Idle, Goto, WorkerInv, Failed, Event
  <2>4. QED
    BY <2>1, <2>3, PreviewOnItsWay DEF ReadOver
<1>9. CASE \/ Handshake \/ ReadState \/ TakeBaseline
           \/ PollAttention \/ RereadState \/ CallPreview
  <2>1. Exchanged
    BY <1>9, ExchangeStep
  <2>2. UNCHANGED <<generation, posts, ui>> /\ worker'.token = worker.token
    BY <2>1 DEF Exchanged, mainVars
  <2>3. worker'.stage \in {"result", "post"} => ReadOver(worker'.event, worker.token)
    BY <1>0, <2>1 DEF Exchanged, WorkerInv, ReadOver, Failed, Event
  <2>4. QED
    BY <2>2, <2>3, PreviewOnItsWay
<1>10. CASE Conclude
  <2>1. UNCHANGED <<generation, posts, ui>> /\ (worker' = Idle \/ Goto("post"))
        /\ worker.stage = "result"
    BY <1>10 DEF Conclude, ownerVars, mainVars
  <2>2. worker'.stage = "post" => worker'.event = worker.event /\ worker'.token = worker.token
    BY <1>0, <2>1 DEF Goto, WorkerInv, Idle
  <2>3. worker'.stage \in {"idle", "post"}
    BY <1>0, <2>1 DEF Goto, WorkerInv, Idle
  <2>4. QED
    BY <2>1, <2>2, <2>3, PreviewOnItsWay DEF PreviewInv
<1>11. CASE Post
  <2> DEFINE p == [token |-> worker.token, event |-> worker.event]
  <2>1. UNCHANGED <<generation, ui>> /\ worker' = Idle /\ posts' = Append(posts, p)
        /\ worker.stage = "post"
    BY <1>11 DEF Post, clientVars, mainVars
  <2>2. ReadOver(p.event, p.token)
    BY <2>1 DEF PreviewInv
  <2> HIDE DEF p
  <2>3. QED
    BY <1>0, <2>1, <2>2, PreviewAppended DEF PreviewInv, Idle
<1>12. CASE MonitorReports
  <2>1. PICK g \in Generations : ReportLoss(g)
    BY <1>12 DEF MonitorReports
  <2> DEFINE p == [token |-> g, event |-> Failed]
  <2>2. UNCHANGED <<generation, worker, ui>> /\ posts' = Append(posts, p)
    BY <2>1 DEF ReportLoss, mainVars
  <2>3. ReadOver(p.event, p.token)
    BY DEF ReadOver, Failed, Event
  <2> HIDE DEF p
  <2>4. QED
    BY <1>0, <2>2, <2>3, PreviewAppended DEF PreviewInv
<1>13. CASE \/ \E g \in Generations : Lose(g)
            \/ \E s \in Sessions, status \in Shown : Change(s, status)
            \/ \E key \in Keys : Rekey(key)
            \/ UNCHANGED vars
  BY <1>2, <1>13 DEF Lose, Change, Rekey, clientVars, mainVars, vars
<1>14. QED
  BY <1>1, <1>3, <1>4, <1>5, <1>6, <1>7, <1>8, <1>9, <1>10, <1>11, <1>12, <1>13
     DEF Next, Surroundings, User, Executor

-----------------------------------------------------------------------------
(* The theorems *)

Inv == TypeInv /\ QueueInv /\ ReviewInv /\ ConnectionInv

\* In every state a task has the fields of its kind, the queue is ordered by
\* generation, the reviewed key is settled and news of a connection is sound.
THEOREM Invariance == Spec => []Inv
<1>1. Init => Inv
  <2> SUFFICES ASSUME Init PROVE Inv
    OBVIOUS
  <2>1. /\ TypeInv /\ worker.stage = "idle" /\ Len(tasks) = 0 /\ Len(posts) = 0
        /\ ui.phase = "DISCONNECTED"
    BY TypeInit, EmptySeq DEF Init, Idle, NewState
  <2>2. QED
    BY <2>1 DEF Inv, QueueInv, ReviewInv, ConnectionInv, ConnectStage
<1>2. Inv /\ [Next]_vars => Inv'
  <2> SUFFICES ASSUME Inv, [Next]_vars PROVE Inv'
    OBVIOUS
  <2>1. AnyStep
    BY Steps DEF Inv
  <2>2. TypeInv'
    BY <2>1, BoundStep, TypeStep DEF Inv
  <2>3. QueueInv' /\ ReviewInv' /\ ConnectionInv'
    BY <2>1, <2>2, QueueStep, ReviewStep, ConnectionStep DEF Inv
  <2>4. QED
    BY <2>2, <2>3 DEF Inv
<1>3. QED
  BY <1>1, <1>2, PTL DEF Spec

\* However late a preview answers, what is shown was read over the connection of
\* this generation, and on the screen of a thread it is that thread's, which is
\* still listed (CockpitReducer; connect and disconnect clear the screen).
THEOREM PreviewOfThread == Spec => []PreviewIsOfThread
<1>1. Init => PreviewInv
  BY EmptySeq DEF Init, Idle, NewState, PreviewInv
<1>2. Inv /\ PreviewInv /\ [Next]_vars => PreviewInv'
  BY PreviewStep DEF Inv
<1>3. Inv /\ PreviewInv => PreviewIsOfThread
  BY CockpitAssumption DEF Inv, TypeInv, UiOk, PreviewInv, PreviewIsOfThread
<1>4. QED
  BY <1>1, <1>2, <1>3, Invariance, PTL DEF Spec

\* No task of another generation, and no second task of this one, comes between
\* the key the user reviews and the key an approval pins (pendingPin).
THEOREM ReviewedKey == Spec => []ReviewedKeyIsPinned
<1>1. Inv => ReviewedKeyIsPinned
  BY DEF Inv, ReviewInv, IsPending, ReviewedKeyIsPinned
<1>2. QED
  BY <1>1, Invariance, PTL

\* The three writers of transport and terminal never leave a screen that says
\* connected without its connection or word of its end.
THEOREM ConnectionOfScreen == Spec => []ConnectedHasConnection
<1>1. Inv => ConnectedHasConnection
  <2> SUFFICES ASSUME Inv, ui.phase = "CONNECTED" PROVE ConnectedHasConnection
    BY DEF ConnectedHasConnection
  <2>1. Sound(0)
    BY DEF Inv, ConnectionInv
  <2>2. DOMAIN posts = 1 .. Len(posts)
    BY LenProperties DEF Inv, TypeInv, PostsInv, IsSeq
  <2>3. Failing \/ FailurePosted(0) => Announced(generation)
    BY <2>2 DEF Failing, FailurePosted, Announced
  <2>4. QED
    BY <2>1, <2>3 DEF Sound, ConnectedHasConnection
<1>2. QED
  BY <1>1, Invariance, PTL

\* What the types rest on besides the order of the tasks and posts.
TypingInv == ProcessInv /\ rejected \in BOOLEAN /\ PollingInv /\ FieldsInv

\* The process, the timers of the polling, what is posted and worked on, and the
\* fields of the state shown (CockpitState) keep their types.
THEOREM Typing == Spec => []TypingInv
<1>1. Init => TypingInv
  <2> SUFFICES ASSUME Init PROVE TypingInv
    OBVIOUS
  <2>1. NoSession \in States
    BY DEF NoSession, States
  <2>2. process \in Processes /\ heard = process.sequence
    BY <2>1 DEF Init, NewProcess, Processes
  <2>3. host \in [status : States, changes : 0 .. moves, key : Keys]
    BY CockpitAssumption DEF Init
  <2>4. ProcessInv /\ rejected \in BOOLEAN
    BY <2>2, <2>3 DEF Init, ProcessInv, Idle
  <2>5. QED
    BY <2>4, PollingInit, FieldsInit DEF TypingInv
<1>2. Inv /\ Inv' /\ TypingInv /\ [Next]_vars => TypingInv'
  BY ProcessStep, PollingStep, FieldsStep DEF Inv, TypingInv
<1>3. QED
  BY <1>1, <1>2, Invariance, PTL DEF Spec

\* Whatever the order of taps, timers, posted events and the end of a
\* connection: the timers of the polling are never more than the moves so far.
THEOREM CockpitIsTyped == Spec => []TypeOK
<1>1. Inv /\ TypingInv => TypeOK
  <2> SUFFICES ASSUME Inv, TypingInv PROVE TypeOK
    OBVIOUS
  <2>1. /\ moves \in 0 .. MaxMoves /\ MaxMoves \in Nat /\ generation \in 0 .. moves
    BY CockpitAssumption DEF Inv, TypeInv
  <2>2. host \in [status : States, changes : 0 .. MaxMoves, key : Keys]
    BY <2>1 DEF TypingInv, ProcessInv
  <2>3. process \in Processes /\ heard \in Nat
    BY DEF TypingInv, ProcessInv, Processes
  <2>4. /\ links \in [Generations -> {"none", "up", "lost", "closed"}]
        /\ {generation, transport, terminal} \subseteq Tokens
    BY <2>1 DEF TypingInv, FieldsInv, ClientTyped, LinkType, Tokens, Generations, NoGeneration
  <2>5. \A i \in DOMAIN tasks :
          tasks[i] \in [kind : {"connect", "poll", "preview"}, token : Generations,
                        session : Sessions \cup {Nothing}]
    <3>1. tasks \in Seq(Tasks) /\ \A i \in 1 .. Len(tasks) : tasks[i].token \in 1 .. generation
      BY DEF Inv, TypeInv
    <3>2. \A i \in DOMAIN tasks : tasks[i] \in Tasks /\ tasks[i].token \in Generations
      BY <2>1, <3>1, LenProperties, ElementOfSeq DEF Generations
    <3>3. QED
      BY <3>2 DEF Tasks
  <2>6. worker.token \in Tokens /\ worker \in WorkerType
    BY <2>1 DEF Inv, TypeInv, WorkerInv, TypingInv, FieldsInv, WorkerTyped, Tokens,
       Generations, NoGeneration
  <2>7. \A i \in DOMAIN posts : posts[i] \in [token : Generations, event : Events]
    <3>1. DOMAIN posts = 1 .. Len(posts)
      BY LenProperties DEF Inv, TypeInv, PostsInv, IsSeq
    <3>2. \A i \in 1 .. Len(posts) : /\ posts[i].token \in Generations
                                     /\ posts[i] \in [token : Nat, event : Events]
      BY <2>1 DEF Inv, TypeInv, PostsInv, TypingInv, FieldsInv, PostsTyped, Generations
    <3>3. QED
      BY <3>1, <3>2
  <2>8. polling \in [inFlight : BOOLEAN, timers : 0 .. MaxMoves]
    BY <2>1 DEF TypingInv, PollingInv
  <2>9. worker \in
          [stage : {"idle", "connect", "open", "initialize", "state", "baseline", "poll",
                    "reread", "preview", "result", "post"},
           kind : {"none", "connect", "poll", "preview"}, token : Tokens,
           session : Sessions \cup {Nothing}, interrupted : BOOLEAN, event : Events]
    BY <2>6 DEF WorkerType, Stages
  <2>10. /\ ui \in UiType /\ {pendingPin, pin} \subseteq Keys \cup {NoKey}
         /\ cancellable \in BOOLEAN /\ rejected \in BOOLEAN
    BY DEF TypingInv, FieldsInv, ClientTyped, PinType
  <2>11. QED
    BY <2>1, <2>2, <2>3, <2>4, <2>5, <2>7, <2>8, <2>9, <2>10 DEF TypeOK, UiType
<1>2. QED
  BY <1>1, Invariance, Typing, PTL

\* As long as the sessions of a host are no more than the events that one poll
\* may bring, and no answer is too long for a frame, which the model leaves out,
\* the client never refuses what the process answers.
THEOREM PeersAgree ==
  ASSUME Cardinality(Sessions) <= EventLimit
  PROVE  Spec => []NothingRejected
<1>1. Init => ~rejected
  BY DEF Init
<1>2. Inv /\ TypingInv /\ ~rejected /\ [Next]_vars => ~rejected'
  BY ProcessStep DEF Inv, TypingInv
<1>3. QED
  BY <1>1, <1>2, Invariance, Typing, PTL DEF Spec, NothingRejected
=============================================================================

------------------------ MODULE ThreadHostProperties ------------------------
(***************************************************************************)
(* What the thread host must guarantee.                                    *)
(***************************************************************************)
EXTENDS ThreadHost

\* Every variable has its type; child_counts may be negative as far as types go.
TypeOK ==
  /\ pending \in [Ids -> Actors \cup {NoActor}]
  /\ completed \subseteq Turns
  /\ closed \in BOOLEAN
  /\ queue \in Seq(Calls)
  /\ DOMAIN depths \subseteq Threads /\ depths \in [DOMAIN depths -> Nat]
  /\ child_counts \in [Threads -> Int]
  /\ stage \in [Actors -> Stage]
  /\ task \in [Actors -> Task]
  /\ depth \in [Actors -> Nat]
  /\ wait \in [Actors -> Ids \cup {NoId}]
  /\ reply \in [Actors -> Answer]
  /\ turn \in [Actors -> Turns \cup {NoTurn}]
  /\ alive \in BOOLEAN
  /\ asked \in [Ids -> Request]
  /\ answer \in [Ids -> Answer]
  /\ ended \subseteq Turns
  /\ threads \subseteq Threads
  /\ running \in [Turns -> Threads \cup {NoThread}]
  /\ maker \in [Calls -> Turns \cup {NoTurn}]
  /\ born \in [Threads -> Threads \cup {NoThread}]

\* However late the app-server answers, an operation takes only the answer to
\* the request it waits for: threads from thread/start, turns from turn/start,
\* and each thread started on behalf of the parent that called the tool.
AnswersMatch ==
  \A a \in Actors :
    /\ reply[a] # NoAnswer => wait[a] # NoId
    /\ reply[a].kind = "thread" =>
         /\ stage[a] = "thread/start"
         /\ born[reply[a].thread] = task[a].parent
    /\ reply[a].kind = "turn" => stage[a] = "turn/start"
    /\ reply[a].kind = "ok" => stage[a] \notin {"thread/start", "turn/start"}

\* Calls that hold a slot of p: their child is being started.
Starting(p) ==
  {c \in Calls : task[c].parent = p /\ stage[c] = "thread/start"}

\* Children of p that the host has recorded.
Children(p) == {t \in DOMAIN depths : born[t] = p}

\* start_thread gives back exactly the slots whose thread it never learned of:
\* child_counts is the number of children started and being started, across
\* refusals, timeouts, late answers and the death of the app-server.
SlotsAccounted ==
  \A p \in Threads :
    child_counts[p] = Cardinality(Starting(p)) + Cardinality(Children(p))

\* No thread has more recorded children than max_children, although its tool
\* calls run concurrently (REQUIREMENTS.md, safety limits).
ChildrenBounded == \A p \in Threads : Cardinality(Children(p)) <= MaxChildren

\* The recursion limit bounds real lineages: no chain of threads, each started
\* by a tool call of the one before, is longer than max_depth allows.
RecursionBounded ==
  ~\E line \in [0 .. MaxDepth + 1 -> Threads] :
     \A i \in 0 .. MaxDepth : born[line[i + 1]] = line[i]

\* A wait for a turn fails only while the turn runs, while its completion is
\* on its way, or with the app-server or its reader gone: a completion that was
\* read before the wait began is not missed.
NoCompletionMissed ==
  [][\A a \in Actors :
       stage[a] = "turn" /\ stage'[a] # "turn" =>
         \/ turn[a] \in completed
         \/ running[turn[a]] # NoThread
         \/ turn[a] \in ended
         \/ ~alive \/ closed]_vars

\* When the reader ends, with the app-server or before it, every request that
\* waits at that moment is woken (_fail_all): none that is being sent, answered
\* or given up is left out.  Of a request sent to the living app-server after
\* that nothing is said: request() does not look at _closed_error, and it sits
\* out its timeout.
ClosedFailsAll ==
  [][closed' # closed => \A a \in Actors : wait'[a] # NoId => reply'[a] # NoAnswer]_vars

\* Every tool call that the reader has taken ends, although the calls in work
\* may fill the pool and wait for turns whose own calls are queued behind them,
\* and although nobody may be left to read the answers to their requests.
CallsEnd == \A c \in Calls : stage[c] = "queued" ~> stage[c] = "idle"
=============================================================================

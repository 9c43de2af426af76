---------------------------- MODULE AppServerProofs ----------------------------
(***************************************************************************)
(* TLAPS proofs about the app-server controller, for every set of callers  *)
(* and any number of moves.                                                *)
(***************************************************************************)
EXTENDS AppServerProperties, SequenceTheorems, TLAPS

\* What is waited for was asked of the present process.
PendingPresent == \A r \in pending : r.to = process /\ r.id < nextId

\* A start under way waits for its own request, and has its process.
StartPending == start.state = "running" => [id |-> start.id, to |-> process] \in pending
StartPresent == start.state = "ok" => process # None

\* A process that nobody is starting is ready, and so is the one a call found.
PresentReady == process # None /\ start.state = "none" => procs[process].ready
StartedPresent ==
  \A c \in Callers : calls[c].stage = "started" => start.state = "none" /\ process # None

\* The ids a process has heard of.
Said(p) == procs[p].asked \cup {procs[p].out[i] : i \in DOMAIN procs[p].out}
SaidBefore ==
  \A p \in Processes : \A id \in Said(p) :
    id < nextId /\ \A r \in pending : r.id = id => r.to = p

IInv ==
  /\ TypeOK
  /\ PendingPresent /\ StartPending /\ StartPresent
  /\ PresentReady /\ StartedPresent
  /\ SaidBefore
  /\ NoOrphan /\ PresentIsCurrent /\ AskedWhenReady

USE DEF None, StartType

-----------------------------------------------------------------------------
(* Promises *)

LEMMA NoneIsNoProcess == None \notin Processes
BY ControllerAssumption DEF Processes

LEMMA Settling ==
  ASSUME TypeOK, NEW got \in SUBSET Nat, NEW lost \in SUBSET Nat
  PROVE  /\ StartAfter(got, lost) \in StartType
         /\ StartAfter(got, lost).id = start.id
         /\ start.state # "running" => StartAfter(got, lost) = start
         /\ start.state = "running" =>
              StartAfter(got, lost).state =
                IF start.id \in lost THEN "failed"
                ELSE IF start.id \in got THEN "ok" ELSE "running"
         /\ CallsAfter(got, lost) \in [Callers -> CallType]
         /\ \A c \in Callers :
              /\ CallsAfter(got, lost)[c] = CallAfter(calls[c], got, lost)
              /\ CallsAfter(got, lost)[c].stage = "started" => calls[c].stage = "started"
<1>1. /\ StartAfter(got, lost) \in StartType
      /\ StartAfter(got, lost).id = start.id
      /\ start.state # "running" => StartAfter(got, lost) = start
      /\ start.state = "running" =>
           StartAfter(got, lost).state =
             IF start.id \in lost THEN "failed"
             ELSE IF start.id \in got THEN "ok" ELSE "running"
  BY DEF TypeOK, StartAfter
<1>2. ASSUME NEW c \in Callers
      PROVE  /\ CallAfter(calls[c], got, lost) \in CallType
             /\ CallAfter(calls[c], got, lost).stage = "started" => calls[c].stage = "started"
  <2>1. calls[c] \in CallType
    BY DEF TypeOK
  <2>2. QED
    BY <2>1 DEF CallAfter, CallType
<1>3. QED
  BY <1>1, <1>2 DEF CallsAfter

\* Rejections alone bring no call to its requests.
LEMMA Losing ==
  ASSUME TypeOK, NEW lost \in SUBSET Nat
  PROVE  /\ CallsAfter({}, lost) \in [Callers -> CallType]
         /\ \A c \in Callers :
              /\ CallsAfter({}, lost)[c] = CallAfter(calls[c], {}, lost)
              /\ CallsAfter({}, lost)[c].stage = "started" => calls[c].stage = "started"
<1> DEFINE got == {}
<1>1. got \in SUBSET Nat
  OBVIOUS
<1> HIDE DEF got
<1>2. /\ CallsAfter(got, lost) \in [Callers -> CallType]
      /\ \A c \in Callers :
           /\ CallsAfter(got, lost)[c] = CallAfter(calls[c], got, lost)
           /\ CallsAfter(got, lost)[c].stage = "started" => calls[c].stage = "started"
  BY <1>1, Settling
<1>3. QED
  BY <1>2 DEF got

\* stopProcess leaves nothing that is present, waited for, or running.
LEMMA Stopping ==
  ASSUME IInv, StopProcess
  PROVE  /\ process' = None /\ pending' = {}
         /\ Rejected \in SUBSET Nat /\ Rejected = Ids(pending)
         /\ start.state = "running" => start.id \in Rejected
         /\ procs' \in [Processes -> ProcessType]
         /\ \A p \in Processes : /\ procs'[p].state # "up"
                                 /\ procs'[p].asked = procs[p].asked
                                 /\ procs'[p].out = procs[p].out
<1>1. process = None => pending = {}
  BY NoneIsNoProcess DEF IInv, TypeOK, PendingPresent
<1>2. process' = None /\ pending' = {}
  BY <1>1 DEF StopProcess
<1>3. /\ Rejected \in SUBSET Nat /\ Rejected = Ids(pending)
  BY <1>1 DEF Rejected, Ids, IInv, TypeOK
<1>4. start.state = "running" => start.id \in Rejected
  <2>1. SUFFICES ASSUME start.state = "running" PROVE start.id \in Ids(pending)
    BY <1>3
  <2>2. [id |-> start.id, to |-> process] \in pending
    BY <2>1 DEF IInv, StartPending
  <2>3. QED
    BY <2>2 DEF Ids
<1>5. ASSUME NEW p \in Processes
      PROVE  /\ procs'[p] \in ProcessType
             /\ procs'[p].state # "up"
             /\ procs'[p].asked = procs[p].asked /\ procs'[p].out = procs[p].out
  <2>1. procs[p] \in ProcessType /\ (procs[p].state = "up" => p = process)
    BY DEF IInv, TypeOK, NoOrphan
  <2>2. procs'[p] = IF p = process /\ procs[p].state = "up"
                      THEN [procs[p] EXCEPT !.state = "stopped"] ELSE procs[p]
    BY DEF StopProcess
  <2>3. QED
    BY <2>1, <2>2 DEF ProcessType
<1>6. procs' \in [Processes -> ProcessType]
  BY <1>5 DEF StopProcess
<1>7. QED
  BY <1>2, <1>3, <1>4, <1>5, <1>6

\* An event that leaves no process, nothing to wait for, no start and no call
\* that counts on them keeps the invariant.
LEMMA Emptied ==
  ASSUME IInv,
         process' = None, pending' = {},
         start' \in [state : {"none", "failed"}, id : Nat],
         nextId' = nextId, disposed' \in BOOLEAN, command' \in Nat, handled' \in 0 .. command',
         calls' \in [Callers -> CallType],
         \A c \in Callers : calls'[c].stage # "started",
         procs' \in [Processes -> ProcessType],
         \A p \in Processes : /\ procs'[p].state # "up"
                              /\ procs'[p].asked = procs[p].asked
                              /\ procs'[p].out = procs[p].out
  PROVE  IInv'
<1>1. TypeOK'
  BY DEF IInv, TypeOK
<1>2. PendingPresent' /\ StartPending' /\ StartPresent' /\ PresentReady'
  BY DEF PendingPresent, StartPending, StartPresent, PresentReady
<1>3. StartedPresent' /\ NoOrphan' /\ PresentIsCurrent' /\ AskedWhenReady'
  BY DEF StartedPresent, NoOrphan, PresentIsCurrent, AskedWhenReady
<1>4. SaidBefore'
  BY DEF IInv, SaidBefore, Said
<1>5. QED
  BY <1>1, <1>2, <1>3, <1>4 DEF IInv

-----------------------------------------------------------------------------
(* What ends a process *)

LEMMA StartStopped ==
  ASSUME IInv, StopProcess, start.state # "ok"
  PROVE  StartAfter({}, Rejected) \in [state : {"none", "failed"}, id : Nat]
<1>1. Rejected \in SUBSET Nat /\ (start.state = "running" => start.id \in Rejected)
  BY Stopping
<1>2. start \in StartType
  BY DEF IInv, TypeOK
<1>3. QED
  BY <1>1, <1>2 DEF StartAfter

LEMMA DisposeKeeps ==
  ASSUME IInv, Dispose
  PROVE  IInv'
<1>1. /\ process' = None /\ pending' = {}
      /\ Rejected \in SUBSET Nat
      /\ procs' \in [Processes -> ProcessType]
      /\ \A p \in Processes : /\ procs'[p].state # "up"
                              /\ procs'[p].asked = procs[p].asked
                              /\ procs'[p].out = procs[p].out
  BY Stopping DEF Dispose
<1>2. start' \in [state : {"none", "failed"}, id : Nat]
  BY StartStopped DEF Dispose, Quiet, Settle
<1>3. /\ calls' \in [Callers -> CallType]
      /\ \A c \in Callers : calls'[c].stage # "started"
  <2>1. \A c \in Callers : calls[c].stage # "started"
    BY DEF Dispose, Quiet, At
  <2>2. calls' = CallsAfter({}, Rejected) /\ TypeOK
    BY DEF Dispose, Settle, IInv
  <2>3. QED
    BY <1>1, <2>1, <2>2, Losing
<1>4. nextId' = nextId /\ disposed' \in BOOLEAN /\ command' \in Nat /\ handled' \in 0 .. command'
  BY DEF Dispose, IInv, TypeOK
<1>5. QED
  BY <1>1, <1>2, <1>3, <1>4, Emptied

LEMMA ChangeExecutableKeeps ==
  ASSUME IInv, ChangeExecutable
  PROVE  IInv'
<1>1. /\ process' = None /\ pending' = {}
      /\ Rejected \in SUBSET Nat
      /\ procs' \in [Processes -> ProcessType]
      /\ \A p \in Processes : /\ procs'[p].state # "up"
                              /\ procs'[p].asked = procs[p].asked
                              /\ procs'[p].out = procs[p].out
  BY Stopping DEF ChangeExecutable
<1>2. start' \in [state : {"none", "failed"}, id : Nat]
  BY StartStopped DEF ChangeExecutable, Quiet
<1>3. command' \in Nat /\ handled' \in 0 .. command' /\ nextId' = nextId /\ disposed' \in BOOLEAN
  BY DEF ChangeExecutable, IInv, TypeOK
<1>4. /\ calls' \in [Callers -> CallType]
      /\ \A c \in Callers : calls'[c].stage # "started"
  <2> DEFINE now == CallsAfter({}, Rejected)
  <2>1. /\ now \in [Callers -> CallType]
        /\ \A c \in Callers : now[c].stage # "started"
    <3>1. \A c \in Callers : calls[c].stage # "started"
      BY DEF ChangeExecutable, Quiet, At
    <3>2. TypeOK
      BY DEF IInv
    <3>3. QED
      BY <1>1, <3>1, <3>2, Losing
  <2>2. calls' \in {now, [now EXCEPT ![Usage] = Call(command + 1)]}
    BY DEF ChangeExecutable, RefreshUsage
  <2>3. Call(command + 1) \in CallType /\ Call(command + 1).stage # "started"
    BY DEF IInv, TypeOK, Call, CallType
  <2> HIDE DEF now
  <2>4. QED
    BY <2>1, <2>2, <2>3 DEF Callers
<1>5. QED
  BY <1>1, <1>2, <1>3, <1>4, Emptied

\* The executable changes, and nobody is told.
LEMMA ChangeSeveralKeeps ==
  ASSUME IInv, ChangeSeveral
  PROVE  IInv'
<1>1. /\ UNCHANGED <<process, start, pending, nextId, disposed, handled, procs, calls>>
      /\ command \in Nat /\ command' = command + 1 /\ handled \in 0 .. command
  BY DEF ChangeSeveral, controllerVars, IInv, TypeOK
<1>2. TypeOK'
  BY <1>1 DEF IInv, TypeOK
<1>3. /\ PendingPresent' /\ StartPending' /\ StartPresent' /\ PresentReady'
      /\ StartedPresent' /\ SaidBefore' /\ NoOrphan' /\ AskedWhenReady'
  BY <1>1 DEF IInv, PendingPresent, StartPending, StartPresent, PresentReady, StartedPresent,
              SaidBefore, Said, NoOrphan, AskedWhenReady
<1>4. PresentIsCurrent'
  <2>1. process # None => process \in Processes /\ procs[process].command \in Nat
    BY DEF IInv, TypeOK, ProcessType
  <2>2. QED
    BY <1>1, <2>1 DEF IInv, PresentIsCurrent
<1>5. QED
  BY <1>2, <1>3, <1>4 DEF IInv

LEMMA StartFailsKeeps ==
  ASSUME IInv, StartFails
  PROVE  IInv'
<1>1. /\ process' = None /\ pending' = {}
      /\ Rejected \in SUBSET Nat
      /\ procs' \in [Processes -> ProcessType]
      /\ \A p \in Processes : /\ procs'[p].state # "up"
                              /\ procs'[p].asked = procs[p].asked
                              /\ procs'[p].out = procs[p].out
  BY Stopping DEF StartFails
<1>2. start' \in [state : {"none", "failed"}, id : Nat]
  BY DEF StartFails, Started, NoStart
<1>3. command' \in Nat /\ handled' \in 0 .. command' /\ nextId' = nextId /\ disposed' \in BOOLEAN
  BY DEF StartFails, IInv, TypeOK
<1>4. ASSUME NEW c \in Callers
      PROVE  calls'[c] \in CallType /\ calls'[c].stage # "started"
  <2>1. TypeOK /\ calls[c] \in CallType
    BY DEF IInv, TypeOK
  <2>2. calls[c].stage # "started"
    BY DEF IInv, StartedPresent, StartFails
  <2>3. /\ CallsAfter({}, Rejected)[c] = CallAfter(calls[c], {}, Rejected)
        /\ CallsAfter({}, Rejected)[c] \in CallType
        /\ CallsAfter({}, Rejected)[c].stage # "started"
    BY <1>1, <2>1, <2>2, Losing
  <2>4. calls'[c] = IF calls[c].stage = "starting" THEN [calls[c] EXCEPT !.stage = "settled"]
                                                  ELSE CallAfter(calls[c], {}, Rejected)
    BY DEF StartFails, Started
  <2>5. QED
    BY <2>1, <2>3, <2>4 DEF CallType
<1>5. calls' \in [Callers -> CallType]
  BY <1>4 DEF StartFails, Started
<1>6. QED
  BY <1>1, <1>2, <1>3, <1>4, <1>5, Emptied

LEMMA EndedKeeps ==
  ASSUME IInv, NEW p \in Processes, Ended(p)
  PROVE  IInv'
<1>1. /\ procs[p].state = "gone" /\ procs[p] \in ProcessType
      /\ procs' = [procs EXCEPT ![p].state = "reaped"]
      /\ UNCHANGED <<nextId, disposed, command, handled>>
      /\ TypeOK
  BY DEF Ended, IInv, TypeOK
<1>2. /\ procs' \in [Processes -> ProcessType]
      /\ \A q \in Processes : /\ procs'[q].state = "up" => procs[q].state = "up"
                              /\ procs'[q].asked = procs[q].asked
                              /\ procs'[q].out = procs[q].out
                              /\ procs'[q].command = procs[q].command
                              /\ procs'[q].ready = procs[q].ready
  BY <1>1 DEF TypeOK, ProcessType
<1>3. CASE p = process
  <2>1. process' = None /\ pending' = {} /\ Settle({}, Ids(pending))
    BY <1>3 DEF Ended, IsPresent
  <2>2. Ids(pending) \in SUBSET Nat /\ (start.state = "running" => start.id \in Ids(pending))
    BY DEF IInv, TypeOK, Ids, StartPending
  <2>3. start' \in [state : {"none", "failed"}, id : Nat]
    <3>1. start.state \notin {"ok", "failed"}
      BY DEF Ended, Quiet
    <3>2. QED
      BY <1>1, <2>1, <2>2, <3>1 DEF Settle, StartAfter, TypeOK
  <2>4. /\ calls' \in [Callers -> CallType]
        /\ \A c \in Callers : calls'[c].stage # "started"
    <3>1. \A c \in Callers : calls[c].stage # "started"
      BY DEF Ended, Quiet, At
    <3>2. QED
      BY <1>1, <2>1, <2>2, <3>1, Losing DEF Settle
  <2>5. \A q \in Processes : procs'[q].state # "up"
    <3>1. \A q \in Processes : procs[q].state = "up" => q = p
      BY <1>3 DEF IInv, NoOrphan
    <3>2. QED
      BY <1>1, <1>2, <3>1
  <2>6. nextId' = nextId /\ disposed' \in BOOLEAN /\ command' \in Nat /\ handled' \in 0 .. command'
    BY <1>1 DEF TypeOK
  <2>7. QED
    BY <1>2, <2>1, <2>3, <2>4, <2>5, <2>6, Emptied
<1>4. CASE p # process
  <2>1. UNCHANGED <<process, pending, start, calls, nextId, disposed, command, handled>>
    BY <1>1, <1>4 DEF Ended, IsPresent
  <2>2. TypeOK' /\ PendingPresent' /\ StartPending' /\ StartPresent' /\ StartedPresent'
    BY <1>2, <2>1 DEF IInv, TypeOK, PendingPresent, StartPending, StartPresent, StartedPresent
  <2>3. PresentReady' /\ NoOrphan' /\ PresentIsCurrent'
    BY <1>2, <2>1 DEF IInv, TypeOK, PresentReady, NoOrphan, PresentIsCurrent
  <2>4. SaidBefore'
    <3>1. \A q \in Processes : Said(q)' = Said(q)
      BY <1>2 DEF Said
    <3>2. QED
      BY <2>1, <3>1 DEF IInv, SaidBefore
  <2>5. AskedWhenReady'
    BY <1>2, <2>1 DEF IInv, TypeOK, AskedWhenReady
  <2>6. QED
    BY <2>2, <2>3, <2>4, <2>5 DEF IInv
<1>5. QED
  BY <1>3, <1>4

-----------------------------------------------------------------------------
(* Starting *)

LEMMA SpawnKeeps ==
  ASSUME IInv, NEW c \in Callers, EnsureStarted(c),
         calls' = [calls EXCEPT ![c].stage = "starting"],
         ~disposed, start.state = "none", process = None, StartProcess, UNCHANGED disposed
  PROVE  IInv'
<1>1. /\ TypeOK /\ pending = {} /\ start.state = "none" /\ calls[c] \in CallType
      /\ command' = command /\ handled' = handled /\ command \in Nat /\ nextId \in Nat
      /\ handled \in 0 .. command
  BY NoneIsNoProcess DEF IInv, TypeOK, PendingPresent, EnsureStarted
<1>2. /\ calls' \in [Callers -> CallType]
      /\ \A d \in Callers : calls'[d].stage # "started"
  <2>1. \A d \in Callers : calls[d].stage # "started"
    BY DEF IInv, StartedPresent
  <2>2. QED
    BY <1>1, <2>1 DEF TypeOK, CallType
<1>3. \A q \in Processes : procs[q].state # "up"
  BY NoneIsNoProcess DEF IInv, NoOrphan
<1>4. CASE /\ start' = [state |-> "failed", id |-> 0]
           /\ UNCHANGED <<process, pending, nextId, buffer, procs>>
  <2>1. start' \in [state : {"none", "failed"}, id : Nat]
    BY <1>4
  <2>2. process' = None /\ pending' = {} /\ nextId' = nextId /\ disposed' \in BOOLEAN
    BY <1>1, <1>4 DEF TypeOK
  <2>3. /\ procs' \in [Processes -> ProcessType]
        /\ \A q \in Processes : /\ procs'[q].state # "up"
                                /\ procs'[q].asked = procs[q].asked
                                /\ procs'[q].out = procs[q].out
    BY <1>1, <1>3, <1>4 DEF TypeOK
  <2>4. command' \in Nat /\ handled' \in 0 .. command'
    BY <1>1
  <2>5. QED
    BY <1>2, <2>1, <2>2, <2>3, <2>4, Emptied
<1>5. ASSUME NEW p \in Processes, NEW state \in {"up", "gone"},
             process' = p,
             nextId' = nextId + 1,
             pending' = pending \cup {[id |-> nextId, to |-> p]},
             procs' = [procs EXCEPT ![p] =
               [NoProcess EXCEPT !.state = state, !.command = command,
                                 !.asked = IF state = "up" THEN {nextId} ELSE {}]],
             start' = [state |-> "running", id |-> nextId]
      PROVE  IInv'
  <2> DEFINE new == [NoProcess EXCEPT !.state = state, !.command = command,
                                      !.asked = IF state = "up" THEN {nextId} ELSE {}]
  <2>1. /\ new \in ProcessType
        /\ new.state = state /\ new.command = command /\ new.out = <<>>
        /\ new.asked \subseteq {nextId}
    <3>1. <<>> \in Seq(Nat)
      OBVIOUS
    <3>2. QED
      BY <1>1, <3>1 DEF NoProcess, ProcessType
  <2>2. /\ procs' \in [Processes -> ProcessType]
        /\ procs'[p] = new
        /\ \A q \in Processes : q # p => procs'[q] = procs[q]
    BY <1>1, <1>5, <2>1 DEF TypeOK
  <2> HIDE DEF new
  <2>3. pending' = {[id |-> nextId, to |-> p]} /\ process' # None
    BY <1>1, <1>5, NoneIsNoProcess
  <2>4. TypeOK'
    BY <1>1, <1>2, <1>5, <2>2, <2>3 DEF TypeOK
  <2>5. PendingPresent' /\ StartPending' /\ StartPresent' /\ PresentReady'
    BY <1>1, <1>5, <2>3 DEF PendingPresent, StartPending, StartPresent, PresentReady
  <2>6. StartedPresent' /\ NoOrphan' /\ PresentIsCurrent' /\ AskedWhenReady'
    BY <1>1, <1>2, <1>3, <1>5, <2>1, <2>2, <2>3
    DEF StartedPresent, NoOrphan, PresentIsCurrent, AskedWhenReady
  <2>7. SaidBefore'
    <3>1. ASSUME NEW q \in Processes, NEW id \in Said(q)'
          PROVE  id < nextId' /\ \A r \in pending' : r.id = id => r.to = q
      <4>1. CASE q = p
        <5>1. id = nextId
          BY <2>1, <2>2, <3>1, <4>1 DEF Said
        <5>2. QED
          BY <1>1, <1>5, <2>3, <4>1, <5>1
      <4>2. CASE q # p
        <5>1. id \in Said(q)
          BY <2>2, <3>1, <4>2 DEF Said
        <5>2. id < nextId /\ id \in Nat
          <6>1. procs[q].asked \in SUBSET Nat /\ procs[q].out \in Seq(Nat)
            BY <1>1 DEF TypeOK, ProcessType
          <6>2. \A i \in DOMAIN procs[q].out : procs[q].out[i] \in Nat
            BY <6>1
          <6>3. QED
            BY <5>1, <6>1, <6>2 DEF IInv, SaidBefore, Said
        <5>3. QED
          BY <1>1, <1>5, <2>3, <5>2
      <4>3. QED
        BY <4>1, <4>2
    <3>2. QED
      BY <3>1 DEF SaidBefore
  <2>8. QED
    BY <2>4, <2>5, <2>6, <2>7 DEF IInv
<1>6. QED
  BY <1>4, <1>5 DEF StartProcess

LEMMA EnsureStartedKeeps ==
  ASSUME IInv, NEW c \in Callers, EnsureStarted(c)
  PROVE  IInv'
<1>1. PICK stage \in {"settled", "starting", "started"} :
        /\ calls' = [calls EXCEPT ![c].stage = stage]
        /\ \/ disposed /\ stage = "settled" /\ UNCHANGED <<controllerVars, procs>>
           \/ /\ ~disposed /\ start.state # "none" /\ stage = "starting"
              /\ UNCHANGED <<controllerVars, procs>>
           \/ /\ ~disposed /\ start.state = "none" /\ process # None /\ stage = "started"
              /\ UNCHANGED <<controllerVars, procs>>
           \/ /\ ~disposed /\ start.state = "none" /\ process = None /\ stage = "starting"
              /\ StartProcess
              /\ UNCHANGED disposed
  BY DEF EnsureStarted
<1>2. CASE UNCHANGED <<controllerVars, procs>> /\ stage \in {"settled", "starting", "started"}
           /\ (stage = "started" => start.state = "none" /\ process # None)
  <2>1. calls' \in [Callers -> CallType]
        /\ \A d \in Callers : calls'[d].stage = "started" =>
             calls[d].stage = "started" \/ stage = "started"
    BY <1>1 DEF IInv, TypeOK, CallType
  <2>2. UNCHANGED <<process, start, pending, nextId, disposed, command, handled, procs>>
    BY <1>2 DEF controllerVars, EnsureStarted
  <2>3. TypeOK' /\ PendingPresent' /\ StartPending' /\ StartPresent' /\ PresentReady'
    BY <2>1, <2>2 DEF IInv, TypeOK, PendingPresent, StartPending, StartPresent, PresentReady
  <2>4. StartedPresent'
    BY <1>2, <2>1, <2>2 DEF IInv, StartedPresent
  <2>5. NoOrphan' /\ PresentIsCurrent' /\ AskedWhenReady' /\ SaidBefore'
    BY <2>2 DEF IInv, NoOrphan, PresentIsCurrent, AskedWhenReady, SaidBefore, Said
  <2>6. QED
    BY <2>3, <2>4, <2>5 DEF IInv
<1>3. CASE ~disposed /\ start.state = "none" /\ process = None /\ stage = "starting" /\ StartProcess
           /\ UNCHANGED disposed
  BY <1>1, <1>3, SpawnKeeps
<1>4. QED
  BY <1>1, <1>2, <1>3

LEMMA InitializedKeeps ==
  ASSUME IInv, Initialized
  PROVE  IInv'
<1>1. /\ start.state = "ok" /\ process # None /\ process \in Processes /\ TypeOK
      /\ start' = NoStart
      /\ UNCHANGED <<process, pending, nextId, disposed, command, handled>>
  BY DEF Initialized, Started, IInv, StartPresent, TypeOK
<1>2. /\ procs' \in [Processes -> ProcessType]
      /\ procs'[process].ready
      /\ \A q \in Processes : /\ procs'[q].state = procs[q].state
                              /\ procs'[q].asked = procs[q].asked
                              /\ procs'[q].out = procs[q].out
                              /\ procs'[q].command = procs[q].command
  <2>1. procs' = [procs EXCEPT ![process].ready = TRUE]
    BY DEF Initialized
  <2>2. procs \in [Processes -> ProcessType]
    BY <1>1 DEF TypeOK
  <2>3. [procs[process] EXCEPT !.ready = TRUE] \in ProcessType
    BY <1>1, <2>2 DEF ProcessType
  <2>4. /\ procs' \in [Processes -> ProcessType]
        /\ procs'[process] = [procs[process] EXCEPT !.ready = TRUE]
        /\ \A q \in Processes : q # process => procs'[q] = procs[q]
    BY <1>1, <2>1, <2>2, <2>3
  <2>5. procs[process] \in ProcessType
    BY <1>1, <2>2
  <2>6. /\ procs'[process].ready
        /\ procs'[process].state = procs[process].state
        /\ procs'[process].asked = procs[process].asked
        /\ procs'[process].out = procs[process].out
        /\ procs'[process].command = procs[process].command
    BY <2>4, <2>5 DEF ProcessType
  <2>7. QED
    BY <2>4, <2>6
<1>3. calls' \in [Callers -> CallType]
  <2>1. \A c \in Callers : calls[c] \in CallType
    BY <1>1 DEF TypeOK
  <2>2. \A c \in Callers : CallAfter(calls[c], {}, {}) \in CallType
    <3> DEFINE lost == {}
    <3>1. lost \in SUBSET Nat
      OBVIOUS
    <3> HIDE DEF lost
    <3>2. \A c \in Callers : CallAfter(calls[c], {}, lost) \in CallType
      BY <1>1, <3>1, Losing
    <3>3. QED
      BY <3>2 DEF lost
  <2>3. calls' = [c \in Callers |->
          IF calls[c].stage = "starting" THEN [calls[c] EXCEPT !.stage = "started"]
                                         ELSE CallAfter(calls[c], {}, {})]
    BY DEF Initialized, Started
  <2>4. \A c \in Callers : calls'[c] \in CallType
    BY <2>1, <2>2, <2>3 DEF CallType
  <2>5. QED
    BY <2>3, <2>4
<1>4. TypeOK' /\ PendingPresent' /\ StartPending' /\ StartPresent' /\ PresentReady'
  BY <1>1, <1>2, <1>3
  DEF IInv, TypeOK, PendingPresent, StartPending, StartPresent, PresentReady, NoStart
<1>5. StartedPresent' /\ NoOrphan' /\ PresentIsCurrent'
  BY <1>1, <1>2 DEF IInv, StartedPresent, NoOrphan, PresentIsCurrent, NoStart
<1>6. AskedWhenReady' /\ SaidBefore'
  BY <1>1, <1>2 DEF IInv, AskedWhenReady, PendingPresent, SaidBefore, Said
<1>7. QED
  BY <1>4, <1>5, <1>6 DEF IInv

-----------------------------------------------------------------------------
(* Requests and answers *)

LEMMA ProceedKeeps ==
  ASSUME IInv, NEW c \in Callers, Proceed(c)
  PROVE  IInv'
<1>1. /\ TypeOK /\ calls[c] \in CallType
      /\ start.state = "none" /\ process \in Processes /\ procs[process].ready
      /\ UNCHANGED <<process, start, disposed, command, handled>>
  BY DEF Proceed, IInv, TypeOK, StartedPresent, PresentReady
<1>2. /\ Count(c) \in 1 .. 2 /\ nextId \in Nat
      /\ Requests(c) = nextId .. nextId + Count(c) - 1
      /\ nextId' = nextId + Count(c)
  BY <1>1 DEF TypeOK, Proceed, Count, Requests
<1>3. /\ nextId' \in Nat /\ nextId < nextId'
      /\ \A i \in Requests(c) : i \in Nat /\ nextId <= i /\ i < nextId'
  BY <1>2
<1>4. procs[process] \in ProcessType
  BY <1>1 DEF TypeOK
<1>5. \A p \in Processes : \A id \in Said(p) : id \in Nat /\ id < nextId
  <2>1. ASSUME NEW p \in Processes, NEW id \in Said(p)
        PROVE  id \in Nat /\ id < nextId
    <3>1. procs[p].asked \in SUBSET Nat /\ procs[p].out \in Seq(Nat)
      BY <1>1 DEF TypeOK, ProcessType
    <3>2. \A i \in DOMAIN procs[p].out : procs[p].out[i] \in Nat
      BY <3>1
    <3>3. QED
      BY <2>1, <3>1, <3>2 DEF IInv, SaidBefore, Said
  <2>2. QED
    BY <2>1
<1>6. CASE /\ calls' = [calls EXCEPT ![c].stage = "waiting", ![c].waits = Requests(c)]
           /\ pending' = pending \cup {[id |-> i, to |-> process] : i \in Requests(c)}
           /\ procs' = Asked(process, Requests(c))
  <2>1. Requests(c) \in SUBSET Nat
    BY <1>3
  <2>2. /\ procs' \in [Processes -> ProcessType]
        /\ procs'[process].asked \subseteq procs[process].asked \cup Requests(c)
        /\ \A p \in Processes : /\ procs'[p].state = procs[p].state
                                /\ procs'[p].out = procs[p].out
                                /\ procs'[p].command = procs[p].command
                                /\ procs'[p].ready = procs[p].ready
                                /\ p # process => procs'[p] = procs[p]
    BY <1>1, <1>4, <1>6, <2>1 DEF Asked, TypeOK, ProcessType
  <2>3. /\ calls' \in [Callers -> CallType]
        /\ \A d \in Callers : calls'[d].stage = "started" => calls[d].stage = "started"
    BY <1>1, <1>6, <2>1 DEF TypeOK, CallType
  <2>4. TypeOK'
    BY <1>1, <1>3, <1>6, <2>1, <2>2, <2>3 DEF TypeOK
  <2>5. PendingPresent'
    <3>1. \A r \in pending : r.to = process /\ r.id < nextId /\ r.id \in Nat
      BY <1>1 DEF IInv, PendingPresent, TypeOK
    <3>2. QED
      BY <1>1, <1>2, <1>3, <1>6, <3>1 DEF PendingPresent
  <2>6. StartPending' /\ StartPresent' /\ PresentReady' /\ StartedPresent'
    BY <1>1, <2>2, <2>3, NoneIsNoProcess
    DEF IInv, StartPending, StartPresent, PresentReady, StartedPresent
  <2>7. NoOrphan' /\ PresentIsCurrent'
    BY <1>1, <2>2 DEF IInv, NoOrphan, PresentIsCurrent
  <2>8. AskedWhenReady'
    BY <1>1, <2>2, <2>5 DEF AskedWhenReady, PendingPresent
  <2>9. SaidBefore'
    <3>1. ASSUME NEW p \in Processes, NEW id \in Said(p)'
          PROVE  id < nextId' /\ \A r \in pending' : r.id = id => r.to = p
      <4>1. CASE p = process
        <5>1. id \in Said(p) \/ id \in Requests(c)
          BY <2>2, <3>1, <4>1 DEF Said
        <5>2. id < nextId'
          BY <1>2, <1>3, <1>5, <5>1
        <5>3. QED
          BY <1>1, <2>5, <4>1, <5>2 DEF PendingPresent
      <4>2. CASE p # process
        <5>1. id \in Said(p)
          BY <2>2, <3>1, <4>2 DEF Said
        <5>2. id \in Nat /\ id < nextId /\ \A r \in pending : r.id = id => r.to = p
          BY <1>5, <5>1 DEF IInv, SaidBefore
        <5>3. QED
          BY <1>2, <1>3, <1>6, <5>2
      <4>3. QED
        BY <4>1, <4>2
    <3>2. QED
      BY <3>1 DEF SaidBefore
  <2>10. QED
    BY <2>4, <2>5, <2>6, <2>7, <2>8, <2>9 DEF IInv
<1>7. CASE /\ calls' = [calls EXCEPT ![c].stage = "settled"]
           /\ UNCHANGED <<pending, procs>>
  <2>1. /\ calls' \in [Callers -> CallType]
        /\ \A d \in Callers : calls'[d].stage = "started" => calls[d].stage = "started"
    BY <1>1, <1>7 DEF TypeOK, CallType
  <2>2. TypeOK' /\ StartPending' /\ StartPresent' /\ PresentReady' /\ StartedPresent'
    BY <1>1, <1>3, <1>7, <2>1
    DEF IInv, TypeOK, StartPending, StartPresent, PresentReady, StartedPresent
  <2>3. NoOrphan' /\ PresentIsCurrent' /\ AskedWhenReady'
    BY <1>1, <1>7 DEF IInv, NoOrphan, PresentIsCurrent, AskedWhenReady
  <2>4. PendingPresent' /\ SaidBefore'
    <3>1. \A r \in pending : r.to = process /\ r.id < nextId /\ r.id \in Nat
      BY <1>1 DEF IInv, PendingPresent, TypeOK
    <3>2. PendingPresent'
      BY <1>1, <1>2, <1>3, <1>7, <3>1 DEF PendingPresent
    <3>3. \A p \in Processes : Said(p)' = Said(p)
      BY <1>7 DEF Said
    <3>4. SaidBefore'
      BY <1>2, <1>3, <1>5, <1>7, <3>3 DEF IInv, SaidBefore
    <3>5. QED
      BY <3>2, <3>4
  <2>5. QED
    BY <2>2, <2>3, <2>4 DEF IInv
<1>8. QED
  BY <1>6, <1>7 DEF Proceed

\* Requests that are answered or given up are settled, and no longer pending.
LEMMA SettledKeeps ==
  ASSUME IInv, Quiet,
         NEW got \in SUBSET Nat, NEW lost \in SUBSET Nat,
         got \cup lost \subseteq Ids(pending),
         pending' = {r \in pending : r.id \notin got \cup lost},
         Settle(got, lost),
         UNCHANGED <<process, nextId, disposed, command, handled>>,
         procs' \in [Processes -> ProcessType],
         \A p \in Processes : /\ procs'[p].state = procs[p].state
                              /\ procs'[p].command = procs[p].command
                              /\ procs'[p].ready = procs[p].ready
                              /\ Said(p)' \subseteq Said(p)
  PROVE  IInv'
<1>1. TypeOK
  BY DEF IInv
<1>2. /\ start' \in StartType
      /\ start'.id = start.id
      /\ start.state # "running" => start' = start
      /\ start.state = "running" =>
           start'.state = IF start.id \in lost THEN "failed"
                          ELSE IF start.id \in got THEN "ok" ELSE "running"
      /\ calls' \in [Callers -> CallType]
      /\ \A c \in Callers : calls'[c].stage = "started" => calls[c].stage = "started"
  <2> DEFINE st == StartAfter(got, lost)
             cs == CallsAfter(got, lost)
  <2>1. start' = st /\ calls' = cs
    BY DEF Settle
  <2>2. /\ st \in StartType
        /\ st.id = start.id
        /\ start.state # "running" => st = start
        /\ start.state = "running" =>
             st.state = IF start.id \in lost THEN "failed"
                        ELSE IF start.id \in got THEN "ok" ELSE "running"
    BY <1>1 DEF TypeOK, StartAfter
  <2>3. /\ cs \in [Callers -> CallType]
        /\ \A c \in Callers : cs[c].stage = "started" => calls[c].stage = "started"
    <3>1. /\ CallsAfter(got, lost) \in [Callers -> CallType]
          /\ \A c \in Callers :
               /\ CallsAfter(got, lost)[c] = CallAfter(calls[c], got, lost)
               /\ CallsAfter(got, lost)[c].stage = "started" => calls[c].stage = "started"
      BY <1>1, Settling, Zenon
    <3>2. QED
      BY <3>1
  <2> HIDE DEF st, cs
  <2>4. QED
    BY <2>1, <2>2, <2>3
<1>3. /\ start.state \in {"none", "running"}
      /\ \A c \in Callers : calls[c].stage # "started"
  BY <1>1 DEF Quiet, At, TypeOK
<1>4. \A r \in pending' : r \in pending /\ r.id \notin got /\ r.id \notin lost
  OBVIOUS
<1>5. TypeOK' /\ PendingPresent'
  BY <1>2, <1>4 DEF IInv, TypeOK, PendingPresent
<1>6. start.state = "running" => process # None /\ [id |-> start.id, to |-> process] \in pending
  BY NoneIsNoProcess DEF IInv, StartPending, TypeOK
<1>7. StartPending' /\ StartPresent' /\ PresentReady' /\ StartedPresent'
  BY <1>2, <1>3, <1>6
  DEF IInv, StartPending, StartPresent, PresentReady, StartedPresent, TypeOK
<1>8. NoOrphan' /\ PresentIsCurrent'
  BY DEF IInv, NoOrphan, PresentIsCurrent, TypeOK
<1>9. AskedWhenReady'
  <2>1. ASSUME NEW r \in pending'
        PROVE  procs'[r.to].ready \/ (start'.state = "running" /\ r.id = start'.id)
    <3>1. r.to \in Processes /\ r.id \notin got \cup lost
      BY <1>1, <1>4 DEF TypeOK
    <3>2. procs[r.to].ready \/ (start.state = "running" /\ r.id = start.id)
      BY <1>4 DEF IInv, AskedWhenReady
    <3>3. QED
      BY <1>2, <3>1, <3>2
  <2>2. QED
    BY <2>1 DEF AskedWhenReady
<1>10. SaidBefore'
  BY <1>4 DEF IInv, SaidBefore
<1>11. QED
  BY <1>5, <1>7, <1>8, <1>9, <1>10 DEF IInv

LEMMA TimedOutKeeps ==
  ASSUME IInv, NEW r \in pending, TimedOut(r)
  PROVE  IInv'
<1>1. TypeOK /\ Quiet /\ r.id \in Nat /\ Settle({}, {r.id})
  BY DEF IInv, TypeOK, TimedOut
<1>2. UNCHANGED <<process, nextId, disposed, command, handled, procs>>
  BY DEF TimedOut
<1>3. {r.id} \subseteq Ids(pending)
  BY DEF Ids
<1>4. pending' = {q \in pending : q.id \notin {r.id}}
  <2>1. \A q \in pending : q.id = r.id => q = r
    BY <1>1 DEF IInv, PendingPresent, TypeOK
  <2>2. pending' = pending \ {r}
    BY DEF TimedOut
  <2>3. QED
    BY <2>1, <2>2
<1>5. /\ procs' \in [Processes -> ProcessType]
      /\ \A p \in Processes : procs'[p] = procs[p] /\ Said(p)' \subseteq Said(p)
  BY <1>1, <1>2 DEF TypeOK, Said
<1> DEFINE got == {}
           lost == {r.id}
<1>6. /\ got \in SUBSET Nat /\ lost \in SUBSET Nat /\ got \cup lost \subseteq Ids(pending)
      /\ pending' = {q \in pending : q.id \notin got \cup lost}
      /\ Settle(got, lost)
  BY <1>1, <1>3, <1>4
<1> HIDE DEF got, lost
<1>7. QED
  BY <1>1, <1>2, <1>5, <1>6, SettledKeeps

LEMMA DataKeeps ==
  ASSUME IInv, NEW p \in Processes, Data(p)
  PROVE  IInv'
<1>1. /\ TypeOK /\ Quiet /\ procs[p] \in ProcessType
      /\ UNCHANGED <<process, nextId, disposed, command, handled>>
  BY DEF Data, IInv, TypeOK
<1> DEFINE answered(n) ==
             {procs[p].out[i] : i \in (IF Intact(p) THEN 1 ELSE 2) .. n} \cap Ids(pending)
<1>2. PICK n \in 0 .. Len(procs[p].out), part \in Parts :
        /\ pending' = {r \in pending : r.id \notin answered(n)}
        /\ \E errors \in SUBSET answered(n) : Settle(answered(n) \ errors, errors)
        /\ procs' = [procs EXCEPT ![p].out = SubSeq(@, n + 1, Len(@)), ![p].split = part]
  BY DEF Data
<1>3. PICK errors \in SUBSET answered(n) : Settle(answered(n) \ errors, errors)
  BY <1>2
<1>4. answered(n) \subseteq Ids(pending) /\ Ids(pending) \subseteq Nat
  BY <1>1 DEF Ids, TypeOK
<1> DEFINE got == answered(n) \ errors
<1>5. /\ got \in SUBSET Nat /\ errors \in SUBSET Nat /\ got \cup errors \subseteq Ids(pending)
      /\ pending' = {r \in pending : r.id \notin got \cup errors}
      /\ Settle(got, errors)
  <2>1. got \cup errors = answered(n) /\ errors \subseteq answered(n)
    OBVIOUS
  <2> HIDE DEF answered
  <2>2. QED
    BY <1>2, <1>3, <1>4, <2>1
<1>6. /\ procs' \in [Processes -> ProcessType]
      /\ \A q \in Processes : /\ procs'[q].state = procs[q].state
                              /\ procs'[q].command = procs[q].command
                              /\ procs'[q].ready = procs[q].ready
                              /\ Said(q)' \subseteq Said(q)
  <2> DEFINE out == procs[p].out
             rest == SubSeq(out, n + 1, Len(out))
  <2>1. out \in Seq(Nat) /\ n \in Nat /\ n <= Len(out) /\ Len(out) \in Nat
    BY <1>1, <1>2 DEF ProcessType
  <2>2. /\ rest \in Seq(Nat)
        /\ \A i \in DOMAIN rest : \E j \in DOMAIN out : rest[i] = out[j]
    <3>1. \A i \in n + 1 .. Len(out) : out[i] \in Nat
      BY <2>1
    <3>2. /\ rest \in Seq(Nat) /\ Len(rest) = Len(out) - n
          /\ \A i \in 1 .. Len(out) - n : rest[i] = out[n + i]
      BY <2>1, <3>1
    <3>3. DOMAIN rest = 1 .. Len(out) - n /\ DOMAIN out = 1 .. Len(out)
      BY <2>1, <3>2
    <3> HIDE DEF rest, out
    <3>4. ASSUME NEW i \in DOMAIN rest
          PROVE  n + i \in DOMAIN out /\ rest[i] = out[n + i]
      <4>1. i \in 1 .. Len(out) - n
        BY <3>3
      <4>2. n + i \in 1 .. Len(out)
        BY <2>1, <4>1
      <4>3. QED
        BY <3>2, <3>3, <4>1, <4>2
    <3>5. QED
      BY <3>2, <3>4
  <2>3. procs' = [procs EXCEPT ![p] = [procs[p] EXCEPT !.out = rest, !.split = part]]
    BY <1>2
  <2> HIDE DEF rest
  <2>4. part \in BOOLEAN
    BY <1>2, ControllerAssumption
  <2>5. /\ procs' \in [Processes -> ProcessType]
        /\ \A q \in Processes : /\ procs'[q].state = procs[q].state
                                /\ procs'[q].command = procs[q].command
                                /\ procs'[q].ready = procs[q].ready
                                /\ procs'[q].asked = procs[q].asked
                                /\ q # p => procs'[q].out = procs[q].out
        /\ procs'[p].out = rest
    BY <1>1, <2>2, <2>3, <2>4 DEF TypeOK, ProcessType
  <2>6. ASSUME NEW q \in Processes
        PROVE  Said(q)' \subseteq Said(q)
    <3>1. CASE q = p
      BY <2>2, <2>5, <3>1 DEF Said
    <3>2. CASE q # p
      BY <2>5, <3>2 DEF Said
    <3>3. QED
      BY <3>1, <3>2
  <2>7. QED
    BY <2>5, <2>6
<1> HIDE DEF got
<1>7. QED
  BY <1>1, <1>5, <1>6, SettledKeeps

LEMMA AnswerKeeps ==
  ASSUME IInv, NEW p \in Processes, Answer(p)
  PROVE  IInv'
<1>1. /\ TypeOK /\ procs[p] \in ProcessType
      /\ UNCHANGED <<process, start, pending, nextId, disposed, calls, command, handled>>
  BY DEF Answer, IInv, TypeOK, controllerVars, callerVars
<1>2. PICK id \in procs[p].asked :
        procs' = [procs EXCEPT ![p].asked = @ \ {id}, ![p].out = Append(@, id)]
  BY DEF Answer
<1> DEFINE out == procs[p].out
           longer == Append(out, id)
<1>3. /\ longer \in Seq(Nat)
      /\ \A i \in DOMAIN longer : longer[i] = id \/ \E j \in DOMAIN out : longer[i] = out[j]
  <2>1. out \in Seq(Nat) /\ id \in Nat
    BY <1>1, <1>2 DEF ProcessType
  <2>2. /\ longer \in Seq(Nat) /\ Len(longer) = Len(out) + 1
        /\ \A i \in 1 .. Len(out) : longer[i] = out[i]
        /\ longer[Len(out) + 1] = id
    BY <2>1
  <2>3. Len(out) \in Nat /\ DOMAIN longer = 1 .. Len(out) + 1 /\ DOMAIN out = 1 .. Len(out)
    BY <2>1, <2>2
  <2> HIDE DEF longer, out
  <2>4. ASSUME NEW i \in DOMAIN longer
        PROVE  i = Len(out) + 1 \/ i \in DOMAIN out
    BY <2>3
  <2>5. QED
    BY <2>2, <2>3, <2>4
<1> HIDE DEF longer
<1>4. procs' = [procs EXCEPT ![p] = [procs[p] EXCEPT !.asked = @ \ {id}, !.out = longer]]
  BY <1>2 DEF longer
<1>5. /\ procs' \in [Processes -> ProcessType]
      /\ \A q \in Processes : /\ procs'[q].state = procs[q].state
                              /\ procs'[q].command = procs[q].command
                              /\ procs'[q].ready = procs[q].ready
                              /\ q # p => procs'[q] = procs[q]
      /\ procs'[p].out = longer /\ procs'[p].asked \subseteq procs[p].asked
  BY <1>1, <1>3, <1>4 DEF TypeOK, ProcessType
<1>6. ASSUME NEW q \in Processes
      PROVE  Said(q)' \subseteq Said(q)
  <2>1. CASE q = p
    BY <1>2, <1>3, <1>5, <2>1 DEF Said
  <2>2. CASE q # p
    BY <1>5, <2>2 DEF Said
  <2>3. QED
    BY <2>1, <2>2
<1>7. TypeOK' /\ PendingPresent' /\ StartPending' /\ StartPresent' /\ StartedPresent'
  BY <1>1, <1>5 DEF IInv, TypeOK, PendingPresent, StartPending, StartPresent, StartedPresent
<1>8. PresentReady' /\ NoOrphan' /\ PresentIsCurrent' /\ AskedWhenReady'
  BY <1>1, <1>5 DEF IInv, TypeOK, PresentReady, NoOrphan, PresentIsCurrent, AskedWhenReady
<1>9. SaidBefore'
  BY <1>1, <1>6 DEF IInv, SaidBefore
<1>10. QED
  BY <1>7, <1>8, <1>9 DEF IInv

LEMMA ExitKeeps ==
  ASSUME IInv, NEW p \in Processes, Exit(p)
  PROVE  IInv'
<1>1. /\ TypeOK /\ procs[p] \in ProcessType
      /\ procs' = [procs EXCEPT ![p].state = "gone", ![p].asked = {}]
      /\ UNCHANGED <<process, start, pending, nextId, disposed, calls, command, handled>>
  BY DEF Exit, IInv, TypeOK, controllerVars, callerVars
<1>2. /\ procs' \in [Processes -> ProcessType]
      /\ \A q \in Processes : /\ procs'[q].state = "up" => procs[q].state = "up"
                              /\ procs'[q].command = procs[q].command
                              /\ procs'[q].ready = procs[q].ready
                              /\ procs'[q].out = procs[q].out
                              /\ procs'[q].asked \subseteq procs[q].asked
  BY <1>1 DEF TypeOK, ProcessType
<1>3. TypeOK' /\ PendingPresent' /\ StartPending' /\ StartPresent' /\ StartedPresent'
  BY <1>1, <1>2 DEF IInv, TypeOK, PendingPresent, StartPending, StartPresent, StartedPresent
<1>4. PresentReady' /\ NoOrphan' /\ PresentIsCurrent' /\ AskedWhenReady'
  BY <1>1, <1>2 DEF IInv, TypeOK, PresentReady, NoOrphan, PresentIsCurrent, AskedWhenReady
<1>5. SaidBefore'
  BY <1>1, <1>2 DEF IInv, SaidBefore, Said
<1>6. QED
  BY <1>3, <1>4, <1>5 DEF IInv

-----------------------------------------------------------------------------
(* The callers, and the theorems *)

\* A step of a caller that sends nothing.
LEMMA CallersKeep ==
  ASSUME IInv,
         UNCHANGED <<process, start, pending, nextId, disposed, command, handled, procs>>,
         calls' \in [Callers -> CallType],
         \A c \in Callers : calls'[c].stage = "started" => calls[c].stage = "started"
  PROVE  IInv'
<1>1. TypeOK' /\ PendingPresent' /\ StartPending' /\ StartPresent' /\ StartedPresent'
  BY DEF IInv, TypeOK, PendingPresent, StartPending, StartPresent, StartedPresent
<1>2. PresentReady' /\ NoOrphan' /\ PresentIsCurrent' /\ AskedWhenReady' /\ SaidBefore'
  BY DEF IInv, PresentReady, NoOrphan, PresentIsCurrent, AskedWhenReady, SaidBefore, Said
<1>3. QED
  BY <1>1, <1>2 DEF IInv

LEMMA CallsTyped ==
  ASSUME TypeOK, NEW c \in Callers, NEW n \in Nat,
         calls' \in {calls, [calls EXCEPT ![c] = Call(n)], [calls EXCEPT ![c] = NoCall]}
  PROVE  /\ calls' \in [Callers -> CallType]
         /\ \A d \in Callers : calls'[d].stage = "started" => calls[d].stage = "started"
<1>1. /\ Call(n) \in CallType /\ NoCall \in CallType
      /\ Call(n).stage # "started" /\ NoCall.stage # "started"
  BY DEF Call, NoCall, CallType
<1>2. QED
  BY <1>1 DEF TypeOK

LEMMA RequestersKeep ==
  ASSUME IInv, (\E c \in Lists : RefreshList(c)) \/ UsageDue \/ (\E c \in Callers : Finish(c))
  PROVE  IInv'
<1>1. TypeOK /\ Usage \in Callers /\ Lists \subseteq Callers /\ command \in Nat
  BY DEF IInv, TypeOK, Callers
<1>2. /\ UNCHANGED <<process, start, pending, nextId, disposed, command, handled, procs>>
      /\ \E c \in Callers, n \in Nat :
           calls' \in {calls, [calls EXCEPT ![c] = Call(n)], [calls EXCEPT ![c] = NoCall]}
  <2>1. CASE \E c \in Lists : RefreshList(c)
    BY <1>1, <2>1 DEF RefreshList, controllerVars
  <2>2. CASE UsageDue
    BY <1>1, <2>2 DEF UsageDue, RefreshUsage, controllerVars
  <2>3. CASE \E c \in Callers : Finish(c)
    BY <1>1, <2>3 DEF Finish, controllerVars
  <2>4. QED
    BY <2>1, <2>2, <2>3
<1>3. /\ calls' \in [Callers -> CallType]
      /\ \A d \in Callers : calls'[d].stage = "started" => calls[d].stage = "started"
  BY <1>1, <1>2, CallsTyped
<1>4. QED
  BY <1>2, <1>3, CallersKeep

LEMMA Initially == Init => IInv
<1>1. SUFFICES ASSUME Init PROVE IInv
  OBVIOUS
<1>2. NoProcess \in ProcessType /\ NoProcess.asked = {} /\ NoProcess.out = <<>>
      /\ NoProcess.state = "none"
  <2>1. <<>> \in Seq(Nat)
    OBVIOUS
  <2>2. QED
    BY <2>1 DEF NoProcess, ProcessType
<1>3. \A p \in Processes : procs[p] = NoProcess
  BY <1>1 DEF Init
<1>4. calls \in [Callers -> CallType] /\ \A c \in Callers : calls[c].stage # "started"
  <2>1. /\ Call(0) \in CallType /\ NoCall \in CallType
        /\ Call(0).stage # "started" /\ NoCall.stage # "started"
    BY DEF Call, NoCall, CallType
  <2>2. QED
    BY <1>1, <2>1 DEF Init
<1>5. TypeOK
  <2>1. command = 0 /\ handled = 0 /\ handled \in 0 .. command
    BY <1>1 DEF Init
  <2>2. procs \in [Processes -> ProcessType] /\ start \in StartType
    BY <1>1, <1>2 DEF Init, NoStart
  <2>3. /\ process \in Processes \cup {None} /\ pending \subseteq [id : Nat, to : Processes]
        /\ nextId \in Nat /\ disposed \in BOOLEAN /\ command \in Nat
    <3>1. process = None /\ pending = {} /\ nextId = 1 /\ disposed = FALSE
      BY <1>1 DEF Init
    <3>2. QED
      BY <2>1, <3>1
  <2>4. QED
    BY <1>4, <2>1, <2>2, <2>3 DEF TypeOK
<1>6. PendingPresent /\ StartPending /\ StartPresent /\ PresentReady /\ StartedPresent
  BY <1>1, <1>4
  DEF Init, NoStart, PendingPresent, StartPending, StartPresent, PresentReady, StartedPresent
<1>7. SaidBefore
  BY <1>2, <1>3 DEF SaidBefore, Said
<1>8. NoOrphan /\ PresentIsCurrent /\ AskedWhenReady
  BY <1>1, <1>2, <1>3 DEF Init, NoOrphan, PresentIsCurrent, AskedWhenReady
<1>9. QED
  BY <1>5, <1>6, <1>7, <1>8 DEF IInv

LEMMA Preservation == IInv /\ [Next]_vars => IInv'
<1>1. SUFFICES ASSUME IInv, [Next]_vars PROVE IInv'
  OBVIOUS
<1>2. CASE Continuation
  BY <1>1, <1>2, EnsureStartedKeeps, ProceedKeeps, RequestersKeep, InitializedKeeps,
     StartFailsKeeps
  DEF Continuation
<1>3. CASE Timeout
  BY <1>1, <1>3, TimedOutKeeps DEF Timeout
<1>4. CASE Output
  BY <1>1, <1>4, DataKeeps, EndedKeeps DEF Output
<1>5. CASE Environment
  BY <1>1, <1>5, AnswerKeeps, ExitKeeps, RequestersKeep, ChangeExecutableKeeps,
     ChangeSeveralKeeps, DisposeKeeps
  DEF Environment
<1>6. CASE UNCHANGED vars
  <2>1. UNCHANGED <<process, start, pending, nextId, disposed, command, handled, procs, calls>>
    BY <1>6 DEF vars, controllerVars, callerVars
  <2>2. calls' \in [Callers -> CallType]
    BY <1>1, <2>1 DEF IInv, TypeOK
  <2>3. QED
    BY <1>1, <2>1, <2>2, CallersKeep
<1>7. QED
  BY <1>1, <1>2, <1>3, <1>4, <1>5, <1>6 DEF Next

\* The invariant holds in every state the controller reaches.
THEOREM Invariance == Spec => []IInv
<1>1. Init => IInv
  BY Initially
<1>2. IInv /\ [Next]_vars => IInv'
  BY Preservation
<1>3. QED
  BY <1>1, <1>2, PTL DEF Spec

\* The variables have their types.
THEOREM TypeCorrect == Spec => []TypeOK
<1>1. IInv => TypeOK
  BY DEF IInv
<1>2. QED
  BY <1>1, Invariance, PTL

\* A running process that was not told to stop is the present one of a
\* controller that is not disposed, whatever came between a start's steps.
THEOREM NothingOrphaned == Spec => []NoOrphan
<1>1. IInv => NoOrphan
  BY DEF IInv
<1>2. QED
  BY <1>1, Invariance, PTL

\* No answer of one process is taken for another one's.
THEOREM OwnAnswers == Spec => []AnswersAreOwn
<1>1. IInv => AnswersAreOwn
  BY DEF IInv, SaidBefore, Said, AnswersAreOwn
<1>2. QED
  BY <1>1, Invariance, PTL

\* The present process runs an executable that was configured no earlier than the
\* last change that the host acted on: the configured one, unless a change came in
\* one event with another setting.
THEOREM CurrentExecutable == Spec => []PresentIsCurrent
<1>1. IInv => PresentIsCurrent
  BY DEF IInv
<1>2. QED
  BY <1>1, Invariance, PTL

\* What is asked of a process besides initialize is asked after the handshake.
THEOREM HandshakeFirst == Spec => []AskedWhenReady
<1>1. IInv => AskedWhenReady
  BY DEF IInv
<1>2. QED
  BY <1>1, Invariance, PTL

\* Continuations find the process they were promised.
THEOREM ProcessAtContinuations == Spec => []ContinuationsHaveProcess
<1>1. IInv => ContinuationsHaveProcess
  BY DEF IInv, StartPresent, StartedPresent, ContinuationsHaveProcess, At
<1>2. QED
  BY <1>1, Invariance, PTL
=============================================================================

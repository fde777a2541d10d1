---------------------- MODULE SessionSupervisor_proofs ----------------------
(***************************************************************************)
(* Proofs about SessionSupervisor, for any number of attempts, frames and  *)
(* restarts.  SupervisorInv is the inductive invariant: the types; what    *)
(* relates a session object to its process (SessionsSound); that an        *)
(* attempt not yet made has left no trace; that a running process has a    *)
(* row that says so and at most one row is live; and that nothing is being *)
(* started beside a process that survived a restart.                       *)
(* StartInv adds what a start that fails waits for, and what becomes of a  *)
(* goal that is queued again.  RegisteredInv says that a session that is   *)
(* registered is live and has not exited, and is told to end only by a     *)
(* call that settles the goal: so only an exit can leave a goal running.   *)
(***************************************************************************)
EXTENDS SessionSupervisor, SequenceTheorems, TLAPS

Waits == {"cancel", "rollback", "init", "protocol"}
Dead == {"clean", "failed"}

\* What a session object l says of its process p: an exit that was emitted,
\* queued or handled has happened; and who waits for the exit after a protocol
\* error holds the frame queue at the line that was rejected.
Sound(l, p) ==
  /\ l.busy => l.queue # <<>>
  /\ "protocol" \in l.waits => l.busy /\ l.queue[1] = "bad"
  /\ \A i \in 1 .. Len(l.queue) : l.queue[i] = "exit" => l.gone
  /\ l.gone \/ l.state = "exited" => p \in Dead

SessionsSound == \A s \in Sessions : Sound(live[s], process[s])

\* An attempt that has not spawned its process has left no trace.
Untouched ==
  \A s \in Sessions :
    start[s] \in {"unused", "loading", "making"} =>
      /\ live[s] = NoSession
      /\ process[s] = "none"
      /\ s # byAgent
      /\ s \notin byId

RowOutlivesProcess ==
  \A s \in Sessions : process[s] = "running" => row[s] \in {"live", "disconnected"}

OneLiveRow ==
  \A s, t \in Sessions : row[s] = "live" /\ row[t] = "live" => s = t

NothingBesideSurvivor ==
  Unresolved => \A s \in Sessions : start[s] \notin Starting

SupervisorInv ==
  /\ SupervisorTypeOK
  /\ SessionsSound
  /\ Untouched
  /\ RowOutlivesProcess
  /\ OneLiveRow
  /\ NothingBesideSurvivor
  /\ OneProcessPerAgent

-----------------------------------------------------------------------------
(* Changes of one session object *)

LEMMA NoneIsNoSession == None \notin Sessions
BY DEF None, Sessions

LEMMA NoSessionSound ==
  /\ NoSession \in LiveSession
  /\ \A p : Sound(NoSession, p)
BY EmptySeq DEF NoSession, LiveSession, LiveStates, Sound

\* One session object changes, and its process does not.
LEMMA OneChanges ==
  ASSUME SupervisorTypeOK, SessionsSound, NEW s \in Sessions,
         live' \in [Sessions -> LiveSession],
         \A t \in Sessions \ {s} : live'[t] = live[t],
         Sound(live'[s], process[s]),
         process' = process
  PROVE  SessionsSound'
BY DEF SessionsSound

\* A frame, or the exit of a dead process, is put behind the others.
LEMMA AppendedSound ==
  ASSUME SupervisorTypeOK, SessionsSound, NEW s \in Sessions,
         NEW f \in Frames \cup {"exit"},
         live' = [live EXCEPT ![s].queue = Append(@, f),
                              ![s].gone = @ \/ f = "exit"],
         f = "exit" => process[s] \in Dead,
         process' = process
  PROVE  live' \in [Sessions -> LiveSession] /\ SessionsSound'
<1> DEFINE E == Frames \cup {"exit"}
           q == live[s].queue
           r == Append(q, f)
<1>1. live[s] \in LiveSession /\ Sound(live[s], process[s])
  BY DEF SupervisorTypeOK, SessionsSound
<1>2. q \in Seq(E) /\ Len(q) \in Nat
  BY <1>1, LenProperties DEF LiveSession
<1>3. /\ r \in Seq(E)
      /\ r # <<>>
      /\ Len(r) = Len(q) + 1
      /\ \A i \in 1 .. Len(q) : r[i] = q[i]
      /\ r[Len(q) + 1] = f
  <2>1. f \in E
    BY DEF E
  <2> HIDE DEF E, q
  <2> QED BY <1>2, <2>1, AppendProperties
<1>4. live' \in [Sessions -> LiveSession]
  BY <1>1, <1>3 DEF SupervisorTypeOK, LiveSession
<1>5. /\ live'[s].queue = r
      /\ live'[s].gone = (live[s].gone \/ f = "exit")
      /\ live'[s].busy = live[s].busy
      /\ live'[s].waits = live[s].waits
      /\ live'[s].state = live[s].state
      /\ \A t \in Sessions \ {s} : live'[t] = live[t]
  BY <1>1 DEF SupervisorTypeOK, LiveSession
<1>6. "protocol" \in live[s].waits => live[s].busy /\ r[1] = "bad"
  <2>1. SUFFICES ASSUME "protocol" \in live[s].waits
                 PROVE  live[s].busy /\ r[1] = "bad"
    OBVIOUS
  <2>2. live[s].busy /\ q # <<>> /\ q[1] = "bad"
    BY <1>1, <2>1 DEF Sound
  <2>3. 1 \in 1 .. Len(q)
    BY <1>2, <2>2, EmptySeq
  <2>4. QED
    BY <1>3, <2>2, <2>3
<1>7. \A i \in 1 .. Len(r) : r[i] = "exit" => live[s].gone \/ f = "exit"
  <2>1. SUFFICES ASSUME NEW i \in 1 .. Len(q) + 1, r[i] = "exit"
                 PROVE  live[s].gone \/ f = "exit"
    BY <1>3
  <2>2. CASE i = Len(q) + 1
    BY <1>3, <2>1, <2>2
  <2>3. CASE i # Len(q) + 1
    <3>1. i \in 1 .. Len(q)
      BY <1>2, <2>3
    <3>2. QED
      BY <1>1, <1>3, <2>1, <3>1 DEF Sound
  <2>4. QED
    BY <2>2, <2>3
<1>8. Sound(live'[s], process[s])
  BY <1>1, <1>3, <1>5, <1>6, <1>7 DEF Sound
<1>9. QED
  BY <1>4, <1>5, <1>8, OneChanges

LEMMA QueueTail ==
  ASSUME NEW q \in Seq(Frames \cup {"exit"}), q # <<>>
  PROVE  /\ Tail(q) \in Seq(Frames \cup {"exit"})
         /\ Len(q) \in Nat
         /\ Len(Tail(q)) = Len(q) - 1
         /\ \A i \in 1 .. Len(Tail(q)) : Tail(q)[i] = q[i + 1]
         /\ Head(q) = q[1]
         /\ Head(q) \in Frames \cup {"exit"}
         /\ 1 \in 1 .. Len(q)
BY HeadTailProperties, LenProperties, EmptySeq

\* The head of the queue has been dealt with, and nobody waits at it.
LEMMA PoppedSound ==
  ASSUME SupervisorTypeOK, SessionsSound, NEW s \in Sessions,
         live[s].queue # <<>>,
         live' \in [Sessions -> LiveSession],
         live'[s].queue = Tail(live[s].queue),
         live'[s].gone = live[s].gone,
         ~live'[s].busy,
         "protocol" \notin live'[s].waits,
         live'[s].state = "exited" => live[s].state = "exited" \/ live[s].gone,
         \A t \in Sessions \ {s} : live'[t] = live[t],
         process' = process
  PROVE  SessionsSound'
<1> DEFINE q == live[s].queue
<1>1. live[s] \in LiveSession /\ Sound(live[s], process[s])
  BY DEF SupervisorTypeOK, SessionsSound
<1>2. /\ Len(q) \in Nat
      /\ Len(Tail(q)) = Len(q) - 1
      /\ \A i \in 1 .. Len(Tail(q)) : Tail(q)[i] = q[i + 1]
  BY <1>1, QueueTail DEF LiveSession
<1>3. \A i \in 1 .. Len(Tail(q)) : Tail(q)[i] = "exit" => live[s].gone
  <2>1. SUFFICES ASSUME NEW i \in 1 .. Len(Tail(q)), Tail(q)[i] = "exit"
                 PROVE  live[s].gone
    OBVIOUS
  <2>2. i + 1 \in 1 .. Len(q) /\ q[i + 1] = "exit"
    BY <1>2, <2>1
  <2>3. QED
    BY <1>1, <2>2 DEF Sound
<1>4. Sound(live'[s], process[s])
  BY <1>1, <1>3 DEF Sound
<1>5. QED
  BY <1>4, OneChanges

LEMMA StopForSound ==
  ASSUME SupervisorTypeOK, SessionsSound, NEW s \in Sessions,
         NEW w \in {"cancel", "rollback"}, StopFor(s, w), process' = process
  PROVE  live' \in [Sessions -> LiveSession] /\ SessionsSound'
<1>1. live[s] \in LiveSession /\ Sound(live[s], process[s])
  BY DEF SupervisorTypeOK, SessionsSound
<1>2. live' \in [Sessions -> LiveSession]
  BY <1>1 DEF StopFor, SupervisorTypeOK, LiveSession, LiveStates
<1>3. /\ live'[s].state = "stopping"
      /\ live'[s].queue = live[s].queue
      /\ live'[s].busy = live[s].busy
      /\ live'[s].gone = live[s].gone
      /\ live'[s].waits = live[s].waits \cup {w}
      /\ \A t \in Sessions \ {s} : live'[t] = live[t]
  BY <1>1 DEF StopFor, SupervisorTypeOK, LiveSession
<1>4. Sound(live'[s], process[s])
  BY <1>1, <1>3 DEF Sound
<1>5. QED
  BY <1>2, <1>3, <1>4, OneChanges

LEMMA TerminateForSound ==
  ASSUME SupervisorTypeOK, SessionsSound, NEW s \in Sessions,
         NEW w \in {"init", "protocol"}, TerminateFor(s, w), process' = process,
         w = "protocol" => live[s].queue # <<>> /\ live[s].queue[1] = "bad"
  PROVE  live' \in [Sessions -> LiveSession] /\ SessionsSound'
<1>1. live[s] \in LiveSession /\ Sound(live[s], process[s])
  BY DEF SupervisorTypeOK, SessionsSound
<1>2. live' \in [Sessions -> LiveSession]
  BY <1>1 DEF TerminateFor, SupervisorTypeOK, LiveSession, LiveStates
<1>3. /\ live'[s].state = "stopping"
      /\ live'[s].queue = live[s].queue
      /\ live'[s].busy = (live[s].busy \/ w = "protocol")
      /\ live'[s].gone = live[s].gone
      /\ live'[s].waits = live[s].waits \cup {w}
      /\ \A t \in Sessions \ {s} : live'[t] = live[t]
  BY <1>1 DEF TerminateFor, SupervisorTypeOK, LiveSession
<1>4. Sound(live'[s], process[s])
  BY <1>1, <1>3 DEF Sound
<1>5. QED
  BY <1>2, <1>3, <1>4, OneChanges

LEMMA GoalsStayTyped ==
  ASSUME NEW g \in GoalStates
  PROVE  /\ FailQueued(g) \in GoalStates
         /\ \A waits : Outcome(waits, g) \in GoalStates
         /\ goal = g => \A s : GoalAfterExit(s) \in GoalStates
BY DEF GoalStates, FailQueued, Outcome, GoalAfterExit

-----------------------------------------------------------------------------
(* What a step has to leave as it is *)

Unmade == {"unused", "loading", "making"}

LEMMA Touched ==
  ASSUME SupervisorInv, NEW s \in Sessions,
         \/ live[s] # NoSession
         \/ process[s] # "none"
         \/ s = byAgent
         \/ s \in byId
  PROVE  start[s] \notin Unmade
BY DEF SupervisorInv, Untouched, Unmade

LEMMA UntouchedKept ==
  ASSUME SupervisorInv, NEW s \in Sessions,
         \A t \in Sessions \ {s} :
           live'[t] = live[t] /\ process'[t] = process[t] /\ start'[t] = start[t],
         byAgent' \in {byAgent, None}, byId' \subseteq byId,
         start'[s] \in Unmade =>
           start[s] \in Unmade /\ live'[s] = live[s] /\ process'[s] = process[s]
  PROVE  Untouched'
BY NoneIsNoSession DEF SupervisorInv, Untouched, Unmade

\* Rows end only after their processes, come to life only alone, and nothing
\* begins to start beside a survivor.
LEMMA RowsKept ==
  ASSUME SupervisorInv, NEW s \in Sessions,
         \A t \in Sessions : process'[t] = "running" => process[t] = "running",
         \A t \in Sessions \ {s} : row'[t] = row[t],
         \/ row'[s] = row[s]
         \/ row'[s] = "live" /\ ~OtherLive(s)
         \/ row'[s] \notin {"live", "disconnected"} /\ process'[s] # "running",
         \A t \in Sessions :
           start'[t] \in Starting => start[t] \in Starting \/ ~Unresolved
  PROVE  /\ RowOutlivesProcess'
         /\ OneLiveRow'
         /\ NothingBesideSurvivor'
         /\ OneProcessPerAgent'
<1>1. RowOutlivesProcess'
  BY DEF SupervisorInv, RowOutlivesProcess
<1>2. OneLiveRow'
  BY DEF SupervisorInv, OneLiveRow, OtherLive
<1>3. Unresolved' => Unresolved
  BY DEF Unresolved
<1>4. NothingBesideSurvivor'
  BY <1>3 DEF SupervisorInv, NothingBesideSurvivor
<1>5. OneProcessPerAgent'
  BY DEF SupervisorInv, OneProcessPerAgent
<1>6. QED
  BY <1>1, <1>2, <1>4, <1>5

\* The process of a session whose exit was emitted or handled is dead.
LEMMA GoneIsDead ==
  ASSUME SupervisorInv, NEW s \in Sessions,
         \/ live[s].gone
         \/ live[s].state = "exited"
         \/ live[s].queue # <<>> /\ Head(live[s].queue) = "exit"
  PROVE  process[s] # "running"
<1>1. live[s] \in LiveSession /\ Sound(live[s], process[s])
  BY DEF SupervisorInv, SupervisorTypeOK, SessionsSound
<1>2. CASE live[s].gone \/ live[s].state = "exited"
  BY <1>1, <1>2 DEF Sound, Dead
<1>3. CASE live[s].queue # <<>> /\ Head(live[s].queue) = "exit"
  <2>1. live[s].queue[1] = "exit" /\ 1 \in 1 .. Len(live[s].queue)
    BY <1>1, <1>3, QueueTail DEF LiveSession
  <2>2. QED
    BY <1>1, <2>1 DEF Sound, Dead
<1>4. QED
  BY <1>2, <1>3

-----------------------------------------------------------------------------
(* The steps of a start *)

LEMMA OpeningKeepsInv ==
  ASSUME SupervisorInv, NEW s \in Sessions,
         StartBegins(s) \/ Retry(s) \/ Loaded(s) \/ StartFails(s) \/ Refused(s)
  PROVE  SupervisorInv'
<1> USE DEF SupervisorInv
<1>1. /\ UNCHANGED <<row, live, maps, world>>
      /\ \A t \in Sessions \ {s} : start'[t] = start[t]
      /\ start' \in [Sessions -> {"unused", "over"} \cup Starting]
      /\ start'[s] \in Unmade => start[s] \in Unmade
      /\ start'[s] \in Starting => start[s] \in Starting \/ ~Unresolved
  BY DEF SupervisorTypeOK, StartBegins, Retry, Loaded, StartFails, Refused,
         NextAttempt, Starting, Unmade
<1>2. goal' \in GoalStates
  <2>1. goal \in GoalStates
    BY DEF SupervisorTypeOK
  <2>2. QED
    BY <2>1, GoalsStayTyped
       DEF StartBegins, Retry, Loaded, StartFails, Refused, GoalStates
<1>3. SupervisorTypeOK'
  BY <1>1, <1>2 DEF SupervisorTypeOK, maps, world
<1>4. SessionsSound'
  BY <1>1 DEF SessionsSound, world
<1>5. Untouched'
  BY <1>1, UntouchedKept DEF maps, world
<1>6. RowOutlivesProcess' /\ OneLiveRow' /\ NothingBesideSurvivor' /\ OneProcessPerAgent'
  BY <1>1, RowsKept DEF world
<1>7. QED
  BY <1>3, <1>4, <1>5, <1>6

\* The step that spawns a process: no other row is live, and no survivor is
\* there, so that no other process runs.
LEMMA MadeKeepsInv ==
  ASSUME SupervisorInv, NEW s \in Sessions, Made(s)
  PROVE  SupervisorInv'
<1> USE DEF SupervisorInv
<1>1. /\ live[s] = NoSession
      /\ process[s] = "none"
  BY DEF Made, Untouched
<1>2. ~Unresolved
  BY DEF Made, NothingBesideSurvivor, Starting
<1>3. \A t \in Sessions \ {s} : process[t] # "running"
  BY <1>2 DEF Made, OtherLive, Unresolved, RowOutlivesProcess
<1>4. /\ live' = [live EXCEPT ![s] = [NoSession EXCEPT !.state = "starting"]]
      /\ process' = [process EXCEPT ![s] = "running"]
  BY <1>1 DEF Made, SupervisorTypeOK
<1>5. SupervisorTypeOK'
  <2>1. live' \in [Sessions -> LiveSession]
    BY <1>4, NoSessionSound DEF SupervisorTypeOK, LiveSession, LiveStates
  <2>2. QED
    BY <2>1 DEF SupervisorTypeOK, Made, Starting
<1>6. SessionsSound'
  <2>1. Sound(live'[s], process'[s])
    <3>1. /\ ~live'[s].busy /\ live'[s].waits = {} /\ live'[s].queue = <<>>
          /\ ~live'[s].gone /\ live'[s].state = "starting"
      BY <1>4 DEF SupervisorTypeOK, NoSession
    <3>2. QED
      BY <3>1, EmptySeq DEF Sound
  <2>2. \A t \in Sessions \ {s} : live'[t] = live[t] /\ process'[t] = process[t]
    BY <1>4 DEF SupervisorTypeOK
  <2>3. QED
    BY <2>1, <2>2 DEF SessionsSound
<1>7. Untouched'
  BY DEF Made, SupervisorTypeOK, Untouched
<1>8. RowOutlivesProcess' /\ OneLiveRow' /\ OneProcessPerAgent'
  BY <1>3 DEF Made, SupervisorTypeOK, OtherLive, RowOutlivesProcess, OneLiveRow,
              OneProcessPerAgent
<1>9. NothingBesideSurvivor'
  BY <1>2 DEF Made, SupervisorTypeOK, Unresolved, NothingBesideSurvivor
<1>10. QED
  BY <1>5, <1>6, <1>7, <1>8, <1>9

\* The handshake succeeds and the goal is dispatched.
LEMMA DispatchedKeepsInv ==
  ASSUME SupervisorInv, NEW s \in Sessions, Dispatched(s)
  PROVE  SupervisorInv'
<1> USE DEF SupervisorInv
<1>1. live[s] \in LiveSession /\ Sound(live[s], process[s])
  BY DEF SupervisorTypeOK, SessionsSound
<1>2. live' \in [Sessions -> LiveSession]
  BY <1>1 DEF Dispatched, SupervisorTypeOK, LiveSession, LiveStates
<1>3. SupervisorTypeOK'
  BY <1>2 DEF Dispatched, SupervisorTypeOK, maps, GoalStates, Starting, Asking
<1>4. SessionsSound'
  <2>1. /\ live'[s].queue = live[s].queue /\ live'[s].busy = live[s].busy
        /\ live'[s].gone = live[s].gone /\ live'[s].waits = live[s].waits
        /\ live'[s].state = "ready"
        /\ \A t \in Sessions \ {s} : live'[t] = live[t]
    BY <1>1 DEF Dispatched, SupervisorTypeOK, LiveSession
  <2>2. Sound(live'[s], process[s])
    BY <1>1, <2>1 DEF Sound
  <2>3. QED
    BY <1>2, <2>1, <2>2, OneChanges DEF Dispatched
<1>5. /\ \A t \in Sessions \ {s} : live'[t] = live[t] /\ start'[t] = start[t]
      /\ start[s] \in Starting /\ start'[s] \notin Unmade
      /\ UNCHANGED <<row, process, byAgent, byId>>
  BY DEF Dispatched, SupervisorTypeOK, maps, Starting, Unmade
<1>6. Untouched'
  BY <1>5, UntouchedKept
<1>7. RowOutlivesProcess' /\ OneLiveRow' /\ NothingBesideSurvivor' /\ OneProcessPerAgent'
  BY <1>5, RowsKept
<1>8. QED
  BY <1>3, <1>4, <1>6, <1>7

\* The steps of a start that leave live[s] to somebody who stops the session,
\* or end without touching it.
LEMMA EndingStartKeepsInv ==
  ASSUME SupervisorInv, NEW s \in Sessions,
         NotDispatched(s) \/ HandshakeFails(s) \/ PromptAccepted(s) \/ PromptFails(s)
  PROVE  SupervisorInv'
<1> USE DEF SupervisorInv
<1>1. /\ \A t \in Sessions \ {s} : start'[t] = start[t] /\ row'[t] = row[t]
      /\ start[s] \in Starting /\ start'[s] \in {"over", "failing"}
      /\ start' \in [Sessions -> {"unused", "over"} \cup Starting]
      /\ UNCHANGED <<maps, world>>
      /\ row' \in [Sessions -> {"none", "live", "exited", "crashed", "disconnected"}]
      /\ row'[s] = row[s] \/ (row'[s] = "crashed" /\ live[s].state = "exited")
  <2>1. CASE NotDispatched(s) \/ PromptAccepted(s) \/ PromptFails(s)
    BY <2>1 DEF SupervisorTypeOK, NotDispatched, PromptAccepted, PromptFails, Starting
  <2>2. CASE HandshakeFails(s)
    <3>1. CASE live[s].state = "exited"
      BY <2>2, <3>1 DEF SupervisorTypeOK, HandshakeFails, Starting
    <3>2. CASE live[s].state # "exited"
      BY <2>2, <3>2 DEF SupervisorTypeOK, HandshakeFails, Starting
    <3>3. QED
      BY <3>1, <3>2
  <2>3. QED
    BY <2>1, <2>2
<1>2. goal' \in GoalStates
  <2>1. "verifying" \in GoalStates
    BY DEF GoalStates
  <2>2. QED
    BY <2>1, GoalsStayTyped
       DEF SupervisorTypeOK, NotDispatched, HandshakeFails, PromptAccepted, PromptFails
<1>3. /\ live' \in [Sessions -> LiveSession] /\ SessionsSound'
      /\ \A t \in Sessions \ {s} : live'[t] = live[t]
  <2>1. StopFor(s, "cancel") \/ TerminateFor(s, "init") \/ UNCHANGED live
    BY DEF NotDispatched, HandshakeFails, PromptAccepted, PromptFails
  <2>2. CASE StopFor(s, "cancel")
    BY <1>1, <2>2, StopForSound DEF StopFor, SupervisorTypeOK, world
  <2>3. CASE TerminateFor(s, "init")
    BY <1>1, <2>3, TerminateForSound DEF TerminateFor, SupervisorTypeOK, world
  <2>4. CASE UNCHANGED live
    BY <1>1, <2>4 DEF SupervisorTypeOK, SessionsSound, world
  <2>5. QED
    BY <2>1, <2>2, <2>3, <2>4
<1>4. SupervisorTypeOK'
  BY <1>1, <1>2, <1>3 DEF SupervisorTypeOK, maps, world
<1>5. Untouched'
  BY <1>1, <1>3, UntouchedKept DEF maps, world, Unmade
<1>6. RowOutlivesProcess' /\ OneLiveRow' /\ NothingBesideSurvivor' /\ OneProcessPerAgent'
  <2>1. row'[s] = row[s] \/ (row'[s] = "crashed" /\ process[s] # "running")
    BY <1>1, GoneIsDead
  <2>2. QED
    BY <1>1, <2>1, RowsKept DEF world, Starting
<1>7. QED
  BY <1>3, <1>4, <1>5, <1>6

-----------------------------------------------------------------------------
(* The process, its frames and its exit *)

LEMMA ArrivesKeepsInv ==
  ASSUME SupervisorInv, NEW s \in Sessions,
         (\E f \in Frames : Arrives(s, f)) \/ ExitEmitted(s)
  PROVE  SupervisorInv'
<1> USE DEF SupervisorInv
<1>1. live[s] \in LiveSession
  BY DEF SupervisorTypeOK
<1>2. PICK f \in Frames \cup {"exit"} :
        /\ live' = [live EXCEPT ![s].queue = Append(@, f),
                                ![s].gone = @ \/ f = "exit"]
        /\ f = "exit" => process[s] \in Dead
  <2>1. CASE ExitEmitted(s)
    <3>1. live' = [live EXCEPT ![s].queue = Append(@, "exit"),
                               ![s].gone = @ \/ "exit" = "exit"]
      BY <1>1, <2>1 DEF ExitEmitted, SupervisorTypeOK, LiveSession
    <3>2. process[s] \in Dead
      BY <2>1 DEF ExitEmitted, Dead
    <3>3. QED
      BY <3>1, <3>2
  <2>2. ASSUME NEW f \in Frames, Arrives(s, f)
        PROVE  /\ live' = [live EXCEPT ![s].queue = Append(@, f),
                                       ![s].gone = @ \/ f = "exit"]
               /\ f # "exit"
    <3>1. f # "exit"
      BY DEF Frames
    <3>2. live' = [live EXCEPT ![s].queue = Append(@, f)]
      BY <2>2 DEF Arrives
    <3>3. live[s].gone = (live[s].gone \/ f = "exit")
      BY <1>1, <3>1 DEF LiveSession
    <3>4. QED
      BY <1>1, <3>1, <3>2, <3>3 DEF SupervisorTypeOK, LiveSession
  <2>3. QED
    BY <2>1, <2>2
<1>3. /\ UNCHANGED <<goal, row, start, maps, process, restarts>>
      /\ turn' \in [Sessions -> BOOLEAN]
      /\ frames' \in Nat
      /\ live[s] # NoSession
  <2>1. CASE ExitEmitted(s)
    BY <2>1 DEF ExitEmitted, SupervisorTypeOK, world, NoSession
  <2>2. ASSUME NEW f_1 \in Frames, Arrives(s, f_1)
        PROVE  /\ UNCHANGED <<goal, row, start, maps, process, restarts>>
               /\ turn' \in [Sessions -> BOOLEAN]
               /\ frames' \in Nat
               /\ live[s] # NoSession
    <3>1. turn' = [turn EXCEPT ![s] = (f_1 # "end")]
      BY <2>2 DEF Arrives
    <3>2. turn' \in [Sessions -> BOOLEAN]
      BY <3>1 DEF SupervisorTypeOK
    <3>3. QED
      BY <2>2, <3>2 DEF Arrives, SupervisorTypeOK, NoSession
  <2>3. QED
    BY <2>1, <2>2
<1>4. live' \in [Sessions -> LiveSession] /\ SessionsSound'
  BY <1>2, <1>3, AppendedSound
<1>5. SupervisorTypeOK'
  BY <1>3, <1>4 DEF SupervisorTypeOK, maps
<1>6. Untouched'
  BY <1>2, <1>3, Touched, UntouchedKept DEF maps, SupervisorTypeOK
<1>7. RowOutlivesProcess' /\ OneLiveRow' /\ NothingBesideSurvivor' /\ OneProcessPerAgent'
  BY <1>3, RowsKept
<1>8. QED
  BY <1>4, <1>5, <1>6, <1>7

LEMMA DiesKeepsInv ==
  ASSUME SupervisorInv, NEW s \in Sessions, Dies(s)
  PROVE  SupervisorInv'
<1> USE DEF SupervisorInv
<1>1. /\ process' \in [Sessions -> {"none", "running", "clean", "failed"}]
      /\ process[s] = "running" /\ process'[s] \in Dead
      /\ \A t \in Sessions \ {s} : process'[t] = process[t]
      /\ UNCHANGED <<goal, row, start, live, maps, turn, frames, restarts>>
  BY DEF Dies, SupervisorTypeOK, Dead
<1>2. SupervisorTypeOK'
  BY <1>1 DEF SupervisorTypeOK, maps
<1>3. SessionsSound'
  BY <1>1 DEF SessionsSound, Sound, Dead
<1>4. Untouched'
  BY <1>1, Touched, UntouchedKept DEF maps
<1>5. RowOutlivesProcess' /\ OneLiveRow' /\ NothingBesideSurvivor' /\ OneProcessPerAgent'
  BY <1>1, RowsKept DEF Dead
<1>6. QED
  BY <1>2, <1>3, <1>4, <1>5

\* A frame is taken from the queue; Popped writes what that does to live.
LEMMA PoppedFields ==
  ASSUME SupervisorInv, NEW s \in Sessions, live[s].queue # <<>>,
         NEW st \in LiveStates, NEW e \in {"none", "expected", "crashed"},
         ~live[s].busy, st # "exited",
         live' = [Popped(s) EXCEPT ![s].state = st, ![s].ending = e],
         process' = process
  PROVE  /\ live' \in [Sessions -> LiveSession] /\ SessionsSound'
         /\ \A t \in Sessions \ {s} : live'[t] = live[t]
<1> USE DEF SupervisorInv
<1>1. live[s] \in LiveSession /\ Sound(live[s], process[s])
  BY DEF SupervisorTypeOK, SessionsSound
<1>2. Tail(live[s].queue) \in Seq(Frames \cup {"exit"})
  BY <1>1, QueueTail DEF LiveSession
<1>3. live' \in [Sessions -> LiveSession]
  BY <1>1, <1>2 DEF Popped, SupervisorTypeOK, LiveSession
<1>4. /\ live'[s].queue = Tail(live[s].queue)
      /\ live'[s].gone = live[s].gone
      /\ live'[s].busy = live[s].busy
      /\ live'[s].waits = live[s].waits
      /\ live'[s].state = st
      /\ \A t \in Sessions \ {s} : live'[t] = live[t]
  BY <1>1, <1>2 DEF Popped, SupervisorTypeOK, LiveSession
<1>5. "protocol" \notin live[s].waits
  BY <1>1 DEF Sound
<1>6. QED
  BY <1>3, <1>4, <1>5, PoppedSound

\* The same when the frame is only dropped, or its call returns.
LEMMA DroppedFields ==
  ASSUME SupervisorInv, NEW s \in Sessions, live[s].queue # <<>>,
         "protocol" \notin live[s].waits,
         live' = [Popped(s) EXCEPT ![s].busy = FALSE],
         process' = process
  PROVE  /\ live' \in [Sessions -> LiveSession] /\ SessionsSound'
         /\ \A t \in Sessions \ {s} : live'[t] = live[t]
<1> USE DEF SupervisorInv
<1>1. live[s] \in LiveSession /\ Sound(live[s], process[s])
  BY DEF SupervisorTypeOK, SessionsSound
<1>2. Tail(live[s].queue) \in Seq(Frames \cup {"exit"})
  BY <1>1, QueueTail DEF LiveSession
<1>3. live' \in [Sessions -> LiveSession]
  BY <1>1, <1>2 DEF Popped, SupervisorTypeOK, LiveSession
<1>4. /\ live'[s].queue = Tail(live[s].queue)
      /\ live'[s].gone = live[s].gone
      /\ ~live'[s].busy
      /\ live'[s].waits = live[s].waits
      /\ live'[s].state = live[s].state
      /\ \A t \in Sessions \ {s} : live'[t] = live[t]
  BY <1>1, <1>2 DEF Popped, SupervisorTypeOK, LiveSession
<1>5. QED
  BY <1>3, <1>4, PoppedSound

LEMMA ToolKeepsInv ==
  ASSUME SupervisorInv, NEW s \in Sessions, ToolCalled(s) \/ ToolReturns(s)
  PROVE  SupervisorInv'
<1> USE DEF SupervisorInv
<1>1. live[s] \in LiveSession /\ Sound(live[s], process[s])
  BY DEF SupervisorTypeOK, SessionsSound
<1>2. UNCHANGED <<goal, row, start, maps, world>>
  BY DEF ToolCalled, ToolReturns
<1>3. live[s].queue # <<>>
  BY <1>1 DEF ToolCalled, ToolReturns, Next1, Sound
<1>4. Head(live[s].queue) = "tool" /\ live[s].queue[1] = "tool"
  BY <1>1, <1>3, QueueTail DEF ToolCalled, ToolReturns, Next1, LiveSession
<1>5. "protocol" \notin live[s].waits
  BY <1>1, <1>4 DEF Sound
<1>6. /\ live' \in [Sessions -> LiveSession] /\ SessionsSound'
      /\ \A t \in Sessions \ {s} : live'[t] = live[t]
  <2>1. CASE live' = [live EXCEPT ![s].busy = TRUE]
    <3>1. live' \in [Sessions -> LiveSession]
      BY <1>1, <2>1 DEF SupervisorTypeOK, LiveSession
    <3>2. /\ live'[s].queue = live[s].queue /\ live'[s].gone = live[s].gone
          /\ live'[s].waits = live[s].waits /\ live'[s].state = live[s].state
          /\ \A t \in Sessions \ {s} : live'[t] = live[t]
      BY <1>1, <2>1 DEF SupervisorTypeOK, LiveSession
    <3>3. Sound(live'[s], process[s])
      BY <1>1, <1>3, <1>5, <3>2 DEF Sound
    <3>4. QED
      BY <1>2, <3>1, <3>2, <3>3, OneChanges DEF world
  <2>2. CASE live' = [Popped(s) EXCEPT ![s].busy = FALSE]
    BY <1>2, <1>3, <1>5, <2>2, DroppedFields DEF world
  <2>3. CASE ToolReturns(s)
    <3>1. live' = [Popped(s) EXCEPT ![s].busy = FALSE]
      BY <1>1, <2>3 DEF ToolReturns, Popped, SupervisorTypeOK, LiveSession
    <3>2. QED
      BY <2>2, <3>1
  <2>4. CASE ToolCalled(s)
    <3>1. CASE live' = Popped(s)
      <4>1. ~live[s].busy
        BY <2>4 DEF ToolCalled, Next1
      <4>2. live' = [Popped(s) EXCEPT ![s].busy = FALSE]
        BY <1>1, <3>1, <4>1 DEF Popped, SupervisorTypeOK, LiveSession
      <4>3. QED
        BY <2>2, <4>2
    <3>2. QED
      BY <2>1, <2>4, <3>1 DEF ToolCalled
  <2>5. QED
    BY <2>3, <2>4
<1>7. SupervisorTypeOK'
  BY <1>2, <1>6 DEF SupervisorTypeOK, maps, world
<1>8. Untouched'
  <2>1. live[s] # NoSession
    BY <1>3 DEF NoSession
  <2>2. QED
    BY <1>2, <1>6, <2>1, Touched, UntouchedKept DEF maps, world
<1>9. RowOutlivesProcess' /\ OneLiveRow' /\ NothingBesideSurvivor' /\ OneProcessPerAgent'
  BY <1>2, RowsKept DEF world
<1>10. QED
  BY <1>6, <1>7, <1>8, <1>9

\* A frame of a turn, its end, or a line that was rejected.
LEMMA FrameKeepsInv ==
  ASSUME SupervisorInv, NEW s \in Sessions,
         TurnGoesOn(s) \/ TurnEnds(s) \/ LineRejected(s)
  PROVE  SupervisorInv'
<1> USE DEF SupervisorInv
<1>1. live[s] \in LiveSession /\ Sound(live[s], process[s])
  BY DEF SupervisorTypeOK, SessionsSound
<1>2. UNCHANGED <<start, maps, world>>
  BY DEF TurnGoesOn, TurnEnds, LineRejected
<1>3. live[s].queue # <<>> /\ ~live[s].busy
  BY DEF TurnGoesOn, TurnEnds, LineRejected, Next1
<1>4. goal' \in GoalStates
  BY DEF SupervisorTypeOK, TurnGoesOn, TurnEnds, LineRejected, GoalStates
<1>5. ASSUME NEW st \in {"streaming", "ready"}, Revive(s, st)
      PROVE  /\ live' \in [Sessions -> LiveSession] /\ SessionsSound'
             /\ \A t \in Sessions \ {s} : live'[t] = live[t]
             /\ \/ row' = row
                \/ row' = [row EXCEPT ![s] = "live"] /\ ~OtherLive(s)
  <2>1. st \in LiveStates /\ "stopping" \in LiveStates
    BY DEF LiveStates
  <2>2. live[s].ending \in {"none", "expected", "crashed"}
    BY <1>1 DEF LiveSession
  <2>3. CASE live' = [Popped(s) EXCEPT ![s].state = st]
    <3>1. live' = [Popped(s) EXCEPT ![s].state = st, ![s].ending = live[s].ending]
      BY <1>1, <2>3 DEF Popped, SupervisorTypeOK, LiveSession
    <3>2. QED
      BY <1>2, <1>3, <1>5, <2>1, <2>2, <3>1, PoppedFields DEF Revive, world
  <2>4. CASE live' = [Popped(s) EXCEPT ![s].state = "stopping",
                                       ![s].ending = "crashed"]
    BY <1>2, <1>3, <1>5, <2>1, <2>4, PoppedFields DEF Revive, world
  <2>5. QED
    BY <1>5, <2>3, <2>4 DEF Revive
<1>6. ASSUME LineRejected(s)
      PROVE  /\ live' \in [Sessions -> LiveSession] /\ SessionsSound'
             /\ \A t \in Sessions \ {s} : live'[t] = live[t]
             /\ \/ row' = row
                \/ row' = [row EXCEPT ![s] = "crashed"] /\ live[s].state = "exited"
  <2>1. CASE live' = Popped(s)
    <3>1. live' = [Popped(s) EXCEPT ![s].busy = FALSE]
      BY <1>1, <1>3, <2>1 DEF Popped, SupervisorTypeOK, LiveSession
    <3>2. "protocol" \notin live[s].waits
      BY <1>1, <1>3 DEF Sound
    <3>3. QED
      BY <1>2, <1>3, <1>6, <3>1, <3>2, DroppedFields DEF LineRejected, world
  <2>2. CASE TerminateFor(s, "protocol") /\ UNCHANGED row
    <3>1. live[s].queue[1] = "bad"
      BY <1>1, <1>3, <1>6, QueueTail DEF LineRejected, Next1, LiveSession
    <3>2. \A t \in Sessions \ {s} : live'[t] = live[t]
      BY <2>2 DEF TerminateFor, SupervisorTypeOK
    <3>3. QED
      BY <1>2, <1>3, <2>2, <3>1, <3>2, TerminateForSound DEF world
  <2>3. QED
    BY <1>6, <2>1, <2>2 DEF LineRejected
<1>7. /\ live' \in [Sessions -> LiveSession] /\ SessionsSound'
      /\ \A t \in Sessions \ {s} : live'[t] = live[t]
      /\ \/ row' = row
         \/ row' = [row EXCEPT ![s] = "live"] /\ ~OtherLive(s)
         \/ row' = [row EXCEPT ![s] = "crashed"] /\ process[s] # "running"
  BY <1>5, <1>6, GoneIsDead DEF TurnGoesOn, TurnEnds
<1>8. SupervisorTypeOK'
  BY <1>2, <1>4, <1>7 DEF SupervisorTypeOK, maps, world
<1>9. Untouched'
  <2>1. live[s] # NoSession
    BY <1>3 DEF NoSession
  <2>2. QED
    BY <1>2, <1>7, <2>1, Touched, UntouchedKept DEF maps, world
<1>10. RowOutlivesProcess' /\ OneLiveRow' /\ NothingBesideSurvivor' /\ OneProcessPerAgent'
  <2>1. /\ \A t \in Sessions \ {s} : row'[t] = row[t]
        /\ \/ row'[s] = row[s]
           \/ row'[s] = "live" /\ ~OtherLive(s)
           \/ row'[s] = "crashed" /\ process[s] # "running"
    BY <1>7 DEF SupervisorTypeOK
  <2>2. QED
    BY <1>2, <2>1, RowsKept DEF world
<1>11. QED
  BY <1>7, <1>8, <1>9, <1>10

\* The chained exit handler.
LEMMA ExitHandledKeepsInv ==
  ASSUME SupervisorInv, NEW s \in Sessions, ExitHandled(s)
  PROVE  SupervisorInv'
<1> USE DEF SupervisorInv
<1>1. live[s] \in LiveSession /\ Sound(live[s], process[s])
  BY DEF SupervisorTypeOK, SessionsSound
<1>2. /\ live[s].queue # <<>> /\ ~live[s].busy
      /\ process[s] # "running"
  BY GoneIsDead DEF ExitHandled, Next1
<1>3. live[s].gone
  <2>1. live[s].queue[1] = "exit" /\ 1 \in 1 .. Len(live[s].queue)
    BY <1>1, <1>2, QueueTail DEF ExitHandled, Next1, LiveSession
  <2>2. QED
    BY <1>1, <2>1 DEF Sound
<1>4. Tail(live[s].queue) \in Seq(Frames \cup {"exit"})
  BY <1>1, <1>2, QueueTail DEF LiveSession
<1>5. live' \in [Sessions -> LiveSession]
  BY <1>1, <1>4 DEF ExitHandled, Popped, SupervisorTypeOK, LiveSession, LiveStates
<1>6. /\ live'[s].queue = Tail(live[s].queue)
      /\ live'[s].gone = live[s].gone
      /\ live'[s].busy = live[s].busy
      /\ live'[s].waits = {}
      /\ \A t \in Sessions \ {s} : live'[t] = live[t]
  BY <1>1, <1>4 DEF ExitHandled, Popped, SupervisorTypeOK, LiveSession
<1>7. SessionsSound'
  BY <1>2, <1>3, <1>5, <1>6, PoppedSound DEF ExitHandled, world
<1>8. /\ UNCHANGED world
      /\ byAgent' \in {byAgent, None} /\ byId' \subseteq byId
      /\ row' \in [Sessions -> {"none", "live", "exited", "crashed", "disconnected"}]
      /\ \A t \in Sessions \ {s} : row'[t] = row[t]
      /\ row'[s] = row[s] \/ row'[s] \in {"exited", "crashed"}
  BY DEF ExitHandled, Deregister, ExitRow, SupervisorTypeOK, maps
<1>9. /\ start' \in [Sessions -> {"unused", "over"} \cup Starting]
      /\ \A t \in Sessions \ {s} : start'[t] = start[t]
      /\ start'[s] \in {start[s], "over"}
  BY DEF ExitHandled, StartOver, SupervisorTypeOK
<1>10. goal' \in GoalStates
  BY GoalsStayTyped DEF ExitHandled, SupervisorTypeOK
<1>11. SupervisorTypeOK'
  BY <1>5, <1>8, <1>9, <1>10, NoneIsNoSession DEF SupervisorTypeOK, world
<1>12. Untouched'
  <2>1. live[s] # NoSession
    BY <1>2 DEF NoSession
  <2>2. start[s] \notin Unmade
    BY <2>1, Touched
  <2>3. start'[s] \notin Unmade
    BY <1>9, <2>2 DEF Unmade
  <2>4. QED
    BY <1>6, <1>8, <1>9, <2>3, UntouchedKept DEF world
<1>13. RowOutlivesProcess' /\ OneLiveRow' /\ NothingBesideSurvivor' /\ OneProcessPerAgent'
  BY <1>2, <1>8, <1>9, RowsKept DEF world, Starting, Asking
<1>14. QED
  BY <1>7, <1>11, <1>12, <1>13

\* A call that waited for the exit goes on.
LEMMA StopReturnsKeepsInv ==
  ASSUME SupervisorInv, NEW s \in Sessions, StopReturns(s)
  PROVE  SupervisorInv'
<1> USE DEF SupervisorInv
<1>1. live[s] \in LiveSession /\ Sound(live[s], process[s])
  BY DEF SupervisorTypeOK, SessionsSound
<1>2. live[s].gone /\ process[s] # "running" /\ live[s] # NoSession
  BY GoneIsDead DEF StopReturns, NoSession
<1>3. /\ live' \in [Sessions -> LiveSession] /\ SessionsSound'
      /\ \A t \in Sessions \ {s} : live'[t] = live[t]
  <2>1. PICK st \in LiveStates :
          st = (IF s \in byId THEN "exited" ELSE live[s].state)
    BY <1>1 DEF LiveSession, LiveStates
  <2>2. CASE "protocol" \in live[s].waits
    <3>1. live[s].queue # <<>>
      BY <1>1, <2>2 DEF Sound
    <3>2. Tail(live[s].queue) \in Seq(Frames \cup {"exit"})
      BY <1>1, <3>1, QueueTail DEF LiveSession
    <3>3. live' = [live EXCEPT ![s].queue = Tail(@), ![s].busy = FALSE,
                               ![s].waits = {}, ![s].state = st]
      BY <1>1, <2>1, <2>2 DEF StopReturns, Popped, SupervisorTypeOK, LiveSession
    <3>4. live' \in [Sessions -> LiveSession]
      BY <1>1, <3>2, <3>3 DEF SupervisorTypeOK, LiveSession
    <3>5. /\ live'[s].queue = Tail(live[s].queue)
          /\ live'[s].gone = live[s].gone
          /\ ~live'[s].busy
          /\ live'[s].waits = {}
          /\ \A t \in Sessions \ {s} : live'[t] = live[t]
      BY <1>1, <3>2, <3>3 DEF SupervisorTypeOK, LiveSession
    <3>6. QED
      BY <1>2, <3>1, <3>4, <3>5, PoppedSound DEF StopReturns, world
  <2>3. CASE "protocol" \notin live[s].waits
    <3>1. live' = [live EXCEPT ![s].waits = {}, ![s].state = st]
      BY <1>1, <2>1, <2>3 DEF StopReturns, SupervisorTypeOK, LiveSession
    <3>2. live' \in [Sessions -> LiveSession]
      BY <1>1, <3>1 DEF SupervisorTypeOK, LiveSession
    <3>3. /\ live'[s].queue = live[s].queue
          /\ live'[s].gone = live[s].gone
          /\ live'[s].busy = live[s].busy
          /\ live'[s].waits = {}
          /\ \A t \in Sessions \ {s} : live'[t] = live[t]
      BY <1>1, <3>1 DEF SupervisorTypeOK, LiveSession
    <3>4. Sound(live'[s], process[s])
      BY <1>1, <1>2, <3>3 DEF Sound
    <3>5. QED
      BY <3>2, <3>3, <3>4, OneChanges DEF StopReturns, world
  <2>4. QED
    BY <2>2, <2>3
<1>4. /\ UNCHANGED world
      /\ byAgent' \in {byAgent, None} /\ byId' \subseteq byId
      /\ row' \in [Sessions -> {"none", "live", "exited", "crashed", "disconnected"}]
      /\ \A t \in Sessions \ {s} : row'[t] = row[t]
      /\ row'[s] = row[s] \/ row'[s] \in {"exited", "crashed"}
  BY DEF StopReturns, Deregister, ExitRow, SupervisorTypeOK, maps
<1>5. /\ start' \in [Sessions -> {"unused", "over"} \cup Starting]
      /\ \A t \in Sessions \ {s} : start'[t] = start[t]
      /\ start'[s] \in {start[s], "over"}
  BY DEF StopReturns, StartOver, SupervisorTypeOK
<1>6. goal' \in GoalStates
  <2>1. goal \in GoalStates /\ GoalAfterExit(s) \in GoalStates
    BY GoalsStayTyped DEF SupervisorTypeOK
  <2>2. \A w : Outcome(w, goal) \in GoalStates /\ Outcome(w, GoalAfterExit(s)) \in GoalStates
    BY <2>1, GoalsStayTyped
  <2>3. QED
    BY <2>2 DEF StopReturns
<1>7. SupervisorTypeOK'
  BY <1>3, <1>4, <1>5, <1>6, NoneIsNoSession DEF SupervisorTypeOK, world
<1>8. Untouched'
  <2>1. start[s] \notin Unmade
    BY <1>2, Touched
  <2>2. start'[s] \notin Unmade
    BY <1>5, <2>1 DEF Unmade
  <2>3. QED
    BY <1>3, <1>4, <1>5, <2>2, UntouchedKept DEF world
<1>9. RowOutlivesProcess' /\ OneLiveRow' /\ NothingBesideSurvivor' /\ OneProcessPerAgent'
  BY <1>2, <1>4, <1>5, RowsKept DEF world, Starting, Asking
<1>10. QED
  BY <1>3, <1>7, <1>8, <1>9

-----------------------------------------------------------------------------
(* The owner and the controller *)

\* Cancel, and the two requests that cancel the agent's session.
LEMMA OwnerKeepsInv ==
  ASSUME SupervisorInv,
         Complete \/ Rollback \/ \E s \in Sessions : Cancel(s)
  PROVE  SupervisorInv'
<1> USE DEF SupervisorInv
<1>1. /\ UNCHANGED <<row, start, maps, world>>
      /\ goal' \in GoalStates
  BY DEF Complete, Rollback, Cancel, SupervisorTypeOK, GoalStates
<1>2. CASE UNCHANGED live
  <2>1. SupervisorTypeOK'
    BY <1>1, <1>2 DEF SupervisorTypeOK, maps, world
  <2>2. SessionsSound' /\ Untouched'
    BY <1>1, <1>2 DEF SessionsSound, Untouched, maps, world
  <2>3. RowOutlivesProcess' /\ OneLiveRow' /\ OneProcessPerAgent'
    BY <1>1 DEF RowOutlivesProcess, OneLiveRow, OneProcessPerAgent, world
  <2>4. NothingBesideSurvivor'
    BY <1>1 DEF NothingBesideSurvivor, Unresolved, world
  <2>5. QED
    BY <2>1, <2>2, <2>3, <2>4
<1>3. ASSUME NEW s \in Sessions, NEW w \in {"cancel", "rollback"},
             StopFor(s, w), s = byAgent \/ s \in byId
      PROVE  SupervisorInv'
  <2>1. live' \in [Sessions -> LiveSession] /\ SessionsSound'
    BY <1>1, <1>3, StopForSound DEF world
  <2>2. \A t \in Sessions \ {s} : live'[t] = live[t]
    BY <1>3 DEF StopFor, SupervisorTypeOK
  <2>3. SupervisorTypeOK'
    BY <1>1, <2>1 DEF SupervisorTypeOK, maps, world
  <2>4. Untouched'
    BY <1>1, <1>3, <2>2, Touched, UntouchedKept DEF maps, world
  <2>5. RowOutlivesProcess' /\ OneLiveRow' /\ NothingBesideSurvivor' /\ OneProcessPerAgent'
    BY <1>1, RowsKept DEF world
  <2>6. QED
    BY <2>1, <2>3, <2>4, <2>5
<1>4. \/ UNCHANGED live
      \/ \E s \in Sessions, w \in {"cancel", "rollback"} :
           StopFor(s, w) /\ (s = byAgent \/ s \in byId)
  BY DEF Complete, Rollback, Cancel, SupervisorTypeOK
<1>5. QED
  BY <1>2, <1>3, <1>4

\* The only process that may run across a restart is the one that ran before.
LEMMA RestartKeepsInv ==
  ASSUME SupervisorInv, Restart
  PROVE  SupervisorInv'
<1> USE DEF SupervisorInv
<1>1. SupervisorTypeOK'
  <2>1. live' \in [Sessions -> LiveSession]
    BY NoSessionSound DEF Restart
  <2>2. goal' \in GoalStates
    BY DEF Restart, SupervisorTypeOK, GoalStates
  <2>3. QED
    BY <2>1, <2>2 DEF Restart, SupervisorTypeOK
<1>2. SessionsSound'
  BY NoSessionSound DEF Restart, SessionsSound
<1>3. Untouched'
  BY NoneIsNoSession DEF Restart, Untouched, Starting, SupervisorTypeOK
<1>4. RowOutlivesProcess' /\ OneLiveRow' /\ OneProcessPerAgent'
  BY DEF Restart, RowOutlivesProcess, OneLiveRow, OneProcessPerAgent, SupervisorTypeOK
<1>5. NothingBesideSurvivor'
  BY DEF Restart, NothingBesideSurvivor, Starting, Asking, SupervisorTypeOK
<1>6. QED
  BY <1>1, <1>2, <1>3, <1>4, <1>5

-----------------------------------------------------------------------------
(* The theorems *)

LEMMA InitEstablishesInv == Init => SupervisorInv
<1> SUFFICES ASSUME Init PROVE SupervisorInv
  OBVIOUS
<1>1. SupervisorTypeOK
  BY NoSessionSound DEF Init, SupervisorTypeOK, GoalStates
<1>2. SessionsSound
  BY NoSessionSound DEF Init, SessionsSound
<1>3. Untouched
  BY NoneIsNoSession DEF Init, Untouched
<1>4. /\ RowOutlivesProcess /\ OneLiveRow
      /\ NothingBesideSurvivor /\ OneProcessPerAgent
  BY DEF Init, RowOutlivesProcess, OneLiveRow, NothingBesideSurvivor, Unresolved,
         OneProcessPerAgent
<1>5. QED
  BY <1>1, <1>2, <1>3, <1>4 DEF SupervisorInv

LEMMA StepKeepsInv == SupervisorInv /\ [Next]_vars => SupervisorInv'
<1> SUFFICES ASSUME SupervisorInv, [Next]_vars PROVE SupervisorInv'
  OBVIOUS
<1>1. CASE UNCHANGED vars
  <2>1. UNCHANGED <<goal, row, start, live, byAgent, byId, process, turn, frames, restarts>>
    BY <1>1 DEF vars
  <2>2. QED
    BY <2>1 DEF SupervisorInv, SupervisorTypeOK, SessionsSound, Untouched,
                RowOutlivesProcess, OneLiveRow, NothingBesideSurvivor, Unresolved,
                OneProcessPerAgent
<1>2. ASSUME NEW s \in Sessions, SessionStep(s)
      PROVE  SupervisorInv'
  <2>1. CASE Opening(s) \/ Owner(s)
    BY <2>1, OpeningKeepsInv, MadeKeepsInv, OwnerKeepsInv DEF Opening, Owner
  <2>2. CASE Shaking(s) \/ Prompting(s)
    BY <2>2, DispatchedKeepsInv, EndingStartKeepsInv DEF Shaking, Prompting
  <2>3. CASE Stopping(s) \/ Omp(s)
    BY <2>3, ArrivesKeepsInv, StopReturnsKeepsInv, DiesKeepsInv, ToolKeepsInv
       DEF Stopping, Omp
  <2>4. CASE Handling(s)
    BY <2>4, ToolKeepsInv, FrameKeepsInv, ExitHandledKeepsInv DEF Handling
  <2>5. QED
    BY <1>2, <2>1, <2>2, <2>3, <2>4 DEF SessionStep
<1>3. CASE Complete \/ Rollback
  BY <1>3, OwnerKeepsInv
<1>4. CASE Restart
  BY <1>4, RestartKeepsInv
<1>5. QED
  BY <1>1, <1>2, <1>3, <1>4 DEF Next

\* The inductive invariant of the supervisor holds in every reachable state.
THEOREM SupervisorInvariant == Spec => []SupervisorInv
BY InitEstablishesInv, StepKeepsInv, PTL DEF Spec

\* Sessions, rows, processes and starts always have their types.
THEOREM SupervisorTypeCorrect == Spec => []SupervisorTypeOK
<1>1. SupervisorInv => SupervisorTypeOK
  BY DEF SupervisorInv
<1>2. QED
  BY <1>1, SupervisorInvariant, PTL

\* However many attempts the owner makes, and however often the controller
\* restarts, no two OMP processes of the agent run at once.
THEOREM NeverTwoProcesses == Spec => []OneProcessPerAgent
<1>1. SupervisorInv => OneProcessPerAgent
  BY DEF SupervisorInv
<1>2. QED
  BY <1>1, SupervisorInvariant, PTL

-----------------------------------------------------------------------------
(* A start that is over has decided the goal *)

\* The starts that will still settle a goal that is queued.
Working == {"loading", "making", "handshake", "failing"}

\* A start that fails ends with the exit of its process, on which it or the
\* cancel it has called goes on.
Awaits(l) == l.waits \cap {"cancel", "init"} # {} /\ l.state # "exited"
FailingIsAwaited == \A s \in Sessions : start[s] = "failing" => Awaits(live[s])

\* A goal queued again beside a prompt under way has another start.
QueuedIsStarted ==
  goal = "queued" /\ (\E s \in Sessions : start[s] \in Asking)
    => \E t \in Sessions : start[t] \in Working

\* What a step does to a session object while its start fails.
AwaitStep(s) ==
  start'[s] = "failing" =>
    \/ start[s] = "failing" /\ (Awaits(live[s]) => Awaits(live'[s]))
    \/ Awaits(live'[s])

\* What a step does to a goal that is queued after it: some start will still
\* settle it; or the starts that would are none the fewer, and no prompt is
\* new; or there were no starts at all, or there are none after a restart.
QueueStep ==
  goal' = "queued" =>
    \/ \E t \in Sessions : start'[t] \in Working
    \/ /\ goal = "queued"
       /\ \A t \in Sessions :
            /\ start[t] \in Working => start'[t] \in Working
            /\ start'[t] \in Asking => start[t] \in Asking
    \/ start' = start /\ \A t \in Sessions : start[t] \notin Starting
    \/ restarts' # restarts /\ \A t \in Sessions : start'[t] \notin Asking

StartStep == QueueStep /\ \A s \in Sessions : AwaitStep(s)

\* One session's start and object change, or none's.
LEMMA OthersAwait ==
  ASSUME NEW s \in Sessions, AwaitStep(s),
         \A t \in Sessions \ {s} : start'[t] = start[t] /\ live'[t] = live[t]
  PROVE  \A t \in Sessions : AwaitStep(t)
BY DEF AwaitStep

LEMMA SameStarts ==
  ASSUME UNCHANGED <<goal, start>>
  PROVE  QueueStep
BY DEF QueueStep

LEMMA NotQueued ==
  ASSUME NEW g, NEW waits
  PROVE  /\ FailQueued(g) # "queued"
         /\ Outcome(waits, g) = "queued" => g = "queued" /\ waits \cap {"cancel", "init"} = {}
BY DEF FailQueued, Outcome

LEMMA StopForAwaits ==
  ASSUME SupervisorTypeOK, NEW s \in Sessions, NEW w \in {"cancel", "rollback"}, StopFor(s, w)
  PROVE  /\ \A t \in Sessions \ {s} : live'[t] = live[t]
         /\ Awaits(live[s]) \/ w = "cancel" => Awaits(live'[s])
<1>1. live[s] \in LiveSession
  BY DEF SupervisorTypeOK
<1>2. /\ live'[s].waits = live[s].waits \cup {w} /\ live'[s].state = "stopping"
      /\ \A t \in Sessions \ {s} : live'[t] = live[t]
  BY <1>1 DEF StopFor, SupervisorTypeOK, LiveSession
<1> QED BY <1>2 DEF Awaits

LEMMA TerminateForAwaits ==
  ASSUME SupervisorTypeOK, NEW s \in Sessions, NEW w \in {"init", "protocol"}, TerminateFor(s, w)
  PROVE  /\ \A t \in Sessions \ {s} : live'[t] = live[t]
         /\ Awaits(live[s]) \/ w = "init" => Awaits(live'[s])
<1>1. live[s] \in LiveSession
  BY DEF SupervisorTypeOK
<1>2. /\ live'[s].waits = live[s].waits \cup {w} /\ live'[s].state = "stopping"
      /\ \A t \in Sessions \ {s} : live'[t] = live[t]
  BY <1>1 DEF TerminateFor, SupervisorTypeOK, LiveSession
<1> QED BY <1>2 DEF Awaits

LEMMA OpeningStarts ==
  ASSUME SupervisorInv, NEW s \in Sessions,
         StartBegins(s) \/ Retry(s) \/ Loaded(s) \/ StartFails(s) \/ Refused(s)
  PROVE  StartStep
<1> USE DEF SupervisorInv
<1>1. start \in [Sessions -> {"unused", "over"} \cup Starting]
  BY DEF SupervisorTypeOK
<1>2. live' = live /\ \A t \in Sessions : start'[t] = "failing" => start[t] = "failing"
  BY <1>1 DEF StartBegins, Retry, Loaded, StartFails, Refused
<1>3. ASSUME StartBegins(s) PROVE QueueStep
  BY <1>1, <1>3 DEF StartBegins, QueueStep, Working
<1>4. ASSUME Retry(s) PROVE QueueStep
  BY <1>1, <1>4 DEF Retry, QueueStep, Working, NothingBesideSurvivor
<1>5. ASSUME Loaded(s) PROVE QueueStep
  BY <1>1, <1>5 DEF Loaded, QueueStep, Working
<1>6. ASSUME StartFails(s) \/ Refused(s) PROVE QueueStep
  BY <1>6, NotQueued DEF StartFails, Refused, QueueStep
<1>7. QueueStep
  BY <1>3, <1>4, <1>5, <1>6
<1>8. QED
  BY <1>2, <1>7 DEF StartStep, AwaitStep

LEMMA ShakingStarts ==
  ASSUME SupervisorInv, NEW s \in Sessions,
         Made(s) \/ Dispatched(s) \/ NotDispatched(s) \/ HandshakeFails(s)
  PROVE  StartStep
<1> USE DEF SupervisorInv
<1>1. /\ start \in [Sessions -> {"unused", "over"} \cup Starting]
      /\ live \in [Sessions -> LiveSession]
  BY DEF SupervisorTypeOK
<1>2. CASE Made(s) \/ Dispatched(s)
  <2>1. /\ start'[s] \in {"handshake"} \cup Asking
        /\ \A t \in Sessions \ {s} : start'[t] = start[t] /\ live'[t] = live[t]
    BY <1>1, <1>2 DEF Made, Dispatched, Asking
  <2>2. start'[s] # "failing"
    BY <2>1 DEF Asking
  <2>3. start'[s] \in Working \/ goal' = "running"
    BY <1>1, <1>2 DEF Made, Dispatched, Working
  <2>4. QueueStep
    BY <2>3 DEF QueueStep
  <2>5. AwaitStep(s)
    BY <2>2 DEF AwaitStep
  <2>6. QED
    BY <2>1, <2>4, <2>5, OthersAwait DEF StartStep
<1>3. CASE NotDispatched(s)
  <2>1. StopFor(s, "cancel") /\ start' = [start EXCEPT ![s] = "failing"]
    BY <1>3 DEF NotDispatched
  <2>2. /\ Awaits(live'[s]) /\ start'[s] = "failing"
        /\ \A t \in Sessions \ {s} : start'[t] = start[t] /\ live'[t] = live[t]
    BY <1>1, <2>1, StopForAwaits
  <2>3. QED
    BY <2>2, OthersAwait DEF StartStep, AwaitStep, QueueStep, Working
<1>4. CASE HandshakeFails(s) /\ live[s].state = "exited"
  <2>1. live' = live /\ start' = [start EXCEPT ![s] = "over"] /\ goal' # "queued"
    BY <1>4, NotQueued DEF HandshakeFails
  <2>2. QED
    BY <1>1, <2>1 DEF StartStep, AwaitStep, QueueStep
<1>5. CASE HandshakeFails(s) /\ live[s].state # "exited"
  <2>1. TerminateFor(s, "init") /\ start' = [start EXCEPT ![s] = "failing"]
    BY <1>5 DEF HandshakeFails
  <2>2. /\ Awaits(live'[s]) /\ start'[s] = "failing"
        /\ \A t \in Sessions \ {s} : start'[t] = start[t] /\ live'[t] = live[t]
    BY <1>1, <2>1, TerminateForAwaits
  <2>3. QED
    BY <2>2, OthersAwait DEF StartStep, AwaitStep, QueueStep, Working
<1>6. QED
  BY <1>2, <1>3, <1>4, <1>5

LEMMA PromptingStarts ==
  ASSUME SupervisorInv, NEW s \in Sessions, PromptAccepted(s) \/ PromptFails(s)
  PROVE  StartStep
<1> USE DEF SupervisorInv
<1>1. start \in [Sessions -> {"unused", "over"} \cup Starting]
  BY DEF SupervisorTypeOK
<1>2. start[s] \in Asking /\ (goal' = goal \/ goal' # "queued")
  BY DEF PromptAccepted, PromptFails
<1>3. CASE live' = live /\ start' = [start EXCEPT ![s] = "over"]
  BY <1>1, <1>2, <1>3 DEF StartStep, AwaitStep, QueueStep, Working, Asking
<1>4. CASE StopFor(s, "cancel") /\ start' = [start EXCEPT ![s] = "failing"]
  <2>1. /\ Awaits(live'[s]) /\ start'[s] = "failing"
        /\ \A t \in Sessions \ {s} : start'[t] = start[t] /\ live'[t] = live[t]
    BY <1>1, <1>4, StopForAwaits
  <2>2. QED
    BY <2>1, OthersAwait DEF StartStep, AwaitStep, QueueStep, Working
<1>5. QED
  BY <1>3, <1>4 DEF PromptAccepted, PromptFails

\* The owner stops a session, and its goal is as it was or settled.
LEMMA OwnerStarts ==
  ASSUME SupervisorInv, (\E s \in Sessions : Cancel(s)) \/ Complete \/ Rollback
  PROVE  StartStep
<1> USE DEF SupervisorInv
<1>1. start' = start /\ (goal' = goal \/ goal' # "queued")
  BY DEF Cancel, Complete, Rollback
<1>2. live' = live \/ \E s \in Sessions, w \in {"cancel", "rollback"} : StopFor(s, w)
  BY NoneIsNoSession DEF Cancel, Complete, Rollback, SupervisorTypeOK
<1>3. QueueStep
  BY <1>1 DEF QueueStep
<1>4. CASE live' = live
  BY <1>1, <1>3, <1>4 DEF StartStep, AwaitStep
<1>5. ASSUME NEW s \in Sessions, NEW w \in {"cancel", "rollback"}, StopFor(s, w)
      PROVE  StartStep
  BY <1>1, <1>3, <1>5, StopForAwaits DEF StartStep, AwaitStep
<1>6. QED
  BY <1>2, <1>4, <1>5

\* The process writes, dies or has its tool answered; frames are handled.
LEMMA FramesStarts ==
  ASSUME SupervisorInv, NEW s \in Sessions,
         \/ (\E f \in Frames : Arrives(s, f)) \/ ExitEmitted(s) \/ Dies(s)
         \/ ToolCalled(s) \/ ToolReturns(s)
         \/ TurnGoesOn(s) \/ TurnEnds(s) \/ LineRejected(s)
  PROVE  StartStep
<1> USE DEF SupervisorInv
<1>1. live \in [Sessions -> LiveSession] /\ live[s] \in LiveSession
  BY DEF SupervisorTypeOK
<1>2. start' = start /\ (goal' = goal \/ goal' # "queued")
  BY DEF Arrives, ExitEmitted, Dies, ToolCalled, ToolReturns, TurnGoesOn, TurnEnds, LineRejected,
         world
<1>3. /\ \A t \in Sessions \ {s} : live'[t] = live[t]
      /\ Awaits(live[s]) => Awaits(live'[s])
  <2>1. CASE LineRejected(s) /\ TerminateFor(s, "protocol")
    BY <2>1, TerminateForAwaits
  <2>2. CASE (\E f \in Frames : Arrives(s, f)) \/ ExitEmitted(s) \/ Dies(s)
    <3>1. \/ live' = live
          \/ \E f \in Frames : live' = [live EXCEPT ![s].queue = Append(@, f)]
          \/ live' = [live EXCEPT ![s].gone = TRUE, ![s].queue = Append(@, "exit")]
      BY <2>2 DEF Arrives, ExitEmitted, Dies
    <3>2. /\ live'[s].waits = live[s].waits /\ live'[s].state = live[s].state
          /\ \A t \in Sessions \ {s} : live'[t] = live[t]
      BY <1>1, <3>1 DEF LiveSession
    <3>3. QED
      BY <3>2 DEF Awaits
  <2>3. CASE ToolCalled(s) \/ ToolReturns(s)
    <3>1. \/ live' = [live EXCEPT ![s].busy = TRUE]
          \/ live' = [live EXCEPT ![s].queue = Tail(@)]
          \/ live' = [live EXCEPT ![s].busy = FALSE, ![s].queue = Tail(@)]
      BY <2>3 DEF ToolCalled, ToolReturns, Popped
    <3>2. /\ live'[s].waits = live[s].waits /\ live'[s].state = live[s].state
          /\ \A t \in Sessions \ {s} : live'[t] = live[t]
      BY <1>1, <3>1 DEF LiveSession
    <3>3. QED
      BY <3>2 DEF Awaits
  <2>4. CASE TurnGoesOn(s) \/ TurnEnds(s) \/ (LineRejected(s) /\ live' = Popped(s))
    <3>1. \/ \E st \in {"streaming", "ready"} : live' = [Popped(s) EXCEPT ![s].state = st]
          \/ live' = [Popped(s) EXCEPT ![s].state = "stopping", ![s].ending = "crashed"]
          \/ live' = Popped(s)
      BY <2>4 DEF TurnGoesOn, TurnEnds, Revive
    <3>2. /\ live'[s].waits = live[s].waits
          /\ live'[s].state \in {live[s].state, "streaming", "ready", "stopping"}
          /\ \A t \in Sessions \ {s} : live'[t] = live[t]
      BY <1>1, <3>1 DEF LiveSession, Popped
    <3>3. QED
      BY <3>2 DEF Awaits
  <2>5. QED
    BY <2>1, <2>2, <2>3, <2>4 DEF LineRejected
<1>4. QueueStep
  BY <1>2 DEF QueueStep
<1>5. QED
  BY <1>2, <1>3, <1>4 DEF StartStep, AwaitStep

\* On the exit of its process a start that fails is over, and settles the goal.
LEMMA ExitStarts ==
  ASSUME SupervisorInv, FailingIsAwaited, NEW s \in Sessions, ExitHandled(s) \/ StopReturns(s)
  PROVE  StartStep
<1> USE DEF SupervisorInv
<1>1. /\ start \in [Sessions -> {"unused", "over"} \cup Starting]
      /\ live \in [Sessions -> LiveSession]
  BY DEF SupervisorTypeOK
<1>2. /\ start'[s] # "failing"
      /\ start[s] # "failing" => start' = start
      /\ \A t \in Sessions \ {s} : start'[t] = start[t]
  BY <1>1 DEF ExitHandled, StopReturns, StartOver
<1>3. \A t \in Sessions \ {s} : live'[t] = live[t]
  BY <1>1 DEF ExitHandled, StopReturns, Popped
<1>4. GoalAfterExit(s) = "queued" => goal = "queued"
  BY DEF GoalAfterExit
<1>5. goal' = "queued" =>
        goal = "queued" /\ (live[s].waits \cap {"cancel", "init"} = {} \/ live[s].state = "exited")
  BY <1>4, NotQueued DEF ExitHandled, StopReturns
<1>6. start[s] = "failing" => goal' # "queued"
  BY <1>5 DEF FailingIsAwaited, Awaits
<1>7. QueueStep
  BY <1>2, <1>5, <1>6 DEF QueueStep
<1>8. QED
  BY <1>2, <1>3, <1>7, OthersAwait DEF StartStep, AwaitStep

LEMMA RestartStarts ==
  ASSUME SupervisorInv, Restart
  PROVE  StartStep
<1>1. restarts' # restarts
  BY DEF Restart, SupervisorInv, SupervisorTypeOK
<1>2. \A t \in Sessions : start'[t] \notin Starting
  BY DEF Restart, Starting, Asking
<1>3. QED
  BY <1>1, <1>2 DEF StartStep, AwaitStep, QueueStep, Starting

LEMMA StepStarts ==
  ASSUME SupervisorInv, FailingIsAwaited, [Next]_vars
  PROVE  StartStep
<1>1. CASE UNCHANGED vars
  BY <1>1 DEF vars, StartStep, AwaitStep, QueueStep
<1>2. ASSUME NEW s \in Sessions, SessionStep(s)
      PROVE  StartStep
  <2>1. CASE Opening(s) \/ Owner(s)
    BY <2>1, OpeningStarts, ShakingStarts, OwnerStarts DEF Opening, Owner
  <2>2. CASE Shaking(s) \/ Prompting(s)
    BY <2>2, ShakingStarts, PromptingStarts DEF Shaking, Prompting
  <2>3. CASE Stopping(s) \/ Omp(s) \/ Handling(s)
    BY <2>3, FramesStarts, ExitStarts DEF Stopping, Omp, Handling
  <2>4. QED
    BY <1>2, <2>1, <2>2, <2>3 DEF SessionStep
<1>3. CASE Complete \/ Rollback
  BY <1>3, OwnerStarts
<1>4. CASE Restart
  BY <1>4, RestartStarts
<1>5. QED
  BY <1>1, <1>2, <1>3, <1>4 DEF Next

StartInv == FailingIsAwaited /\ QueuedIsStarted

LEMMA StepKeepsStarts ==
  ASSUME SupervisorInv, StartInv, [Next]_vars
  PROVE  StartInv'
<1>1. StartStep
  BY StepStarts DEF StartInv
<1>2. FailingIsAwaited'
  BY <1>1 DEF StartStep, AwaitStep, StartInv, FailingIsAwaited
<1>3. QueuedIsStarted'
  BY <1>1 DEF StartStep, QueueStep, StartInv, QueuedIsStarted, Starting
<1>4. QED
  BY <1>2, <1>3 DEF StartInv

\* Whichever of several starts of the goal is over, it has decided the goal, or
\* another one is under way that will; only the end of the controller comes
\* in between.
THEOREM EveryStartConcludes == Spec => StartsConclude
<1>1. Init => StartInv
  BY DEF Init, StartInv, FailingIsAwaited, QueuedIsStarted
<1>2. SupervisorInv /\ StartInv /\ [Next]_vars => StartInv'
  BY StepKeepsStarts
<1>3. ASSUME SupervisorInv, StartInv, [Next]_vars, NEW s \in Sessions,
             start[s] \in Starting, start[s]' = "over", restarts' = restarts, goal' = "queued"
      PROVE  \E t \in Sessions : start[t]' \in Starting
  <2>1. QueueStep
    BY <1>3, StepStarts DEF StartInv, StartStep
  <2>2. Working \subseteq Starting /\ (start[s] \in Working \/ start[s] \in Asking)
    BY <1>3 DEF Working, Starting
  <2>3. "over" \notin Working
    BY DEF Working
  <2>4. QED
    BY <1>3, <2>1, <2>2, <2>3 DEF QueueStep, StartInv, QueuedIsStarted
<1>4. SupervisorInv /\ StartInv /\ [Next]_vars =>
        [\A s \in Sessions :
           /\ start[s] \in Starting
           /\ start[s]' = "over"
           /\ restarts' = restarts
           => goal' # "queued" \/ \E t \in Sessions : start[t]' \in Starting]_vars
  BY <1>3
<1>5. QED
  BY <1>1, <1>2, <1>4, SupervisorInvariant, PTL DEF Spec, StartsConclude

-----------------------------------------------------------------------------
(* What a running goal loses its session to *)

\* A registered session has a live row and has not been handled as exited; and
\* if it is to end, a call that settles the goal waits for that.
Registered(s) ==
  /\ row[s] = "live"
  /\ live[s].state \notin {"none", "exited"}
  /\ live[s].ending = "expected" => live[s].waits \cap {"cancel", "rollback"} # {}

RegisteredInv == \A s \in byId : Registered(s)

\* The session object l becomes m, and is told to end by a call that waits.
Advances(l, m) ==
  /\ l.state \notin {"none", "exited"} => m.state \notin {"none", "exited"}
  /\ m.ending = "expected" =>
       \/ l.ending = "expected" /\ l.waits \subseteq m.waits
       \/ m.waits \cap {"cancel", "rollback"} # {}

RegisteredStep ==
  \A s \in byId' : s \in byId /\ Registered(s) =>
    (row'[s] = "live" \/ row'[s] = row[s]) /\ Advances(live[s], live'[s])

LEMMA SameAdvances == \A l : Advances(l, l)
BY DEF Advances

\* One session object changes, and a row with it.
LEMMA OneAdvances ==
  ASSUME SupervisorTypeOK, NEW s \in Sessions, byId' \subseteq byId,
         \A t \in Sessions \ {s} : live'[t] = live[t] /\ row'[t] = row[t],
         s \in byId' /\ Registered(s) =>
           (row'[s] = "live" \/ row'[s] = row[s]) /\ Advances(live[s], live'[s])
  PROVE  RegisteredStep
BY SameAdvances DEF RegisteredStep, SupervisorTypeOK

LEMMA StopForAdvances ==
  ASSUME SupervisorTypeOK, NEW s \in Sessions, NEW w, StopFor(s, w),
         w \in {"cancel", "rollback"}
  PROVE  /\ \A t \in Sessions \ {s} : live'[t] = live[t]
         /\ Advances(live[s], live'[s])
<1>1. live[s] \in LiveSession
  BY DEF SupervisorTypeOK
<1>2. /\ live'[s].waits = live[s].waits \cup {w} /\ live'[s].state = "stopping"
      /\ \A t \in Sessions \ {s} : live'[t] = live[t]
  BY <1>1 DEF StopFor, SupervisorTypeOK, LiveSession
<1> QED BY <1>2 DEF Advances

LEMMA TerminateForAdvances ==
  ASSUME SupervisorTypeOK, NEW s \in Sessions, NEW w, TerminateFor(s, w)
  PROVE  /\ \A t \in Sessions \ {s} : live'[t] = live[t]
         /\ Advances(live[s], live'[s])
<1>1. live[s] \in LiveSession
  BY DEF SupervisorTypeOK
<1>2. /\ live'[s].ending = "crashed" /\ live'[s].state = "stopping"
      /\ \A t \in Sessions \ {s} : live'[t] = live[t]
  BY <1>1 DEF TerminateFor, SupervisorTypeOK, LiveSession
<1> QED BY <1>2 DEF Advances

LEMMA StartAdvances ==
  ASSUME SupervisorInv, NEW s \in Sessions,
         \/ StartBegins(s) \/ Retry(s) \/ Loaded(s) \/ StartFails(s) \/ Refused(s)
         \/ Dispatched(s) \/ NotDispatched(s) \/ HandshakeFails(s)
         \/ PromptAccepted(s) \/ PromptFails(s)
  PROVE  RegisteredStep
<1> USE DEF SupervisorInv
<1>1. live[s] \in LiveSession /\ UNCHANGED byId
  BY DEF SupervisorTypeOK, StartBegins, Retry, Loaded, StartFails, Refused, Dispatched,
         NotDispatched, HandshakeFails, PromptAccepted, PromptFails, maps
<1>2. CASE UNCHANGED <<row, live>>
  BY <1>1, <1>2, SameAdvances DEF RegisteredStep
<1>3. CASE StopFor(s, "cancel") /\ UNCHANGED row
  BY <1>1, <1>3, StopForAdvances, OneAdvances
<1>4. CASE Dispatched(s)
  <2>1. /\ live'[s].state = "ready" /\ live'[s].ending = live[s].ending
        /\ live'[s].waits = live[s].waits
        /\ \A t \in Sessions \ {s} : live'[t] = live[t]
    BY <1>1, <1>4 DEF Dispatched, SupervisorTypeOK, LiveSession
  <2> QED BY <1>1, <1>4, <2>1, OneAdvances DEF Dispatched, Advances
<1>5. CASE HandshakeFails(s)
  <2>1. CASE live[s].state = "exited"
    <3>1. live' = live /\ \A t \in Sessions \ {s} : row'[t] = row[t]
      BY <1>5, <2>1 DEF HandshakeFails, SupervisorTypeOK
    <3> QED BY <1>1, <2>1, <3>1, OneAdvances DEF Registered
  <2>2. CASE live[s].state # "exited"
    BY <1>1, <1>5, <2>2, TerminateForAdvances, OneAdvances DEF HandshakeFails
  <2> QED BY <2>1, <2>2
<1> QED
  BY <1>2, <1>3, <1>4, <1>5 DEF StartBegins, Retry, Loaded, StartFails, Refused,
     NotDispatched, PromptAccepted, PromptFails

LEMMA FramesAdvance ==
  ASSUME SupervisorInv, NEW s \in Sessions,
         \/ (\E f \in Frames : Arrives(s, f)) \/ ExitEmitted(s) \/ Dies(s)
         \/ ToolCalled(s) \/ ToolReturns(s)
         \/ TurnGoesOn(s) \/ TurnEnds(s) \/ LineRejected(s)
  PROVE  RegisteredStep
<1> USE DEF SupervisorInv
<1>1. live \in [Sessions -> LiveSession] /\ live[s] \in LiveSession /\ UNCHANGED byId
  BY DEF SupervisorTypeOK, Arrives, ExitEmitted, Dies, ToolCalled, ToolReturns, TurnGoesOn,
         TurnEnds, LineRejected, maps
<1>2. CASE \/ (\E f \in Frames : Arrives(s, f)) \/ ExitEmitted(s) \/ Dies(s)
           \/ ToolCalled(s) \/ ToolReturns(s)
  <2>1. row' = row
    BY <1>2 DEF Arrives, ExitEmitted, Dies, ToolCalled, ToolReturns
  <2>2. \/ live' = live
        \/ \E f \in Frames : live' = [live EXCEPT ![s].queue = Append(@, f)]
        \/ live' = [live EXCEPT ![s].gone = TRUE, ![s].queue = Append(@, "exit")]
        \/ live' = [live EXCEPT ![s].busy = TRUE]
        \/ live' = [live EXCEPT ![s].queue = Tail(@)]
        \/ live' = [live EXCEPT ![s].busy = FALSE, ![s].queue = Tail(@)]
    BY <1>2 DEF Arrives, ExitEmitted, Dies, ToolCalled, ToolReturns, Popped
  <2>3. /\ live'[s].waits = live[s].waits /\ live'[s].state = live[s].state
        /\ live'[s].ending = live[s].ending
        /\ \A t \in Sessions \ {s} : live'[t] = live[t]
    BY <1>1, <2>2 DEF LiveSession
  <2> QED BY <1>1, <2>1, <2>3, OneAdvances DEF Advances
<1>3. CASE TurnGoesOn(s) \/ TurnEnds(s)
  <2>1. PICK st \in {"streaming", "ready"} : Revive(s, st)
    BY <1>3 DEF TurnGoesOn, TurnEnds
  <2>2. \/ live' = [Popped(s) EXCEPT ![s].state = st]
        \/ live' = [Popped(s) EXCEPT ![s].state = "stopping", ![s].ending = "crashed"]
    BY <2>1 DEF Revive
  <2>3. /\ live'[s].waits = live[s].waits /\ live'[s].state \in {"streaming", "ready", "stopping"}
        /\ live'[s].ending \in {live[s].ending, "crashed"}
        /\ \A t \in Sessions \ {s} : live'[t] = live[t]
    BY <1>1, <2>2 DEF LiveSession, Popped
  <2>4. row' = [row EXCEPT ![s] = "live"] \/ row' = row
    BY <2>1 DEF Revive
  <2>5. Advances(live[s], live'[s])
    BY <2>3 DEF Advances
  <2> QED BY <1>1, <2>3, <2>4, <2>5, OneAdvances DEF SupervisorTypeOK
<1>4. CASE LineRejected(s)
  <2>1. CASE live' = Popped(s)
    <3>1. /\ live'[s].waits = live[s].waits /\ live'[s].state = live[s].state
          /\ live'[s].ending = live[s].ending
          /\ \A t \in Sessions \ {s} : live'[t] = live[t]
      BY <1>1, <2>1 DEF LiveSession, Popped
    <3>2. row' = row \/ (row' = [row EXCEPT ![s] = "crashed"] /\ live[s].state = "exited")
      BY <1>4, <2>1 DEF LineRejected
    <3>3. Advances(live[s], live'[s])
      BY <3>1 DEF Advances
    <3> QED BY <1>1, <3>1, <3>2, <3>3, OneAdvances DEF Registered, SupervisorTypeOK
  <2>2. CASE TerminateFor(s, "protocol") /\ UNCHANGED row
    BY <1>1, <2>2, TerminateForAdvances, OneAdvances
  <2> QED BY <1>4, <2>1, <2>2 DEF LineRejected
<1> QED BY <1>2, <1>3, <1>4

\* Who is handled as exited is not registered any more.
LEMMA ExitAdvances ==
  ASSUME SupervisorInv, RegisteredInv, NEW s \in Sessions, ExitHandled(s) \/ StopReturns(s)
  PROVE  /\ RegisteredStep
         /\ byId' = byId \ {s}
         /\ s \in byId => goal' = Outcome(live[s].waits, GoalAfterExit(s)) /\ live[s].gone
<1> USE DEF SupervisorInv
<1>1. live \in [Sessions -> LiveSession] /\ live[s] \in LiveSession /\ Sound(live[s], process[s])
  BY DEF SupervisorTypeOK, SessionsSound
<1>2. /\ byId' = byId \ {s}
      /\ \A t \in Sessions \ {s} : row'[t] = row[t]
      /\ s \in byId => goal' = Outcome(live[s].waits, GoalAfterExit(s))
  BY DEF ExitHandled, StopReturns, Deregister, RegisteredInv, Registered, SupervisorTypeOK, maps
<1>3. \A t \in Sessions \ {s} : live'[t] = live[t]
  BY <1>1 DEF ExitHandled, StopReturns, Popped
<1>4. live[s].gone
  <2>1. CASE ExitHandled(s)
    <3>1. live[s].queue[1] = "exit" /\ 1 \in 1 .. Len(live[s].queue)
      BY <1>1, <2>1, QueueTail DEF ExitHandled, Next1, LiveSession
    <3> QED BY <1>1, <3>1 DEF Sound
  <2> QED BY <2>1 DEF StopReturns
<1> QED BY <1>2, <1>3, <1>4, OneAdvances

LEMMA OwnerAdvances ==
  ASSUME SupervisorInv, (\E s \in Sessions : Cancel(s)) \/ Complete \/ Rollback
  PROVE  RegisteredStep
<1> USE DEF SupervisorInv
<1>1. UNCHANGED <<row, byId>>
  BY DEF Cancel, Complete, Rollback, maps
<1>2. live' = live \/ \E s \in Sessions, w \in {"cancel", "rollback"} : StopFor(s, w)
  BY NoneIsNoSession DEF Cancel, Complete, Rollback, SupervisorTypeOK
<1>3. CASE live' = live
  BY <1>1, <1>3, SameAdvances DEF RegisteredStep
<1>4. ASSUME NEW s \in Sessions, NEW w \in {"cancel", "rollback"}, StopFor(s, w)
      PROVE  RegisteredStep
  BY <1>1, <1>4, StopForAdvances, OneAdvances
<1> QED BY <1>2, <1>3, <1>4

LEMMA RegisteredStays ==
  ASSUME RegisteredInv, byId' \subseteq byId, RegisteredStep
  PROVE  RegisteredInv'
<1>1. ASSUME NEW s \in byId'
      PROVE  Registered(s)'
  BY <1>1 DEF RegisteredInv, RegisteredStep, Registered, Advances
<1> QED BY <1>1 DEF RegisteredInv

LEMMA MadeIsRegistered ==
  ASSUME SupervisorInv, RegisteredInv, NEW s \in Sessions, Made(s)
  PROVE  RegisteredInv' /\ byId' # {}
<1> USE DEF SupervisorInv
<1>1. live[s] = NoSession
  BY DEF Made, Untouched
<1>2. /\ live'[s].state = "starting" /\ live'[s].ending = "none" /\ row'[s] = "live"
      /\ \A t \in Sessions \ {s} : live'[t] = live[t] /\ row'[t] = row[t]
      /\ byId' = byId \cup {s}
  BY <1>1 DEF Made, SupervisorTypeOK, NoSession
<1> QED BY <1>2 DEF RegisteredInv, Registered, SupervisorTypeOK

\* A step that unregisters nobody, or whoever was handled as exited, or all.
Unregisters ==
  \/ byId \subseteq byId'
  \/ \E s \in Sessions :
       /\ byId' = byId \ {s}
       /\ s \in byId => goal' = Outcome(live[s].waits, GoalAfterExit(s)) /\ live[s].gone
  \/ Restart

LEMMA StepKeepsRegistered ==
  ASSUME SupervisorInv, RegisteredInv, [Next]_vars
  PROVE  RegisteredInv' /\ Unregisters
<1>1. CASE UNCHANGED vars
  BY <1>1 DEF vars, RegisteredInv, Registered, Unregisters
<1>2. ASSUME NEW s \in Sessions, SessionStep(s)
      PROVE  RegisteredInv' /\ Unregisters
  <2>1. CASE Made(s)
    BY <2>1, MadeIsRegistered DEF Made, Unregisters
  <2>2. CASE ExitHandled(s) \/ StopReturns(s)
    <3>1. /\ RegisteredStep
          /\ byId' = byId \ {s}
          /\ s \in byId => goal' = Outcome(live[s].waits, GoalAfterExit(s)) /\ live[s].gone
      BY <2>2, ExitAdvances
    <3> QED BY <3>1, RegisteredStays DEF Unregisters
  <2>3. CASE \/ StartBegins(s) \/ Retry(s) \/ Loaded(s) \/ StartFails(s) \/ Refused(s)
             \/ Dispatched(s) \/ NotDispatched(s) \/ HandshakeFails(s)
             \/ PromptAccepted(s) \/ PromptFails(s)
    <3>1. byId' = byId
      BY <2>3 DEF StartBegins, Retry, Loaded, StartFails, Refused, Dispatched,
         NotDispatched, HandshakeFails, PromptAccepted, PromptFails, maps
    <3> QED BY <2>3, <3>1, StartAdvances, RegisteredStays DEF Unregisters
  <2>4. CASE \/ (\E f \in Frames : Arrives(s, f)) \/ ExitEmitted(s) \/ Dies(s)
             \/ ToolCalled(s) \/ ToolReturns(s)
             \/ TurnGoesOn(s) \/ TurnEnds(s) \/ LineRejected(s)
    <3>1. byId' = byId
      BY <2>4 DEF Arrives, ExitEmitted, Dies, ToolCalled, ToolReturns, TurnGoesOn, TurnEnds,
         LineRejected, maps
    <3> QED BY <2>4, <3>1, FramesAdvance, RegisteredStays DEF Unregisters
  <2>5. CASE Cancel(s)
    BY <2>5, OwnerAdvances, RegisteredStays DEF Cancel, Unregisters, maps
  <2> QED
    BY <1>2, <2>1, <2>2, <2>3, <2>4, <2>5 DEF SessionStep, Opening, Shaking, Prompting,
       Stopping, Handling, Owner, Omp
<1>3. CASE Complete \/ Rollback
  BY <1>3, OwnerAdvances, RegisteredStays DEF Complete, Rollback, Unregisters, maps
<1>4. CASE Restart
  BY <1>4 DEF Restart, RegisteredInv, Unregisters
<1> QED BY <1>1, <1>2, <1>3, <1>4 DEF Next

\* A session that is unregistered with a running goal still running: it was not
\* to end, and its process left with code 0.
LEMMA LeftByItself ==
  ASSUME SupervisorInv, NEW s \in Sessions, Registered(s), live[s].gone, goal = "running",
         Outcome(live[s].waits, GoalAfterExit(s)) = "running"
  PROVE  process[s] = "clean" /\ live[s].ending = "none"
<1>1. live[s].ending \in {"none", "expected", "crashed"} /\ process[s] \in Dead
  BY DEF SupervisorInv, SupervisorTypeOK, SessionsSound, Sound, LiveSession
<1>2. live[s].waits \cap {"cancel", "rollback"} = {}
  BY DEF Outcome, FailQueued, GoalAfterExit
<1>3. live[s].ending # "expected"
  BY <1>2 DEF Registered
<1>4. ExitRow(s) # "crashed"
  <2> SUFFICES ASSUME ExitRow(s) = "crashed" PROVE FALSE
    OBVIOUS
  <2>1. GoalAfterExit(s) = "failed"
    BY DEF GoalAfterExit, ActiveStates
  <2> QED BY <2>1 DEF Outcome, FailQueued
<1> QED BY <1>1, <1>3, <1>4 DEF ExitRow, Dead

\* Whatever the owner does, whichever process dies and whoever handles its
\* exit, a running goal is left alone only by an OMP that quits with code 0
\* unasked (handleExit, settleActiveGoal, reconcileStartup).
THEOREM OnlyCleanExitLeavesGoal == Spec => RunningGoalKeepsSession
<1>1. Init => RegisteredInv
  BY DEF Init, RegisteredInv
<1>2. SupervisorInv /\ RegisteredInv /\ [Next]_vars => RegisteredInv'
  BY StepKeepsRegistered
<1>3. ASSUME SupervisorInv, RegisteredInv, [Next]_vars,
             goal = "running", goal' = "running", byId # {}, byId' = {}
      PROVE  \E s \in byId : process[s] = "clean" /\ live[s].ending = "none"
  <2>1. Unregisters
    BY <1>3, StepKeepsRegistered
  <2>2. ~Restart
    BY <1>3 DEF Restart, RegisteredInv, Registered, SupervisorInv, SupervisorTypeOK, ActiveStates
  <2>3. PICK s \in Sessions :
          /\ byId = {s}
          /\ goal' = Outcome(live[s].waits, GoalAfterExit(s)) /\ live[s].gone
    BY <1>3, <2>1, <2>2 DEF Unregisters
  <2>4. process[s] = "clean" /\ live[s].ending = "none"
    BY <1>3, <2>3, LeftByItself DEF RegisteredInv
  <2> QED BY <2>3, <2>4
<1>4. SupervisorInv /\ RegisteredInv /\ [Next]_vars =>
        [goal = "running" /\ goal' = "running" /\ byId # {} =>
           \/ byId' # {}
           \/ \E s \in byId : process[s] = "clean" /\ live[s].ending = "none"]_vars
  BY <1>3
<1> QED
  BY <1>1, <1>2, <1>4, SupervisorInvariant, PTL DEF Spec, RunningGoalKeepsSession
=============================================================================

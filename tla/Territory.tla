----------------------------- MODULE Territory -----------------------------
(***************************************************************************)
(* Workspaces and territory leases (workspaces.ts) and the owner's         *)
(* requests that use them: preparing a workspace (createWorkspace),        *)
(* starting, retrying, completing and rolling back a goal                  *)
(* (control-center.ts).  A workspace is a git worktree and a row; a lease  *)
(* reserves a path of the repository for an agent until it expires.        *)
(*                                                                         *)
(* Every await is a point at which other handlers run.  The capsule has    *)
(* one repository, so all leases meet.  Goals are for roles that write in  *)
(* isolation: a start takes a workspace.  How a session starts and stops   *)
(* is in SessionSupervisor; here both are one step.                        *)
(***************************************************************************)
EXTENDS GoalLifecycle, Integers, Sequences, FiniteSets

CONSTANTS
  Agents, Goals, NoGoal,
  Workspaces,    \* bound: one for each createWorkspace call that leaves something
  None,          \* no workspace
  Owner,         \* goals.owner_agent_id
  Paths,         \* territory paths in comparison form, as their segments
  Ttl,           \* the lifetimes an owner may ask for
  FullTtl,       \* the lifetime of a renewed lease (one hour)
  MaxLeases,     \* bound: leases granted
  MaxTime,       \* bound: the clock
  MaxFaults      \* bound: git failing or leaving a fresh worktree unclean, restarts

ASSUME TerritoryAssumption ==
  /\ Owner \in [Goals -> Agents]
  /\ NoGoal \notin Goals
  /\ None \notin Workspaces /\ IsFiniteSet(Workspaces)
  /\ Paths \subseteq Seq(STRING)
  /\ Ttl \subseteq Nat \ {0}
  /\ FullTtl \in Nat \ {0}
  /\ MaxLeases \in Nat /\ MaxTime \in Nat /\ MaxFaults \in Nat

VARIABLES
  ws,       \* the rows of workspaces
  prepare,  \* the await at which each createWorkspace call is
  tree,     \* the worktrees on disk
  unclean,  \* worktrees of which git status reports changes
  checks,   \* workspaces whose check definitions are registered
  leases,   \* the rows of territory_leases in the order of their insertion
  current,  \* agents.current_workspace_id
  goal,     \* goals.state
  session,  \* the workspace to which the goal's live session is bound
  write,    \* the write under way, of the sessions one at a time
  now,
  faults,   \* failures of git, and restarts
  spoiled   \* history: preparations cut short by git, a crash or a start meanwhile

rows == <<ws, current, leases>>
disk == <<tree, unclean>>
vars == <<rows, disk, prepare, checks, goal, session, write, now, faults, spoiled>>

Modes == {"read", "write"}

Workspace ==
  [goal  : Goals \cup {NoGoal},
   mode  : Modes,
   state : {"none", "ready", "dirty", "released", "quarantined"},
   born  : Nat]  \* its place in the order of created_at

NoRow == [goal |-> NoGoal, mode |-> "read", state |-> "none", born |-> 0]

Lease == [agent : Agents, ws : Workspaces, path : Paths, mode : Modes,
          expires : Nat, released : BOOLEAN]

\* "unregistering", "inspecting", "removing", "removed": the call has failed
\* and cleans up.
Awaits == {"resolving", "added", "unregistering", "inspecting", "removing", "removed"}

NoWrite == [ws |-> None, at |-> "none"]

TerritoryTypeOK ==
  /\ ws \in [Workspaces -> Workspace]
  /\ prepare \in [Workspaces -> {"unused", "over"} \cup Awaits]
  /\ tree \subseteq Workspaces /\ unclean \subseteq Workspaces
  /\ checks \subseteq Workspaces
  /\ leases \in Seq(Lease)
  /\ current \in [Agents -> Workspaces \cup {None}]
  /\ goal \in [Goals -> GoalStates]
  /\ session \in [Goals -> Workspaces \cup {None}]
  /\ \A g \in Goals : goal[g] = "running" <=> session[g] # None
  /\ write \in [ws : Workspaces \cup {None}, at : {"none", "begun", "landed"}]
  /\ now \in Nat /\ faults \in Nat
  /\ spoiled \subseteq Workspaces

Init ==
  /\ ws = [w \in Workspaces |-> NoRow]
  /\ prepare = [w \in Workspaces |-> "unused"]
  /\ tree = {} /\ unclean = {} /\ checks = {}
  /\ leases = <<>>
  /\ current = [a \in Agents |-> None]
  /\ goal = [g \in Goals |-> "draft"]
  /\ session = [g \in Goals |-> None]
  /\ write = NoWrite
  /\ now = 0 /\ faults = 0
  /\ spoiled = {}

-----------------------------------------------------------------------------
(* Territory *)

\* Territory t is path p or a directory above it.
Covers(t, p) == Len(t) <= Len(p) /\ \A i \in 1 .. Len(t) : t[i] = p[i]

\* Seeded fault: a path meets only the territory it lies in.
OneWayOverlap(p, q) == Covers(q, p)

PathsOverlap(p, q) == Covers(p, q) \/ Covers(q, p)

InForce(l) == ~l.released /\ l.expires > now

Conflicts(l, agent, path, mode) ==
  /\ InForce(l)
  /\ PathsOverlap(path, l.path)
  /\ "write" \in {mode, l.mode}
  /\ l.agent # agent

Refused(agent, path, mode) ==
  \E i \in DOMAIN leases : Conflicts(leases[i], agent, path, mode)

\* A grant also marks the leases that have lapsed.
Granted(w, path, mode, ttl) ==
  LET agent == Owner[ws[w].goal]
      swept == [i \in DOMAIN leases |->
                  [leases[i] EXCEPT !.released = @ \/ leases[i].expires <= now]]
  IN /\ ~Refused(agent, path, mode)
     /\ Len(leases) < MaxLeases
     /\ leases' = Append(swept, [agent |-> agent, ws |-> w, path |-> path, mode |-> mode,
                                 expires |-> now + ttl, released |-> FALSE])

\* The leases of a workspace are given up.
GiveUp(w) ==
  leases' = [i \in DOMAIN leases |->
               [leases[i] EXCEPT !.released = @ \/ leases[i].ws = w]]

\* Seeded fault: a lease for reading lets its agent write.
OnAnyLeaseMayWrite(w, agent, path) ==
  \E i \in DOMAIN leases : /\ leases[i].ws = w /\ leases[i].agent = agent
                           /\ InForce(leases[i])
                           /\ Covers(leases[i].path, path)

\* The agent may write to the path in its workspace.
MayWrite(w, agent, path) ==
  \E i \in DOMAIN leases : /\ leases[i].ws = w /\ leases[i].agent = agent
                           /\ InForce(leases[i])
                           /\ Covers(leases[i].path, path)
                           /\ leases[i].mode = "write"

-----------------------------------------------------------------------------
(* Preparing a workspace *)

Active(w) == ws[w].state \in {"ready", "dirty"}
ActiveOf(agent) == {w \in Workspaces : Active(w) /\ Owner[ws[w].goal] = agent}

\* Seeded fault: a workspace that has been written to leaves the index.
IndexOfReady(w, agent) ==
  \E v \in ActiveOf(agent) \ {w} : ws[v].state = "ready"

\* one_active_workspace_per_agent would refuse workspace w becoming active.
IndexRefuses(w, agent) == ActiveOf(agent) \ {w} # {}

At(w, point) == prepare[w] = point
Goes(w, point) == prepare' = [prepare EXCEPT ![w] = point]
Fault == faults < MaxFaults /\ faults' = faults + 1

\* The look at the agent's workspaces comes before the first await.
PrepareBegins(w, g, m) ==
  /\ At(w, "unused")
  /\ ActiveOf(Owner[g]) = {}
  /\ ws' = [ws EXCEPT ![w] = [NoRow EXCEPT !.goal = g, !.mode = m]]
  /\ Goes(w, "resolving")
  /\ UNCHANGED <<current, leases, disk, checks, goal, session, write, now, faults, spoiled>>

\* A filter of git may leave a fresh worktree unclean.
TreeAdded(w) ==
  /\ At(w, "resolving")
  /\ tree' = tree \cup {w}
  /\ \/ UNCHANGED <<unclean, faults>>
     \/ unclean' = unclean \cup {w} /\ Fault
  /\ Goes(w, "added")
  /\ UNCHANGED <<rows, checks, goal, session, write, now, spoiled>>

\* The repository or the revision is refused: the call leaves nothing.
PrepareRefused(w) ==
  /\ At(w, "resolving")
  /\ Goes(w, "unused")
  /\ ws' = [ws EXCEPT ![w] = NoRow]
  /\ UNCHANGED <<current, leases, disk, checks, goal, session, write, now, faults, spoiled>>

\* The fresh worktree cannot be examined: nothing undoes "worktree add".
TreeAbandoned(w) ==
  /\ At(w, "added")
  /\ Fault
  /\ Goes(w, "over")
  /\ spoiled' = spoiled \cup {w}
  /\ UNCHANGED <<rows, disk, checks, goal, session, write, now>>

\* The transaction that inserts the row.
Registers(w) ==
  LET agent == Owner[ws[w].goal]
  IN /\ At(w, "added")
     /\ ~IndexRefuses(w, agent)
     /\ ws' = [ws EXCEPT ![w].state = "ready",
                         ![w].born = 1 + Cardinality({v \in Workspaces : ws[v].born > 0})]
     /\ current' = [current EXCEPT ![agent] = w]

Prepared(w) ==
  /\ Registers(w)
  /\ \E path \in Paths, ttl \in Ttl : Granted(w, path, ws[w].mode, ttl)
  /\ checks' = checks \cup {w}
  /\ Goes(w, "over")
  /\ UNCHANGED <<disk, goal, session, write, now, faults, spoiled>>

\* The row is inserted; the territory is refused, or it is granted and a check
\* is refused.
NotPrepared(w) ==
  /\ Registers(w)
  /\ \E path \in Paths :
       \/ Refused(Owner[ws[w].goal], path, ws[w].mode) /\ UNCHANGED leases
       \/ \E ttl \in Ttl : Granted(w, path, ws[w].mode, ttl)
  /\ Goes(w, "inspecting")
  /\ UNCHANGED <<disk, checks, goal, session, write, now, faults, spoiled>>

NotRegistered(w) ==
  /\ At(w, "added")
  /\ IndexRefuses(w, Owner[ws[w].goal])
  /\ Goes(w, "unregistering")
  /\ UNCHANGED <<rows, disk, checks, goal, session, write, now, faults, spoiled>>

\* Seeded fault: the catch of the registration leaves the worktree.
TreeKept(w) ==
  /\ At(w, "unregistering")
  /\ Goes(w, "over")
  /\ UNCHANGED <<rows, disk, checks, goal, session, write, now, faults, spoiled>>

TreeDropped(w) ==
  /\ At(w, "unregistering")
  /\ tree' = tree \ {w} /\ unclean' = unclean \ {w}
  /\ Goes(w, "unused")
  /\ ws' = [ws EXCEPT ![w] = NoRow]
  /\ UNCHANGED <<current, leases, checks, goal, session, write, now, faults, spoiled>>

\* releaseWorkspace: git status has answered.
Inspected(w) ==
  /\ At(w, "inspecting")
  /\ IF w \in unclean
       THEN /\ ws' = [ws EXCEPT ![w].state = "quarantined"]
            /\ Goes(w, "over")
       ELSE UNCHANGED ws /\ Goes(w, "removing")
  /\ UNCHANGED <<current, leases, disk, checks, goal, session, write, now, faults, spoiled>>

\* git refuses to remove an unclean worktree.
TreeRemoved(w) ==
  /\ At(w, "removing") /\ w \notin unclean
  /\ tree' = tree \ {w}
  /\ Goes(w, "removed")
  /\ UNCHANGED <<rows, unclean, checks, goal, session, write, now, faults, spoiled>>

Released(w) ==
  /\ At(w, "removed")
  /\ ws' = [ws EXCEPT ![w].state = "released"]
  /\ GiveUp(w)
  /\ current' = [a \in Agents |-> IF current[a] = w THEN None ELSE current[a]]
  /\ Goes(w, "over")
  /\ UNCHANGED <<disk, checks, goal, session, write, now, faults, spoiled>>

\* A git command of the clean-up fails: the workspace is left as it is.
CleanupFails(w) ==
  /\ prepare[w] \in {"unregistering", "inspecting", "removing"}
  /\ Fault
  /\ Goes(w, "over")
  /\ spoiled' = spoiled \cup {w}
  /\ UNCHANGED <<rows, disk, checks, goal, session, write, now>>

-----------------------------------------------------------------------------
(* The owner's requests about a goal *)

HasSession(agent) == \E g \in Goals : Owner[g] = agent /\ session[g] # None

\* Seeded fault: a goal that writes may start without a workspace.
DispatchUnbound(g) ==
  LET w == current[Owner[g]]
  IN /\ ~HasSession(Owner[g])
     /\ session' = [session EXCEPT ![g] = w]
     /\ goal' = [goal EXCEPT ![g] = "running"]
     /\ spoiled' = spoiled \cup {v \in Workspaces : v = w /\ ~At(v, "over")}

\* supervisor.start: the agent's current workspace must be the goal's.
Dispatch(g) ==
  LET w == current[Owner[g]]
  IN /\ ~HasSession(Owner[g])
     /\ w # None /\ ws[w].goal = g /\ Active(w)
     /\ session' = [session EXCEPT ![g] = w]
     /\ goal' = [goal EXCEPT ![g] = "running"]
     /\ spoiled' = spoiled \cup {v \in Workspaces : v = w /\ ~At(v, "over")}

\* The start is refused, or the process does not come up.
DispatchFails(g) ==
  /\ goal' = [goal EXCEPT ![g] = "failed"]
  /\ UNCHANGED <<session, spoiled>>

Start(g) ==
  /\ goal[g] = "draft"
  /\ Dispatch(g) \/ DispatchFails(g)
  /\ UNCHANGED <<rows, disk, prepare, checks, write, now, faults>>

LeasesOf(w) == {i \in DOMAIN leases : leases[i].ws = w}

\* An expired lease is renewed on the territory of the latest one.
Renewed(w) ==
  IF \E i \in LeasesOf(w) : InForce(leases[i])
    THEN UNCHANGED leases
    ELSE \E i \in LeasesOf(w) :
           /\ \A j \in LeasesOf(w) : j <= i
           /\ Granted(w, leases[i].path, leases[i].mode, FullTtl)

Retry(g) ==
  /\ goal[g] \in Retryable
  /\ ~HasSession(Owner[g])
  /\ UNCHANGED <<ws, current>>
  /\ \E w \in Workspaces : ws[w].goal = g /\ Active(w) /\ Renewed(w)
  /\ Dispatch(g) \/ DispatchFails(g)
  /\ UNCHANGED <<disk, prepare, checks, write, now, faults>>

SessionEnds(g) ==
  /\ session[g] # None
  /\ session' = [session EXCEPT ![g] = None]
  /\ goal' = [goal EXCEPT ![g] = "failed"]
  /\ UNCHANGED <<rows, disk, prepare, checks, write, now, faults, spoiled>>

\* rollbackGoal finds the latest workspace that is not released.
IsLatest(w, g) ==
  LET kept == {v \in Workspaces : ws[v].goal = g /\ ws[v].state \notin {"none", "released"}}
  IN w \in kept /\ \A v \in kept : ws[v].born <= ws[w].born

\* Seeded fault: the leases are left to expire.
QuarantineKeepingLeases(w) ==
  IF ws[w].state = "quarantined"
    THEN UNCHANGED rows
    ELSE /\ ws' = [ws EXCEPT ![w].state = "quarantined"]
         /\ current' = [a \in Agents |-> IF current[a] = w THEN None ELSE current[a]]
         /\ UNCHANGED leases

Quarantine(w) ==
  IF ws[w].state = "quarantined"
    THEN UNCHANGED rows
    ELSE /\ ws' = [ws EXCEPT ![w].state = "quarantined"]
         /\ GiveUp(w)
         /\ current' = [a \in Agents |-> IF current[a] = w THEN None ELSE current[a]]

Rollback(g) ==
  /\ goal[g] \in Abandonable
  /\ session' = [session EXCEPT ![g] = None]
  /\ goal' = [goal EXCEPT ![g] = "rolled_back"]
  /\ \/ \E w \in Workspaces : IsLatest(w, g) /\ Quarantine(w)
     \/ (\A w \in Workspaces : ~IsLatest(w, g)) /\ UNCHANGED rows
  /\ UNCHANGED <<disk, prepare, checks, write, now, faults, spoiled>>

-----------------------------------------------------------------------------
(* The session's writes; a write outlives the session that asked for it *)

WriteBegins(g, path) ==
  LET w == session[g]
  IN /\ w # None /\ write = NoWrite
     /\ Active(w) /\ ws[w].mode = "write"
     /\ MayWrite(w, Owner[g], path)
     /\ write' = [ws |-> w, at |-> "begun"]
     /\ UNCHANGED <<rows, disk, prepare, checks, goal, session, now, faults, spoiled>>

\* The directory is made again if it has gone.
WriteLands ==
  /\ write.at = "begun"
  /\ tree' = tree \cup {write.ws} /\ unclean' = unclean \cup {write.ws}
  /\ write' = [write EXCEPT !.at = "landed"]
  /\ UNCHANGED <<rows, prepare, checks, goal, session, now, faults, spoiled>>

\* A temporary file may be left.
WriteFails ==
  /\ write.at = "begun"
  /\ \E left \in SUBSET ({write.ws} \cap tree) : unclean' = unclean \cup left
  /\ write' = NoWrite
  /\ UNCHANGED <<rows, tree, prepare, checks, goal, session, now, faults, spoiled>>

\* The row is set to 'dirty' whatever it was, unless the index refuses.
WriteRecorded ==
  LET w == write.ws
  IN /\ write.at = "landed"
     /\ ws' = IF IndexRefuses(w, Owner[ws[w].goal])
                THEN ws ELSE [ws EXCEPT ![w].state = "dirty"]
     /\ write' = NoWrite
     /\ UNCHANGED <<current, leases, disk, prepare, checks, goal, session, now, faults,
                    spoiled>>

-----------------------------------------------------------------------------
(* Time and restarts *)

Tick ==
  /\ now < MaxTime
  /\ now' = now + 1
  /\ UNCHANGED <<rows, disk, prepare, checks, goal, session, write, faults, spoiled>>

\* Calls, sessions and writes under way are lost with the controller.
ControllerDies ==
  /\ Fault
  /\ prepare' = [w \in Workspaces |-> IF At(w, "unused") THEN "unused" ELSE "over"]
  /\ spoiled' = spoiled \cup {w \in Workspaces : prepare[w] \in Awaits}
  /\ goal' = [g \in Goals |-> IF session[g] # None THEN "blocked" ELSE goal[g]]
  /\ session' = [g \in Goals |-> None]
  /\ write' = NoWrite
  /\ UNCHANGED <<disk, checks, now>>

Restart == ControllerDies /\ UNCHANGED rows

\* It dies between two of the transactions of a preparation.
DiesPreparing(w) ==
  /\ Registers(w)
  /\ \/ UNCHANGED leases
     \/ \E path \in Paths, ttl \in Ttl : Granted(w, path, ws[w].mode, ttl)
  /\ ControllerDies

Preparing(w) ==
  \/ \E g \in Goals, m \in Modes : PrepareBegins(w, g, m)
  \/ PrepareRefused(w) \/ TreeAdded(w) \/ TreeAbandoned(w)
  \/ Prepared(w) \/ NotPrepared(w) \/ NotRegistered(w) \/ DiesPreparing(w)
CleaningUp(w) ==
  TreeDropped(w) \/ Inspected(w) \/ TreeRemoved(w) \/ Released(w) \/ CleanupFails(w)
Working(g) ==
  \/ Start(g) \/ Retry(g) \/ SessionEnds(g) \/ Rollback(g)
  \/ \E path \in Paths : WriteBegins(g, path)

Next ==
  \/ \E w \in Workspaces : Preparing(w) \/ CleaningUp(w)
  \/ \E g \in Goals : Working(g)
  \/ WriteLands \/ WriteFails \/ WriteRecorded
  \/ Tick
  \/ Restart

Spec == Init /\ [][Next]_vars

-----------------------------------------------------------------------------
(* Properties *)

\* Two agents never hold leases in force on overlapping territory when one of
\* the leases is for writing, whatever expiries, renewals, quarantines and
\* releases lie between the two grants.
ExclusiveTerritory ==
  \A i, j \in DOMAIN leases :
    InForce(leases[j]) =>
      ~Conflicts(leases[i], leases[j].agent, leases[j].path, leases[j].mode)

\* An agent has at most one active workspace, though two preparations may pass
\* the look at its workspaces together and a late write may revive one.
OneActiveWorkspace ==
  \A v, w \in Workspaces :
    Active(v) /\ Active(w) /\ Owner[ws[v].goal] = Owner[ws[w].goal] => v = w

\* A workspace that was released, or prepared and then quarantined, has given
\* up its leases, though retries, rollbacks, late writes and the undoing of its
\* preparation went on at once.
SettledHoldsNothing ==
  \A w \in Workspaces :
    \/ ws[w].state = "released"
    \/ ws[w].state = "quarantined" /\ w \in checks
    => \A i \in LeasesOf(w) : leases[i].released

\* A preparation that is over has left a workspace with territory and checks,
\* or nothing: no worktree, no active row, no lease in force.  Except when git
\* or a crash cut it short, when a session was started on the workspace before
\* it was over, and when the fresh worktree was unclean and is kept.
PreparationIsAllOrNothing ==
  \A w \in Workspaces : At(w, "over") /\ w \notin spoiled =>
    \/ w \in checks /\ w \in tree /\ LeasesOf(w) # {}
    \/ /\ w \notin tree /\ ~Active(w)
       /\ \A i \in LeasesOf(w) : ~InForce(leases[i])
    \/ ws[w].state = "quarantined" /\ w \in unclean

\* assertLease: the leases never let two agents begin to write to one path of
\* the repository, however their territories overlap, and also when one of them
\* has retried after its lease lapsed.
NeverBothMayWrite ==
  \A p \in Paths :
    LET writers == {a \in Agents : \E w \in Workspaces : MayWrite(w, a, p)}
    IN \A a, b \in writers : a = b
=============================================================================

-------------------------- MODULE Territory_proofs --------------------------
(***************************************************************************)
(* Theorems about Territory, for any number of agents, goals, workspaces   *)
(* and leases, any territory paths and any clock.                          *)
(***************************************************************************)
EXTENDS Territory, TLAPS, FiniteSetTheorems

\* What the type says of a row, of a call and of a lease.
RowsAreBound ==
  \A w \in Workspaces :
    /\ prepare[w] # "unused" => ws[w].goal \in Goals
    /\ prepare[w] \in {"unused", "resolving", "added", "unregistering"}
         => ws[w].state = "none"

\* Only a workspace with a row is written to.
WriteHasRow ==
  write.at # "none" => write.ws \in Workspaces /\ ws[write.ws].state # "none"

\* The checks are registered at the end of a preparation.
ChecksComeLast == \A w \in checks : prepare[w] = "over"

IInv ==
  /\ TerritoryTypeOK
  /\ RowsAreBound
  /\ WriteHasRow
  /\ ChecksComeLast
  /\ ExclusiveTerritory
  /\ OneActiveWorkspace
  /\ SettledHoldsNothing

-----------------------------------------------------------------------------
(* What a step does to the leases *)

LeaseStep ==
  \/ leases' = leases /\ now' \in Nat /\ now' >= now
  \/ now' = now /\ \E w \in Workspaces : GiveUp(w)
  \/ /\ now' = now
     /\ \E w \in Workspaces, path \in Paths, mode \in Modes, ttl \in Nat :
          ws[w].goal \in Goals /\ Granted(w, path, mode, ttl)

LEMMA LeasesChange ==
  ASSUME TerritoryTypeOK, RowsAreBound, [Next]_vars
  PROVE  LeaseStep
<1> USE DEF LeaseStep
<1>0. now \in Nat
  BY DEF TerritoryTypeOK
<1>1. ASSUME NEW w \in Workspaces, Preparing(w) PROVE LeaseStep
  <2>1. ASSUME Registers(w),
               \/ UNCHANGED leases
               \/ \E path \in Paths, ttl \in Ttl : Granted(w, path, ws[w].mode, ttl),
               now' = now
        PROVE  LeaseStep
    <3>1. ws[w].goal \in Goals /\ ws[w].mode \in Modes
      BY <2>1 DEF Registers, At, RowsAreBound, TerritoryTypeOK, Workspace
    <3>2. Ttl \subseteq Nat
      BY TerritoryAssumption
    <3> QED BY <1>0, <2>1, <3>1, <3>2
  <2>2. CASE \E g \in Goals, m \in Modes : PrepareBegins(w, g, m)
    BY <1>0, <2>2 DEF PrepareBegins
  <2>3. CASE PrepareRefused(w) \/ TreeAdded(w) \/ TreeAbandoned(w) \/ NotRegistered(w)
    BY <1>0, <2>3 DEF PrepareRefused, TreeAdded, TreeAbandoned, NotRegistered, Fault, rows
  <2>4. CASE Prepared(w)
    BY <2>1, <2>4 DEF Prepared
  <2>5. CASE NotPrepared(w)
    BY <2>1, <2>5 DEF NotPrepared
  <2>6. CASE DiesPreparing(w)
    BY <2>1, <2>6 DEF DiesPreparing, ControllerDies, Fault
  <2> QED BY <1>1, <2>2, <2>3, <2>4, <2>5, <2>6 DEF Preparing
<1>2. ASSUME NEW w \in Workspaces, CleaningUp(w) PROVE LeaseStep
  BY <1>0, <1>2
  DEF CleaningUp, TreeDropped, Inspected, TreeRemoved, Released, CleanupFails, rows
<1>3. ASSUME NEW g \in Goals, Working(g) PROVE LeaseStep
  <2>1. CASE Start(g) \/ SessionEnds(g) \/ \E path \in Paths : WriteBegins(g, path)
    BY <1>0, <2>1 DEF Start, SessionEnds, WriteBegins, rows
  <2>2. CASE Retry(g)
    <3>1. PICK w \in Workspaces : ws[w].goal = g /\ Renewed(w)
      BY <2>2 DEF Retry
    <3>2. ASSUME NEW i \in LeasesOf(w) PROVE leases[i].path \in Paths /\ leases[i].mode \in Modes
      <4>1. leases \in Seq(Lease) /\ i \in DOMAIN leases
        BY DEF LeasesOf, TerritoryTypeOK
      <4>2. leases[i] \in Lease
        BY <4>1
      <4> QED BY <4>2 DEF Lease
    <3>3. FullTtl \in Nat
      BY TerritoryAssumption
    <3>4. now' = now
      BY <2>2 DEF Retry
    <3> QED BY <1>0, <3>1, <3>2, <3>3, <3>4 DEF Renewed
  <2>3. CASE Rollback(g)
    BY <1>0, <2>3 DEF Rollback, Quarantine, rows
  <2> QED BY <1>3, <2>1, <2>2, <2>3 DEF Working
<1>4. CASE WriteLands \/ WriteFails \/ WriteRecorded
  BY <1>0, <1>4 DEF WriteLands, WriteFails, WriteRecorded, rows
<1>5. CASE Tick \/ Restart
  BY <1>0, <1>5 DEF Tick, Restart, ControllerDies, Fault, rows
<1>6. CASE UNCHANGED vars
  BY <1>0, <1>6 DEF vars, rows
<1> QED BY <1>1, <1>2, <1>3, <1>4, <1>5, <1>6 DEF Next

-----------------------------------------------------------------------------
(* Territory *)

\* Of lease k at most the release has been added in l.
Aged(k, l) == /\ l.agent = k.agent /\ l.ws = k.ws /\ l.path = k.path /\ l.mode = k.mode
              /\ l.expires = k.expires
              /\ k.released => l.released

\* A grant appends a row.
LEMMA GrantedLeases ==
  ASSUME TerritoryTypeOK, NEW w \in Workspaces, NEW path \in Paths, NEW mode \in Modes,
         NEW ttl \in Nat, ws[w].goal \in Goals, Granted(w, path, mode, ttl)
  PROVE  /\ leases' \in Seq(Lease)
         /\ Len(leases) \in Nat /\ DOMAIN leases = 1 .. Len(leases)
         /\ DOMAIN leases' = DOMAIN leases \cup {Len(leases) + 1}
         /\ leases'[Len(leases) + 1].agent = Owner[ws[w].goal]
         /\ leases'[Len(leases) + 1].ws = w
         /\ leases'[Len(leases) + 1].path = path
         /\ leases'[Len(leases) + 1].mode = mode
         /\ \A i \in DOMAIN leases : Aged(leases[i], leases'[i])
<1> DEFINE swept == [i \in DOMAIN leases |->
                       [leases[i] EXCEPT !.released = @ \/ leases[i].expires <= now]]
           new == [agent |-> Owner[ws[w].goal], ws |-> w, path |-> path, mode |-> mode,
                   expires |-> now + ttl, released |-> FALSE]
<1>1. leases \in Seq(Lease) /\ now \in Nat
  BY DEF TerritoryTypeOK
<1>2. \A i \in DOMAIN leases : leases[i] \in Lease
  BY <1>1
<1>3. \A i \in DOMAIN leases : swept[i] \in Lease /\ Aged(leases[i], swept[i])
  BY <1>2 DEF Lease, Aged
<1>4. DOMAIN leases = 1 .. Len(leases) /\ Len(leases) \in Nat
  BY <1>1
<1>5. swept \in Seq(Lease) /\ Len(swept) = Len(leases)
  <2>1. swept \in [1 .. Len(leases) -> Lease]
    BY <1>3, <1>4
  <2> HIDE DEF swept
  <2> QED BY <1>4, <2>1
<1>6. Owner[ws[w].goal] \in Agents
  BY TerritoryAssumption
<1>7. new \in Lease
  BY <1>1, <1>6 DEF Lease
<1>8. leases' = Append(swept, new)
  BY DEF Granted
<1>9. /\ new.agent = Owner[ws[w].goal] /\ new.ws = w
      /\ new.path = path /\ new.mode = mode
  OBVIOUS
<1> HIDE DEF swept, new
<1>10. /\ leases' \in Seq(Lease) /\ Len(leases') = Len(leases) + 1
       /\ leases'[Len(leases) + 1] = new
       /\ \A i \in 1 .. Len(leases) : leases'[i] = swept[i]
  BY <1>4, <1>5, <1>7, <1>8
<1>11. DOMAIN leases' = DOMAIN leases \cup {Len(leases) + 1}
  BY <1>4, <1>10
<1>12. \A i \in DOMAIN leases : Aged(leases[i], leases'[i])
  BY <1>3, <1>4, <1>10
<1> QED BY <1>4, <1>9, <1>10, <1>11, <1>12

LEMMA GivenUpLeases ==
  ASSUME TerritoryTypeOK, NEW w \in Workspaces, GiveUp(w)
  PROVE  /\ leases' \in Seq(Lease)
         /\ DOMAIN leases' = DOMAIN leases
         /\ \A i \in DOMAIN leases : /\ Aged(leases[i], leases'[i])
                                     /\ leases[i].ws = w => leases'[i].released
<1>1. leases \in Seq(Lease)
  BY DEF TerritoryTypeOK
<1>2. \A i \in DOMAIN leases : leases[i] \in Lease
  BY <1>1
<1>3. \A i \in DOMAIN leases : [leases[i] EXCEPT !.released = @ \/ leases[i].ws = w] \in Lease
  BY <1>2 DEF Lease
<1>4. DOMAIN leases = 1 .. Len(leases) /\ Len(leases) \in Nat
  BY <1>1
<1>5. leases' \in Seq(Lease) /\ DOMAIN leases' = DOMAIN leases
  BY <1>3, <1>4 DEF GiveUp
<1>6. \A i \in DOMAIN leases :
        leases'[i] = [leases[i] EXCEPT !.released = @ \/ leases[i].ws = w]
  BY DEF GiveUp
<1>7. ASSUME NEW k \in Lease, NEW l, l = [k EXCEPT !.released = @ \/ k.ws = w]
      PROVE  Aged(k, l) /\ (k.ws = w => l.released)
  BY <1>7 DEF Aged, Lease
<1> QED BY <1>2, <1>5, <1>6, <1>7

LEMMA LeasesAreTyped ==
  ASSUME TerritoryTypeOK, LeaseStep
  PROVE  leases' \in Seq(Lease) /\ now' \in Nat
BY GrantedLeases, GivenUpLeases DEF LeaseStep, TerritoryTypeOK

Meet(k, l) == /\ PathsOverlap(l.path, k.path)
              /\ "write" \in {l.mode, k.mode}
              /\ k.agent # l.agent

InForceAfter(l) == ~l.released /\ l.expires > now'

LEMMA AgedLeases ==
  ASSUME now \in Nat, now' \in Nat, now' >= now,
         NEW k \in Lease, NEW k2 \in Lease, NEW l, NEW l2, Aged(k, l), Aged(k2, l2)
  PROVE  /\ InForceAfter(l) => InForce(k)
         /\ Meet(l, l2) => Meet(k, k2)
<1>1. InForceAfter(l) => InForce(k)
  BY DEF Aged, InForce, InForceAfter, Lease
<1>2. Meet(l, l2) => Meet(k, k2)
  BY DEF Aged, Meet
<1> QED BY <1>1, <1>2

LEMMA ExclusiveIsKept ==
  ASSUME TerritoryTypeOK, ExclusiveTerritory, LeaseStep
  PROVE  ExclusiveTerritory'
<1>0. now \in Nat /\ now' \in Nat /\ now' >= now
  BY LeasesAreTyped DEF LeaseStep, TerritoryTypeOK
<1>01. \A i \in DOMAIN leases : leases[i] \in Lease
  BY DEF TerritoryTypeOK
<1>1. \A i, j \in DOMAIN leases :
        InForce(leases[i]) /\ InForce(leases[j]) => ~Meet(leases[i], leases[j])
  BY DEF ExclusiveTerritory, Conflicts, Meet
<1>2. SUFFICES ASSUME NEW i \in DOMAIN leases', NEW j \in DOMAIN leases',
                      InForceAfter(leases'[i]), InForceAfter(leases'[j])
               PROVE  ~Meet(leases'[i], leases'[j])
  BY DEF ExclusiveTerritory, Conflicts, Meet, InForce, InForceAfter
<1>3. ASSUME i \in DOMAIN leases, j \in DOMAIN leases,
             Aged(leases[i], leases'[i]), Aged(leases[j], leases'[j])
      PROVE  ~Meet(leases'[i], leases'[j])
  <2>1. InForce(leases[i]) /\ InForce(leases[j])
    BY <1>0, <1>01, <1>2, <1>3, AgedLeases
  <2>2. ~Meet(leases[i], leases[j])
    BY <1>1, <1>3, <2>1
  <2> QED BY <1>0, <1>01, <1>3, <2>2, AgedLeases
<1>4. CASE leases' = leases
  BY <1>3, <1>4 DEF Aged
<1>5. ASSUME NEW w \in Workspaces, GiveUp(w)
      PROVE  ~Meet(leases'[i], leases'[j])
  BY <1>3, <1>5, GivenUpLeases
<1>6. ASSUME NEW w \in Workspaces, NEW path \in Paths, NEW mode \in Modes, NEW ttl \in Nat,
             ws[w].goal \in Goals, Granted(w, path, mode, ttl)
      PROVE  ~Meet(leases'[i], leases'[j])
  <2> DEFINE n == Len(leases) + 1
             agent == Owner[ws[w].goal]
  <2>1. /\ DOMAIN leases' = DOMAIN leases \cup {n}
        /\ \A k \in DOMAIN leases : Aged(leases[k], leases'[k])
        /\ leases'[n].path = path /\ leases'[n].mode = mode /\ leases'[n].agent = agent
    BY <1>6, GrantedLeases
  <2>2. ASSUME NEW k \in DOMAIN leases, InForceAfter(leases'[k])
        PROVE  ~ /\ PathsOverlap(path, leases[k].path)
                 /\ "write" \in {mode, leases[k].mode}
                 /\ leases[k].agent # agent
    <3>1. InForce(leases[k])
      BY <1>0, <1>01, <2>1, <2>2, AgedLeases
    <3> QED BY <1>6, <3>1 DEF Granted, Refused, Conflicts
  <2> HIDE DEF n, agent
  <2>3. CASE i \in DOMAIN leases /\ j \in DOMAIN leases
    BY <1>3, <2>1, <2>3
  <2>4. CASE i = n /\ j \in DOMAIN leases
    BY <1>2, <2>1, <2>2, <2>4 DEF Meet, PathsOverlap, Aged
  <2>5. CASE i \in DOMAIN leases /\ j = n
    BY <1>2, <2>1, <2>2, <2>5 DEF Meet, PathsOverlap, Aged
  <2>6. CASE i = n /\ j = n
    BY <2>6 DEF Meet
  <2> QED BY <2>1, <2>3, <2>4, <2>5, <2>6
<1> QED BY <1>4, <1>5, <1>6 DEF LeaseStep

-----------------------------------------------------------------------------
(* The other parts of the invariant *)

LEMMA BornIsNatural == Cardinality({v \in Workspaces : ws[v].born > 0}) \in Nat
BY TerritoryAssumption, FS_Subset, FS_CardinalityType

\* What a registration does, its leases and its call apart.
LEMMA RegisteredRow ==
  ASSUME TerritoryTypeOK, RowsAreBound, NEW w \in Workspaces, Registers(w)
  PROVE  /\ prepare[w] = "added" /\ ws[w].goal \in Goals /\ ws[w].state = "none"
         /\ ws' \in [Workspaces -> Workspace]
         /\ current' \in [Agents -> Workspaces \cup {None}]
         /\ \A v \in Workspaces : v # w => ws'[v] = ws[v]
         /\ ws'[w].goal = ws[w].goal /\ ws'[w].state = "ready"
         /\ ActiveOf(Owner[ws[w].goal]) \subseteq {w}
<1>1. ws[w] \in Workspace /\ ws \in [Workspaces -> Workspace]
  BY DEF TerritoryTypeOK
<1>2. PICK n \in Nat : ws' = [ws EXCEPT ![w].state = "ready", ![w].born = n]
  <2>1. 1 + Cardinality({v \in Workspaces : ws[v].born > 0}) \in Nat
    BY BornIsNatural
  <2> QED BY <2>1 DEF Registers
<1>3. /\ ws' \in [Workspaces -> Workspace]
      /\ \A v \in Workspaces : v # w => ws'[v] = ws[v]
      /\ ws'[w].goal = ws[w].goal /\ ws'[w].state = "ready"
  BY <1>1, <1>2 DEF Workspace
<1>4. prepare[w] = "added" /\ ws[w].goal \in Goals /\ ws[w].state = "none"
  BY DEF Registers, At, RowsAreBound
<1>5. current' \in [Agents -> Workspaces \cup {None}]
  BY DEF Registers, TerritoryTypeOK
<1>6. ActiveOf(Owner[ws[w].goal]) \subseteq {w}
  BY DEF Registers, IndexRefuses
<1> QED BY <1>3, <1>4, <1>5, <1>6

\* The type of everything but the leases and the clock.
RestTyped ==
  /\ ws \in [Workspaces -> Workspace]
  /\ prepare \in [Workspaces -> {"unused", "over"} \cup Awaits]
  /\ tree \subseteq Workspaces /\ unclean \subseteq Workspaces
  /\ checks \subseteq Workspaces
  /\ current \in [Agents -> Workspaces \cup {None}]
  /\ goal \in [Goals -> GoalStates]
  /\ session \in [Goals -> Workspaces \cup {None}]
  /\ \A g \in Goals : goal[g] = "running" <=> session[g] # None
  /\ write \in [ws : Workspaces \cup {None}, at : {"none", "begun", "landed"}]
  /\ faults \in Nat
  /\ spoiled \subseteq Workspaces

LEMMA NoRowTyped == NoRow \in Workspace
BY DEF NoRow, Workspace, Modes

LEMMA NewStateTyped ==
  ASSUME ws \in [Workspaces -> Workspace], NEW w \in Workspaces,
         NEW s \in {"dirty", "released", "quarantined"}
  PROVE  [ws EXCEPT ![w].state = s] \in [Workspaces -> Workspace]
BY DEF Workspace

LEMMA TypeIsKept ==
  ASSUME TerritoryTypeOK, RowsAreBound, WriteHasRow, [Next]_vars
  PROVE  TerritoryTypeOK'
<1>0. RestTyped
  BY DEF TerritoryTypeOK, RestTyped
<1> SUFFICES RestTyped'
  BY LeasesChange, LeasesAreTyped DEF RestTyped, TerritoryTypeOK
<1>1. ASSUME NEW w \in Workspaces, Preparing(w) PROVE RestTyped'
  <2>1. CASE \E g \in Goals, m \in Modes : PrepareBegins(w, g, m)
    <3>1. ws' \in [Workspaces -> Workspace]
      <4>1. PICK g \in Goals, m \in Modes : PrepareBegins(w, g, m)
        BY <2>1
      <4>2. [NoRow EXCEPT !.goal = g, !.mode = m] \in Workspace
        BY DEF NoRow, Workspace
      <4> QED BY <1>0, <4>1, <4>2 DEF PrepareBegins, RestTyped
    <3> QED BY <1>0, <2>1, <3>1 DEF PrepareBegins, Goes, Awaits, disk, RestTyped
  <2>2. CASE PrepareRefused(w)
    <3>1. ws' \in [Workspaces -> Workspace]
      BY <1>0, <2>2, NoRowTyped DEF PrepareRefused, RestTyped
    <3> QED BY <1>0, <2>2, <3>1 DEF PrepareRefused, Goes, disk, RestTyped
  <2>3. CASE TreeAdded(w) \/ TreeAbandoned(w) \/ NotRegistered(w)
    BY <1>0, <2>3
    DEF TreeAdded, TreeAbandoned, NotRegistered, Fault, Goes, Awaits, rows, disk, RestTyped
  <2>4. CASE Prepared(w)
    BY <1>0, <2>4, RegisteredRow DEF Prepared, Goes, Awaits, disk, RestTyped
  <2>5. CASE NotPrepared(w)
    BY <1>0, <2>5, RegisteredRow DEF NotPrepared, Goes, Awaits, disk, RestTyped
  <2>6. CASE DiesPreparing(w)
    BY <1>0, <2>6, RegisteredRow
    DEF DiesPreparing, ControllerDies, Fault, NoWrite, At, GoalStates, disk, RestTyped
  <2> QED BY <1>1, <2>1, <2>2, <2>3, <2>4, <2>5, <2>6 DEF Preparing
<1>2. ASSUME NEW w \in Workspaces, CleaningUp(w) PROVE RestTyped'
  <2>1. CASE TreeRemoved(w) \/ CleanupFails(w)
    BY <1>0, <2>1 DEF TreeRemoved, CleanupFails, Fault, Goes, Awaits, rows, disk, RestTyped
  <2>2. CASE Inspected(w)
    <3>1. ws' \in [Workspaces -> Workspace]
      <4>1. ws \in [Workspaces -> Workspace]
        BY <1>0 DEF RestTyped
      <4>2. CASE w \in unclean
        BY <2>2, <4>1, <4>2, NewStateTyped DEF Inspected
      <4>3. CASE w \notin unclean
        BY <2>2, <4>1, <4>3 DEF Inspected
      <4> QED BY <4>2, <4>3
    <3>2. prepare' \in [Workspaces -> {"unused", "over"} \cup Awaits]
      BY <1>0, <2>2 DEF Inspected, Goes, Awaits, RestTyped
    <3> QED BY <1>0, <2>2, <3>1, <3>2 DEF Inspected, disk, RestTyped
  <2>3. CASE Released(w)
    <3>1. ws' \in [Workspaces -> Workspace]
      BY <1>0, <2>3, NewStateTyped DEF Released, RestTyped
    <3>2. current' \in [Agents -> Workspaces \cup {None}]
      BY <1>0, <2>3 DEF Released, RestTyped
    <3> QED BY <1>0, <2>3, <3>1, <3>2 DEF Released, Goes, disk, RestTyped
  <2>4. CASE TreeDropped(w)
    <3>1. ws' \in [Workspaces -> Workspace]
      BY <1>0, <2>4, NoRowTyped DEF TreeDropped, RestTyped
    <3> QED BY <1>0, <2>4, <3>1 DEF TreeDropped, Goes, RestTyped
  <2> QED BY <1>2, <2>1, <2>2, <2>3, <2>4 DEF CleaningUp
<1>3. ASSUME NEW g \in Goals, Working(g) PROVE RestTyped'
  <2>1. ASSUME Dispatch(g) \/ DispatchFails(g), goal[g] # "running"
        PROVE  /\ goal' \in [Goals -> GoalStates]
               /\ session' \in [Goals -> Workspaces \cup {None}]
               /\ \A h \in Goals : goal'[h] = "running" <=> session'[h] # None
               /\ spoiled' \subseteq Workspaces
    <3>1. current[Owner[g]] \in Workspaces \cup {None}
      BY <1>0, TerritoryAssumption DEF RestTyped
    <3> QED BY <1>0, <2>1, <3>1 DEF Dispatch, DispatchFails, GoalStates, RestTyped
  <2>2. CASE Start(g)
    BY <1>0, <2>1, <2>2 DEF Start, rows, disk, RestTyped
  <2>3. CASE Retry(g)
    BY <1>0, <2>1, <2>3 DEF Retry, Retryable, disk, RestTyped
  <2>4. CASE SessionEnds(g)
    BY <1>0, <2>4 DEF SessionEnds, GoalStates, rows, disk, RestTyped
  <2>5. CASE Rollback(g)
    <3>1. ws' \in [Workspaces -> Workspace] /\ current' \in [Agents -> Workspaces \cup {None}]
      <4>1. CASE \E w \in Workspaces : Quarantine(w) /\ ws[w].state # "quarantined"
        <5>1. PICK w \in Workspaces : /\ ws' = [ws EXCEPT ![w].state = "quarantined"]
                                      /\ current' = [a \in Agents |-> IF current[a] = w
                                                                     THEN None ELSE current[a]]
          BY <4>1 DEF Quarantine
        <5>2. ws' \in [Workspaces -> Workspace]
          BY <1>0, <5>1, NewStateTyped DEF RestTyped
        <5>3. current' \in [Agents -> Workspaces \cup {None}]
          BY <1>0, <5>1 DEF RestTyped
        <5> QED BY <5>2, <5>3
      <4>2. CASE UNCHANGED rows
        BY <1>0, <4>2 DEF rows, RestTyped
      <4> QED BY <2>5, <4>1, <4>2 DEF Rollback, Quarantine
    <3>2. /\ goal' \in [Goals -> GoalStates]
          /\ session' \in [Goals -> Workspaces \cup {None}]
      BY <1>0, <2>5 DEF Rollback, GoalStates, RestTyped
    <3> QED BY <1>0, <2>5, <3>1, <3>2 DEF Rollback, disk, RestTyped
  <2>6. CASE \E path \in Paths : WriteBegins(g, path)
    BY <1>0, <2>6 DEF WriteBegins, rows, disk, RestTyped
  <2> QED BY <1>3, <2>2, <2>3, <2>4, <2>5, <2>6 DEF Working
<1>4. CASE WriteLands \/ WriteFails
  <2>1. write.ws \in Workspaces
    BY <1>4 DEF WriteHasRow, WriteLands, WriteFails
  <2>2. CASE WriteLands
    <3>1. write' \in [ws : Workspaces \cup {None}, at : {"none", "begun", "landed"}]
      BY <1>0, <2>2 DEF WriteLands, RestTyped
    <3> QED BY <1>0, <2>1, <2>2, <3>1 DEF WriteLands, rows, RestTyped
  <2>3. CASE WriteFails
    BY <1>0, <2>1, <2>3 DEF WriteFails, NoWrite, rows, RestTyped
  <2> QED BY <1>4, <2>2, <2>3
<1>5. CASE WriteRecorded
  <2>1. ws' \in [Workspaces -> Workspace]
    BY <1>0, <1>5 DEF WriteHasRow, WriteRecorded, RestTyped, Workspace
  <2> QED BY <1>0, <1>5, <2>1 DEF WriteRecorded, NoWrite, disk, RestTyped
<1>6. CASE Tick \/ Restart
  BY <1>0, <1>6
  DEF Tick, Restart, ControllerDies, Fault, At, NoWrite, GoalStates, rows, disk, RestTyped
<1>7. CASE UNCHANGED vars
  BY <1>0, <1>7 DEF vars, rows, disk, RestTyped
<1> QED BY <1>1, <1>2, <1>3, <1>4, <1>5, <1>6, <1>7 DEF Next

\* No step but those of a preparation changes the goal of a row, and no step but
\* the failure of a preparation takes a row away.
LEMMA BindingIsKept ==
  ASSUME TerritoryTypeOK, RowsAreBound, WriteHasRow, ChecksComeLast, [Next]_vars
  PROVE  RowsAreBound' /\ WriteHasRow' /\ ChecksComeLast'
<1> DEFINE Bound == RowsAreBound /\ WriteHasRow /\ ChecksComeLast
<1>0. /\ ws \in [Workspaces -> Workspace] /\ checks \subseteq Workspaces
      /\ prepare \in [Workspaces -> {"unused", "over"} \cup Awaits]
  BY DEF TerritoryTypeOK
<1> SUFFICES Bound'
  OBVIOUS
<1>1. ASSUME UNCHANGED <<ws, prepare, checks>>, UNCHANGED write \/ write' = NoWrite
      PROVE  Bound'
  BY <1>1 DEF RowsAreBound, WriteHasRow, ChecksComeLast, NoWrite
<1>2. ASSUME NEW w \in Workspaces,
             \A v \in Workspaces : v # w => ws'[v] = ws[v] /\ prepare'[v] = prepare[v],
             ws'[w].goal \in Goals, ws'[w].state # "none",
             prepare[w] # "over", prepare'[w] \in {"over", "inspecting"},
             \/ checks' = checks \/ (checks' = checks \cup {w} /\ prepare'[w] = "over"),
             UNCHANGED write
      PROVE  Bound'
  BY <1>0, <1>2 DEF RowsAreBound, WriteHasRow, ChecksComeLast
<1>3. ASSUME NEW w \in Workspaces, Preparing(w) PROVE Bound'
  <2>1. CASE \E g \in Goals, m \in Modes : PrepareBegins(w, g, m)
    <3>1. PICK g \in Goals, m \in Modes : PrepareBegins(w, g, m)
      BY <2>1
    <3>2. /\ \A v \in Workspaces : v # w => ws'[v] = ws[v] /\ prepare'[v] = prepare[v]
          /\ ws'[w].goal = g /\ ws'[w].state = "none" /\ ws[w].state = "none"
          /\ prepare'[w] = "resolving" /\ prepare[w] = "unused"
          /\ UNCHANGED <<checks, write>>
      BY <1>0, <3>1 DEF PrepareBegins, Goes, At, RowsAreBound, NoRow
    <3> QED BY <1>0, <3>2 DEF RowsAreBound, WriteHasRow, ChecksComeLast
  <2>2. CASE PrepareRefused(w)
    <3>1. /\ \A v \in Workspaces : v # w => ws'[v] = ws[v] /\ prepare'[v] = prepare[v]
          /\ ws'[w].state = "none" /\ ws[w].state = "none"
          /\ prepare'[w] = "unused" /\ prepare[w] = "resolving"
          /\ UNCHANGED <<checks, write>>
      BY <1>0, <2>2 DEF PrepareRefused, Goes, At, RowsAreBound, NoRow
    <3> QED BY <1>0, <3>1 DEF RowsAreBound, WriteHasRow, ChecksComeLast
  <2>3. CASE TreeAdded(w) \/ TreeAbandoned(w) \/ NotRegistered(w)
    <3>1. /\ \A v \in Workspaces : v # w => prepare'[v] = prepare[v]
          /\ prepare'[w] \in {"added", "over", "unregistering"}
          /\ prepare[w] \in {"resolving", "added"}
          /\ UNCHANGED <<ws, checks, write>>
      BY <1>0, <2>3 DEF TreeAdded, TreeAbandoned, NotRegistered, Fault, Goes, At, rows
    <3> QED BY <1>0, <3>1 DEF RowsAreBound, WriteHasRow, ChecksComeLast
  <2>4. CASE Prepared(w)
    <3>1. /\ \A v \in Workspaces : v # w => prepare'[v] = prepare[v]
          /\ prepare'[w] = "over"
      BY <1>0, <2>4 DEF Prepared, Goes
    <3> QED BY <1>2, <2>4, <3>1, RegisteredRow DEF Prepared
  <2>5. CASE NotPrepared(w)
    <3>1. /\ \A v \in Workspaces : v # w => prepare'[v] = prepare[v]
          /\ prepare'[w] = "inspecting"
      BY <1>0, <2>5 DEF NotPrepared, Goes
    <3> QED BY <1>2, <2>5, <3>1, RegisteredRow DEF NotPrepared
  <2>6. CASE DiesPreparing(w)
    <3>1. /\ \A v \in Workspaces : prepare'[v] = IF prepare[v] = "unused" THEN "unused" ELSE "over"
          /\ write' = NoWrite /\ checks' = checks
      BY <2>6 DEF DiesPreparing, ControllerDies, Fault, At
    <3>2. Registers(w)
      BY <2>6 DEF DiesPreparing
    <3>3. /\ \A v \in Workspaces : v # w => ws'[v] = ws[v]
          /\ ws'[w].goal \in Goals /\ ws'[w].state = "ready" /\ prepare[w] = "added"
      BY <3>2, RegisteredRow
    <3> QED BY <1>0, <3>1, <3>3 DEF RowsAreBound, WriteHasRow, ChecksComeLast, NoWrite
  <2> QED BY <1>3, <2>1, <2>2, <2>3, <2>4, <2>5, <2>6 DEF Preparing
<1>4. ASSUME NEW w \in Workspaces, CleaningUp(w) PROVE Bound'
  <2>1. CASE TreeDropped(w)
    <3>1. /\ \A v \in Workspaces : v # w => ws'[v] = ws[v] /\ prepare'[v] = prepare[v]
          /\ ws'[w].state = "none" /\ ws[w].state = "none"
          /\ prepare'[w] = "unused" /\ prepare[w] = "unregistering"
          /\ UNCHANGED <<checks, write>>
      BY <1>0, <2>1 DEF TreeDropped, Goes, At, RowsAreBound, NoRow
    <3> QED BY <1>0, <3>1 DEF RowsAreBound, WriteHasRow, ChecksComeLast
  <2>2. CASE TreeRemoved(w) \/ CleanupFails(w)
    <3>1. /\ \A v \in Workspaces : v # w => prepare'[v] = prepare[v]
          /\ prepare'[w] \in {"removed", "over"}
          /\ prepare[w] \in {"unregistering", "inspecting", "removing"}
          /\ UNCHANGED <<ws, checks, write>>
      BY <1>0, <2>2 DEF TreeRemoved, CleanupFails, Fault, Goes, At, rows
    <3> QED BY <1>0, <3>1 DEF RowsAreBound, WriteHasRow, ChecksComeLast
  <2>3. CASE Inspected(w) \/ Released(w)
    <3>1. /\ \A v \in Workspaces : v # w => ws'[v] = ws[v] /\ prepare'[v] = prepare[v]
          /\ ws'[w].goal = ws[w].goal
          /\ ws'[w].state = ws[w].state \/ ws'[w].state # "none"
          /\ prepare'[w] \in {"removing", "over"}
          /\ prepare[w] \in {"inspecting", "removed"}
          /\ UNCHANGED <<checks, write>>
      BY <1>0, <2>3 DEF Inspected, Released, Goes, At, Workspace
    <3> QED BY <1>0, <3>1 DEF RowsAreBound, WriteHasRow, ChecksComeLast
  <2> QED BY <1>4, <2>1, <2>2, <2>3 DEF CleaningUp
<1>5. ASSUME NEW g \in Goals, Working(g) PROVE Bound'
  <2>1. CASE Start(g) \/ Retry(g) \/ SessionEnds(g)
    BY <1>1, <2>1 DEF Start, Retry, SessionEnds, rows
  <2>2. CASE Rollback(g)
    <3>1. /\ \A v \in Workspaces : /\ ws'[v].goal = ws[v].goal
                                   /\ ws'[v].state = ws[v].state \/ ws'[v].state = "quarantined"
                                   /\ ws[v].state = "none" => ws'[v].state = "none"
          /\ UNCHANGED <<prepare, checks, write>>
      <4>1. CASE \E w \in Workspaces : IsLatest(w, g) /\ Quarantine(w)
        <5>1. PICK w \in Workspaces : IsLatest(w, g) /\ Quarantine(w)
          BY <4>1
        <5>2. ws[w].state # "none"
          BY <5>1 DEF IsLatest
        <5> QED BY <1>0, <2>2, <5>1, <5>2 DEF Rollback, Quarantine, rows, Workspace
      <4> QED BY <2>2, <4>1 DEF Rollback, rows
    <3> QED BY <1>0, <3>1 DEF RowsAreBound, WriteHasRow, ChecksComeLast
  <2>3. CASE \E path \in Paths : WriteBegins(g, path)
    <3>1. /\ write'.ws = session[g] /\ session[g] # None /\ Active(session[g])
          /\ UNCHANGED <<ws, prepare, checks>>
      BY <2>3 DEF WriteBegins, rows
    <3>2. session[g] \in Workspaces
      BY <3>1 DEF TerritoryTypeOK
    <3> QED BY <3>1, <3>2 DEF Active, RowsAreBound, WriteHasRow, ChecksComeLast
  <2> QED BY <1>5, <2>1, <2>2, <2>3 DEF Working
<1>6. CASE WriteLands
  <2>1. /\ write.at = "begun" /\ write'.ws = write.ws
        /\ UNCHANGED <<ws, prepare, checks>>
    BY <1>6 DEF WriteLands, TerritoryTypeOK, rows
  <2> QED BY <1>0, <2>1 DEF RowsAreBound, WriteHasRow, ChecksComeLast
<1>7. CASE WriteFails
  BY <1>1, <1>7 DEF WriteFails, rows
<1>8. CASE WriteRecorded
  <2>1. write.ws \in Workspaces /\ ws[write.ws].state # "none"
    BY <1>8 DEF WriteRecorded, WriteHasRow
  <2>2. /\ \A v \in Workspaces : /\ ws'[v].goal = ws[v].goal
                                 /\ ws[v].state = "none" => ws'[v].state = "none"
        /\ UNCHANGED <<prepare, checks>> /\ write' = NoWrite
    BY <1>0, <1>8, <2>1 DEF WriteRecorded, Workspace
  <2> QED BY <2>2 DEF RowsAreBound, WriteHasRow, ChecksComeLast, NoWrite
<1>9. CASE Tick \/ UNCHANGED vars
  BY <1>1, <1>9 DEF Tick, vars, rows
<1>10. CASE Restart
  <2>1. /\ \A v \in Workspaces : prepare'[v] = IF prepare[v] = "unused" THEN "unused" ELSE "over"
        /\ write' = NoWrite /\ UNCHANGED <<ws, checks>>
    BY <1>10 DEF Restart, ControllerDies, At, rows
  <2> QED BY <1>0, <2>1 DEF RowsAreBound, WriteHasRow, ChecksComeLast, NoWrite
<1> QED BY <1>3, <1>4, <1>5, <1>6, <1>7, <1>8, <1>9, <1>10 DEF Next

\* A step makes at most one workspace active, and the index has let it.
ActiveStep ==
  \/ \A v \in Workspaces : Active(v)' => Active(v) /\ ws'[v].goal = ws[v].goal
  \/ \E w \in Workspaces : /\ ActiveOf(Owner[ws[w].goal]) \subseteq {w}
                           /\ ws'[w].goal = ws[w].goal
                           /\ \A v \in Workspaces : v # w => ws'[v] = ws[v]

\* A workspace that has given up its territory for good, unless a late write
\* revives it.
Settled(w) == \/ ws[w].state = "released"
              \/ ws[w].state = "quarantined" /\ w \in checks

NoneSettles == \A v \in Workspaces : Settled(v)' => Settled(v)

\* What settles gives up its leases, and what is settled is granted none.
SettledStep ==
  \/ leases' = leases /\ NoneSettles
  \/ \E w \in Workspaces : /\ GiveUp(w)
                           /\ \A v \in Workspaces : v # w => (Settled(v)' => Settled(v))
  \/ \E w \in Workspaces, path \in Paths, mode \in Modes, ttl \in Nat :
       /\ ws[w].goal \in Goals /\ Granted(w, path, mode, ttl)
       /\ ~Settled(w)' /\ NoneSettles

LEMMA RegistrationStep ==
  ASSUME TerritoryTypeOK, RowsAreBound, NEW w \in Workspaces, Registers(w),
         checks \subseteq checks', checks' \subseteq checks \cup {w},
         \/ UNCHANGED leases
         \/ \E path \in Paths, ttl \in Ttl : Granted(w, path, ws[w].mode, ttl)
  PROVE  ActiveStep /\ SettledStep
<1>1. ActiveStep
  BY RegisteredRow DEF ActiveStep
<1>2. NoneSettles /\ ~Settled(w)'
  BY RegisteredRow DEF NoneSettles, Settled
<1>3. ws[w].goal \in Goals /\ ws[w].mode \in Modes
  BY RegisteredRow DEF TerritoryTypeOK, Workspace
<1>4. Ttl \subseteq Nat
  BY TerritoryAssumption
<1> QED BY <1>1, <1>2, <1>3, <1>4 DEF SettledStep

LEMMA RowsChange ==
  ASSUME TerritoryTypeOK, RowsAreBound, WriteHasRow, ChecksComeLast, [Next]_vars
  PROVE  ActiveStep /\ SettledStep
<1> DEFINE Goal == ActiveStep /\ SettledStep
<1>0. /\ ws \in [Workspaces -> Workspace] /\ checks \subseteq Workspaces
      /\ prepare \in [Workspaces -> {"unused", "over"} \cup Awaits]
  BY DEF TerritoryTypeOK
<1> SUFFICES Goal
  OBVIOUS
<1>1. ASSUME UNCHANGED <<ws, leases, checks>> PROVE Goal
  BY <1>1 DEF ActiveStep, SettledStep, NoneSettles, Settled, Active
<1>2. ASSUME UNCHANGED <<leases, checks>>, NEW w \in Workspaces,
             \A v \in Workspaces : v # w => ws'[v] = ws[v],
             ~Active(w)', ~Settled(w)'
      PROVE  Goal
  BY <1>2 DEF ActiveStep, SettledStep, NoneSettles, Settled, Active
<1>3. ASSUME NEW w \in Workspaces, Preparing(w) PROVE Goal
  <2>1. CASE \E g \in Goals, m \in Modes : PrepareBegins(w, g, m)
    <3>1. PICK g \in Goals, m \in Modes : PrepareBegins(w, g, m)
      BY <2>1
    <3>2. /\ \A v \in Workspaces : v # w => ws'[v] = ws[v]
          /\ ws'[w].state = "none" /\ UNCHANGED <<leases, checks>>
      BY <1>0, <3>1 DEF PrepareBegins, NoRow
    <3> QED BY <1>2, <3>2 DEF Active, Settled
  <2>2. CASE PrepareRefused(w)
    <3>1. /\ \A v \in Workspaces : v # w => ws'[v] = ws[v]
          /\ ws'[w].state = "none" /\ UNCHANGED <<leases, checks>>
      BY <1>0, <2>2 DEF PrepareRefused, NoRow
    <3> QED BY <1>2, <3>1 DEF Active, Settled
  <2>3. CASE TreeAdded(w) \/ TreeAbandoned(w) \/ NotRegistered(w)
    BY <1>1, <2>3 DEF TreeAdded, TreeAbandoned, NotRegistered, Fault, rows
  <2>4. CASE Prepared(w)
    BY <2>4, RegistrationStep DEF Prepared
  <2>5. CASE NotPrepared(w)
    BY <2>5, RegistrationStep DEF NotPrepared
  <2>6. CASE DiesPreparing(w)
    BY <2>6, RegistrationStep DEF DiesPreparing, ControllerDies, Fault
  <2> QED BY <1>3, <2>1, <2>2, <2>3, <2>4, <2>5, <2>6 DEF Preparing
<1>4. ASSUME NEW w \in Workspaces, CleaningUp(w) PROVE Goal
  <2>1. CASE TreeDropped(w)
    <3>1. /\ \A v \in Workspaces : v # w => ws'[v] = ws[v]
          /\ ws'[w].state = "none" /\ UNCHANGED <<leases, checks>>
      BY <1>0, <2>1 DEF TreeDropped, NoRow
    <3> QED BY <1>2, <3>1 DEF Active, Settled
  <2>2. CASE TreeRemoved(w) \/ CleanupFails(w)
    BY <1>1, <2>2 DEF TreeRemoved, CleanupFails, Fault, rows
  <2>3. CASE Inspected(w)
    <3>1. CASE w \in unclean
      <4>1. /\ \A v \in Workspaces : v # w => ws'[v] = ws[v]
            /\ ws'[w].state = "quarantined" /\ UNCHANGED <<leases, checks>>
            /\ w \notin checks
        BY <1>0, <2>3, <3>1 DEF Inspected, At, ChecksComeLast, Workspace
      <4> QED BY <1>2, <4>1 DEF Active, Settled
    <3> QED BY <1>1, <2>3, <3>1 DEF Inspected
  <2>4. CASE Released(w)
    <3>1. /\ \A v \in Workspaces : v # w => ws'[v] = ws[v]
          /\ ws'[w].state = "released" /\ GiveUp(w) /\ UNCHANGED checks
      BY <1>0, <2>4 DEF Released, Workspace
    <3> QED BY <3>1 DEF ActiveStep, SettledStep, Active, Settled
  <2> QED BY <1>4, <2>1, <2>2, <2>3, <2>4 DEF CleaningUp
<1>5. ASSUME NEW g \in Goals, Working(g) PROVE Goal
  <2>1. CASE Start(g) \/ SessionEnds(g) \/ \E path \in Paths : WriteBegins(g, path)
    BY <1>1, <2>1 DEF Start, SessionEnds, WriteBegins, rows
  <2>2. CASE Retry(g)
    <3>0. UNCHANGED <<ws, checks>>
      BY <2>2 DEF Retry
    <3>1. PICK w \in Workspaces : ws[w].goal = g /\ Active(w) /\ Renewed(w)
      BY <2>2 DEF Retry
    <3>2. CASE UNCHANGED leases
      BY <1>1, <3>0, <3>2
    <3>3. CASE \E i \in LeasesOf(w) : Granted(w, leases[i].path, leases[i].mode, FullTtl)
      <4>1. PICK i \in LeasesOf(w) : Granted(w, leases[i].path, leases[i].mode, FullTtl)
        BY <3>3
      <4>2. leases \in Seq(Lease) /\ i \in DOMAIN leases
        BY DEF LeasesOf, TerritoryTypeOK
      <4>3. leases[i] \in Lease
        BY <4>2
      <4>4. leases[i].path \in Paths /\ leases[i].mode \in Modes /\ FullTtl \in Nat
        BY <4>3, TerritoryAssumption DEF Lease
      <4>5. ActiveStep /\ NoneSettles /\ ~Settled(w)'
        BY <3>0, <3>1 DEF ActiveStep, NoneSettles, Settled, Active
      <4> QED BY <3>1, <4>1, <4>4, <4>5 DEF SettledStep
    <3> QED BY <3>1, <3>2, <3>3 DEF Renewed
  <2>3. CASE Rollback(g)
    <3>1. CASE \E w \in Workspaces : IsLatest(w, g) /\ Quarantine(w)
      <4>1. PICK w \in Workspaces : Quarantine(w)
        BY <3>1
      <4>2. CASE UNCHANGED rows
        BY <1>1, <2>3, <4>2 DEF Rollback, rows
      <4>3. CASE ~UNCHANGED rows
        <5>1. /\ \A v \in Workspaces : v # w => ws'[v] = ws[v]
              /\ ws'[w].state = "quarantined" /\ GiveUp(w) /\ UNCHANGED checks
          BY <1>0, <2>3, <4>1, <4>3 DEF Rollback, Quarantine, Workspace
        <5> QED BY <5>1 DEF ActiveStep, SettledStep, Active, Settled
      <4> QED BY <4>2, <4>3
    <3> QED BY <1>1, <2>3, <3>1 DEF Rollback, rows
  <2> QED BY <1>5, <2>1, <2>2, <2>3 DEF Working
<1>6. CASE WriteLands \/ WriteFails
  BY <1>1, <1>6 DEF WriteLands, WriteFails, rows
<1>7. CASE WriteRecorded
  <2> DEFINE w == write.ws
  <2>1. w \in Workspaces
    BY <1>7 DEF WriteRecorded, WriteHasRow
  <2>2. CASE IndexRefuses(w, Owner[ws[w].goal])
    BY <1>1, <1>7, <2>2 DEF WriteRecorded
  <2>3. CASE ~IndexRefuses(w, Owner[ws[w].goal])
    <3>1. /\ \A v \in Workspaces : v # w => ws'[v] = ws[v]
          /\ ws'[w].state = "dirty" /\ ws'[w].goal = ws[w].goal
          /\ UNCHANGED <<leases, checks>>
      BY <1>0, <1>7, <2>1, <2>3 DEF WriteRecorded, Workspace
    <3>2. ActiveOf(Owner[ws[w].goal]) \subseteq {w}
      BY <2>3 DEF IndexRefuses
    <3> HIDE DEF w
    <3> QED BY <2>1, <3>1, <3>2 DEF ActiveStep, SettledStep, NoneSettles, Settled
  <2> QED BY <2>2, <2>3
<1>8. CASE Tick \/ Restart \/ UNCHANGED vars
  BY <1>1, <1>8 DEF Tick, Restart, ControllerDies, Fault, vars, rows
<1> QED BY <1>3, <1>4, <1>5, <1>6, <1>7, <1>8 DEF Next

LEMMA OneActiveIsKept ==
  ASSUME OneActiveWorkspace, ActiveStep
  PROVE  OneActiveWorkspace'
<1>1. SUFFICES ASSUME NEW u \in Workspaces, NEW v \in Workspaces, Active(u)', Active(v)',
                      Owner[ws'[u].goal] = Owner[ws'[v].goal]
               PROVE  u = v
  BY DEF OneActiveWorkspace
<1>2. CASE \A w \in Workspaces : Active(w)' => Active(w) /\ ws'[w].goal = ws[w].goal
  BY <1>1, <1>2 DEF OneActiveWorkspace
<1>3. ASSUME NEW w \in Workspaces, ActiveOf(Owner[ws[w].goal]) \subseteq {w},
             ws'[w].goal = ws[w].goal, \A x \in Workspaces : x # w => ws'[x] = ws[x]
      PROVE  u = v
  <2>1. \A x \in Workspaces : x # w => (Active(x)' => Active(x))
    BY <1>3 DEF Active
  <2> QED BY <1>1, <1>3, <2>1 DEF OneActiveWorkspace, ActiveOf
<1> QED BY <1>2, <1>3 DEF ActiveStep

LEMMA SettledIsKept ==
  ASSUME TerritoryTypeOK, SettledHoldsNothing, SettledStep
  PROVE  SettledHoldsNothing'
<1>1. \A w \in Workspaces : Settled(w) =>
        \A i \in DOMAIN leases : leases[i].ws = w => leases[i].released
  BY DEF SettledHoldsNothing, Settled, LeasesOf
<1>2. SUFFICES ASSUME NEW v \in Workspaces, Settled(v)',
                      NEW i \in DOMAIN leases', leases'[i].ws = v
               PROVE  leases'[i].released
  BY DEF SettledHoldsNothing, Settled, LeasesOf
<1>3. CASE leases' = leases /\ NoneSettles
  BY <1>1, <1>2, <1>3 DEF NoneSettles
<1>4. ASSUME NEW w \in Workspaces, GiveUp(w),
             \A x \in Workspaces : x # w => (Settled(x)' => Settled(x))
      PROVE  leases'[i].released
  <2>1. i \in DOMAIN leases /\ Aged(leases[i], leases'[i])
    BY <1>4, GivenUpLeases
  <2>2. leases[i].ws = w => leases'[i].released
    BY <1>4, <2>1, GivenUpLeases
  <2> QED BY <1>1, <1>2, <1>4, <2>1, <2>2 DEF Aged
<1>5. ASSUME NEW w \in Workspaces, NEW path \in Paths, NEW mode \in Modes, NEW ttl \in Nat,
             ws[w].goal \in Goals, Granted(w, path, mode, ttl), ~Settled(w)', NoneSettles
      PROVE  leases'[i].released
  <2>1. CASE i \in DOMAIN leases
    <3>1. Aged(leases[i], leases'[i])
      BY <1>5, <2>1, GrantedLeases
    <3> QED BY <1>1, <1>2, <1>5, <2>1, <3>1 DEF Aged, NoneSettles
  <2>2. CASE i \notin DOMAIN leases
    <3>1. leases'[i].ws = w
      BY <1>2, <1>5, <2>2, GrantedLeases
    <3> QED BY <1>2, <1>5, <3>1
  <2> QED BY <2>1, <2>2
<1> QED BY <1>3, <1>4, <1>5 DEF SettledStep

LEMMA InitOK == Init => IInv
<1> SUFFICES ASSUME Init PROVE IInv
  OBVIOUS
<1>1. TerritoryTypeOK
  <2>1. leases \in Seq(Lease)
    BY DEF Init
  <2> QED BY NoRowTyped, <2>1 DEF Init, TerritoryTypeOK, NoWrite, GoalStates
<1>2. RowsAreBound /\ WriteHasRow /\ ChecksComeLast
  BY DEF Init, RowsAreBound, WriteHasRow, ChecksComeLast, NoWrite, NoRow
<1>3. DOMAIN leases = {}
  BY DEF Init
<1>4. \A w \in Workspaces : ws[w].state = "none"
  BY DEF Init, NoRow
<1> QED BY <1>1, <1>2, <1>3, <1>4
        DEF IInv, ExclusiveTerritory, OneActiveWorkspace, SettledHoldsNothing, Active

LEMMA Inductive == IInv /\ [Next]_vars => IInv'
<1> SUFFICES ASSUME IInv, [Next]_vars PROVE IInv'
  OBVIOUS
<1> USE DEF IInv
<1>1. TerritoryTypeOK'
  BY TypeIsKept
<1>2. RowsAreBound' /\ WriteHasRow' /\ ChecksComeLast'
  BY BindingIsKept
<1>3. ExclusiveTerritory'
  BY LeasesChange, ExclusiveIsKept
<1>4. OneActiveWorkspace'
  BY RowsChange, OneActiveIsKept
<1>5. SettledHoldsNothing'
  BY RowsChange, SettledIsKept
<1> QED BY <1>1, <1>2, <1>3, <1>4, <1>5

-----------------------------------------------------------------------------
(* The theorems *)

\* The inductive invariant: the type, the three properties, and what they rest
\* on: a row has a goal while its call has begun, only rows are written to, and
\* checks are registered last.
THEOREM TerritoryInvariant == Spec => []IInv
BY InitOK, Inductive, PTL DEF Spec

\* Workspaces, leases, calls and writes keep the shapes the code gives them.
THEOREM TerritoryTypeCorrect == Spec => []TerritoryTypeOK
<1>1. IInv => TerritoryTypeOK
  BY DEF IInv
<1> QED BY <1>1, TerritoryInvariant, PTL

\* acquireLease: leases in force of two agents never conflict.
THEOREM TerritoryIsExclusive == Spec => []ExclusiveTerritory
<1>1. IInv => ExclusiveTerritory
  BY DEF IInv
<1> QED BY <1>1, TerritoryInvariant, PTL

\* one_active_workspace_per_agent: an agent has at most one active workspace.
THEOREM OneWorkspacePerAgent == Spec => []OneActiveWorkspace
<1>1. IInv => OneActiveWorkspace
  BY DEF IInv
<1> QED BY <1>1, TerritoryInvariant, PTL

\* releaseWorkspace and quarantineWorkspace leave no lease behind.
THEOREM SettledLeavesNoLease == Spec => []SettledHoldsNothing
<1>1. IInv => SettledHoldsNothing
  BY DEF IInv
<1> QED BY <1>1, TerritoryInvariant, PTL

\* Two territories that cover one path overlap.
LEMMA CoversMeet ==
  ASSUME NEW p \in Seq(STRING), NEW t \in Seq(STRING), NEW u \in Seq(STRING),
         Covers(t, p), Covers(u, p)
  PROVE  PathsOverlap(t, u)
<1>1. Len(t) \in Nat /\ Len(u) \in Nat
  OBVIOUS
<1>2. CASE Len(t) <= Len(u)
  BY <1>1, <1>2 DEF Covers, PathsOverlap
<1>3. CASE Len(u) <= Len(t)
  BY <1>1, <1>3 DEF Covers, PathsOverlap
<1> QED BY <1>1, <1>2, <1>3

\* assertLease: no two agents may write to one path of the repository.
THEOREM WritersAreAlone == Spec => []NeverBothMayWrite
<1>1. IInv => NeverBothMayWrite
  <2> SUFFICES ASSUME IInv, NEW a \in Agents, NEW b \in Agents, NEW v \in Workspaces,
                      NEW w \in Workspaces, NEW p \in Paths,
                      MayWrite(v, a, p), MayWrite(w, b, p)
               PROVE  a = b
    BY DEF NeverBothMayWrite
  <2>1. PICK i \in DOMAIN leases : /\ leases[i].agent = a /\ InForce(leases[i])
                                   /\ Covers(leases[i].path, p) /\ leases[i].mode = "write"
    BY DEF MayWrite
  <2>2. PICK j \in DOMAIN leases : /\ leases[j].agent = b /\ InForce(leases[j])
                                   /\ Covers(leases[j].path, p) /\ leases[j].mode = "write"
    BY DEF MayWrite
  <2>3. leases[i] \in Lease /\ leases[j] \in Lease
    BY DEF IInv, TerritoryTypeOK
  <2>4. p \in Seq(STRING) /\ leases[i].path \in Seq(STRING) /\ leases[j].path \in Seq(STRING)
    BY <2>3, TerritoryAssumption DEF Lease
  <2>5. PathsOverlap(leases[j].path, leases[i].path)
    BY <2>1, <2>2, <2>4, CoversMeet
  <2> QED BY <2>1, <2>2, <2>5 DEF IInv, ExclusiveTerritory, Conflicts
<1> QED BY <1>1, TerritoryInvariant, PTL

-----------------------------------------------------------------------------
(* A preparation leaves all or nothing *)

\* No session is bound to the workspace, and no write to it is under way.
Quiet(w) == write.ws # w /\ \A g \in Goals : session[g] # w

\* How a preparation that git, a crash or a start has not spoiled may stand: it
\* goes on, with its worktree until that is removed; or it is over and has left
\* a workspace, nothing, or an unclean worktree.
GoesOn(w) ==
  /\ prepare[w] # "over" /\ Quiet(w)
  /\ prepare[w] = "added" => w \in tree
  /\ prepare[w] = "removed" => w \notin tree
LeftWorkspace(w) ==
  prepare[w] = "over" /\ w \in checks /\ w \in tree /\ LeasesOf(w) # {}
LeftNothing(w) ==
  prepare[w] = "over" /\ Quiet(w) /\ ws[w].state = "released" /\ w \notin tree
LeftUnclean(w) ==
  prepare[w] = "over" /\ Quiet(w) /\ ws[w].state = "quarantined" /\ w \in unclean

Tidy(w) == GoesOn(w) \/ LeftWorkspace(w) \/ LeftNothing(w) \/ LeftUnclean(w)

TidyInv == \A w \in Workspaces \ spoiled : Tidy(w)

\* What a step does to a preparation that is not its own.
Bystands(w) ==
  /\ prepare'[w] = prepare[w]
  /\ w \in tree => w \in tree'
  /\ Quiet(w) => (w \in tree' => w \in tree)
  /\ w \in unclean => w \in unclean'
  /\ w \in checks => w \in checks'
  /\ Quiet(w) /\ (prepare[w] = "over" => ws[w].state \in {"released", "quarantined"}) => Quiet(w)'
  /\ Quiet(w) /\ ws[w].state \in {"released", "quarantined"} => ws'[w].state = ws[w].state

LEMMA LeasesStayWithTheirs ==
  ASSUME TerritoryTypeOK, LeaseStep, NEW w \in Workspaces, LeasesOf(w) # {}
  PROVE  LeasesOf(w)' # {}
<1>1. PICK i \in DOMAIN leases : leases[i].ws = w
  BY DEF LeasesOf
<1>2. SUFFICES i \in DOMAIN leases' /\ leases'[i].ws = w
  BY DEF LeasesOf
<1>3. CASE leases' = leases
  BY <1>1, <1>3
<1>4. ASSUME NEW v \in Workspaces, GiveUp(v) PROVE i \in DOMAIN leases' /\ leases'[i].ws = w
  BY <1>1, <1>4, GivenUpLeases DEF Aged
<1>5. ASSUME NEW v \in Workspaces, NEW path \in Paths, NEW mode \in Modes, NEW ttl \in Nat,
             ws[v].goal \in Goals, Granted(v, path, mode, ttl)
      PROVE  i \in DOMAIN leases' /\ leases'[i].ws = w
  BY <1>1, <1>5, GrantedLeases DEF Aged
<1> QED BY <1>3, <1>4, <1>5 DEF LeaseStep

LEMMA BystandersStayTidy ==
  ASSUME TerritoryTypeOK, LeaseStep, NEW w \in Workspaces, Bystands(w), Tidy(w)
  PROVE  Tidy(w)'
<1>1. CASE GoesOn(w)
  BY <1>1 DEF Bystands, GoesOn, Tidy
<1>2. CASE LeftWorkspace(w)
  BY <1>2, LeasesStayWithTheirs DEF Bystands, LeftWorkspace, Tidy
<1>3. CASE LeftNothing(w)
  BY <1>3 DEF Bystands, LeftNothing, Tidy
<1>4. CASE LeftUnclean(w)
  BY <1>4 DEF Bystands, LeftUnclean, Tidy
<1> QED BY <1>1, <1>2, <1>3, <1>4 DEF Tidy

\* The steps of the preparation itself.
LEMMA PreparingIsTidy ==
  ASSUME IInv, LeaseStep, NEW w \in Workspaces, Preparing(w),
         NEW v \in Workspaces, v \notin spoiled', Tidy(v)
  PROVE  Tidy(v)'
<1> USE DEF IInv
<1>0. /\ ws \in [Workspaces -> Workspace]
      /\ prepare \in [Workspaces -> {"unused", "over"} \cup Awaits]
  BY DEF TerritoryTypeOK
<1>1. CASE \E g \in Goals, m \in Modes : PrepareBegins(w, g, m)
  <2>1. CASE v = w
    BY <1>0, <1>1, <2>1
    DEF PrepareBegins, At, Goes, disk, Tidy, GoesOn, Quiet, LeftWorkspace, LeftNothing, LeftUnclean
  <2>2. CASE v # w
    BY <1>0, <1>1, <2>2, BystandersStayTidy DEF PrepareBegins, Goes, disk, Bystands, Quiet
  <2> QED BY <2>1, <2>2
<1>2. CASE PrepareRefused(w)
  <2>1. CASE v = w
    BY <1>0, <1>2, <2>1
    DEF PrepareRefused, At, Goes, disk, Tidy, GoesOn, Quiet, LeftWorkspace, LeftNothing, LeftUnclean
  <2>2. CASE v # w
    BY <1>0, <1>2, <2>2, BystandersStayTidy DEF PrepareRefused, Goes, disk, Bystands, Quiet
  <2> QED BY <2>1, <2>2
<1>3. CASE TreeAdded(w)
  <2>1. CASE v = w
    BY <1>0, <1>3, <2>1
    DEF TreeAdded, At, Goes, Tidy, GoesOn, Quiet, LeftWorkspace, LeftNothing, LeftUnclean
  <2>2. CASE v # w
    BY <1>0, <1>3, <2>2, BystandersStayTidy DEF TreeAdded, Goes, rows, Bystands, Quiet
  <2> QED BY <2>1, <2>2
<1>4. CASE TreeAbandoned(w)
  <2>1. v # w
    BY <1>4 DEF TreeAbandoned
  <2> QED BY <1>0, <1>4, <2>1, BystandersStayTidy
          DEF TreeAbandoned, Goes, rows, disk, Bystands, Quiet
<1>5. CASE NotRegistered(w)
  <2>1. CASE v = w
    BY <1>0, <1>5, <2>1
    DEF NotRegistered, At, Goes, disk, Tidy, GoesOn, Quiet, LeftWorkspace, LeftNothing, LeftUnclean
  <2>2. CASE v # w
    BY <1>0, <1>5, <2>2, BystandersStayTidy DEF NotRegistered, Goes, rows, disk, Bystands, Quiet
  <2> QED BY <2>1, <2>2
<1>6. CASE Prepared(w)
  <2>1. \A u \in Workspaces : u # w => ws'[u] = ws[u]
    BY <1>6, RegisteredRow DEF Prepared
  <2>2. CASE v = w
    <3>1. PICK path \in Paths, ttl \in Ttl : Granted(w, path, ws[w].mode, ttl)
      BY <1>6 DEF Prepared
    <3>2. ws[w].goal \in Goals /\ ws[w].mode \in Modes /\ ttl \in Nat
      BY <1>0, <1>6, RegisteredRow, TerritoryAssumption DEF Prepared, Workspace
    <3>3. LeasesOf(w)' # {}
      BY <3>1, <3>2, GrantedLeases DEF LeasesOf
    <3>4. w \in tree
      BY <1>6, <2>2 DEF Prepared, Registers, At, Tidy, GoesOn, LeftWorkspace, LeftNothing, LeftUnclean
    <3> QED BY <1>0, <1>6, <2>2, <3>3, <3>4 DEF Prepared, Goes, disk, Tidy, LeftWorkspace
  <2>3. CASE v # w
    BY <1>0, <1>6, <2>1, <2>3, BystandersStayTidy DEF Prepared, Goes, disk, Bystands, Quiet
  <2> QED BY <2>2, <2>3
<1>7. CASE NotPrepared(w)
  <2>1. \A u \in Workspaces : u # w => ws'[u] = ws[u]
    BY <1>7, RegisteredRow DEF NotPrepared
  <2>2. CASE v = w
    BY <1>0, <1>7, <2>2
    DEF NotPrepared, Registers, At, Goes, disk, Tidy, GoesOn, Quiet, LeftWorkspace, LeftNothing,
        LeftUnclean
  <2>3. CASE v # w
    BY <1>0, <1>7, <2>1, <2>3, BystandersStayTidy DEF NotPrepared, Goes, disk, Bystands, Quiet
  <2> QED BY <2>2, <2>3
<1>8. CASE DiesPreparing(w)
  <2>1. /\ prepare[w] = "added" /\ prepare[v] \notin Awaits
        /\ \A u \in Workspaces : u # w => ws'[u] = ws[u]
    BY <1>8, RegisteredRow DEF DiesPreparing, ControllerDies
  <2>2. v # w /\ prepare[v] \in {"unused", "over"}
    BY <1>0, <2>1 DEF Awaits
  <2>3. prepare'[v] = prepare[v] /\ Quiet(v)'
    <3>1. v # None
      BY TerritoryAssumption
    <3> QED BY <1>8, <2>2, <3>1 DEF DiesPreparing, ControllerDies, At, Quiet, NoWrite
  <2>4. UNCHANGED <<tree, unclean, checks>>
    BY <1>8 DEF DiesPreparing, ControllerDies, disk
  <2> QED BY <2>1, <2>2, <2>3, <2>4, BystandersStayTidy DEF Bystands
<1> QED BY <1>1, <1>2, <1>3, <1>4, <1>5, <1>6, <1>7, <1>8 DEF Preparing

LEMMA CleaningUpIsTidy ==
  ASSUME IInv, LeaseStep, NEW w \in Workspaces, CleaningUp(w),
         NEW v \in Workspaces, v \notin spoiled', Tidy(v)
  PROVE  Tidy(v)'
<1> USE DEF IInv
<1>0. /\ ws \in [Workspaces -> Workspace]
      /\ prepare \in [Workspaces -> {"unused", "over"} \cup Awaits]
  BY DEF TerritoryTypeOK
<1>1. CASE TreeDropped(w)
  <2>1. CASE v = w
    BY <1>0, <1>1, <2>1
    DEF TreeDropped, At, Goes, Tidy, GoesOn, Quiet, LeftWorkspace, LeftNothing, LeftUnclean
  <2>2. CASE v # w
    BY <1>0, <1>1, <2>2, BystandersStayTidy DEF TreeDropped, Goes, Bystands, Quiet
  <2> QED BY <2>1, <2>2
<1>2. CASE Inspected(w)
  <2>1. CASE v = w
    <3>1. Quiet(v)'
      BY <1>2, <2>1
      DEF Inspected, At, Tidy, GoesOn, Quiet, LeftWorkspace, LeftNothing, LeftUnclean
    <3>2. CASE w \in unclean
      BY <1>0, <1>2, <2>1, <3>1, <3>2 DEF Inspected, Goes, disk, Tidy, LeftUnclean, Workspace
    <3>3. CASE w \notin unclean
      BY <1>0, <1>2, <2>1, <3>1, <3>3 DEF Inspected, Goes, disk, Tidy, GoesOn
    <3> QED BY <3>2, <3>3
  <2>2. CASE v # w
    BY <1>0, <1>2, <2>2, BystandersStayTidy DEF Inspected, Goes, disk, Bystands, Quiet
  <2> QED BY <2>1, <2>2
<1>3. CASE TreeRemoved(w)
  <2>1. CASE v = w
    BY <1>0, <1>3, <2>1
    DEF TreeRemoved, At, Goes, Tidy, GoesOn, Quiet, LeftWorkspace, LeftNothing, LeftUnclean
  <2>2. CASE v # w
    BY <1>0, <1>3, <2>2, BystandersStayTidy DEF TreeRemoved, Goes, rows, Bystands, Quiet
  <2> QED BY <2>1, <2>2
<1>4. CASE Released(w)
  <2>1. CASE v = w
    <3>1. ws'[w].state = "released" /\ prepare'[w] = "over" /\ UNCHANGED <<tree, write, session>>
      BY <1>0, <1>4 DEF Released, Goes, disk, Workspace
    <3> QED BY <1>4, <2>1, <3>1
            DEF Released, At, Tidy, GoesOn, Quiet, LeftWorkspace, LeftNothing, LeftUnclean
  <2>2. CASE v # w
    BY <1>0, <1>4, <2>2, BystandersStayTidy DEF Released, Goes, disk, Bystands, Quiet
  <2> QED BY <2>1, <2>2
<1>5. CASE CleanupFails(w)
  <2>1. v # w
    BY <1>5 DEF CleanupFails
  <2> QED BY <1>0, <1>5, <2>1, BystandersStayTidy
          DEF CleanupFails, Goes, rows, disk, Bystands, Quiet
<1> QED BY <1>1, <1>2, <1>3, <1>4, <1>5 DEF CleaningUp

LEMMA WorkingIsTidy ==
  ASSUME IInv, LeaseStep, NEW g \in Goals, Working(g),
         NEW v \in Workspaces, v \notin spoiled', Tidy(v)
  PROVE  Tidy(v)'
<1> USE DEF IInv
<1>0. /\ ws \in [Workspaces -> Workspace] /\ v # None
      /\ session \in [Goals -> Workspaces \cup {None}]
      /\ write \in [ws : Workspaces \cup {None}, at : {"none", "begun", "landed"}]
  BY TerritoryAssumption DEF TerritoryTypeOK
<1>1. ASSUME UNCHANGED <<ws, disk, prepare, checks, write>>, Dispatch(g) \/ DispatchFails(g)
      PROVE  Bystands(v)
  <2>1. CASE Dispatch(g)
    <3>1. /\ Active(current[Owner[g]]) /\ session' = [session EXCEPT ![g] = current[Owner[g]]]
          /\ v = current[Owner[g]] => prepare[v] = "over"
      BY <1>1, <2>1 DEF Dispatch, At
    <3> QED BY <1>0, <1>1, <3>1 DEF Bystands, Quiet, Active, disk
  <2>2. CASE DispatchFails(g)
    BY <1>1, <2>2 DEF DispatchFails, Bystands, Quiet, disk
  <2> QED BY <1>1, <2>1, <2>2
<1>2. CASE Start(g) \/ Retry(g)
  BY <1>1, <1>2, BystandersStayTidy DEF Start, Retry, rows
<1>3. CASE SessionEnds(g)
  BY <1>0, <1>3, BystandersStayTidy DEF SessionEnds, rows, disk, Bystands, Quiet
<1>4. CASE Rollback(g)
  <2>1. ws[v].state \in {"released", "quarantined"} => ws'[v].state = ws[v].state
    <3>1. CASE UNCHANGED rows
      BY <3>1 DEF rows
    <3>2. CASE ~UNCHANGED rows
      <4>1. PICK w \in Workspaces : IsLatest(w, g) /\ Quarantine(w)
        BY <1>4, <3>2 DEF Rollback
      <4>2. ws[w].state # "released" /\ ws[w].state # "quarantined"
        BY <3>2, <4>1 DEF IsLatest, Quarantine
      <4>3. ws' = [ws EXCEPT ![w].state = "quarantined"]
        BY <4>1, <4>2 DEF Quarantine
      <4> QED BY <1>0, <4>2, <4>3
    <3> QED BY <3>1, <3>2
  <2> QED BY <1>0, <1>4, <2>1, BystandersStayTidy DEF Rollback, disk, Bystands, Quiet
<1>5. CASE \E path \in Paths : WriteBegins(g, path)
  BY <1>0, <1>5, BystandersStayTidy DEF WriteBegins, rows, disk, Bystands, Quiet
<1> QED BY <1>2, <1>3, <1>4, <1>5 DEF Working

LEMMA TidyIsKept ==
  ASSUME IInv, TidyInv, [Next]_vars
  PROVE  TidyInv'
<1> USE DEF IInv
<1>0. LeaseStep
  BY LeasesChange
<1>1. spoiled \subseteq spoiled'
  <2>1. ASSUME NEW w \in Workspaces, Preparing(w) \/ CleaningUp(w) PROVE spoiled \subseteq spoiled'
    BY <2>1
    DEF Preparing, PrepareBegins, PrepareRefused, TreeAdded, TreeAbandoned, Prepared, NotPrepared,
        NotRegistered, DiesPreparing, ControllerDies, CleaningUp, TreeDropped, Inspected,
        TreeRemoved, Released, CleanupFails
  <2>2. ASSUME NEW g \in Goals, Working(g) PROVE spoiled \subseteq spoiled'
    BY <2>2
    DEF Working, Start, Retry, Dispatch, DispatchFails, SessionEnds, Rollback, WriteBegins
  <2> QED BY <2>1, <2>2
          DEF Next, WriteLands, WriteFails, WriteRecorded, Tick, Restart, ControllerDies, vars
<1>2. SUFFICES ASSUME NEW v \in Workspaces, v \notin spoiled', Tidy(v) PROVE Tidy(v)'
  BY <1>1 DEF TidyInv
<1>3. ASSUME NEW w \in Workspaces, Preparing(w) \/ CleaningUp(w) PROVE Tidy(v)'
  BY <1>0, <1>2, <1>3, PreparingIsTidy, CleaningUpIsTidy
<1>4. ASSUME NEW g \in Goals, Working(g) PROVE Tidy(v)'
  BY <1>0, <1>2, <1>4, WorkingIsTidy
<1>5. ws \in [Workspaces -> Workspace] /\ v # None
  BY TerritoryAssumption DEF TerritoryTypeOK
<1>6. CASE WriteLands
  <2>1. write \in [ws : Workspaces \cup {None}, at : {"none", "begun", "landed"}]
    BY DEF TerritoryTypeOK
  <2> QED BY <1>0, <1>2, <1>6, <2>1, BystandersStayTidy DEF WriteLands, rows, Bystands, Quiet
<1>7. CASE WriteFails
  BY <1>0, <1>2, <1>5, <1>7, BystandersStayTidy
  DEF WriteFails, NoWrite, rows, Bystands, Quiet
<1>8. CASE WriteRecorded
  <2>1. v # write.ws => ws'[v] = ws[v]
    BY <1>5, <1>8 DEF WriteRecorded
  <2> QED BY <1>0, <1>2, <1>5, <1>8, <2>1, BystandersStayTidy
          DEF WriteRecorded, NoWrite, disk, Bystands, Quiet
<1>9. CASE Tick \/ UNCHANGED vars
  BY <1>0, <1>2, <1>9, BystandersStayTidy DEF Tick, vars, rows, disk, Bystands, Quiet
<1>10. CASE Restart
  <2>1. prepare[v] \notin Awaits
    BY <1>2, <1>10 DEF Restart, ControllerDies
  <2>2. prepare'[v] = prepare[v] /\ Quiet(v)'
    BY <1>5, <1>10, <2>1 DEF Restart, ControllerDies, At, Quiet, NoWrite, TerritoryTypeOK
  <2> QED BY <1>0, <1>2, <1>10, <2>2, BystandersStayTidy
          DEF Restart, ControllerDies, rows, disk, Bystands
<1> QED BY <1>3, <1>4, <1>6, <1>7, <1>8, <1>9, <1>10 DEF Next

\* createWorkspace: a preparation that was not cut short and is over has left a
\* workspace with territory and checks, nothing, or an unclean worktree to
\* inspect, whatever other requests, writes and restarts went on meanwhile.
THEOREM PreparationLeavesAllOrNothing == Spec => []PreparationIsAllOrNothing
<1>1. Init => TidyInv
  <2> SUFFICES ASSUME Init, NEW w \in Workspaces PROVE GoesOn(w)
    BY DEF TidyInv, Tidy
  <2> QED BY TerritoryAssumption DEF Init, GoesOn, Quiet, NoWrite
<1>2. IInv /\ TidyInv /\ [Next]_vars => TidyInv'
  BY TidyIsKept
<1>3. IInv /\ TidyInv => PreparationIsAllOrNothing
  <2> SUFFICES ASSUME IInv, TidyInv, NEW w \in Workspaces, At(w, "over"), w \notin spoiled
               PROVE  \/ w \in checks /\ w \in tree /\ LeasesOf(w) # {}
                      \/ /\ w \notin tree /\ ~Active(w)
                         /\ \A i \in LeasesOf(w) : ~InForce(leases[i])
                      \/ ws[w].state = "quarantined" /\ w \in unclean
    BY DEF PreparationIsAllOrNothing
  <2>1. LeftWorkspace(w) \/ LeftNothing(w) \/ LeftUnclean(w)
    BY DEF TidyInv, Tidy, GoesOn, At
  <2>2. ASSUME LeftNothing(w)
        PROVE  ~Active(w) /\ \A i \in LeasesOf(w) : ~InForce(leases[i])
    BY <2>2 DEF LeftNothing, Active, InForce, IInv, SettledHoldsNothing
  <2> QED BY <2>1, <2>2 DEF LeftWorkspace, LeftNothing, LeftUnclean
<1> QED BY <1>1, <1>2, <1>3, TerritoryInvariant, PTL DEF Spec
=============================================================================

------------------------ MODULE PluginRuntimeProofs ------------------------
(***************************************************************************)
(* Theorems about PluginRuntime, for any plugins, any number of callers    *)
(* and any number of uses, with their proofs.                              *)
(***************************************************************************)
EXTENDS PluginRuntime, TLAPS

(* How many plugins the drains have shifted: queued is what comes after.   *)
shifted == Len(used) - Len(queued)

(* The jobs of a drain, in the order in which one leads to the next.  A     *)
(* drain that awaits nothing has one of stage 0 in the queue.               *)
Stages == [kind \in {"setup", "finally", "then", "settle", "resume", "proceed"} |->
              IF kind \in {"setup", "finally"} THEN 0
              ELSE IF kind = "then" THEN 1
              ELSE IF kind = "settle" THEN 2
              ELSE IF kind = "resume" THEN 3 ELSE 4]
Stage(job) == Stages[job.kind]

(* The drain a job is of, or on behalf of; 0 for none. *)
DrainOf(job) ==
    IF job.kind = "resume" THEN job.on ELSE IF job.kind = "proceed" THEN 0 ELSE job.of

OfDrain(job) == job.kind # "proceed"

(* Drains shift plugins in the order of use(), at least one each.           *)
Shifts ==
    /\ Len(queued) <= Len(used)
    /\ \A i \in 1 .. Len(queued) : queued[i] = used[shifted + i]
    /\ \A p \in Plugins : p \in installed <=> \E i \in 1 .. shifted : used[i] = p
    /\ started <= shifted
    /\ draining \in {0, started}

(* The drain in flight awaits the setup of the plugin it shifted last; it   *)
(* is not in the queue meanwhile.                                           *)
Awaits ==
    /\ \A p \in Plugins : setup[p] = "running" =>
          /\ draining # 0 /\ at[draining] = p /\ verdict[draining] = "pending"
          /\ shifted > 0 /\ used[shifted] = p
          /\ \A i \in 1 .. shifted - 1 : used[i] # p
          /\ \A i \in 1 .. Len(jobs) : Stage(jobs[i]) # 0
    /\ \A d \in Drains : at[d] # NoPlugin =>
          at[d] \in installed /\ (setup[at[d]] = "running" => d = draining)

(* Only the drain in flight has a job of stage 0, and only one.             *)
Current ==
    \A i \in 1 .. Len(jobs) : Stage(jobs[i]) = 0 =>
       /\ jobs[i].of = draining
       /\ \A j \in 1 .. Len(jobs) : Stage(jobs[j]) = 0 => j = i
       /\ jobs[i].kind = "setup" =>
             /\ verdict[draining] = "pending"
             /\ at[draining] \in Plugins /\ Settled(at[draining])
       /\ jobs[i].kind = "finally" => verdict[draining] # "pending"

(* Nothing is known of a drain that has not been started.                   *)
Unstarted ==
    \A d \in Drains : d > started => verdict[d] = "pending" /\ waiters[d] = <<>>

(* What a setup came to is in the registry, or on its way to the verdict.   *)
Outcomes ==
    \A p \in Plugins :
       /\ setup[p] = "ok" => p \in RegisteredSources
       /\ setup[p] = "failed" =>
             \/ \E d \in Drains : verdict[d] = "rejected"
             \/ \E i \in 1 .. Len(jobs) : jobs[i].kind = "setup" /\ at[jobs[i].of] = p

(* The queue keeps the drains in order: of two, the jobs of the earlier one *)
(* are of a later stage, or of the same and further ahead.                  *)
Order ==
    /\ \A i \in 1 .. Len(jobs) : DrainOf(jobs[i]) <= started
    /\ \A i, j \in 1 .. Len(jobs) :
          OfDrain(jobs[i]) /\ OfDrain(jobs[j]) /\ DrainOf(jobs[i]) < DrainOf(jobs[j]) =>
             \/ Stage(jobs[i]) > Stage(jobs[j])
             \/ Stage(jobs[i]) = Stage(jobs[j]) /\ i < j

Awaiting(d) == {waiters[d][i] : i \in 1 .. Len(waiters[d])}

(* A caller that did not look in the gap has not joined a drain after one   *)
(* that failed.                                                             *)
Joins ==
    \A d \in Drains : \A c \in Awaiting(d) \ slipped :
       \A e \in Drains : e < d => verdict[e] # "rejected"

(* Who is resumed has awaited the drain it is resumed from.                 *)
Resumes ==
    \A i \in 1 .. Len(jobs) :
       jobs[i].kind = "resume" => jobs[i].of \in Awaiting(jobs[i].on)

(* Once an error is stored, nothing of an earlier drain is left.            *)
Stored ==
    failure # 0 =>
       /\ failure <= started /\ verdict[failure] = "rejected"
       /\ \A i \in 1 .. Len(jobs) : OfDrain(jobs[i]) => DrainOf(jobs[i]) >= failure

(* A caller about to read the policies may do so.                           *)
Proceeds ==
    /\ \A c \in Callers : asked[c] <= Len(used)
    /\ \A i \in 1 .. Len(jobs) : jobs[i].kind = "proceed" =>
          /\ pc[jobs[i].of] # "idle"
          /\ jobs[i].of \notin slipped =>
                \A k \in 1 .. asked[jobs[i].of] : used[k] \in RegisteredSources

(* dispose() has closed those sources it has passed.                        *)
Passed(p) == p \in owed \ (left \cup {visiting})

Disposal ==
    /\ disposal = "none" => \A p \in Plugins : closed[p] = 0
    /\ disposal = "running" =>
          /\ visiting \in owed /\ visiting \notin left /\ left \subseteq owed
          /\ \A p \in Plugins : closed[p] = IF Passed(p) THEN 1 ELSE 0

IInv ==
    /\ TypeOK
    /\ Shifts /\ Awaits /\ Current /\ Unstarted /\ Outcomes
    /\ Order /\ Joins /\ Resumes /\ Stored /\ Proceeds /\ GuardedOutsideTheGap
    /\ Disposal /\ DisposeIsHonest

-----------------------------------------------------------------------------
(* Jobs and the queue of them.                                             *)

(* What the members of Jobs are.                                           *)
LEMMA JobFacts ==
    ASSUME NEW job \in Jobs
    PROVE  /\ job.kind \in {"setup", "finally", "then", "settle", "resume", "proceed"}
           /\ job.kind = "resume" => job.of \in Callers /\ job.on \in Drains
           /\ job.kind = "proceed" => job.of \in Callers
           /\ job.kind \notin {"resume", "proceed"} => job.of \in Drains
           /\ OfDrain(job) => DrainOf(job) \in Drains
           /\ DrainOf(job) \in 0 .. MaxUses
           /\ Stage(job) \in 0 .. 4
           /\ Stage(job) = 0 <=> job.kind \in {"setup", "finally"}
           /\ Stage(job) = 4 <=> job.kind = "proceed"
           /\ job.kind \notin {"resume", "proceed"} => DrainOf(job) = job.of
  <1>1. CASE job \in [kind : {"setup", "finally", "then", "settle"}, of : Drains]
    BY <1>1, PluginRuntimeAssumption DEF OfDrain, DrainOf, Stage, Stages, Drains
  <1>2. CASE job \in [kind : {"proceed"}, of : Callers]
    BY <1>2, PluginRuntimeAssumption DEF OfDrain, DrainOf, Stage, Stages, Drains
  <1>3. CASE job \in [kind : {"resume"}, of : Callers, on : Drains]
    BY <1>3, PluginRuntimeAssumption DEF OfDrain, DrainOf, Stage, Stages, Drains
  <1> QED
    BY <1>1, <1>2, <1>3 DEF Jobs

(* The jobs the code queues are jobs, of their stage and drain.             *)
LEMMA DrainJobs ==
    ASSUME NEW kind \in {"setup", "finally", "then", "settle"}, NEW d \in Drains
    PROVE  /\ Job(kind, d) \in Jobs
           /\ Job(kind, d).kind = kind /\ Job(kind, d).of = d
           /\ OfDrain(Job(kind, d)) /\ DrainOf(Job(kind, d)) = d
           /\ Stage(Job(kind, d)) =
                 IF kind \in {"setup", "finally"} THEN 0 ELSE IF kind = "then" THEN 1 ELSE 2
  BY DEF Job, Jobs, OfDrain, DrainOf, Stage, Stages

LEMMA CallerJobs ==
    ASSUME NEW c \in Callers, NEW d \in Drains
    PROVE  /\ Job("proceed", c) \in Jobs
           /\ Job("proceed", c).kind = "proceed" /\ Job("proceed", c).of = c
           /\ ~OfDrain(Job("proceed", c)) /\ DrainOf(Job("proceed", c)) = 0
           /\ Stage(Job("proceed", c)) = 4
           /\ Resume(c, d) \in Jobs
           /\ Resume(c, d).kind = "resume" /\ Resume(c, d).of = c /\ Resume(c, d).on = d
           /\ OfDrain(Resume(c, d)) /\ DrainOf(Resume(c, d)) = d
           /\ Stage(Resume(c, d)) = 3
  BY DEF Job, Resume, Jobs, OfDrain, DrainOf, Stage, Stages

(* A step takes the first k jobs out of the queue and appends some of new.  *)
Moves(k, new) ==
    /\ k \in {0, 1} /\ k <= Len(jobs)
    /\ jobs' \in Seq(Jobs)
    /\ Len(jobs') >= Len(jobs) - k
    /\ \A i \in 1 .. Len(jobs') :
          IF i <= Len(jobs) - k THEN jobs'[i] = jobs[i + k] ELSE jobs'[i] \in new

(* The queue without its first k jobs.                                      *)
Rest(k) == IF k = 0 THEN jobs ELSE Tail(jobs)

LEMMA MovesRest ==
    ASSUME jobs \in Seq(Jobs), NEW k \in {0, 1}, k <= Len(jobs), jobs' = Rest(k)
    PROVE  Moves(k, {})
  BY DEF Moves, Rest

LEMMA MovesAppend ==
    ASSUME jobs \in Seq(Jobs), NEW k \in {0, 1}, k <= Len(jobs),
           NEW job \in Jobs, jobs' = Append(Rest(k), job)
    PROVE  Moves(k, {job})
  BY DEF Moves, Rest

LEMMA MovesConcat ==
    ASSUME jobs \in Seq(Jobs), Len(jobs) > 0,
           NEW more \in Seq(Jobs), jobs' = Tail(jobs) \o more
    PROVE  Moves(1, {more[i] : i \in 1 .. Len(more)})
  BY DEF Moves
(* The queue stays in order when what is appended is of a stage that no     *)
(* earlier drain has left to reach and every later one has still to reach.  *)
LEMMA OrderMoves ==
    ASSUME TypeOK, TypeOK', Order, NEW k, NEW new \in SUBSET Jobs, Moves(k, new),
           started' >= started,
           \A x \in new : DrainOf(x) <= started',
           \A x, y \in new : DrainOf(x) = DrainOf(y),
           \A x \in new : OfDrain(x) =>
              \A i \in k + 1 .. Len(jobs) : OfDrain(jobs[i]) =>
                 /\ DrainOf(jobs[i]) < DrainOf(x) => Stage(jobs[i]) >= Stage(x)
                 /\ DrainOf(x) < DrainOf(jobs[i]) => Stage(x) > Stage(jobs[i])
    PROVE  Order'
  <1> USE PluginRuntimeAssumption
  <1>1. /\ jobs \in Seq(Jobs) /\ jobs' \in Seq(Jobs)
        /\ started \in Nat /\ started' \in Nat
        /\ k \in {0, 1} /\ k <= Len(jobs)
    BY DEF TypeOK, Moves
  <1>2. \A i \in 1 .. Len(jobs') :
           \/ i <= Len(jobs) - k /\ i + k \in 1 .. Len(jobs) /\ jobs'[i] = jobs[i + k]
           \/ i > Len(jobs) - k /\ jobs'[i] \in new
    BY <1>1 DEF Moves
  <1>3. \A job \in Jobs : DrainOf(job) \in 0 .. MaxUses /\ Stage(job) \in 0 .. 4
    BY JobFacts
  <1>4. ASSUME NEW i \in 1 .. Len(jobs') PROVE DrainOf(jobs'[i]) <= started'
    <2>1. CASE i <= Len(jobs) - k /\ i + k \in 1 .. Len(jobs) /\ jobs'[i] = jobs[i + k]
      <3>1. DrainOf(jobs[i + k]) <= started /\ jobs[i + k] \in Jobs
        BY <1>1, <2>1 DEF Order
      <3> QED
        BY <1>1, <1>3, <2>1, <3>1
    <2>2. CASE jobs'[i] \in new
      BY <2>2
    <2> QED
      BY <1>2, <2>1, <2>2
  <1>5. ASSUME NEW i \in 1 .. Len(jobs'), NEW j \in 1 .. Len(jobs'),
               OfDrain(jobs'[i]), OfDrain(jobs'[j]), DrainOf(jobs'[i]) < DrainOf(jobs'[j])
        PROVE  \/ Stage(jobs'[i]) > Stage(jobs'[j])
               \/ Stage(jobs'[i]) = Stage(jobs'[j]) /\ i < j
    <2>1. CASE /\ i <= Len(jobs) - k /\ i + k \in 1 .. Len(jobs) /\ jobs'[i] = jobs[i + k]
               /\ j <= Len(jobs) - k /\ j + k \in 1 .. Len(jobs) /\ jobs'[j] = jobs[j + k]
      <3>1. \/ Stage(jobs[i + k]) > Stage(jobs[j + k])
            \/ Stage(jobs[i + k]) = Stage(jobs[j + k]) /\ i + k < j + k
        BY <1>5, <2>1 DEF Order
      <3> QED
        BY <1>1, <2>1, <3>1
    <2>2. CASE /\ i <= Len(jobs) - k /\ i + k \in 1 .. Len(jobs) /\ jobs'[i] = jobs[i + k]
               /\ j > Len(jobs) - k /\ jobs'[j] \in new
      <3>1. i + k \in k + 1 .. Len(jobs) /\ jobs[i + k] \in Jobs /\ jobs'[j] \in Jobs
        BY <1>1, <2>2
      <3>2. Stage(jobs[i + k]) >= Stage(jobs'[j])
        BY <1>5, <2>2, <3>1
      <3>3. Stage(jobs[i + k]) \in 0 .. 4 /\ Stage(jobs'[j]) \in 0 .. 4
        BY <1>3, <3>1
      <3>4. i < j
        BY <1>1, <2>2
      <3> QED
        BY <2>2, <3>2, <3>3, <3>4
    <2>3. CASE /\ i > Len(jobs) - k /\ jobs'[i] \in new
               /\ j <= Len(jobs) - k /\ j + k \in 1 .. Len(jobs) /\ jobs'[j] = jobs[j + k]
      <3>1. j + k \in k + 1 .. Len(jobs)
        BY <1>1, <2>3
      <3> QED
        BY <1>5, <2>3, <3>1
    <2>4. CASE jobs'[i] \in new /\ jobs'[j] \in new
      <3>1. DrainOf(jobs'[i]) = DrainOf(jobs'[j]) /\ jobs'[i] \in Jobs /\ jobs'[j] \in Jobs
        BY <2>4
      <3> QED
        BY <1>3, <1>5, <3>1
    <2> QED
      BY <1>2, <2>1, <2>2, <2>3, <2>4
  <1> QED
    BY <1>4, <1>5 DEF Order

(* Nothing of an earlier drain comes back after an error has been stored.   *)
LEMMA StoredMoves ==
    ASSUME TypeOK, TypeOK', Stored, NEW k, NEW new \in SUBSET Jobs, Moves(k, new),
           failure' = failure, started' >= started,
           failure # 0 => verdict'[failure] = verdict[failure],
           failure # 0 => \A x \in new : OfDrain(x) => DrainOf(x) >= failure
    PROVE  Stored'
  <1>1. SUFFICES ASSUME failure # 0
                 PROVE  /\ failure <= started' /\ verdict'[failure] = "rejected"
                        /\ \A i \in 1 .. Len(jobs') : OfDrain(jobs'[i]) => DrainOf(jobs'[i]) >= failure
    BY DEF Stored
  <1>2. failure \in Nat /\ started \in Nat /\ started' \in Nat
    BY PluginRuntimeAssumption DEF TypeOK
  <1>3. failure <= started' /\ verdict'[failure] = "rejected"
    BY <1>1, <1>2 DEF Stored
  <1>4. ASSUME NEW i \in 1 .. Len(jobs'), OfDrain(jobs'[i]) PROVE DrainOf(jobs'[i]) >= failure
    <2>1. CASE i <= Len(jobs) - k
      <3>1. i + k \in 1 .. Len(jobs) /\ jobs'[i] = jobs[i + k]
        BY <2>1 DEF Moves, TypeOK
      <3> QED
        BY <1>1, <1>4, <3>1 DEF Stored
    <2>2. CASE ~(i <= Len(jobs) - k)
      BY <1>1, <1>4, <2>2 DEF Moves, TypeOK
    <2> QED
      BY <2>1, <2>2
  <1> QED
    BY <1>3, <1>4
-----------------------------------------------------------------------------
(* The turn of a drain.                                                    *)

(* The drain d has not settled and no other job than the k-th is about it.  *)
Clear(d, k) ==
    /\ d \in Drains /\ k \in {0, 1} /\ k <= Len(jobs)
    /\ verdict[d] = "pending"
    /\ \A i \in k + 1 .. Len(jobs) : Stage(jobs[i]) # 0

(* What the drain d may rely on when it is about to shift a plugin.         *)
Turn(d, k) ==
    /\ Clear(d, k)
    /\ started <= d
    /\ d <= IF queued = <<>> THEN shifted ELSE shifted + 1
    /\ \A p \in Plugins :
          /\ setup[p] # "running"
          /\ setup[p] = "failed" => \E e \in Drains : verdict[e] = "rejected"

(* Jobs after the first k are as they were.                                 *)
LEMMA RestFacts ==
    ASSUME jobs \in Seq(Jobs), NEW k \in {0, 1}, k <= Len(jobs)
    PROVE  /\ Rest(k) \in Seq(Jobs) /\ Len(Rest(k)) = Len(jobs) - k
           /\ \A i \in 1 .. Len(jobs) - k : Rest(k)[i] = jobs[i + k]
  BY DEF Rest

(* A drain settles with the one job it queues.                              *)
LEMMA SettleStep ==
    ASSUME TypeOK, NEW d, NEW k, Clear(d, k), NEW outcome \in {"fulfilled", "rejected"},
           Settle(d, outcome, Rest(k)), draining' = d
    PROVE  /\ verdict' \in [Drains -> {"pending", "fulfilled", "rejected"}]
           /\ jobs' \in Seq(Jobs)
           /\ Moves(k, {Job("finally", d)})
           /\ Current'
           /\ \A e \in Drains : verdict[e] = "rejected" => verdict'[e] = "rejected"
  <1> USE PluginRuntimeAssumption
  <1>1. /\ jobs \in Seq(Jobs) /\ Job("finally", d) \in Jobs
        /\ d \in Drains /\ k \in {0, 1} /\ k <= Len(jobs)
        /\ verdict \in [Drains -> {"pending", "fulfilled", "rejected"}]
    BY DrainJobs DEF TypeOK, Clear
  <1>2. verdict' = [verdict EXCEPT ![d] = outcome] /\ jobs' = Append(Rest(k), Job("finally", d))
    BY DEF Settle
  <1>3. Moves(k, {Job("finally", d)}) /\ jobs' \in Seq(Jobs)
    BY <1>1, <1>2, MovesAppend DEF Moves
  <1>4. \A e \in Drains : verdict[e] = "rejected" => verdict'[e] = "rejected"
    BY <1>1, <1>2 DEF Clear
  <1>5. verdict'[d] = outcome
    BY <1>1, <1>2
  <1>6. \A i \in 1 .. Len(jobs') :
           \/ i = Len(jobs') /\ jobs'[i] = Job("finally", d)
           \/ Stage(jobs'[i]) # 0
    <2>1. Rest(k) \in Seq(Jobs) /\ Len(Rest(k)) = Len(jobs) - k
          /\ \A i \in 1 .. Len(jobs) - k : Rest(k)[i] = jobs[i + k]
      BY <1>1, RestFacts
    <2>2. \A i \in 1 .. Len(jobs) - k : i + k \in k + 1 .. Len(jobs)
      BY <1>1
    <2>3. /\ Len(jobs') = Len(jobs) - k + 1 /\ jobs'[Len(jobs')] = Job("finally", d)
          /\ \A i \in 1 .. Len(jobs) - k : jobs'[i] = jobs[i + k]
      BY <1>1, <1>2, <2>1
    <2>4. \A i \in 1 .. Len(jobs') : i = Len(jobs') \/ i \in 1 .. Len(jobs) - k
      BY <1>1, <2>3
    <2> QED
      BY <2>2, <2>3, <2>4 DEF Clear
  <1>7. Job("finally", d).kind = "finally" /\ Job("finally", d).of = d
    BY <1>1, DrainJobs
  <1>8. Current'
    BY <1>5, <1>6, <1>7 DEF Current
  <1> QED
    BY <1>1, <1>2, <1>3, <1>4, <1>8
(* A plugin that is shifted is the next one in the order of use().          *)
LEMMA PopStep ==
    ASSUME TypeOK, Shifts, queued # <<>>, queued' = Tail(queued), used' = used,
           installed' = installed \cup {Head(queued)},
           started' <= shifted + 1, draining' \in {0, started'}
    PROVE  /\ Shifts'
           /\ shifted \in Nat /\ shifted' = shifted + 1
           /\ Head(queued) \in Plugins /\ used[shifted'] = Head(queued)
           /\ queued' \in Seq(Plugins)
  <1>1. used \in Seq(Plugins) /\ queued \in Seq(Plugins)
    BY DEF TypeOK
  <1>2. /\ Head(queued) = queued[1] /\ Len(queued) \in Nat /\ Len(queued) > 0 /\ Len(used) \in Nat
        /\ Head(queued) \in Plugins
        /\ queued' \in Seq(Plugins) /\ Len(queued') = Len(queued) - 1
        /\ \A i \in 1 .. Len(queued') : queued'[i] = queued[i + 1]
    BY <1>1
  <1>3. shifted \in Nat /\ shifted' = shifted + 1 /\ shifted + 1 <= Len(used)
    BY <1>2 DEF shifted, Shifts
  <1>4. used[shifted + 1] = queued[1]
    BY <1>2 DEF Shifts
  <1>5. \A i \in 1 .. Len(queued') : queued'[i] = used'[shifted' + i]
    <2> SUFFICES ASSUME NEW i \in 1 .. Len(queued') PROVE queued'[i] = used[shifted + 1 + i]
      BY <1>3
    <2>1. i + 1 \in 1 .. Len(queued) /\ shifted + (i + 1) = shifted + 1 + i
      BY <1>2, <1>3
    <2>2. queued[i + 1] = used[shifted + (i + 1)]
      BY <2>1 DEF Shifts
    <2> QED
      BY <1>2, <2>1, <2>2
  <1>6. ASSUME NEW p \in Plugins PROVE p \in installed' <=> \E i \in 1 .. shifted' : used'[i] = p
    <2>1. p \in installed' <=> (\E i \in 1 .. shifted : used[i] = p) \/ p = queued[1]
      BY <1>2 DEF Shifts
    <2>2. \A i : i \in 1 .. shifted' <=> i \in 1 .. shifted \/ i = shifted + 1
      BY <1>3
    <2> QED
      BY <1>4, <2>1, <2>2
  <1>7. Len(queued') <= Len(used')
    BY <1>2, <1>3 DEF Shifts
  <1>8. Shifts'
    BY <1>3, <1>5, <1>6, <1>7 DEF Shifts
  <1> QED
    BY <1>2, <1>3, <1>4, <1>8

(* A turn of a drain keeps the plugins in order, and has the drain await    *)
(* one setup or queue one job.                                              *)
LEMMA ShiftStep ==
    ASSUME TypeOK, Shifts, Awaits, Outcomes, NEW d, NEW k, Turn(d, k), Shift(d, Rest(k)),
           draining' = d, started' = d, used' = used, registry' = registry
    PROVE  /\ queued' \in Seq(Plugins)
           /\ setup' \in [Plugins -> {"new", "running", "ok", "failed"}]
           /\ at' \in [Drains -> Plugins \cup {NoPlugin}]
           /\ verdict' \in [Drains -> {"pending", "fulfilled", "rejected"}]
           /\ jobs' \in Seq(Jobs)
           /\ Moves(k, {Job("finally", d)})
           /\ \A e \in Drains : e # d => verdict'[e] = verdict[e]
           /\ Shifts' /\ Awaits' /\ Current' /\ Outcomes'
  <1> USE PluginRuntimeAssumption
  <1>0. d \in Drains /\ d \in Nat /\ d # 0
    BY DEF Turn, Clear, Drains
  <1>1. /\ k \in {0, 1} /\ k <= Len(jobs) /\ verdict[d] = "pending"
        /\ used \in Seq(Plugins) /\ queued \in Seq(Plugins) /\ jobs \in Seq(Jobs)
        /\ setup \in [Plugins -> {"new", "running", "ok", "failed"}]
        /\ at \in [Drains -> Plugins \cup {NoPlugin}]
        /\ verdict \in [Drains -> {"pending", "fulfilled", "rejected"}]
        /\ started \in Nat
    BY DEF TypeOK, Turn, Clear
  <1>2. CASE queued = <<>> /\ Settle(d, "fulfilled", Rest(k)) /\ UNCHANGED <<queued, setup, at>>
    <2>1. /\ verdict' \in [Drains -> {"pending", "fulfilled", "rejected"}] /\ jobs' \in Seq(Jobs)
          /\ Moves(k, {Job("finally", d)}) /\ Current'
          /\ \A e \in Drains : verdict[e] = "rejected" => verdict'[e] = "rejected"
      BY <1>2, SettleStep DEF Turn
    <2>2. Shifts'
      BY <1>0, <1>1, <1>2 DEF Shifts, shifted, installed, Turn, Clear
    <2>3. Awaits' /\ Outcomes'
      BY <1>0, <1>1, <1>2, <2>1 DEF Awaits, Outcomes, Turn, Clear, RegisteredSources, installed
    <2>4. \A e \in Drains : e # d => verdict'[e] = verdict[e]
      BY <1>0, <1>1, <1>2 DEF Settle
    <2> QED
      BY <1>0, <1>1, <1>2, <2>1, <2>2, <2>3, <2>4
  <1>3. CASE /\ queued # <<>> /\ Head(queued) \in installed /\ queued' = Tail(queued)
             /\ Settle(d, "rejected", Rest(k)) /\ UNCHANGED <<setup, at>>
    <2>1. /\ verdict' \in [Drains -> {"pending", "fulfilled", "rejected"}] /\ jobs' \in Seq(Jobs)
          /\ Moves(k, {Job("finally", d)}) /\ Current'
          /\ \A e \in Drains : verdict[e] = "rejected" => verdict'[e] = "rejected"
      BY <1>3, SettleStep DEF Turn
    <2>2. Shifts' /\ queued' \in Seq(Plugins)
      BY <1>0, <1>1, <1>3, PopStep DEF installed, Turn, Clear
    <2>3. Awaits' /\ Outcomes'
      BY <1>0, <1>1, <1>3, <2>1 DEF Awaits, Outcomes, Turn, Clear, RegisteredSources, installed
    <2>4. \A e \in Drains : e # d => verdict'[e] = verdict[e]
      BY <1>0, <1>1, <1>3 DEF Settle
    <2> QED
      BY <1>0, <1>1, <1>3, <2>1, <2>2, <2>3, <2>4
  <1>4. CASE /\ queued # <<>> /\ Head(queued) \notin installed /\ queued' = Tail(queued)
             /\ setup' = [setup EXCEPT ![Head(queued)] = "running"]
             /\ at' = [at EXCEPT ![d] = Head(queued)] /\ jobs' = Rest(k) /\ UNCHANGED verdict
    <2> DEFINE p == Head(queued)
    <2>1. p \in Plugins /\ p = queued[1] /\ Len(queued) > 0 /\ p \notin installed
      BY <1>0, <1>1, <1>4
    <2>2. Moves(k, {}) /\ jobs' \in Seq(Jobs)
      BY <1>0, <1>1, <1>4, MovesRest DEF Moves
    <2>3. Moves(k, {Job("finally", d)})
      BY <2>2 DEF Moves
    <2>4. installed' = installed \cup {p}
      BY <1>0, <1>1, <1>4, <2>1 DEF installed
    <2>5. /\ Shifts' /\ shifted \in Nat /\ shifted' = shifted + 1 /\ used[shifted'] = p
          /\ queued' \in Seq(Plugins)
      BY <1>0, <1>1, <1>4, <2>4, PopStep DEF Turn, Clear
    <2>6. /\ Len(jobs') = Len(jobs) - k
          /\ \A i \in 1 .. Len(jobs) - k :
                jobs'[i] = jobs[i + k] /\ i + k \in k + 1 .. Len(jobs)
      <3>1. /\ Len(Rest(k)) = Len(jobs) - k
            /\ \A i \in 1 .. Len(jobs) - k : Rest(k)[i] = jobs[i + k]
        BY <1>1, RestFacts
      <3> QED
        BY <1>1, <1>4, <3>1
    <2>7. \A i \in 1 .. Len(jobs') : Stage(jobs'[i]) # 0
      BY <1>1, <2>6 DEF Turn, Clear
    <2>8. Current'
      BY <2>7 DEF Current
    <2>9. Awaits'
      <3>1. \A q \in Plugins : setup'[q] = "running" => q = p
        BY <1>0, <1>1, <1>4, <2>1 DEF Turn, Clear
      <3>2. d # 0 /\ at'[d] = p /\ verdict'[d] = "pending"
        BY <1>0, <1>1, <1>4 DEF Drains
      <3>3. \A i \in 1 .. shifted' - 1 : used'[i] # p
        BY <2>1, <2>5 DEF Shifts
      <3>4. ASSUME NEW e \in Drains, at'[e] # NoPlugin
            PROVE  at'[e] \in installed' /\ (setup'[at'[e]] = "running" => e = d)
        BY <1>0, <1>1, <1>4, <2>1, <2>4, <3>1, <3>4 DEF Awaits
      <3> QED
        BY <2>5, <2>7, <3>1, <3>2, <3>3, <3>4 DEF Awaits
    <2>10. Outcomes'
      BY <1>0, <1>1, <1>4, <2>1 DEF Outcomes, Turn, Clear, RegisteredSources
    <2> QED
      BY <1>0, <1>1, <1>4, <2>1, <2>2, <2>3, <2>5, <2>8, <2>9, <2>10
  <1> QED
    BY <1>2, <1>3, <1>4 DEF Shift
-----------------------------------------------------------------------------
(* What the queue's moves leave as it was.                                 *)

(* Where the jobs of the next queue come from.                              *)
LEMMA MovesFacts ==
    ASSUME TypeOK, NEW k, NEW new, Moves(k, new)
    PROVE  \A i \in 1 .. Len(jobs') :
              \/ i + k \in k + 1 .. Len(jobs) /\ i + k \in 1 .. Len(jobs) /\ jobs'[i] = jobs[i + k]
              \/ i > Len(jobs) - k /\ jobs'[i] \in new
  <1>1. jobs \in Seq(Jobs) /\ jobs' \in Seq(Jobs) /\ k \in {0, 1}
    BY DEF TypeOK, Moves
  <1> QED
    BY <1>1 DEF Moves

(* A step in which the drain takes no turn.                                 *)
LEMMA QuietMoves ==
    ASSUME TypeOK, Shifts, Awaits, Current, Outcomes,
           NEW k, NEW new \in SUBSET Jobs, Moves(k, new),
           \A x \in new : Stage(x) # 0, k = 1 => Stage(jobs[1]) # 0,
           UNCHANGED <<used, queued, setup, registry, started, at, draining, verdict>>
    PROVE  Shifts' /\ Awaits' /\ Current' /\ Outcomes'
  <1>1. jobs \in Seq(Jobs) /\ jobs' \in Seq(Jobs) /\ k \in {0, 1} /\ k <= Len(jobs)
    BY DEF TypeOK, Moves
  <1>2. \A i \in 1 .. Len(jobs') : Stage(jobs'[i]) = 0 =>
           i + k \in 1 .. Len(jobs) /\ jobs'[i] = jobs[i + k]
    BY MovesFacts
  <1>3. Shifts'
    BY DEF Shifts, shifted, installed
  <1>4. Awaits'
    BY <1>2 DEF Awaits, shifted, installed
  <1>5. Current'
    <2>1. ASSUME NEW i \in 1 .. Len(jobs'), Stage(jobs'[i]) = 0
          PROVE  /\ i + k \in 1 .. Len(jobs) /\ jobs'[i] = jobs[i + k]
                 /\ \A j \in 1 .. Len(jobs') : Stage(jobs'[j]) = 0 => j = i
      <3>1. i + k \in 1 .. Len(jobs) /\ jobs'[i] = jobs[i + k]
        BY <1>2, <2>1
      <3>2. ASSUME NEW j \in 1 .. Len(jobs'), Stage(jobs'[j]) = 0 PROVE j = i
        <4>1. j + k \in 1 .. Len(jobs) /\ jobs'[j] = jobs[j + k]
          BY <1>2, <3>2
        <4>2. j + k = i + k
          BY <2>1, <3>1, <3>2, <4>1 DEF Current
        <4> QED
          BY <1>1, <4>2
      <3> QED
        BY <3>1, <3>2
    <2>2. ASSUME NEW i \in 1 .. Len(jobs'), Stage(jobs'[i]) = 0
          PROVE  /\ jobs'[i].of = draining
                 /\ jobs'[i].kind = "setup" =>
                       /\ verdict[draining] = "pending"
                       /\ at[draining] \in Plugins /\ Settled(at[draining])
                 /\ jobs'[i].kind = "finally" => verdict[draining] # "pending"
      <3>1. i + k \in 1 .. Len(jobs) /\ jobs'[i] = jobs[i + k]
        BY <2>1, <2>2
      <3> QED
        BY <2>2, <3>1 DEF Current
    <2> QED
      BY <2>1, <2>2 DEF Current, Settled
  <1>6. Outcomes'
    <2> SUFFICES ASSUME NEW p \in Plugins, setup[p] = "failed",
                        NEW i \in 1 .. Len(jobs), jobs[i].kind = "setup", at[jobs[i].of] = p
                 PROVE  \E m \in 1 .. Len(jobs') : jobs'[m].kind = "setup" /\ at[jobs'[m].of] = p
      BY DEF Outcomes, RegisteredSources
    <2>1. jobs[i] \in Jobs /\ Stage(jobs[i]) = 0
      BY <1>1, JobFacts
    <2>2. k = 0 \/ i # 1
      BY <1>1, <2>1
    <2>3. i - k \in 1 .. Len(jobs') /\ i - k <= Len(jobs) - k /\ (i - k) + k = i
      BY <1>1, <2>2 DEF Moves
    <2>4. jobs'[i - k] = jobs[i]
      BY <2>3 DEF Moves
    <2> QED
      BY <2>3, <2>4
  <1> QED
    BY <1>3, <1>4, <1>5, <1>6

(* Callers that have been let through stay so.                              *)
LEMMA ProceedsMoves ==
    ASSUME TypeOK, TypeOK', Proceeds, NEW k, NEW new \in SUBSET Jobs, Moves(k, new),
           Len(used') >= Len(used), \A i \in 1 .. Len(used) : used'[i] = used[i],
           RegisteredSources \subseteq RegisteredSources', slipped \subseteq slipped',
           \A c \in Callers : /\ pc[c] # "idle" => pc'[c] # "idle" /\ asked'[c] = asked[c]
                              /\ asked'[c] <= Len(used'),
           \A x \in new : x.kind = "proceed" =>
              /\ pc'[x.of] # "idle"
              /\ x.of \notin slipped' => \A i \in 1 .. asked'[x.of] : used'[i] \in RegisteredSources'
    PROVE  Proceeds'
  <1>1. ASSUME NEW i \in 1 .. Len(jobs'), jobs'[i].kind = "proceed"
        PROVE  /\ pc'[jobs'[i].of] # "idle"
               /\ jobs'[i].of \notin slipped' =>
                     \A n \in 1 .. asked'[jobs'[i].of] : used'[n] \in RegisteredSources'
    <2>1. CASE i + k \in 1 .. Len(jobs) /\ jobs'[i] = jobs[i + k]
      <3> DEFINE c == jobs'[i].of
      <3>1. jobs[i + k] \in Jobs
        BY <2>1 DEF TypeOK
      <3>2. c \in Callers
        BY <1>1, <2>1, <3>1, JobFacts
      <3>3. pc[c] # "idle" /\ (c \notin slipped => \A n \in 1 .. asked[c] : used[n] \in RegisteredSources)
        BY <1>1, <2>1 DEF Proceeds
      <3>4. asked[c] \in Nat /\ asked[c] <= Len(used) /\ Len(used) \in Nat
        BY <3>2, PluginRuntimeAssumption DEF Proceeds, TypeOK
      <3>5. \A n \in 1 .. asked[c] : n \in 1 .. Len(used)
        BY <3>4
      <3> QED
        BY <3>2, <3>3, <3>5
    <2>2. CASE jobs'[i] \in new
      BY <1>1, <2>2
    <2> QED
      BY <2>1, <2>2, MovesFacts
  <1> QED
    BY <1>1 DEF Proceeds

(* Who is resumed has awaited the drain it is resumed from.                 *)
LEMMA ResumesMoves ==
    ASSUME TypeOK, Resumes, NEW k, NEW new \in SUBSET Jobs, Moves(k, new),
           \A d \in Drains : Awaiting(d) \subseteq Awaiting(d)',
           \A x \in new : x.kind = "resume" => x.of \in Awaiting(x.on)'
    PROVE  Resumes'
  <1>1. ASSUME NEW i \in 1 .. Len(jobs'), jobs'[i].kind = "resume"
        PROVE  jobs'[i].of \in {waiters'[jobs'[i].on][m] : m \in 1 .. Len(waiters'[jobs'[i].on])}
    <2>1. CASE i + k \in 1 .. Len(jobs) /\ jobs'[i] = jobs[i + k]
      <3>1. jobs[i + k] \in Jobs
        BY <2>1 DEF TypeOK
      <3>2. jobs'[i].on \in Drains
        BY <1>1, <2>1, <3>1, JobFacts
      <3> QED
        BY <1>1, <2>1, <3>2 DEF Resumes, Awaiting
    <2>2. CASE jobs'[i] \in new
      BY <1>1, <2>2 DEF Awaiting
    <2> QED
      BY <2>1, <2>2, MovesFacts
  <1> QED
    BY <1>1 DEF Resumes, Awaiting
-----------------------------------------------------------------------------
(* The loop of ready().                                                    *)

(* Without a drain in flight nothing is awaited or about to settle, and     *)
(* every setup that failed has been the end of a drain.                     *)
LEMMA NoneInFlight ==
    ASSUME IInv, draining = 0
    PROVE  /\ \A i \in 1 .. Len(jobs) : Stage(jobs[i]) # 0
           /\ \A p \in Plugins :
                 /\ setup[p] # "running"
                 /\ setup[p] = "failed" => \E e \in Drains : verdict[e] = "rejected"
  <1>1. \A i \in 1 .. Len(jobs) : jobs[i] \in Jobs
    BY DEF IInv, TypeOK
  <1>2. 0 \notin Drains
    BY PluginRuntimeAssumption DEF Drains
  <1>3. \A i \in 1 .. Len(jobs) : Stage(jobs[i]) # 0
    <2> SUFFICES ASSUME NEW i \in 1 .. Len(jobs), Stage(jobs[i]) = 0 PROVE FALSE
      OBVIOUS
    <2>1. jobs[i].of \in Drains /\ jobs[i].of = 0
      BY <1>1, JobFacts DEF IInv, Current
    <2> QED
      BY <1>2, <2>1
  <1>4. \A i \in 1 .. Len(jobs) : jobs[i].kind # "setup"
    BY <1>1, <1>3, JobFacts
  <1> QED
    BY <1>3, <1>4 DEF IInv, Awaits, Outcomes

(* A caller that goes on may do so: it did not look in the gap, nothing is  *)
(* queued and no drain has failed, so that every plugin is registered.      *)
LEMMA AllRegistered ==
    ASSUME IInv, draining = 0, queued = <<>>, \A e \in Drains : verdict[e] # "rejected"
    PROVE  \A i \in 1 .. Len(used) : used[i] \in RegisteredSources
  <1> SUFFICES ASSUME NEW i \in 1 .. Len(used) PROVE used[i] \in RegisteredSources
    OBVIOUS
  <1>1. used[i] \in Plugins /\ shifted = Len(used)
    BY DEF IInv, TypeOK, shifted
  <1>2. used[i] \in installed
    BY <1>1 DEF IInv, Shifts
  <1>3. setup[used[i]] = "ok"
    BY <1>1, <1>2, NoneInFlight DEF IInv, TypeOK, installed
  <1> QED
    BY <1>1, <1>3 DEF IInv, Outcomes

(* How a caller's turn leaves the other callers.                            *)
Turns(c, k) ==
    /\ c \in Callers /\ k \in {0, 1} /\ k <= Len(jobs)
    /\ k = 1 => Stage(jobs[1]) # 0
    /\ asked' \in [Callers -> 0 .. MaxUses]
    /\ \A b \in Callers : asked'[b] <= Len(used)
    /\ \A b \in Callers : (b = c /\ pc[c] = "idle") \/ asked'[b] = asked[b]
    /\ UNCHANGED <<used, registry, failure, seen, disposeVars>>

(* Whoever passes ready() outside the gap is still guarded after a step     *)
(* that lets nobody pass.                                                   *)
LEMMA GuardedKept ==
    ASSUME TypeOK, Proceeds, GuardedOutsideTheGap,
           Len(used') >= Len(used), \A i \in 1 .. Len(used) : used'[i] = used[i],
           slipped \subseteq slipped',
           \A c \in Callers : pc'[c] = "guarded" =>
               pc[c] = "guarded" /\ asked'[c] = asked[c] /\ seen'[c] = seen[c]
    PROVE  GuardedOutsideTheGap'
  <1> SUFFICES ASSUME NEW c \in Callers \ slipped', pc'[c] = "guarded",
                      NEW i \in 1 .. asked'[c]
               PROVE  \E j \in 1 .. Len(seen'[c]) : seen'[c][j] = used'[i]
    BY DEF GuardedOutsideTheGap, Guarded
  <1>1. c \in Callers \ slipped /\ pc[c] = "guarded" /\ i \in 1 .. asked[c] /\ seen'[c] = seen[c]
    OBVIOUS
  <1>2. asked[c] \in Nat /\ asked[c] <= Len(used) /\ Len(used) \in Nat
    BY <1>1, PluginRuntimeAssumption DEF TypeOK, Proceeds
  <1>3. used'[i] = used[i]
    BY <1>1, <1>2
  <1> QED
    BY <1>1, <1>3 DEF GuardedOutsideTheGap, Guarded
(* dispose() has nothing to do with the rest.                               *)
LEMMA DisposalKept ==
    ASSUME Disposal, DisposeIsHonest, UNCHANGED disposeVars
    PROVE  Disposal' /\ DisposeIsHonest'
  BY DEF Disposal, DisposeIsHonest, disposeVars, Passed

(* A caller looks at the drains before it joins or starts one.              *)
LEMMA LookFacts ==
    ASSUME TypeOK, NEW c \in Callers, Look(c), c \in slipped' \/ failure = 0
    PROVE  /\ slipped \subseteq slipped' /\ slipped' \subseteq Callers
           /\ \A b \in Callers : b # c => (b \in slipped' <=> b \in slipped)
           /\ c \notin slipped' =>
                 \A e \in Drains : e # draining => verdict[e] # "rejected"
  BY DEF Look, InGap, TypeOK

(* The loop ends: there is nothing to wait for.                             *)
LEMMA LoopEnds ==
    ASSUME IInv, NEW c, NEW k, Turns(c, k), Look(c), c \in slipped' \/ failure = 0,
           queued = <<>>, draining = 0,
           pc' = [pc EXCEPT ![c] = "returned"], jobs' = Append(Rest(k), Job("proceed", c)),
           UNCHANGED <<started, draining, waiters, drainVars>>
    PROVE  IInv'
  <1> USE PluginRuntimeAssumption
  <1> DEFINE new == {Job("proceed", c)}
  <1>1. TypeOK /\ Shifts /\ Awaits /\ Current /\ Unstarted /\ Outcomes /\ Order /\ Joins
        /\ Resumes /\ Stored /\ Proceeds /\ GuardedOutsideTheGap /\ Disposal /\ DisposeIsHonest
    BY DEF IInv
  <1>2. c \in Callers /\ jobs \in Seq(Jobs) /\ k \in {0, 1} /\ k <= Len(jobs)
    BY <1>1 DEF Turns, TypeOK
  <1>3. /\ Job("proceed", c) \in Jobs /\ Job("proceed", c).kind = "proceed" /\ Job("proceed", c).of = c
        /\ ~OfDrain(Job("proceed", c)) /\ DrainOf(Job("proceed", c)) = 0
        /\ Stage(Job("proceed", c)) = 4
    BY <1>2 DEF Job, Jobs, OfDrain, DrainOf, Stage, Stages
  <1>4. Moves(k, new) /\ jobs' \in Seq(Jobs) /\ new \in SUBSET Jobs
    BY <1>2, <1>3, MovesAppend DEF Moves
  <1>5. /\ slipped \subseteq slipped' /\ slipped' \subseteq Callers
        /\ c \notin slipped' => \A e \in Drains : verdict[e] # "rejected"
    BY <1>1, <1>2, LookFacts DEF Drains
  <1>a. \A x \in new : /\ x.kind = "proceed" /\ x.of = c /\ ~OfDrain(x)
                       /\ DrainOf(x) = 0 /\ Stage(x) # 0
    BY <1>3
  <1> HIDE DEF new
  <1>6. TypeOK'
    BY <1>1, <1>2, <1>4, <1>5 DEF TypeOK, Turns, drainVars, disposeVars
  <1>7. Shifts' /\ Awaits' /\ Current' /\ Outcomes'
    BY <1>1, <1>4, <1>a, QuietMoves DEF Turns, drainVars
  <1>8. Unstarted' /\ Joins'
    BY <1>1, <1>5 DEF Unstarted, Joins, Awaiting, drainVars
  <1>9. Order'
    <2>1. \A x \in new : DrainOf(x) <= started'
      BY <1>6, <1>a DEF TypeOK
    <2>2. started' >= started
      BY <1>1 DEF TypeOK
    <2> QED
      BY <1>1, <1>4, <1>6, <1>a, <2>1, <2>2, OrderMoves
  <1>10. Resumes'
    BY <1>1, <1>4, <1>a, ResumesMoves DEF Awaiting
  <1>11. Stored'
    <2>1. /\ failure' = failure /\ started' >= started
          /\ failure # 0 => verdict'[failure] = verdict[failure]
      BY <1>1 DEF TypeOK, Turns, drainVars
    <2> QED
      BY <1>1, <1>4, <1>6, <1>a, <2>1, StoredMoves
  <1>12. Proceeds'
    <2>1. c \notin slipped' => \A i \in 1 .. asked'[c] : used[i] \in RegisteredSources
      <3>1. asked'[c] \in Nat /\ asked'[c] <= Len(used) /\ Len(used) \in Nat
        BY <1>1, <1>2 DEF Turns, TypeOK
      <3> QED
        BY <1>5, <3>1, AllRegistered
    <2>2. RegisteredSources' = RegisteredSources /\ used' = used
      BY DEF RegisteredSources, Turns
    <2>3. \A b \in Callers : /\ pc[b] # "idle" => pc'[b] # "idle" /\ asked'[b] = asked[b]
                             /\ asked'[b] <= Len(used)
      BY <1>1, <1>2 DEF Turns, TypeOK
    <2>4. pc'[c] # "idle"
      BY <1>1, <1>2 DEF TypeOK
    <2>5. Len(used') >= Len(used) /\ \A i \in 1 .. Len(used) : used'[i] = used[i]
      BY <1>1, <2>2 DEF TypeOK
    <2>6. \A x \in new : x.kind = "proceed" =>
             /\ pc'[x.of] # "idle"
             /\ x.of \notin slipped' => \A i \in 1 .. asked'[x.of] : used'[i] \in RegisteredSources'
      BY <1>a, <2>1, <2>2, <2>4
    <2> QED
      BY <1>1, <1>4, <1>5, <1>6, <2>2, <2>3, <2>5, <2>6, ProceedsMoves
  <1>13. GuardedOutsideTheGap'
    <2>1. \A b \in Callers : pc'[b] = "guarded" =>
             pc[b] = "guarded" /\ asked'[b] = asked[b] /\ seen'[b] = seen[b]
      BY <1>1, <1>2 DEF Turns, TypeOK
    <2> QED
      BY <1>1, <1>5, <2>1, GuardedKept DEF Turns, TypeOK
  <1>14. Disposal' /\ DisposeIsHonest'
    BY <1>1, DisposalKept DEF Turns
  <1> QED
    BY <1>6, <1>7, <1>8, <1>9, <1>10, <1>11, <1>12, <1>13, <1>14 DEF IInv
(* Who joins a drain outside the gap joins one that has none that failed    *)
(* before it.                                                               *)
LEMMA JoinsKept ==
    ASSUME TypeOK, Joins, NEW c \in Callers, NEW d \in Drains,
           waiters' = [waiters EXCEPT ![d] = Append(@, c)],
           slipped \subseteq slipped',
           c \notin slipped' => \A e \in Drains : e < d => verdict[e] # "rejected",
           \A f \in Drains : \A e \in Drains :
              e < f /\ verdict'[e] = "rejected" /\ Len(waiters'[f]) > 0 => verdict[e] = "rejected"
    PROVE  /\ Joins'
           /\ waiters' \in [Drains -> Seq(Callers)]
           /\ \A f \in Drains : Awaiting(f) \subseteq Awaiting(f)'
  <1>1. waiters \in [Drains -> Seq(Callers)]
    BY DEF TypeOK
  <1>2. waiters' \in [Drains -> Seq(Callers)]
    BY <1>1
  <1>3. \A f \in Drains : f # d => waiters'[f] = waiters[f]
    BY <1>1
  <1>4. waiters'[d] = Append(waiters[d], c) /\ waiters[d] \in Seq(Callers)
    BY <1>1
  <1>5. /\ Len(waiters'[d]) = Len(waiters[d]) + 1 /\ Len(waiters[d]) \in Nat
        /\ \A i \in 1 .. Len(waiters[d]) : waiters'[d][i] = waiters[d][i]
        /\ \A i \in 1 .. Len(waiters'[d]) :
              waiters'[d][i] = c \/ (i \in 1 .. Len(waiters[d]) /\ waiters'[d][i] = waiters[d][i])
    BY <1>4
  <1>6. \A f \in Drains : Awaiting(f) \subseteq Awaiting(f)'
    <2>1. \A i \in 1 .. Len(waiters[d]) : i \in 1 .. Len(waiters'[d])
      BY <1>5
    <2>2. Awaiting(d) \subseteq Awaiting(d)'
      BY <1>5, <2>1 DEF Awaiting
    <2> QED
      BY <1>3, <2>2 DEF Awaiting
  <1>7. Joins'
    <2> SUFFICES ASSUME NEW f \in Drains, NEW i \in 1 .. Len(waiters'[f]),
                        waiters'[f][i] \notin slipped',
                        NEW e \in Drains, e < f
                 PROVE  verdict'[e] # "rejected"
      BY DEF Joins, Awaiting
    <2>1. Len(waiters'[f]) > 0
      BY <1>2
    <2>2. verdict[e] # "rejected"
      <3>1. CASE f = d /\ waiters'[f][i] = c
        BY <3>1
      <3>2. CASE f = d /\ i \in 1 .. Len(waiters[d]) /\ waiters'[d][i] = waiters[d][i]
        BY <3>2 DEF Joins, Awaiting
      <3>3. CASE f # d
        BY <1>3, <3>3 DEF Joins, Awaiting
      <3> QED
        BY <1>5, <3>1, <3>2, <3>3
    <2> QED
      BY <2>1, <2>2
  <1> QED
    BY <1>2, <1>6, <1>7

(* The caller joins the drain in flight.                                    *)
LEMMA LoopJoins ==
    ASSUME IInv, NEW c, NEW k, Turns(c, k), Look(c), c \in slipped' \/ failure = 0,
           draining # 0,
           pc' = [pc EXCEPT ![c] = "waiting"],
           waiters' = [waiters EXCEPT ![draining] = Append(@, c)],
           jobs' = Rest(k),
           UNCHANGED <<started, draining, drainVars>>
    PROVE  IInv'
  <1> USE PluginRuntimeAssumption
  <1>1. TypeOK /\ Shifts /\ Awaits /\ Current /\ Unstarted /\ Outcomes /\ Order /\ Joins
        /\ Resumes /\ Stored /\ Proceeds /\ GuardedOutsideTheGap /\ Disposal /\ DisposeIsHonest
    BY DEF IInv
  <1>2. c \in Callers /\ jobs \in Seq(Jobs) /\ k \in {0, 1} /\ k <= Len(jobs)
    BY <1>1 DEF Turns, TypeOK
  <1>3. Moves(k, {}) /\ jobs' \in Seq(Jobs)
    BY <1>2, MovesRest DEF Moves
  <1>4. /\ slipped \subseteq slipped' /\ slipped' \subseteq Callers
        /\ c \notin slipped' => \A e \in Drains : e # draining => verdict[e] # "rejected"
    BY <1>1, <1>2, LookFacts
  <1>5. draining \in Drains /\ draining = started
    BY <1>1 DEF TypeOK, Drains, Shifts
  <1>6. /\ Joins' /\ waiters' \in [Drains -> Seq(Callers)]
        /\ \A f \in Drains : Awaiting(f) \subseteq Awaiting(f)'
    <2>1. c \notin slipped' => \A e \in Drains : e < draining => verdict[e] # "rejected"
      BY <1>4, <1>5 DEF Drains
    <2> QED
      BY <1>1, <1>2, <1>4, <1>5, <2>1, JoinsKept DEF drainVars
  <1>7. TypeOK'
    BY <1>1, <1>2, <1>3, <1>4, <1>6 DEF TypeOK, Turns, drainVars, disposeVars
  <1>8. Shifts' /\ Awaits' /\ Current' /\ Outcomes'
    BY <1>1, <1>3, QuietMoves DEF Turns, drainVars
  <1>9. Unstarted'
    BY <1>1, <1>5 DEF Unstarted, drainVars, Drains, TypeOK
  <1>10. started' >= started
    BY <1>1 DEF TypeOK
  <1>11. Order'
    BY <1>1, <1>3, <1>7, <1>10, OrderMoves
  <1>12. Resumes'
    BY <1>1, <1>3, <1>6, ResumesMoves
  <1>13. Stored'
    <2>1. failure' = failure /\ verdict' = verdict
      BY DEF Turns, drainVars
    <2> QED
      BY <1>1, <1>3, <1>7, <1>10, <2>1, StoredMoves
  <1>14. /\ \A b \in Callers : /\ pc[b] # "idle" => pc'[b] # "idle" /\ asked'[b] = asked[b]
                               /\ asked'[b] <= Len(used)
         /\ \A b \in Callers : pc'[b] = "guarded" =>
               pc[b] = "guarded" /\ asked'[b] = asked[b] /\ seen'[b] = seen[b]
         /\ used' = used /\ RegisteredSources' = RegisteredSources
    BY <1>1, <1>2 DEF Turns, TypeOK, RegisteredSources
  <1>15. Len(used') >= Len(used) /\ \A i \in 1 .. Len(used) : used'[i] = used[i]
    BY <1>1, <1>14 DEF TypeOK
  <1>16. Proceeds' /\ GuardedOutsideTheGap'
    BY <1>1, <1>3, <1>4, <1>7, <1>14, <1>15, ProceedsMoves, GuardedKept
  <1>17. Disposal' /\ DisposeIsHonest'
    BY <1>1, DisposalKept DEF Turns
  <1> QED
    BY <1>6, <1>7, <1>8, <1>9, <1>11, <1>12, <1>13, <1>16, <1>17 DEF IInv
(* The caller starts the next drain.                                        *)
LEMMA LoopStarts ==
    ASSUME IInv, NEW c, NEW k, Turns(c, k), Look(c), c \in slipped' \/ failure = 0,
           queued # <<>>, draining = 0,
           pc' = [pc EXCEPT ![c] = "waiting"],
           started' = started + 1, draining' = started + 1,
           waiters' = [waiters EXCEPT ![started + 1] = Append(@, c)],
           Shift(started + 1, Rest(k))
    PROVE  IInv'
  <1> USE PluginRuntimeAssumption
  <1>1. TypeOK /\ Shifts /\ Awaits /\ Current /\ Unstarted /\ Outcomes /\ Order /\ Joins
        /\ Resumes /\ Stored /\ Proceeds /\ GuardedOutsideTheGap /\ Disposal /\ DisposeIsHonest
    BY DEF IInv
  <1>2. c \in Callers /\ jobs \in Seq(Jobs) /\ k \in {0, 1} /\ k <= Len(jobs)
    BY <1>1 DEF Turns, TypeOK
  <1> DEFINE d == started + 1
             new == {Job("finally", d)}
  <1>3. /\ d \in Drains /\ started \in Nat /\ d <= shifted + 1
        /\ \A e \in Drains : e < d <=> e <= started
    <2>1. used \in Seq(Plugins) /\ queued \in Seq(Plugins) /\ Len(used) <= MaxUses /\ started \in Nat
      BY <1>1 DEF TypeOK
    <2>2. Len(queued) >= 1
      BY <2>1
    <2>3. d <= shifted + 1 /\ shifted + 1 <= Len(used)
      BY <1>1, <2>1, <2>2 DEF Shifts, shifted
    <2> QED
      BY <2>1, <2>3 DEF Drains, shifted
  <1>4. /\ started' = d /\ draining' = d /\ waiters' = [waiters EXCEPT ![d] = Append(@, c)]
        /\ Shift(d, Rest(k)) /\ used' = used /\ registry' = registry /\ failure' = failure
    BY DEF Turns
  <1>5. /\ Job("finally", d) \in Jobs /\ Job("finally", d).kind = "finally"
        /\ DrainOf(Job("finally", d)) = d /\ Stage(Job("finally", d)) = 0
    BY <1>3, DrainJobs
  <1>6. new \in SUBSET Jobs /\ \A x \in new : x.kind = "finally" /\ DrainOf(x) = d /\ Stage(x) = 0
    BY <1>5
  <1>7. Turn(d, k)
    BY <1>1, <1>2, <1>3, NoneInFlight DEF Turn, Clear, Unstarted
  <1> HIDE DEF d
  <1>8. /\ queued' \in Seq(Plugins)
        /\ setup' \in [Plugins -> {"new", "running", "ok", "failed"}]
        /\ at' \in [Drains -> Plugins \cup {NoPlugin}]
        /\ verdict' \in [Drains -> {"pending", "fulfilled", "rejected"}]
        /\ jobs' \in Seq(Jobs)
        /\ Moves(k, {Job("finally", d)})
        /\ \A e \in Drains : e # d => verdict'[e] = verdict[e]
        /\ Shifts' /\ Awaits' /\ Current' /\ Outcomes'
    BY <1>1, <1>4, <1>7, ShiftStep
  <1>9. Moves(k, new)
    BY <1>8
  <1> HIDE DEF new
  <1>10. /\ slipped \subseteq slipped' /\ slipped' \subseteq Callers
         /\ c \notin slipped' => \A e \in Drains : verdict[e] # "rejected"
    BY <1>1, <1>2, LookFacts DEF Drains
  <1>11. started' > started /\ started' \in 0 .. MaxUses
    BY <1>3, <1>4 DEF d, Drains
  <1>12. Unstarted'
    <2> SUFFICES ASSUME NEW e \in Drains, e > started'
                 PROVE  verdict'[e] = "pending" /\ waiters'[e] = <<>>
      BY DEF Unstarted
    <2>1. e > started /\ e # d
      BY <1>3, <1>4, <1>11 DEF Drains
    <2>2. waiters'[e] = waiters[e]
      BY <1>1, <1>4, <2>1 DEF TypeOK
    <2> QED
      BY <1>1, <1>8, <2>1, <2>2 DEF Unstarted
  <1>13. Joins' /\ waiters' \in [Drains -> Seq(Callers)] /\ \A f \in Drains : Awaiting(f) \subseteq Awaiting(f)'
    <2>1. ASSUME NEW f \in Drains, NEW e \in Drains, e < f, verdict'[e] = "rejected", Len(waiters'[f]) > 0
          PROVE  verdict[e] = "rejected"
      <3>1. CASE e # d
        BY <1>8, <2>1, <3>1
      <3>2. CASE e = d
        <4>1. f \in Nat /\ f > started /\ f # d
          BY <1>3, <2>1, <3>2 DEF d, Drains
        <4>2. waiters'[f] = waiters[f] /\ waiters[f] = <<>>
          BY <1>1, <1>4, <4>1 DEF Unstarted, TypeOK
        <4>3. Len(waiters'[f]) = 0
          BY <4>2
        <4> QED
          BY <2>1, <4>3
      <3> QED
        BY <3>1, <3>2
    <2> QED
      BY <1>1, <1>2, <1>3, <1>4, <1>10, <2>1, JoinsKept
  <1>14. TypeOK'
    BY <1>1, <1>2, <1>4, <1>8, <1>10, <1>11, <1>13 DEF TypeOK, Turns, disposeVars
  <1>15. Order'
    <2>1. \A x \in new : DrainOf(x) <= started'
      BY <1>4, <1>6, <1>11
    <2>2. \A x, y \in new : DrainOf(x) = DrainOf(y)
      BY <1>6
    <2>3. ASSUME NEW x \in new, NEW i \in k + 1 .. Len(jobs), OfDrain(jobs[i])
          PROVE  /\ DrainOf(jobs[i]) < DrainOf(x) => Stage(jobs[i]) >= Stage(x)
                 /\ DrainOf(x) < DrainOf(jobs[i]) => Stage(x) > Stage(jobs[i])
      <3>1. i \in 1 .. Len(jobs) /\ jobs[i] \in Jobs
        BY <1>2
      <3>2. DrainOf(jobs[i]) \in Nat /\ Stage(jobs[i]) \in Nat /\ DrainOf(jobs[i]) <= started
        BY <1>1, <3>1, JobFacts DEF Order
      <3> QED
        BY <1>3, <1>4, <1>6, <1>11, <3>2
    <2>4. started' >= started
      BY <1>3, <1>11
    <2> QED
      BY <1>1, <1>6, <1>9, <1>14, <2>1, <2>2, <2>3, <2>4, OrderMoves
  <1>16. Resumes'
    BY <1>1, <1>6, <1>9, <1>13, ResumesMoves
  <1>17. Stored'
    <2>1. /\ failure # 0 => failure \in Drains /\ failure # d /\ failure <= d
          /\ started' >= started
      BY <1>1, <1>3, <1>11 DEF Stored, TypeOK, Drains, d
    <2>2. failure # 0 => \A x \in new : OfDrain(x) => DrainOf(x) >= failure
      BY <1>6, <2>1 DEF Drains
    <2> QED
      BY <1>1, <1>4, <1>6, <1>8, <1>9, <1>14, <2>1, <2>2, StoredMoves
  <1>18. /\ \A b \in Callers : /\ pc[b] # "idle" => pc'[b] # "idle" /\ asked'[b] = asked[b]
                               /\ asked'[b] <= Len(used)
         /\ \A b \in Callers : pc'[b] = "guarded" =>
               pc[b] = "guarded" /\ asked'[b] = asked[b] /\ seen'[b] = seen[b]
         /\ used' = used /\ RegisteredSources' = RegisteredSources
    BY <1>1, <1>2 DEF Turns, TypeOK, RegisteredSources
  <1>19. Len(used') >= Len(used) /\ \A i \in 1 .. Len(used) : used'[i] = used[i]
    BY <1>1, <1>18 DEF TypeOK
  <1>20. Proceeds' /\ GuardedOutsideTheGap'
    BY <1>1, <1>6, <1>9, <1>10, <1>14, <1>18, <1>19, ProceedsMoves, GuardedKept
  <1>21. Disposal' /\ DisposeIsHonest'
    BY <1>1, DisposalKept DEF Turns
  <1> QED
    BY <1>8, <1>12, <1>13, <1>14, <1>15, <1>16, <1>17, <1>20, <1>21 DEF IInv

(* A turn of the loop of ready(), whichever of its branches is taken.       *)
LEMMA LoopStep ==
    ASSUME IInv, NEW c, NEW k, Turns(c, k), Look(c), c \in slipped' \/ failure = 0,
           Loop(c, Rest(k))
    PROVE  IInv'
  BY LoopEnds, LoopJoins, LoopStarts DEF Loop
-----------------------------------------------------------------------------
(* The actions.                                                            *)

LEMMA InitIInv == Init => IInv
  <1> SUFFICES ASSUME Init PROVE IInv
    OBVIOUS
  <1> USE PluginRuntimeAssumption DEF Init
  <1>1. TypeOK
    BY DEF TypeOK
  <1>2. Shifts
    BY DEF Shifts, shifted, installed
  <1>3. Awaits /\ Current /\ Unstarted /\ Outcomes
    BY DEF Awaits, Current, Unstarted, Outcomes
  <1>4. Order /\ Resumes /\ Stored
    BY DEF Order, Resumes, Stored
  <1>5. Joins
    BY DEF Joins
  <1>6. Proceeds /\ GuardedOutsideTheGap
    BY DEF Proceeds, GuardedOutsideTheGap, Guarded
  <1>7. Disposal /\ DisposeIsHonest
    BY DEF Disposal, DisposeIsHonest
  <1> QED
    BY <1>1, <1>2, <1>3, <1>4, <1>5, <1>6, <1>7 DEF IInv

LEMMA UseStep == ASSUME IInv, NEW p \in Plugins, Use(p) PROVE IInv'
  <1> USE PluginRuntimeAssumption
  <1>1. TypeOK /\ Shifts /\ Awaits /\ Current /\ Unstarted /\ Outcomes /\ Order /\ Joins
        /\ Resumes /\ Stored /\ Proceeds /\ GuardedOutsideTheGap /\ Disposal /\ DisposeIsHonest
    BY DEF IInv
  <1>2. /\ used \in Seq(Plugins) /\ queued \in Seq(Plugins) /\ Len(used) < MaxUses
        /\ used' = Append(used, p) /\ queued' = Append(queued, p)
        /\ UNCHANGED <<registry, failure, jobs, asked, seen, slipped, setup, at, verdict, callVars, disposeVars>>
    BY <1>1 DEF Use, TypeOK
  <1>3. TypeOK'
    BY <1>1, <1>2 DEF TypeOK, callVars, disposeVars
  <1>4. /\ Len(used') = Len(used) + 1 /\ Len(used) \in Nat
        /\ Len(queued') = Len(queued) + 1 /\ Len(queued) \in Nat
        /\ \A i \in 1 .. Len(used) : used'[i] = used[i]
        /\ \A i \in 1 .. Len(queued) : queued'[i] = queued[i]
        /\ used'[Len(used) + 1] = p /\ queued'[Len(queued) + 1] = p
    BY <1>2
  <1>5. shifted' = shifted /\ shifted \in Nat /\ shifted <= Len(used)
    BY <1>1, <1>4 DEF shifted, Shifts
  <1>6. \A i \in 1 .. shifted : used'[i] = used[i]
    BY <1>4, <1>5
  <1>7. Shifts'
    <2>1. ASSUME NEW i \in 1 .. Len(queued') PROVE queued'[i] = used'[shifted' + i]
      <3>1. CASE i \in 1 .. Len(queued)
        <4>1. shifted + i \in 1 .. Len(used) /\ queued[i] = used[shifted + i]
          BY <1>1, <1>4, <1>5, <3>1 DEF Shifts, shifted
        <4> QED
          BY <1>4, <1>5, <3>1, <4>1
      <3>2. CASE i = Len(queued) + 1
        <4>1. shifted + i = Len(used) + 1
          BY <1>4, <3>2 DEF shifted
        <4> QED
          BY <1>4, <1>5, <3>2, <4>1
      <3> QED
        BY <1>4, <3>1, <3>2
    <2>2. Len(queued') <= Len(used') /\ started' <= shifted' /\ draining' \in {0, started'}
      BY <1>1, <1>2, <1>4, <1>5 DEF Shifts, callVars
    <2>3. \A q \in Plugins : q \in installed' <=> \E i \in 1 .. shifted' : used'[i] = q
      BY <1>1, <1>2, <1>5, <1>6 DEF Shifts, installed
    <2> QED
      BY <2>1, <2>2, <2>3 DEF Shifts
  <1>8. Awaits'
    <2>1. ASSUME NEW q \in Plugins, setup'[q] = "running"
          PROVE  /\ draining' # 0 /\ at'[draining'] = q /\ verdict'[draining'] = "pending"
                 /\ shifted' > 0 /\ used'[shifted'] = q
                 /\ \A i \in 1 .. shifted' - 1 : used'[i] # q
                 /\ \A i \in 1 .. Len(jobs') : Stage(jobs'[i]) # 0
      <3>1. setup[q] = "running" /\ UNCHANGED <<draining, at, verdict, jobs>>
        BY <1>2, <2>1 DEF callVars
      <3>2. /\ draining # 0 /\ at[draining] = q /\ verdict[draining] = "pending"
            /\ shifted > 0 /\ used[shifted] = q
            /\ \A i \in 1 .. shifted - 1 : used[i] # q
            /\ \A i \in 1 .. Len(jobs) : Stage(jobs[i]) # 0
        BY <1>1, <3>1 DEF Awaits
      <3>3. used'[shifted] = q /\ \A i \in 1 .. shifted - 1 : used'[i] # q
        BY <1>5, <1>6, <3>2
      <3> QED
        BY <1>5, <3>1, <3>2, <3>3
    <2> QED
      BY <1>1, <1>2, <2>1 DEF Awaits, installed, callVars
  <1>9. Current' /\ Unstarted' /\ Outcomes' /\ Order'
    BY <1>1, <1>2 DEF Current, Settled, Unstarted, Outcomes, Order, RegisteredSources, callVars
  <1>10. Joins' /\ Resumes' /\ Stored'
    BY <1>1, <1>2 DEF Joins, Resumes, Stored, Awaiting, callVars
  <1>11. Moves(0, {})
    BY <1>1, <1>2 DEF Moves, TypeOK
  <1>12. Proceeds' /\ GuardedOutsideTheGap'
    <2>1. pc' = pc /\ slipped' = slipped /\ asked' = asked /\ seen' = seen /\ Len(used') >= Len(used)
          /\ RegisteredSources' = RegisteredSources
      BY <1>2, <1>4 DEF callVars, RegisteredSources
    <2>2. \A c \in Callers : asked'[c] <= Len(used')
      BY <1>1, <1>4, <2>1 DEF Proceeds, TypeOK
    <2> QED
      BY <1>1, <1>3, <1>4, <1>11, <2>1, <2>2, ProceedsMoves, GuardedKept
  <1>13. Disposal' /\ DisposeIsHonest'
    BY <1>1, <1>2, DisposalKept
  <1> QED
    BY <1>3, <1>7, <1>8, <1>9, <1>10, <1>12, <1>13 DEF IInv

(* The steps of dispose() concern only dispose().                           *)
LEMMA DisposeKeeps ==
    ASSUME IInv, TypeOK', Disposal', DisposeIsHonest',
           UNCHANGED <<used, registry, failure, jobs, asked, seen, slipped, drainVars, callVars>>
    PROVE  IInv'
  <1>1. TypeOK /\ Shifts /\ Awaits /\ Current /\ Unstarted /\ Outcomes /\ Order /\ Joins
        /\ Resumes /\ Stored /\ Proceeds /\ GuardedOutsideTheGap /\ Disposal /\ DisposeIsHonest
    BY DEF IInv
  <1> USE DEF drainVars, callVars
  <1>2. Shifts' /\ Awaits'
    BY <1>1 DEF Shifts, Awaits, installed, shifted
  <1>3. Current' /\ Unstarted' /\ Outcomes' /\ Order'
    BY <1>1 DEF Current, Settled, Unstarted, Outcomes, Order, RegisteredSources
  <1>4. Joins' /\ Resumes' /\ Stored'
    BY <1>1 DEF Joins, Resumes, Stored, Awaiting
  <1>5. Proceeds' /\ GuardedOutsideTheGap'
    BY <1>1 DEF Proceeds, GuardedOutsideTheGap, Guarded, RegisteredSources
  <1> QED
    BY <1>1, <1>2, <1>3, <1>4, <1>5 DEF IInv

LEMMA DisposeStep == ASSUME IInv, Dispose PROVE IInv'
  <1>1. TypeOK /\ Shifts /\ Awaits /\ Current /\ Unstarted /\ Outcomes /\ Order /\ Joins
        /\ Resumes /\ Stored /\ Proceeds /\ GuardedOutsideTheGap /\ Disposal /\ DisposeIsHonest
    BY DEF IInv
  <1>2. RegisteredSources \subseteq Plugins
    BY <1>1 DEF RegisteredSources, TypeOK
  <1>3. TypeOK'
    BY <1>1, <1>2 DEF Dispose, Visit, TypeOK, drainVars, callVars
  <1>4. Disposal' /\ DisposeIsHonest'
    BY <1>1, <1>2 DEF Dispose, Visit, Disposal, DisposeIsHonest, Passed, TypeOK
  <1> QED
    BY <1>3, <1>4, DisposeKeeps DEF Dispose

LEMMA SourceDisposedStep == ASSUME IInv, NEW ok \in BOOLEAN, SourceDisposed(ok) PROVE IInv'
  <1>1. TypeOK /\ Shifts /\ Awaits /\ Current /\ Unstarted /\ Outcomes /\ Order /\ Joins
        /\ Resumes /\ Stored /\ Proceeds /\ GuardedOutsideTheGap /\ Disposal /\ DisposeIsHonest
    BY DEF IInv
  <1>2. /\ disposal = "running" /\ visiting \in owed /\ visiting \notin left /\ left \subseteq owed
        /\ owed \subseteq Plugins /\ visiting \in Plugins
        /\ closed \in [Plugins -> 0 .. 1]
        /\ \A p \in Plugins : closed[p] = IF Passed(p) THEN 1 ELSE 0
    BY <1>1 DEF SourceDisposed, Disposal, TypeOK
  <1>3. CASE ok /\ closed' = [closed EXCEPT ![visiting] = @ + 1] /\ Visit(left) /\ owed' = owed
    <2>1. \A p \in Plugins : closed'[p] = IF p \in owed \ left THEN 1 ELSE 0
      BY <1>2, <1>3 DEF Passed
    <2>2. closed' \in [Plugins -> 0 .. 1]
      BY <1>2, <1>3, <2>1
    <2>3. TypeOK'
      BY <1>1, <1>2, <1>3, <2>2 DEF SourceDisposed, Visit, TypeOK, drainVars, callVars
    <2>4. Disposal' /\ DisposeIsHonest'
      <3>1. CASE left = {} /\ disposal' = "fulfilled" /\ visiting' = NoPlugin /\ left' = {}
        BY <1>3, <2>1, <3>1 DEF Disposal, DisposeIsHonest
      <3>2. CASE left # {} /\ disposal' = "running" /\ visiting' \in left /\ left' = left \ {visiting'}
        BY <1>2, <1>3, <2>1, <3>2 DEF Disposal, DisposeIsHonest, Passed
      <3> QED
        BY <1>3, <3>1, <3>2 DEF Visit
    <2> QED
      BY <2>3, <2>4, DisposeKeeps DEF SourceDisposed
  <1>4. CASE ~ok /\ disposal' = "rejected" /\ UNCHANGED <<left, visiting, closed, owed>>
    <2>1. TypeOK'
      BY <1>1, <1>4 DEF SourceDisposed, TypeOK, drainVars, callVars
    <2>2. Disposal' /\ DisposeIsHonest'
      BY <1>2, <1>4 DEF Disposal, DisposeIsHonest, Passed
    <2> QED
      BY <2>1, <2>2, DisposeKeeps DEF SourceDisposed
  <1> QED
    BY <1>3, <1>4 DEF SourceDisposed
(* The first job of the queue.                                              *)
LEMMA HeadFacts ==
    ASSUME TypeOK, jobs # <<>>
    PROVE  /\ Len(jobs) \in Nat /\ 1 <= Len(jobs) /\ 1 \in 1 .. Len(jobs)
           /\ Head(jobs) = jobs[1] /\ jobs[1] \in Jobs
           /\ Tail(jobs) = Rest(1)
  BY DEF TypeOK, Rest

(* A step that lets no caller through.                                      *)
LEMMA CallersKept ==
    ASSUME IInv, TypeOK', NEW k, NEW new \in SUBSET Jobs, Moves(k, new),
           \A x \in new : x.kind # "proceed",
           UNCHANGED <<used, slipped, asked, seen>>,
           RegisteredSources \subseteq RegisteredSources',
           \A c \in Callers : /\ pc[c] # "idle" => pc'[c] # "idle"
                              /\ pc'[c] = "guarded" => pc[c] = "guarded"
    PROVE  Proceeds' /\ GuardedOutsideTheGap'
  <1>1. TypeOK /\ Shifts /\ Awaits /\ Current /\ Unstarted /\ Outcomes /\ Order /\ Joins
        /\ Resumes /\ Stored /\ Proceeds /\ GuardedOutsideTheGap /\ Disposal /\ DisposeIsHonest
    BY DEF IInv
  <1>2. Len(used') >= Len(used) /\ \A i \in 1 .. Len(used) : used'[i] = used[i]
    BY <1>1 DEF TypeOK
  <1>3. \A c \in Callers : asked'[c] = asked[c] /\ seen'[c] = seen[c] /\ asked'[c] <= Len(used')
    BY <1>1 DEF Proceeds
  <1>4. slipped \subseteq slipped'
    OBVIOUS
  <1>5. Proceeds'
    <2>1. \A c \in Callers : /\ pc[c] # "idle" => pc'[c] # "idle" /\ asked'[c] = asked[c]
                             /\ asked'[c] <= Len(used')
      BY <1>3
    <2>2. \A x \in new : x.kind = "proceed" =>
             /\ pc'[x.of] # "idle"
             /\ x.of \notin slipped' => \A i \in 1 .. asked'[x.of] : used'[i] \in RegisteredSources'
      OBVIOUS
    <2> QED
      BY <1>1, <1>2, <1>4, <2>1, <2>2, ProceedsMoves
  <1>6. GuardedOutsideTheGap'
    BY <1>1, <1>2, <1>3, <1>4, GuardedKept
  <1> QED
    BY <1>5, <1>6

(* A job of a drain is followed by the next of the same drain.              *)
LEMMA Advance ==
    ASSUME IInv, jobs # <<>>, OfDrain(jobs[1]), NEW new \in SUBSET Jobs, Moves(1, new),
           \A x \in new : /\ OfDrain(x) /\ DrainOf(x) = DrainOf(jobs[1])
                          /\ Stage(x) = Stage(jobs[1]) + 1
                          /\ x.kind = "resume" => x.of \in Awaiting(x.on),
           UNCHANGED <<used, queued, setup, registry, started, at, verdict, waiters,
                       failure, pc, asked, seen, slipped, disposeVars>>,
           draining' \in 0 .. MaxUses
    PROVE  /\ TypeOK' /\ Unstarted' /\ Order' /\ Joins' /\ Resumes' /\ Stored'
           /\ Proceeds' /\ GuardedOutsideTheGap' /\ Disposal' /\ DisposeIsHonest'
  <1> USE PluginRuntimeAssumption
  <1>1. TypeOK /\ Shifts /\ Awaits /\ Current /\ Unstarted /\ Outcomes /\ Order /\ Joins
        /\ Resumes /\ Stored /\ Proceeds /\ GuardedOutsideTheGap /\ Disposal /\ DisposeIsHonest
    BY DEF IInv
  <1>2. TypeOK'
    BY <1>1 DEF TypeOK, Moves, disposeVars
  <1>3. /\ 1 \in 1 .. Len(jobs) /\ jobs[1] \in Jobs /\ DrainOf(jobs[1]) \in Nat /\ Stage(jobs[1]) \in Nat
        /\ DrainOf(jobs[1]) <= started /\ started \in Nat /\ failure \in Nat
    <2>1. 1 \in 1 .. Len(jobs) /\ jobs[1] \in Jobs
      BY <1>1, HeadFacts
    <2>2. DrainOf(jobs[1]) \in Nat /\ Stage(jobs[1]) \in Nat
      BY <2>1, JobFacts
    <2>3. DrainOf(jobs[1]) <= started
      BY <1>1, <2>1 DEF Order
    <2>4. started \in Nat /\ failure \in Nat
      BY <1>1 DEF TypeOK
    <2> QED
      BY <2>1, <2>2, <2>3, <2>4
  <1>4. Order'
    <2>1. ASSUME NEW x \in new, NEW i \in 1 + 1 .. Len(jobs), OfDrain(jobs[i])
          PROVE  /\ DrainOf(jobs[i]) < DrainOf(x) => Stage(jobs[i]) >= Stage(x)
                 /\ DrainOf(x) < DrainOf(jobs[i]) => Stage(x) > Stage(jobs[i])
      <3>1. i \in 1 .. Len(jobs) /\ i > 1 /\ jobs[i] \in Jobs
        BY <1>1 DEF TypeOK
      <3>2. DrainOf(jobs[i]) \in Nat /\ Stage(jobs[i]) \in Nat
        BY <3>1, JobFacts
      <3>3. DrainOf(jobs[i]) < DrainOf(jobs[1]) => Stage(jobs[i]) > Stage(jobs[1])
        BY <1>1, <1>3, <2>1, <3>1 DEF Order
      <3>4. DrainOf(jobs[1]) < DrainOf(jobs[i]) => Stage(jobs[1]) >= Stage(jobs[i])
        BY <1>1, <1>3, <2>1, <3>1, <3>2 DEF Order
      <3> QED
        BY <1>3, <3>2, <3>3, <3>4
    <2>2. \A x \in new : DrainOf(x) <= started'
      BY <1>3
    <2>3. started' >= started
      BY <1>3
    <2> QED
      BY <1>1, <1>2, <2>1, <2>2, <2>3, OrderMoves
  <1>5. Stored'
    <2>1. failure # 0 => \A x \in new : OfDrain(x) => DrainOf(x) >= failure
      BY <1>1, <1>3 DEF Stored
    <2> QED
      BY <1>1, <1>2, <1>3, <2>1, StoredMoves
  <1>6. Unstarted' /\ Joins'
    BY <1>1 DEF Unstarted, Joins, Awaiting
  <1>7. \A d \in Drains : Awaiting(d) = Awaiting(d)'
    BY DEF Awaiting
  <1>8. \A x \in new : x.kind = "resume" => x.of \in Awaiting(x.on)'
    BY DEF Awaiting
  <1>9. Resumes'
    BY <1>1, <1>7, <1>8, ResumesMoves
  <1>10. \A x \in new : x.kind # "proceed"
    BY DEF OfDrain
  <1>11. Proceeds' /\ GuardedOutsideTheGap'
    BY <1>2, <1>10, CallersKept DEF RegisteredSources
  <1>12. Disposal' /\ DisposeIsHonest'
    BY <1>1, DisposalKept
  <1> QED
    BY <1>2, <1>4, <1>5, <1>6, <1>9, <1>11, <1>12

LEMMA RunFinallyStep == ASSUME IInv, RunFinally PROVE IInv'
  <1> USE PluginRuntimeAssumption
  <1>1. TypeOK /\ Shifts /\ Awaits /\ Current /\ Unstarted /\ Outcomes /\ Order /\ Joins
        /\ Resumes /\ Stored /\ Proceeds /\ GuardedOutsideTheGap /\ Disposal /\ DisposeIsHonest
    BY DEF IInv
  <1>2. /\ jobs # <<>> /\ jobs[1].kind = "finally" /\ draining' = 0
        /\ jobs' = Append(Rest(1), Job("then", jobs[1].of))
        /\ UNCHANGED <<used, queued, setup, registry, started, at, verdict, waiters,
                        failure, pc, asked, seen, slipped, disposeVars>>
        /\ 1 \in 1 .. Len(jobs) /\ 1 <= Len(jobs) /\ jobs[1] \in Jobs
    BY <1>1, HeadFacts DEF RunFinally, Next1, drainVars
  <1> DEFINE d == jobs[1].of
             new == {Job("then", d)}
  <1>3. d \in Drains /\ OfDrain(jobs[1]) /\ DrainOf(jobs[1]) = d /\ Stage(jobs[1]) = 0
    BY <1>2, JobFacts DEF OfDrain
  <1>4. new \in SUBSET Jobs /\ \A x \in new : /\ OfDrain(x) /\ DrainOf(x) = d /\ Stage(x) = 1
                                              /\ x.kind # "resume"
    BY <1>3, DrainJobs
  <1>5. Moves(1, new)
    BY <1>1, <1>2, <1>3, DrainJobs, MovesAppend DEF TypeOK
  <1> HIDE DEF d, new
  <1>6. /\ TypeOK' /\ Unstarted' /\ Order' /\ Joins' /\ Resumes' /\ Stored'
        /\ Proceeds' /\ GuardedOutsideTheGap' /\ Disposal' /\ DisposeIsHonest'
    <2>1. draining' \in 0 .. MaxUses
      BY <1>2
    <2>2. \A x \in new : /\ OfDrain(x) /\ DrainOf(x) = DrainOf(jobs[1])
                         /\ Stage(x) = Stage(jobs[1]) + 1 /\ x.kind # "resume"
      BY <1>3, <1>4
    <2> QED
      BY <1>2, <1>3, <1>4, <1>5, <2>1, <2>2, Advance
  <1>7. \A i \in 1 .. Len(jobs') : Stage(jobs'[i]) # 0
    <2> SUFFICES ASSUME NEW i \in 1 .. Len(jobs'), Stage(jobs'[i]) = 0 PROVE FALSE
      OBVIOUS
    <2>1. i + 1 \in 1 + 1 .. Len(jobs) /\ jobs'[i] = jobs[i + 1]
      BY <1>1, <1>4, <1>5, MovesFacts
    <2>2. i + 1 \in 1 .. Len(jobs) /\ i + 1 # 1
      BY <2>1
    <2> QED
      BY <1>1, <1>2, <1>3, <2>1, <2>2 DEF Current
  <1>8. \A p \in Plugins : setup[p] # "running"
    BY <1>1, <1>2, <1>3 DEF Awaits
  <1>9. Shifts' /\ Awaits' /\ Current'
    BY <1>1, <1>2, <1>7, <1>8 DEF Shifts, Awaits, Current, shifted, installed, TypeOK
  <1>10. Outcomes'
    <2>1. \A i \in 1 .. Len(jobs) : jobs[i].kind # "setup"
      <3> SUFFICES ASSUME NEW i \in 1 .. Len(jobs), jobs[i].kind = "setup" PROVE FALSE
        OBVIOUS
      <3>1. Stage(jobs[i]) = 0
        BY <1>1, JobFacts DEF TypeOK
      <3> QED
        BY <1>1, <1>2, <1>3, <3>1 DEF Current
    <2> QED
      BY <1>1, <1>2, <2>1 DEF Outcomes, RegisteredSources
  <1> QED
    BY <1>6, <1>9, <1>10 DEF IInv
LEMMA RunThenStep == ASSUME IInv, RunThen PROVE IInv'
  <1> USE PluginRuntimeAssumption
  <1>1. TypeOK /\ Shifts /\ Awaits /\ Current /\ Unstarted /\ Outcomes /\ Order /\ Joins
        /\ Resumes /\ Stored /\ Proceeds /\ GuardedOutsideTheGap /\ Disposal /\ DisposeIsHonest
    BY DEF IInv
  <1>2. /\ jobs # <<>> /\ jobs[1].kind = "then" /\ jobs[1] \in Jobs /\ 1 <= Len(jobs)
        /\ jobs' = Append(Rest(1), Job("settle", jobs[1].of))
        /\ UNCHANGED <<used, queued, setup, registry, started, at, verdict, waiters,
                        failure, pc, asked, seen, slipped, disposeVars, draining>>
    BY <1>1, HeadFacts DEF RunThen, Next1, drainVars, callVars
  <1> DEFINE d == jobs[1].of
             new == {Job("settle", d)}
  <1>3. /\ d \in Drains /\ OfDrain(jobs[1]) /\ DrainOf(jobs[1]) = d
        /\ Stage(jobs[1]) = 1
    BY <1>2, JobFacts DEF OfDrain, Stage, Stages
  <1>4. new \in SUBSET Jobs /\ \A x \in new : /\ OfDrain(x) /\ DrainOf(x) = d
                                              /\ Stage(x) = 2 /\ x.kind # "resume"
    BY <1>3, DrainJobs
  <1>5. Moves(1, new)
    BY <1>1, <1>2, <1>3, DrainJobs, MovesAppend DEF TypeOK
  <1> HIDE DEF d, new
  <1>6. /\ TypeOK' /\ Unstarted' /\ Order' /\ Joins' /\ Resumes' /\ Stored'
        /\ Proceeds' /\ GuardedOutsideTheGap' /\ Disposal' /\ DisposeIsHonest'
    <2>1. draining' \in 0 .. MaxUses
      BY <1>1, <1>2 DEF TypeOK
    <2>2. \A x \in new : /\ OfDrain(x) /\ DrainOf(x) = DrainOf(jobs[1])
                         /\ Stage(x) = Stage(jobs[1]) + 1 /\ x.kind # "resume"
      BY <1>3, <1>4
    <2> QED
      BY <1>2, <1>3, <1>4, <1>5, <2>1, <2>2, Advance
  <1>7. Shifts' /\ Awaits' /\ Current' /\ Outcomes'
    <2>1. \A x \in new : Stage(x) # 0
      BY <1>4
    <2> QED
      BY <1>1, <1>2, <1>3, <1>4, <1>5, <2>1, QuietMoves
  <1> QED
    BY <1>6, <1>7 DEF IInv

(* The callers that are resumed have awaited the drain.                     *)
LEMMA Resumption ==
    ASSUME NEW d \in Drains, NEW w \in Seq(Callers), NEW more,
           more = [i \in 1 .. Len(w) |-> Resume(w[i], d)]
    PROVE  /\ more \in Seq(Jobs)
           /\ \A i \in 1 .. Len(more) :
                 /\ more[i] \in Jobs /\ OfDrain(more[i]) /\ DrainOf(more[i]) = d
                 /\ Stage(more[i]) = 3 /\ more[i].on = d
                 /\ more[i].of \in {w[j] : j \in 1 .. Len(w)}
  <1>1. Len(w) \in Nat /\ \A i \in 1 .. Len(w) : w[i] \in Callers
    OBVIOUS
  <1>2. \A i \in 1 .. Len(w) :
           /\ Resume(w[i], d) \in Jobs /\ OfDrain(Resume(w[i], d))
           /\ DrainOf(Resume(w[i], d)) = d
           /\ Stage(Resume(w[i], d)) = 3 /\ Resume(w[i], d).on = d /\ Resume(w[i], d).of = w[i]
    BY <1>1, CallerJobs
  <1>3. more \in Seq(Jobs) /\ Len(more) = Len(w)
    BY <1>1, <1>2
  <1> QED
    BY <1>2, <1>3

LEMMA RunSettleStep == ASSUME IInv, RunSettle PROVE IInv'
  <1> USE PluginRuntimeAssumption
  <1>1. TypeOK /\ Shifts /\ Awaits /\ Current /\ Unstarted /\ Outcomes /\ Order /\ Joins
        /\ Resumes /\ Stored /\ Proceeds /\ GuardedOutsideTheGap /\ Disposal /\ DisposeIsHonest
    BY DEF IInv
  <1> DEFINE d == jobs[1].of
             w == waiters[d]
             more == [i \in 1 .. Len(w) |-> Resume(w[i], d)]
             new == {more[i] : i \in 1 .. Len(more)}
  <1>2. /\ jobs # <<>> /\ jobs[1].kind = "settle" /\ jobs[1] \in Jobs /\ Len(jobs) > 0
        /\ jobs' = Tail(jobs) \o more
        /\ UNCHANGED <<used, queued, setup, registry, started, at, verdict, waiters,
                        failure, pc, asked, seen, slipped, disposeVars, draining>>
    BY <1>1, HeadFacts DEF RunSettle, Next1, drainVars, callVars
  <1>3. /\ d \in Drains /\ OfDrain(jobs[1]) /\ DrainOf(jobs[1]) = d
        /\ Stage(jobs[1]) = 2
    BY <1>2, JobFacts DEF OfDrain, Stage, Stages
  <1>4. w \in Seq(Callers)
    BY <1>1, <1>3 DEF TypeOK
  <1> HIDE DEF d, w
  <1>5. /\ more \in Seq(Jobs)
        /\ \A i \in 1 .. Len(more) :
              /\ more[i] \in Jobs /\ OfDrain(more[i]) /\ DrainOf(more[i]) = d
              /\ Stage(more[i]) = 3 /\ more[i].on = d
              /\ more[i].of \in {w[j] : j \in 1 .. Len(w)}
    BY <1>3, <1>4, Resumption
  <1> HIDE DEF more
  <1>6. Moves(1, new)
    BY <1>1, <1>2, <1>5, MovesConcat DEF TypeOK
  <1>7. new \in SUBSET Jobs /\ \A x \in new : /\ OfDrain(x) /\ DrainOf(x) = d
                                              /\ Stage(x) = 3 /\ x.of \in Awaiting(x.on)
    BY <1>5 DEF Awaiting, w
  <1> HIDE DEF new
  <1>8. /\ TypeOK' /\ Unstarted' /\ Order' /\ Joins' /\ Resumes' /\ Stored'
        /\ Proceeds' /\ GuardedOutsideTheGap' /\ Disposal' /\ DisposeIsHonest'
    <2>1. draining' \in 0 .. MaxUses
      BY <1>1, <1>2 DEF TypeOK
    <2>2. \A x \in new : /\ OfDrain(x) /\ DrainOf(x) = DrainOf(jobs[1])
                         /\ Stage(x) = Stage(jobs[1]) + 1 /\ x.of \in Awaiting(x.on)
      BY <1>3, <1>7
    <2> QED
      BY <1>2, <1>3, <1>6, <1>7, <2>1, <2>2, Advance
  <1>9. Shifts' /\ Awaits' /\ Current' /\ Outcomes'
    <2>1. \A x \in new : Stage(x) # 0
      BY <1>7
    <2> QED
      BY <1>1, <1>2, <1>3, <1>6, <1>7, <2>1, QuietMoves
  <1> QED
    BY <1>8, <1>9 DEF IInv

(* A job that is done with, and leads to no other.                          *)
LEMMA Done ==
    ASSUME IInv, TypeOK', jobs # <<>>, jobs' = Rest(1), Stage(jobs[1]) # 0,
           UNCHANGED <<used, queued, setup, registry, started, at, verdict, waiters,
                       draining, asked, slipped, disposeVars>>
    PROVE  /\ Moves(1, {})
           /\ Shifts' /\ Awaits' /\ Current' /\ Unstarted' /\ Outcomes' /\ Order' /\ Joins'
           /\ Resumes' /\ Disposal' /\ DisposeIsHonest'
  <1>1. TypeOK /\ Shifts /\ Awaits /\ Current /\ Unstarted /\ Outcomes /\ Order /\ Joins
        /\ Resumes /\ Stored /\ Proceeds /\ GuardedOutsideTheGap /\ Disposal /\ DisposeIsHonest
    BY DEF IInv
  <1>2. Moves(1, {})
    BY <1>1, HeadFacts, MovesRest DEF TypeOK
  <1>3. Shifts' /\ Awaits' /\ Current' /\ Outcomes'
    BY <1>1, <1>2, QuietMoves
  <1>4. Unstarted' /\ Joins'
    BY <1>1 DEF Unstarted, Joins, Awaiting
  <1>5. Order'
    <2>1. started' >= started
      BY <1>1, PluginRuntimeAssumption DEF TypeOK
    <2> QED
      BY <1>1, <1>2, <2>1, OrderMoves
  <1>6. Resumes'
    BY <1>1, <1>2, ResumesMoves DEF Awaiting
  <1>7. Disposal' /\ DisposeIsHonest'
    BY <1>1, DisposalKept
  <1> QED
    BY <1>2, <1>3, <1>4, <1>5, <1>6, <1>7

LEMMA RunProceedStep == ASSUME IInv, RunProceed PROVE IInv'
  <1> USE PluginRuntimeAssumption
  <1>1. TypeOK /\ Shifts /\ Awaits /\ Current /\ Unstarted /\ Outcomes /\ Order /\ Joins
        /\ Resumes /\ Stored /\ Proceeds /\ GuardedOutsideTheGap /\ Disposal /\ DisposeIsHonest
    BY DEF IInv
  <1> DEFINE c == jobs[1].of
  <1>2. /\ jobs # <<>> /\ 1 \in 1 .. Len(jobs) /\ jobs[1] \in Jobs /\ jobs[1].kind = "proceed"
        /\ c \in Callers /\ Stage(jobs[1]) # 0
        /\ jobs' = Rest(1) /\ pc' = [pc EXCEPT ![c] = "guarded"] /\ seen' = [seen EXCEPT ![c] = registry]
        /\ UNCHANGED <<used, queued, setup, registry, started, at, verdict, waiters, failure,
                        draining, asked, slipped, disposeVars>>
    BY <1>1, HeadFacts, JobFacts DEF RunProceed, Next1, drainVars
  <1> HIDE DEF c
  <1>3. TypeOK'
    <2>1. jobs' \in Seq(Jobs)
      BY <1>1, <1>2, HeadFacts, RestFacts DEF TypeOK
    <2> QED
      BY <1>1, <1>2, <2>1 DEF TypeOK, disposeVars
  <1>4. /\ Moves(1, {})
        /\ Shifts' /\ Awaits' /\ Current' /\ Unstarted' /\ Outcomes' /\ Order' /\ Joins'
        /\ Resumes' /\ Disposal' /\ DisposeIsHonest'
    BY <1>2, <1>3, Done
  <1>5. Stored'
    <2>1. started' >= started
      BY <1>1, <1>2 DEF TypeOK
    <2> QED
      BY <1>1, <1>2, <1>3, <1>4, <2>1, StoredMoves
  <1>6. Proceeds'
    <2>1. Len(used') >= Len(used) /\ \A i \in 1 .. Len(used) : used'[i] = used[i]
      BY <1>1, <1>2 DEF TypeOK
    <2>2. \A b \in Callers : /\ pc[b] # "idle" => pc'[b] # "idle" /\ asked'[b] = asked[b]
                             /\ asked'[b] <= Len(used')
      BY <1>1, <1>2 DEF Proceeds, TypeOK
    <2>3. RegisteredSources \subseteq RegisteredSources' /\ slipped \subseteq slipped'
      BY <1>2 DEF RegisteredSources
    <2> QED
      BY <1>1, <1>3, <1>4, <2>1, <2>2, <2>3, ProceedsMoves
  <1>7. GuardedOutsideTheGap'
    <2> SUFFICES ASSUME NEW b \in Callers \ slipped, pc'[b] = "guarded", NEW i \in 1 .. asked[b]
                 PROVE  \E j \in 1 .. Len(seen'[b]) : seen'[b][j] = used[i]
      BY <1>2 DEF GuardedOutsideTheGap, Guarded
    <2>1. CASE b = c
      <3>1. used[i] \in RegisteredSources
        BY <1>1, <1>2, <2>1 DEF Proceeds, c
      <3>2. \E j \in 1 .. Len(registry) : registry[j] = used[i]
        <4>1. DOMAIN registry = 1 .. Len(registry)
          BY <1>1 DEF TypeOK
        <4>2. PICK j \in DOMAIN registry : used[i] = registry[j]
          BY <3>1 DEF RegisteredSources
        <4> QED
          BY <4>1, <4>2
      <3> QED
        BY <1>1, <1>2, <2>1, <3>2 DEF TypeOK
    <2>2. CASE b # c
      BY <1>1, <1>2, <2>2 DEF GuardedOutsideTheGap, Guarded, TypeOK
    <2> QED
      BY <2>1, <2>2
  <1> QED
    BY <1>3, <1>4, <1>5, <1>6, <1>7 DEF IInv
(* What the drain in flight does, up to the one job of stage 0 it queues.   *)
LEMMA DrainTurn ==
    ASSUME IInv, NEW d, d \in Drains, d = draining, d = started, verdict[d] = "pending",
           NEW k, NEW kind \in {"setup", "finally"}, Moves(k, {Job(kind, d)}),
           queued' \in Seq(Plugins), registry' \in Seq(Plugins),
           setup' \in [Plugins -> {"new", "running", "ok", "failed"}],
           at' \in [Drains -> Plugins \cup {NoPlugin}],
           verdict' \in [Drains -> {"pending", "fulfilled", "rejected"}],
           \A e \in Drains : e # d => verdict'[e] = verdict[e],
           RegisteredSources \subseteq RegisteredSources',
           UNCHANGED <<used, failure, asked, seen, slipped, callVars, disposeVars>>
    PROVE  /\ TypeOK' /\ Unstarted' /\ Order' /\ Joins' /\ Resumes' /\ Stored'
           /\ Proceeds' /\ GuardedOutsideTheGap' /\ Disposal' /\ DisposeIsHonest'
  <1> USE PluginRuntimeAssumption DEF callVars
  <1>1. TypeOK /\ Shifts /\ Awaits /\ Current /\ Unstarted /\ Outcomes /\ Order /\ Joins
        /\ Resumes /\ Stored /\ Proceeds /\ GuardedOutsideTheGap /\ Disposal /\ DisposeIsHonest
    BY DEF IInv
  <1> DEFINE new == {Job(kind, d)}
  <1>2. TypeOK'
    BY <1>1 DEF TypeOK, Moves, disposeVars
  <1>3. new \in SUBSET Jobs /\ \A x \in new : /\ x.kind = kind /\ OfDrain(x) /\ DrainOf(x) = d
                                              /\ Stage(x) = 0
    BY DrainJobs
  <1>4. Moves(k, new)
    OBVIOUS
  <1> HIDE DEF new
  <1>5. started \in Nat /\ failure \in Nat /\ started' >= started /\ d \in Nat
    BY <1>1 DEF TypeOK
  <1>6. Order'
    <2>1. ASSUME NEW x \in new, NEW i \in k + 1 .. Len(jobs), OfDrain(jobs[i])
          PROVE  /\ DrainOf(jobs[i]) < DrainOf(x) => Stage(jobs[i]) >= Stage(x)
                 /\ DrainOf(x) < DrainOf(jobs[i]) => Stage(x) > Stage(jobs[i])
      <3>1. i \in 1 .. Len(jobs) /\ jobs[i] \in Jobs
        BY <1>1 DEF TypeOK, Moves
      <3>2. DrainOf(jobs[i]) \in Nat /\ Stage(jobs[i]) \in Nat
        BY <3>1, JobFacts
      <3>3. DrainOf(jobs[i]) <= d
        BY <1>1, <3>1 DEF Order
      <3> QED
        BY <1>3, <1>5, <3>2, <3>3
    <2>2. \A x \in new : DrainOf(x) <= started'
      BY <1>3, <1>5
    <2>3. \A x, y \in new : DrainOf(x) = DrainOf(y)
      BY <1>3
    <2> QED
      BY <1>1, <1>2, <1>3, <1>4, <1>5, <2>1, <2>2, <2>3, OrderMoves
  <1>7. Stored'
    <2>1. failure # 0 => failure <= d /\ failure # d
      BY <1>1 DEF Stored
    <2>2. failure # 0 => failure \in Drains /\ verdict'[failure] = verdict[failure]
      BY <1>1, <2>1 DEF TypeOK, Drains
    <2>3. failure # 0 => \A x \in new : OfDrain(x) => DrainOf(x) >= failure
      BY <1>3, <1>5, <2>1
    <2> QED
      BY <1>1, <1>2, <1>3, <1>4, <1>5, <2>2, <2>3, StoredMoves
  <1>8. Unstarted'
    BY <1>1, <1>5 DEF Unstarted
  <1>9. Joins'
    <2> SUFFICES ASSUME NEW f \in Drains, NEW i \in 1 .. Len(waiters[f]), waiters[f][i] \notin slipped,
                        NEW e \in Drains, e < f
                 PROVE  verdict'[e] # "rejected"
      BY DEF Joins, Awaiting
    <2>1. verdict[e] # "rejected"
      BY <1>1 DEF Joins, Awaiting
    <2>2. ASSUME e = d PROVE FALSE
      <3>1. f > started
        BY <2>2
      <3>2. waiters[f] = <<>>
        BY <1>1, <3>1 DEF Unstarted
      <3>3. Len(waiters[f]) = 0
        BY <3>2
      <3> QED
        BY <3>3
    <2> QED
      BY <2>1, <2>2
  <1>10. Resumes'
    <2>1. \A x \in new : x.kind # "resume"
      BY <1>3
    <2> QED
      BY <1>1, <1>3, <1>4, <2>1, ResumesMoves DEF Awaiting
  <1>11. Proceeds' /\ GuardedOutsideTheGap'
    <2>1. \A x \in new : x.kind # "proceed"
      BY <1>3
    <2> QED
      BY <1>2, <1>3, <1>4, <2>1, CallersKept
  <1>12. Disposal' /\ DisposeIsHonest'
    BY <1>1, DisposalKept
  <1> QED
    BY <1>2, <1>6, <1>7, <1>8, <1>9, <1>10, <1>11, <1>12

LEMMA SetupSettlesStep ==
    ASSUME IInv, NEW d \in Drains, NEW ok \in BOOLEAN, SetupSettles(d, ok)
    PROVE  IInv'
  <1> USE PluginRuntimeAssumption
  <1>1. TypeOK /\ Shifts /\ Awaits /\ Current /\ Unstarted /\ Outcomes /\ Order /\ Joins
        /\ Resumes /\ Stored /\ Proceeds /\ GuardedOutsideTheGap /\ Disposal /\ DisposeIsHonest
    BY DEF IInv
  <1> DEFINE p == at[d]
             job == Job("setup", d)
             result == IF ok THEN "ok" ELSE "failed"
  <1>2. /\ p \in Plugins /\ setup[p] = "running"
        /\ setup' = [setup EXCEPT ![p] = result]
        /\ registry' = IF ok THEN Append(registry, p) ELSE registry
        /\ jobs' = Append(Rest(0), job)
        /\ UNCHANGED <<used, failure, asked, seen, slipped, queued, at, verdict, callVars, disposeVars>>
    BY <1>1 DEF SetupSettles, TypeOK, Rest
  <1>3. /\ d = draining /\ d = started /\ verdict[d] = "pending" /\ d # 0
        /\ \A i \in 1 .. Len(jobs) : Stage(jobs[i]) # 0
        /\ \A q \in Plugins : setup[q] = "running" => q = p
    BY <1>1, <1>2 DEF Awaits, Shifts, Drains
  <1>4. job \in Jobs /\ job.kind = "setup" /\ job.of = d /\ Stage(job) = 0
    BY DrainJobs
  <1> HIDE DEF job
  <1>5. Moves(0, {job})
    <2>1. jobs \in Seq(Jobs) /\ 0 <= Len(jobs) /\ 0 \in {0, 1}
      BY <1>1 DEF TypeOK
    <2> QED
      BY <1>2, <1>4, <2>1, MovesAppend
  <1>6. result \in {"ok", "failed"} /\ (result = "ok" <=> ok)
    OBVIOUS
  <1> HIDE DEF result
  <1>7. /\ setup'[p] = result /\ \A q \in Plugins : q # p => setup'[q] = setup[q]
        /\ setup' \in [Plugins -> {"new", "running", "ok", "failed"}]
    BY <1>1, <1>2, <1>6 DEF TypeOK
  <1> HIDE DEF p
  <1>8. /\ registry' \in Seq(Plugins) /\ RegisteredSources \subseteq RegisteredSources'
        /\ ok => p \in RegisteredSources'
    <2>1. registry \in Seq(Plugins) /\ DOMAIN registry = 1 .. Len(registry) /\ Len(registry) \in Nat
      BY <1>1 DEF TypeOK
    <2>2. CASE ok
      <3>1. /\ registry' \in Seq(Plugins) /\ DOMAIN registry' = 1 .. Len(registry) + 1
            /\ \A i \in 1 .. Len(registry) : registry'[i] = registry[i]
            /\ registry'[Len(registry) + 1] = p
        BY <1>2, <2>1, <2>2
      <3>2. \A i \in 1 .. Len(registry) : i \in 1 .. Len(registry) + 1
        BY <2>1
      <3>3. Len(registry) + 1 \in 1 .. Len(registry) + 1
        BY <2>1
      <3> QED
        BY <2>1, <3>1, <3>2, <3>3 DEF RegisteredSources
    <2>3. CASE ~ok
      BY <1>2, <2>1, <2>3 DEF RegisteredSources
    <2> QED
      BY <2>2, <2>3
  <1>9. /\ TypeOK' /\ Unstarted' /\ Order' /\ Joins' /\ Resumes' /\ Stored'
        /\ Proceeds' /\ GuardedOutsideTheGap' /\ Disposal' /\ DisposeIsHonest'
    <2>1. /\ queued' \in Seq(Plugins) /\ at' \in [Drains -> Plugins \cup {NoPlugin}]
          /\ verdict' \in [Drains -> {"pending", "fulfilled", "rejected"}]
          /\ \A e \in Drains : e # d => verdict'[e] = verdict[e]
      BY <1>1, <1>2 DEF TypeOK
    <2> QED
      BY <1>2, <1>3, <1>5, <1>7, <1>8, <2>1, DrainTurn DEF job
  <1>10. Shifts'
    <2>1. installed' = installed
      BY <1>2, <1>6, <1>7 DEF installed
    <2> QED
      BY <1>1, <1>2, <2>1 DEF Shifts, shifted, callVars
  <1>11. Awaits'
    <2>1. \A q \in Plugins : setup'[q] # "running"
      BY <1>3, <1>6, <1>7
    <2>2. \A e \in Drains : at[e] # NoPlugin => at[e] \in Plugins /\ setup'[at[e]] # "new"
      BY <1>1, <1>6, <1>7 DEF Awaits, installed, TypeOK
    <2> QED
      BY <1>2, <2>1, <2>2 DEF Awaits, installed
  <1>12. /\ Len(jobs') = Len(jobs) + 1 /\ jobs'[Len(jobs) + 1] = job /\ Len(jobs) \in Nat
         /\ \A i \in 1 .. Len(jobs) : jobs'[i] = jobs[i]
    BY <1>1, <1>2, <1>4 DEF TypeOK, Rest
  <1>13. Current'
    <2>1. \A i \in 1 .. Len(jobs') : Stage(jobs'[i]) = 0 => i = Len(jobs) + 1 /\ jobs'[i] = job
      BY <1>3, <1>12
    <2>2. draining' = d /\ verdict'[draining'] = "pending" /\ at'[draining'] = p
      BY <1>2, <1>3 DEF p, callVars
    <2>3. setup'[p] \in {"ok", "failed"}
      BY <1>6, <1>7
    <2> QED
      BY <1>2, <1>4, <2>1, <2>2, <2>3 DEF Current, Settled
  <1>14. Outcomes'
    <2> SUFFICES ASSUME NEW q \in Plugins
                 PROVE  /\ setup'[q] = "ok" => q \in RegisteredSources'
                        /\ setup'[q] = "failed" =>
                              \/ \E e \in Drains : verdict[e] = "rejected"
                              \/ \E i \in 1 .. Len(jobs') : jobs'[i].kind = "setup" /\ at[jobs'[i].of] = q
      BY <1>2 DEF Outcomes
    <2>1. CASE q = p
      <3>1. Len(jobs) + 1 \in 1 .. Len(jobs')
        BY <1>12
      <3> QED
        BY <1>4, <1>6, <1>7, <1>8, <1>12, <2>1, <3>1 DEF p
    <2>2. CASE q # p
      <3>1. setup'[q] = setup[q]
        BY <1>7, <2>2
      <3>2. \A i \in 1 .. Len(jobs) : i \in 1 .. Len(jobs')
        BY <1>12
      <3> QED
        BY <1>1, <1>8, <1>12, <3>1, <3>2 DEF Outcomes
    <2> QED
      BY <2>1, <2>2
  <1> QED
    BY <1>9, <1>10, <1>11, <1>13, <1>14 DEF IInv
LEMMA RunSetupStep == ASSUME IInv, RunSetup PROVE IInv'
  <1> USE PluginRuntimeAssumption
  <1>1. TypeOK /\ Shifts /\ Awaits /\ Current /\ Unstarted /\ Outcomes /\ Order /\ Joins
        /\ Resumes /\ Stored /\ Proceeds /\ GuardedOutsideTheGap /\ Disposal /\ DisposeIsHonest
    BY DEF IInv
  <1> DEFINE d == jobs[1].of
             one == 1
  <1>2. /\ jobs # <<>> /\ 1 \in 1 .. Len(jobs) /\ 1 <= Len(jobs) /\ Len(jobs) \in Nat
        /\ jobs[1] \in Jobs /\ jobs[1].kind = "setup" /\ Stage(jobs[1]) = 0 /\ d \in Drains
        /\ \/ setup[at[d]] = "ok" /\ Shift(d, Rest(one))
           \/ setup[at[d]] = "failed" /\ Settle(d, "rejected", Rest(one)) /\ UNCHANGED <<queued, setup, at>>
        /\ UNCHANGED <<used, registry, failure, asked, seen, slipped, callVars, disposeVars>>
    BY <1>1, HeadFacts, JobFacts DEF RunSetup, Next1
  <1>3. /\ d = draining /\ d = started /\ verdict[d] = "pending" /\ d \in Nat
        /\ at[d] \in Plugins
        /\ \A i \in 1 .. Len(jobs) : Stage(jobs[i]) = 0 => i = 1
        /\ \A p \in Plugins : setup[p] # "running"
    BY <1>1, <1>2 DEF Current, Shifts, Awaits, Drains
  <1>4. /\ started \in Nat /\ queued \in Seq(Plugins) /\ registry \in Seq(Plugins)
        /\ setup \in [Plugins -> {"new", "running", "ok", "failed"}]
        /\ at \in [Drains -> Plugins \cup {NoPlugin}]
        /\ verdict \in [Drains -> {"pending", "fulfilled", "rejected"}]
    BY <1>1 DEF TypeOK
  <1>5. Clear(d, one)
    <2>1. \A i \in 1 + 1 .. Len(jobs) : i \in 1 .. Len(jobs) /\ i # 1
      BY <1>2
    <2> QED
      BY <1>2, <1>3, <2>1 DEF Clear
  <1>6. started' = d /\ draining' = d /\ used' = used /\ registry' = registry
    BY <1>2, <1>3 DEF callVars
  <1>7. \A i \in 1 .. Len(jobs) : jobs[i].kind = "setup" => i = 1
    <2> SUFFICES ASSUME NEW i \in 1 .. Len(jobs), jobs[i].kind = "setup" PROVE i = 1
      OBVIOUS
    <2>1. Stage(jobs[i]) = 0
      BY <1>1, JobFacts DEF TypeOK
    <2> QED
      BY <1>3, <2>1
  <1>0. one = 1
    OBVIOUS
  <1> HIDE DEF d, one
  <1>a. /\ d \in Drains /\ registry' \in Seq(Plugins) /\ RegisteredSources \subseteq RegisteredSources'
        /\ UNCHANGED <<used, failure, asked, seen, slipped, callVars, disposeVars>>
    BY <1>2, <1>4, <1>6 DEF RegisteredSources, d
  <1>8. CASE setup[at[d]] = "ok" /\ Shift(d, Rest(one))
    <2>1. Turn(d, one)
      <3>1. \A p \in Plugins : setup[p] = "failed" => \E e \in Drains : verdict[e] = "rejected"
        BY <1>1, <1>7, <1>8 DEF Outcomes, d
      <3>2. started <= d /\ d <= shifted /\ shifted <= shifted + 1
        BY <1>1, <1>3, <1>4 DEF Shifts, shifted, TypeOK
      <3>3. shifted \in Nat
        BY <1>1 DEF Shifts, shifted, TypeOK
      <3>4. d <= IF queued = <<>> THEN shifted ELSE shifted + 1
        BY <1>3, <3>2, <3>3
      <3> QED
        BY <1>3, <1>5, <3>1, <3>2, <3>4 DEF Turn
    <2>2. /\ queued' \in Seq(Plugins)
          /\ setup' \in [Plugins -> {"new", "running", "ok", "failed"}]
          /\ at' \in [Drains -> Plugins \cup {NoPlugin}]
          /\ verdict' \in [Drains -> {"pending", "fulfilled", "rejected"}]
          /\ Moves(one, {Job("finally", d)})
          /\ \A e \in Drains : e # d => verdict'[e] = verdict[e]
          /\ Shifts' /\ Awaits' /\ Current' /\ Outcomes'
      BY <1>1, <1>6, <1>8, <2>1, ShiftStep
    <2>3. /\ TypeOK' /\ Unstarted' /\ Order' /\ Joins' /\ Resumes' /\ Stored'
          /\ Proceeds' /\ GuardedOutsideTheGap' /\ Disposal' /\ DisposeIsHonest'
      BY <1>3, <1>a, <2>2, DrainTurn
    <2> QED
      BY <2>2, <2>3 DEF IInv
  <1>9. CASE setup[at[d]] = "failed" /\ Settle(d, "rejected", Rest(one)) /\ UNCHANGED <<queued, setup, at>>
    <2>1. /\ verdict' \in [Drains -> {"pending", "fulfilled", "rejected"}]
          /\ Moves(one, {Job("finally", d)}) /\ Current'
          /\ \A e \in Drains : verdict[e] = "rejected" => verdict'[e] = "rejected"
      BY <1>1, <1>5, <1>6, <1>9, SettleStep
    <2>2. verdict'[d] = "rejected" /\ \A e \in Drains : e # d => verdict'[e] = verdict[e]
      BY <1>2, <1>4, <1>9 DEF Settle, d
    <2>3. /\ TypeOK' /\ Unstarted' /\ Order' /\ Joins' /\ Resumes' /\ Stored'
          /\ Proceeds' /\ GuardedOutsideTheGap' /\ Disposal' /\ DisposeIsHonest'
      <3>1. /\ queued' \in Seq(Plugins)
            /\ setup' \in [Plugins -> {"new", "running", "ok", "failed"}]
            /\ at' \in [Drains -> Plugins \cup {NoPlugin}]
        BY <1>4, <1>9
      <3> QED
        BY <1>3, <1>a, <2>1, <2>2, <3>1, DrainTurn
    <2>4. Shifts'
      BY <1>1, <1>3, <1>6, <1>9 DEF Shifts, shifted, installed
    <2>5. Awaits'
      BY <1>1, <1>3, <1>6, <1>9 DEF Awaits, installed
    <2>6. Outcomes'
      BY <1>1, <1>2, <1>6, <1>9, <2>2 DEF Outcomes, RegisteredSources, d
    <2> QED
      BY <2>1, <2>3, <2>4, <2>5, <2>6 DEF IInv
  <1> QED
    BY <1>2, <1>8, <1>9 DEF d

LEMMA ReadyStep == ASSUME IInv, NEW c \in Callers, Ready(c) PROVE IInv'
  <1> USE PluginRuntimeAssumption
  <1>1. TypeOK /\ Shifts /\ Awaits /\ Current /\ Unstarted /\ Outcomes /\ Order /\ Joins
        /\ Resumes /\ Stored /\ Proceeds /\ GuardedOutsideTheGap /\ Disposal /\ DisposeIsHonest
    BY DEF IInv
  <1>2. /\ pc[c] = "idle" /\ asked' = [asked EXCEPT ![c] = Len(used)] /\ Look(c)
        /\ UNCHANGED <<used, registry, failure, seen, disposeVars>>
    BY DEF Ready
  <1>3. /\ asked' \in [Callers -> 0 .. MaxUses]
        /\ \A b \in Callers : asked'[b] <= Len(used)
        /\ \A b \in Callers : b # c => asked'[b] = asked[b]
        /\ jobs \in Seq(Jobs) /\ Len(jobs) \in Nat
    BY <1>1, <1>2 DEF TypeOK, Proceeds
  <1>4. CASE failure = 0 /\ Loop(c, jobs)
    <2>1. Turns(c, 0)
      BY <1>2, <1>3 DEF Turns
    <2>2. Loop(c, Rest(0))
      BY <1>4 DEF Rest
    <2> QED
      BY <1>2, <1>4, <2>1, <2>2, LoopStep
  <1>5. CASE failure # 0 /\ pc' = [pc EXCEPT ![c] = "threw"]
             /\ UNCHANGED <<jobs, started, draining, waiters, drainVars>>
    <2> USE DEF drainVars
    <2>1. TypeOK'
      BY <1>1, <1>2, <1>3, <1>5 DEF TypeOK, Look, disposeVars
    <2>2. slipped' = slipped
      BY <1>2, <1>5 DEF Look, InGap
    <2>3. Shifts' /\ Awaits' /\ Current' /\ Unstarted' /\ Outcomes'
      BY <1>1, <1>2, <1>5 DEF Shifts, Awaits, Current, Settled, Unstarted, Outcomes, shifted, installed,
                             RegisteredSources
    <2>4. Order' /\ Joins' /\ Resumes' /\ Stored'
      BY <1>1, <1>2, <1>5, <2>2 DEF Order, Joins, Resumes, Stored, Awaiting
    <2>5. Proceeds'
      <3> SUFFICES ASSUME NEW i \in 1 .. Len(jobs), jobs[i].kind = "proceed"
                   PROVE  /\ pc'[jobs[i].of] # "idle"
                          /\ jobs[i].of \notin slipped =>
                                \A k \in 1 .. asked'[jobs[i].of] : used[k] \in RegisteredSources
        BY <1>2, <1>3, <1>5, <2>2 DEF Proceeds, RegisteredSources
      <3>1. jobs[i] \in Jobs
        BY <1>3
      <3>2. jobs[i].of \in Callers
        BY <3>1, JobFacts
      <3> QED
        BY <1>1, <1>2, <1>3, <1>5, <3>2 DEF Proceeds, TypeOK
    <2>6. GuardedOutsideTheGap'
      BY <1>1, <1>2, <1>3, <1>5, <2>2 DEF GuardedOutsideTheGap, Guarded, TypeOK
    <2>7. Disposal' /\ DisposeIsHonest'
      BY <1>1, <1>2, DisposalKept
    <2> QED
      BY <2>1, <2>3, <2>4, <2>5, <2>6, <2>7 DEF IInv
  <1> QED
    BY <1>4, <1>5 DEF Ready
(* What is known of a caller that is resumed: if an error is stored, then   *)
(* of its own drain, or of an earlier one and the caller looked in the gap. *)
LEMMA ResumeFacts ==
    ASSUME IInv, Next1("resume"), NEW c, NEW d, c = jobs[1].of, d = jobs[1].on
    PROVE  /\ 1 \in 1 .. Len(jobs) /\ Len(jobs) \in Nat /\ jobs[1] \in Jobs
           /\ Head(jobs) = jobs[1] /\ Tail(jobs) = Rest(1)
           /\ c \in Callers /\ d \in Drains /\ Stage(jobs[1]) = 3
           /\ d <= started
           /\ \A i \in 1 .. Len(jobs) : OfDrain(jobs[i]) => DrainOf(jobs[i]) >= d
           /\ failure # 0 => /\ verdict[failure] = "rejected"
                             /\ failure # d => c \in slipped
  <1> USE PluginRuntimeAssumption
  <1>1. TypeOK /\ Shifts /\ Awaits /\ Current /\ Unstarted /\ Outcomes /\ Order /\ Joins
        /\ Resumes /\ Stored /\ Proceeds /\ GuardedOutsideTheGap /\ Disposal /\ DisposeIsHonest
    BY DEF IInv
  <1>2. /\ 1 \in 1 .. Len(jobs) /\ Len(jobs) \in Nat /\ jobs[1] \in Jobs
        /\ Head(jobs) = jobs[1] /\ Tail(jobs) = Rest(1) /\ jobs[1].kind = "resume"
    BY <1>1, HeadFacts DEF Next1
  <1>3. /\ c \in Callers /\ d \in Drains /\ d \in Nat /\ Stage(jobs[1]) = 3
        /\ OfDrain(jobs[1]) /\ DrainOf(jobs[1]) = d
    <2>1. jobs[1].of \in Callers /\ jobs[1].on \in Drains
      BY <1>2, JobFacts
    <2>2. Stage(jobs[1]) = 3 /\ OfDrain(jobs[1]) /\ DrainOf(jobs[1]) = jobs[1].on
      BY <1>2 DEF OfDrain, DrainOf, Stage, Stages
    <2>3. \A e \in Drains : e \in Nat
      BY DEF Drains
    <2> QED
      BY <2>1, <2>2, <2>3
  <1>4. d <= started
    BY <1>1, <1>2, <1>3 DEF Order
  <1>5. ASSUME NEW i \in 1 .. Len(jobs), OfDrain(jobs[i]) PROVE DrainOf(jobs[i]) >= d
    <2>1. /\ jobs[i] \in Jobs /\ DrainOf(jobs[i]) \in Nat /\ Stage(jobs[i]) \in 0 .. 4
          /\ Stage(jobs[i]) # 4
      <3>1. jobs[i] \in Jobs
        BY <1>1 DEF TypeOK
      <3> QED
        BY <1>5, <3>1, JobFacts DEF OfDrain
    <2>2. DrainOf(jobs[i]) < d => Stage(jobs[i]) > 3 \/ i < 1
      BY <1>1, <1>2, <1>3, <1>5 DEF Order
    <2> QED
      BY <1>3, <2>1, <2>2
  <1>6. ASSUME failure # 0 PROVE verdict[failure] = "rejected" /\ (failure = d \/ c \in slipped)
    <2>1. verdict[failure] = "rejected" /\ failure <= d /\ failure \in Drains /\ failure \in Nat
      BY <1>1, <1>2, <1>3, <1>6 DEF Stored, TypeOK, Drains
    <2>2. c \in Awaiting(d)
      BY <1>1, <1>2 DEF Resumes
    <2>3. failure < d => c \in slipped
      BY <1>1, <1>3, <2>1, <2>2 DEF Joins
    <2> QED
      BY <1>3, <2>1, <2>3
  <1> QED
    BY <1>2, <1>3, <1>4, <1>5, <1>6

LEMMA RunResumeStep == ASSUME IInv, RunResume PROVE IInv'
  <1> USE PluginRuntimeAssumption
  <1>1. TypeOK /\ Shifts /\ Awaits /\ Current /\ Unstarted /\ Outcomes /\ Order /\ Joins
        /\ Resumes /\ Stored /\ Proceeds /\ GuardedOutsideTheGap /\ Disposal /\ DisposeIsHonest
    BY DEF IInv
  <1> DEFINE c == jobs[1].of
             d == jobs[1].on
  <1>2. /\ 1 \in 1 .. Len(jobs) /\ Len(jobs) \in Nat /\ jobs[1] \in Jobs
        /\ Head(jobs) = jobs[1] /\ Tail(jobs) = Rest(1)
        /\ c \in Callers /\ d \in Drains /\ Stage(jobs[1]) = 3
        /\ d <= started
        /\ \A i \in 1 .. Len(jobs) : OfDrain(jobs[i]) => DrainOf(jobs[i]) >= d
        /\ failure # 0 => /\ verdict[failure] = "rejected"
                          /\ failure # d => c \in slipped
    BY ResumeFacts DEF RunResume
  <1>3. UNCHANGED <<used, registry, asked, seen, disposeVars>>
    BY DEF RunResume
  <1>4. \/ /\ verdict[d] = "rejected" /\ failure' = d /\ pc' = [pc EXCEPT ![c] = "threw"]
           /\ jobs' = Rest(1) /\ UNCHANGED <<slipped, started, draining, waiters, drainVars>>
        \/ verdict[d] = "fulfilled" /\ Loop(c, Rest(1)) /\ Look(c) /\ failure' = failure
    BY <1>2 DEF RunResume
  <1> HIDE DEF c, d
  <1>5. CASE verdict[d] = "fulfilled" /\ Loop(c, Rest(1)) /\ Look(c) /\ failure' = failure
    <2>1. c \in slipped' \/ failure = 0
      BY <1>2, <1>5 DEF Look
    <2>2. \A b \in Callers : asked'[b] <= Len(used) /\ asked'[b] = asked[b]
      BY <1>1, <1>3 DEF Proceeds
    <2>3. asked' \in [Callers -> 0 .. MaxUses]
      BY <1>1, <1>3 DEF TypeOK
    <2>4. Turns(c, 1)
      BY <1>2, <1>3, <1>5, <2>2, <2>3 DEF Turns
    <2> QED
      BY <1>5, <2>1, <2>4, LoopStep
  <1>6. CASE /\ verdict[d] = "rejected" /\ failure' = d /\ pc' = [pc EXCEPT ![c] = "threw"]
             /\ jobs' = Rest(1) /\ UNCHANGED <<slipped, started, draining, waiters, drainVars>>
    <2>1. TypeOK'
      <3>1. jobs' \in Seq(Jobs)
        BY <1>1, <1>2, <1>6, RestFacts DEF TypeOK
      <3>2. failure' \in 0 .. MaxUses
        BY <1>2, <1>6 DEF Drains
      <3> QED
        BY <1>1, <1>2, <1>3, <1>6, <3>1, <3>2 DEF TypeOK, disposeVars, drainVars
    <2>2. jobs # <<>>
      BY <1>2
    <2>3. /\ Moves(1, {})
          /\ Shifts' /\ Awaits' /\ Current' /\ Unstarted' /\ Outcomes' /\ Order' /\ Joins'
          /\ Resumes' /\ Disposal' /\ DisposeIsHonest'
      BY <1>2, <1>3, <1>6, <2>1, <2>2, Done DEF drainVars
    <2>4. Stored'
      <3>1. \A i \in 1 .. Len(jobs') : i + 1 \in 1 .. Len(jobs) /\ jobs'[i] = jobs[i + 1]
        BY <1>1, <2>3, MovesFacts
      <3> QED
        BY <1>2, <1>6, <3>1 DEF Stored, drainVars
    <2>5. Proceeds' /\ GuardedOutsideTheGap'
      <3>1. \A b \in Callers : /\ pc[b] # "idle" => pc'[b] # "idle"
                               /\ pc'[b] = "guarded" => pc[b] = "guarded"
        BY <1>1, <1>2, <1>6 DEF TypeOK
      <3>2. RegisteredSources \subseteq RegisteredSources' /\ slipped' = slipped
        BY <1>3, <1>6 DEF RegisteredSources
      <3> QED
        BY <1>3, <2>1, <2>3, <3>1, <3>2, CallersKept
    <2> QED
      BY <2>1, <2>3, <2>4, <2>5 DEF IInv
  <1> QED
    BY <1>4, <1>5, <1>6

LEMMA StepIInv == IInv /\ [Next]_vars => IInv'
  <1> SUFFICES ASSUME IInv, [Next]_vars PROVE IInv'
    OBVIOUS
  <1>1. CASE \E p \in Plugins : Use(p)
    BY <1>1, UseStep
  <1>2. CASE \E c \in Callers : Ready(c)
    BY <1>2, ReadyStep
  <1>3. CASE Settling
    BY <1>3, SetupSettlesStep DEF Settling
  <1>4. CASE RunJob
    BY <1>4, RunSetupStep, RunFinallyStep, RunThenStep, RunSettleStep, RunResumeStep, RunProceedStep
       DEF RunJob
  <1>5. CASE Dispose \/ \E ok \in BOOLEAN : SourceDisposed(ok)
    BY <1>5, DisposeStep, SourceDisposedStep
  <1>6. CASE UNCHANGED vars
    <2>1. TypeOK'
      BY <1>6 DEF IInv, TypeOK, vars, drainVars, callVars, disposeVars
    <2>2. Disposal' /\ DisposeIsHonest'
      BY <1>6, DisposalKept DEF IInv, vars
    <2> QED
      BY <1>6, <2>1, <2>2, DisposeKeeps DEF vars
  <1> QED
    BY <1>1, <1>2, <1>3, <1>4, <1>5, <1>6 DEF Next

LEMMA Invariance == Spec => []IInv
  BY InitIInv, StepIInv, PTL DEF Spec

-----------------------------------------------------------------------------
(* The theorems.                                                           *)

(* The state has its type: no drain is started beyond the number of uses,   *)
(* so that the bound on Drains is none on the code.                         *)
THEOREM RuntimeTypeCorrect == Spec => []TypeOK
  <1>1. IInv => TypeOK
    BY DEF IInv
  <1> QED
    BY <1>1, Invariance, PTL

(* Setups run one at a time, in the order of use(), however many callers    *)
(* call ready() and whenever they do (runtime.ts:150-157).                  *)
THEOREM SetupsRunInUseOrder == Spec => []SetupsInUseOrder
  <1>1. ASSUME IInv PROVE SetupsInUseOrder
    <2> USE <1>1 DEF IInv
    <2> SUFFICES ASSUME NEW j \in 1 .. Len(used), used[j] \in installed,
                        NEW i \in 1 .. j - 1, used[i] # used[j], ~Settled(used[i])
                 PROVE  \E k \in 1 .. i : used[k] = used[j]
      BY DEF SetupsInUseOrder
    <2>1. /\ used \in Seq(Plugins) /\ Len(used) \in Nat /\ shifted \in Nat
          /\ setup \in [Plugins -> {"new", "running", "ok", "failed"}]
      BY DEF TypeOK, shifted, Shifts
    <2>2. i \in 1 .. Len(used) /\ i \in Nat /\ used[i] \in Plugins /\ used[j] \in Plugins
      BY <2>1
    <2>3. PICK m \in 1 .. shifted : used[m] = used[j]
      BY <2>2 DEF Shifts
    <2>4. m <= i
      <3> SUFFICES ASSUME i < m PROVE FALSE
        BY <2>2
      <3>1. i \in 1 .. shifted
        BY <2>1, <2>2
      <3>2. setup[used[i]] = "running"
        BY <2>1, <2>2, <3>1 DEF Shifts, installed, Settled
      <3>3. used[shifted] = used[i] /\ i \notin 1 .. shifted - 1
        BY <2>2, <3>2 DEF Awaits
      <3>4. i = shifted /\ m = shifted
        BY <2>1, <3>1, <3>3
      <3> QED
        BY <3>4
    <2> QED
      BY <2>1, <2>2, <2>3, <2>4
  <1> QED
    BY <1>1, Invariance, PTL

(* Outside the one gap, every execution that gets past ready() runs under   *)
(* the policies of all plugins used before it called (execute.ts:102-106).  *)
THEOREM ReadyGuards == Spec => []GuardedOutsideTheGap
  <1>1. IInv => GuardedOutsideTheGap
    BY DEF IInv
  <1> QED
    BY <1>1, Invariance, PTL

(* dispose() fulfils only after every source it found has been closed.      *)
THEOREM DisposeTellsTheTruth == Spec => []DisposeIsHonest
  <1>1. IInv => DisposeIsHonest
    BY DEF IInv
  <1> QED
    BY <1>1, Invariance, PTL

(* Without a caller in the gap, the first error is never replaced: a later  *)
(* failure could only come from a drain started after it, and who starts or *)
(* joins one has looked in the gap.                                         *)
THEOREM FirstErrorStays == Spec => OriginalErrorKept
  <1>1. ASSUME IInv, [Next]_vars
        PROVE  [failure # 0 => failure' = failure \/ slipped # {}]_failure
    <2> SUFFICES ASSUME failure # 0, failure' # failure PROVE slipped # {}
      OBVIOUS
    <2>1. RunResume
      BY <1>1 DEF Next, RunJob, Settling, Use, Ready, SetupSettles, RunSetup, RunFinally, RunThen,
                  RunSettle, RunProceed, Dispose, SourceDisposed, vars
    <2>2. Head(jobs) = jobs[1] /\ Next1("resume")
      BY <1>1, <2>1, ResumeFacts DEF RunResume
    <2>3. failure' = jobs[1].on
      BY <2>1, <2>2 DEF RunResume
    <2>4. failure = jobs[1].on \/ jobs[1].of \in slipped
      BY <1>1, <2>2, ResumeFacts
    <2> QED
      BY <2>3, <2>4
  <1> QED
    BY <1>1, Invariance, PTL DEF Spec, OriginalErrorKept
=============================================================================

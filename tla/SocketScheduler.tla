---------------------------- MODULE SocketScheduler ----------------------------
(***************************************************************************)
(* SocketScheduler, the singleton that runs the jobs of the game engine    *)
(* and of the gateway: a map of named jobs, each of which sets its next    *)
(* timer when its callback has ended.  A job that is registered again is a *)
(* new object, so a job here is a name and the count of its registration.  *)
(*                                                                         *)
(* A chain is a timer and the callback it runs in turn.  A job is meant to *)
(* have one.  Its field timer refers to a chain: to an armed timer, or to  *)
(* one that has fired and whose callback is awaited.  Time is kept         *)
(* relative to now: late is now - expectedNext.  It is followed until a    *)
(* job is interrupted, which may leave it with two chains; from then on    *)
(* its timers fire at any time.                                            *)
(*                                                                         *)
(* Bounds: MaxAdds registrations of a name, MaxInterrupted jobs, MaxChains *)
(* of a job, MaxLate where lateness stops counting.                        *)
(***************************************************************************)
EXTENDS Integers, FiniteSets

CONSTANTS
    Names,
    Interval,       \* intervalMs of each name
    AvoidCatchUp,   \* the names registered with avoidCatchUp
    MaxRun,         \* the longest callback
    MaxLateness,    \* how late a timer may fire
    MaxAdds,
    MaxChains,
    MaxInterrupted,
    MaxLate

ASSUME IntervalAssumption == Interval \in [Names -> Nat \ {0}] /\ AvoidCatchUp \subseteq Names
ASSUME TimingAssumption == MaxRun \in Nat /\ MaxLateness \in Nat
ASSUME SchedulerBounds ==
    /\ MaxAdds \in [Names -> Nat] /\ MaxChains \in Nat \ {0}
    /\ MaxInterrupted \in Nat
    /\ MaxLate \in Nat /\ MaxLate >= 2 * MaxRun + MaxLateness

VARIABLES
    jobs,           \* the registration the map holds for a name, 0 for none
    added,          \* how often a name has been registered
    isRunning,
    timer,          \* the chain a job's field timer refers to, 0 for undefined
    chain,          \* the chains of a job
    late,           \* now - expectedNext, as long as the job is steady
    interrupted     \* history: jobs removed or stopped while a callback was awaited

vars == <<jobs, added, isRunning, timer, chain, late, interrupted>>

-----------------------------------------------------------------------------
Job == UNION {{n} \X (1..MaxAdds[n]) : n \in Names}
Chains == 1..MaxChains

Off == [at |-> "off"]
Armed(wait) == [at |-> "armed", wait |-> wait]
Awaiting(drift) == [at |-> "awaiting", drift |-> drift, ran |-> 0]

Chain ==
    {Off} \cup [at : {"armed"}, wait : Nat]
          \cup [at : {"awaiting"}, drift : Int, ran : 0..MaxRun]

\* Types of the variables; with them, no timer is set into the past.
TypeOK ==
    /\ jobs \in [Names -> Nat] /\ \A n \in Names : jobs[n] <= MaxAdds[n]
    /\ added \in [Names -> Nat] /\ \A n \in Names : added[n] <= MaxAdds[n]
    /\ isRunning \in BOOLEAN
    /\ timer \in [Job -> 0..MaxChains]
    /\ chain \in [Job -> [Chains -> Chain]]
    /\ late \in [Job -> Int]
    /\ interrupted \subseteq Job

Init ==
    /\ jobs = [n \in Names |-> 0]
    /\ added = [n \in Names |-> 0]
    /\ isRunning = FALSE
    /\ timer = [j \in Job |-> 0]
    /\ chain = [j \in Job |-> [c \in Chains |-> Off]]
    /\ late = [j \in Job |-> 0]
    /\ interrupted = {}

Registered == {j \in Job : jobs[j[1]] = j[2]}
IsAwaited(j) == \E c \in Chains : chain[j][c].at = "awaiting"
HasChain(j) == \E c \in Chains : chain[j][c] # Off
IsActive(j) == timer[j] # 0     \* as getStatus answers it

-----------------------------------------------------------------------------
\* clearTimeout: a timer that has fired already is not there to be cleared.
Cleared(js) ==
    [j \in Job |-> [c \in Chains |->
        IF j \in js /\ c = timer[j] /\ chain[j][c].at = "armed" THEN Off ELSE chain[j][c]]]

MayInterrupt == Cardinality(interrupted') <= MaxInterrupted

Interrupted(js) == interrupted \cup {j \in js : IsAwaited(j)}

\* setTimeout
Timer(j, wait) == IF j \in interrupted THEN Armed(0) ELSE Armed(wait)

\* startPreciseJob: a new chain for each of these jobs, and its time starts.
StartPreciseJobs(chains, js) ==
    \E slot \in [Job -> Chains], lateness \in [Job -> 0..MaxLateness] :
        /\ \A j \in js : chains[j][slot[j]] = Off
        /\ \A j \in Job \ js : slot[j] = 1 /\ lateness[j] = 0
        /\ chain' = [j \in Job |-> IF j \notin js THEN chains[j] ELSE
                [chains[j] EXCEPT ![slot[j]] = Timer(j, Interval[j[1]] + lateness[j])]]
        /\ timer' = [j \in Job |-> IF j \in js THEN slot[j] ELSE timer[j]]
        /\ late' = [j \in Job |-> IF j \in js \ interrupted THEN -Interval[j[1]] ELSE late[j]]

Old(n) == {j \in Registered : j[1] = n}
New(n) == <<n, added[n] + 1>>

\* Mutant: only start() starts jobs.
addJob_NotStarted(n) ==
    /\ added[n] < MaxAdds[n]
    /\ added' = [added EXCEPT ![n] = @ + 1]
    /\ jobs' = [jobs EXCEPT ![n] = added[n] + 1]
    /\ interrupted' = Interrupted(Old(n)) /\ MayInterrupt
    /\ chain' = Cleared(Old(n))
    /\ UNCHANGED <<isRunning, timer, late>>

addJob(n) ==
    /\ added[n] < MaxAdds[n]
    /\ added' = [added EXCEPT ![n] = @ + 1]
    /\ jobs' = [jobs EXCEPT ![n] = added[n] + 1]
    /\ interrupted' = Interrupted(Old(n)) /\ MayInterrupt
    /\ StartPreciseJobs(Cleared(Old(n)), IF isRunning THEN {New(n)} ELSE {})
    /\ UNCHANGED isRunning

\* Mutant: the timer that is set runs on.
removeJob_KeepsTimer(n) ==
    /\ jobs' = [jobs EXCEPT ![n] = 0]
    /\ interrupted' = Interrupted(Old(n)) /\ MayInterrupt
    /\ UNCHANGED <<added, isRunning, timer, chain, late>>

removeJob(n) ==
    /\ jobs' = [jobs EXCEPT ![n] = 0]
    /\ interrupted' = Interrupted(Old(n)) /\ MayInterrupt
    /\ chain' = Cleared(Old(n))
    /\ UNCHANGED <<added, isRunning, timer, late>>

\* Mutant: every job is started, whether it has been or not.
start_All ==
    /\ isRunning' = TRUE
    /\ StartPreciseJobs(chain, Registered)
    /\ UNCHANGED <<jobs, added, interrupted>>

start ==
    /\ isRunning' = TRUE
    /\ StartPreciseJobs(chain, {j \in Registered : ~IsActive(j)})
    /\ UNCHANGED <<jobs, added, interrupted>>

\* A callback that is awaited goes on, and its job has no timer meanwhile.
stop ==
    /\ isRunning' = FALSE
    /\ interrupted' = Interrupted(Registered) /\ MayInterrupt
    /\ chain' = Cleared(Registered)
    /\ timer' = [j \in Job |-> IF j \in Registered THEN 0 ELSE timer[j]]
    /\ UNCHANGED <<jobs, added, late>>

-----------------------------------------------------------------------------
(***************************************************************************)
(* runJob, from the timer to the end of the await                          *)
(***************************************************************************)
Fire(j, c) ==
    /\ chain[j][c].at = "armed" /\ chain[j][c].wait = 0
    /\ chain' = [chain EXCEPT ![j][c] = Awaiting(late[j])]
    /\ UNCHANGED <<jobs, added, isRunning, timer, late, interrupted>>

AtLeast(x, y) == IF x >= y THEN x ELSE y

\* Mutants: the time that was lost is not made up for; or twice.
Delay_Constant(n, drift, behind) == Interval[n]
Delay_Twice(n, drift, behind) == Interval[n] - 2 * drift

\* The delay of the next timer.  With avoidCatchUp, expectedNext or an interval
\* from now, whatever is later; otherwise the interval less the drift this run
\* started with.
Delay(n, drift, behind) ==
    IF n \in AvoidCatchUp THEN AtLeast(-behind, Interval[n])
    ELSE AtLeast(0, Interval[n] - drift)

\* The callback has ended or thrown.
EndCallback(j, c) ==
    LET n == j[1]
        behind == late[j] - Interval[n]
    IN  /\ chain[j][c].at = "awaiting"
        /\ late' = [late EXCEPT ![j] = IF j \in interrupted THEN @ ELSE behind]
        /\ \E lateness \in 0..MaxLateness :
            chain' = [chain EXCEPT ![j][c] =
                        Timer(j, Delay(n, chain[j][c].drift, behind) + lateness)]
        /\ timer' = [timer EXCEPT ![j] = c]
        /\ UNCHANGED <<jobs, added, isRunning, interrupted>>

Steady == Job \ interrupted

\* Time passes for every chain there is.
Passed(x) ==
    CASE x.at = "armed" -> [x EXCEPT !.wait = @ - 1]
      [] x.at = "awaiting" -> [x EXCEPT !.ran = @ + 1]
      [] OTHER -> x

Tick ==
    /\ \A j \in Steady, c \in Chains :
        /\ chain[j][c].at = "armed" => chain[j][c].wait > 0
        /\ chain[j][c].at = "awaiting" => chain[j][c].ran < MaxRun
    /\ \E j \in Steady : HasChain(j)
    /\ chain' = [j \in Job |-> IF j \in Steady THEN [c \in Chains |-> Passed(chain[j][c])]
                               ELSE chain[j]]
    /\ late' = [j \in Job |-> IF j \in Steady /\ HasChain(j) /\ late[j] < MaxLate
                              THEN late[j] + 1 ELSE late[j]]
    /\ UNCHANGED <<jobs, added, isRunning, timer, interrupted>>

Next ==
    \/ \E n \in Names : addJob(n) \/ removeJob(n)
    \/ start \/ stop
    \/ \E j \in Job, c \in Chains : Fire(j, c) \/ EndCallback(j, c)
    \/ Tick

Spec == Init /\ [][Next]_vars

\* Timers fire and callbacks end: none waits for an answer that never comes.
FairSpec ==
    /\ Spec
    /\ WF_vars(Tick)
    /\ \A j \in Job, c \in Chains : WF_vars(Fire(j, c) \/ EndCallback(j, c))

-----------------------------------------------------------------------------
(***************************************************************************)
(* Properties.  A job that is removed or stopped while its callback is     *)
(* awaited sets another timer afterwards: they hold of all the others.     *)
(***************************************************************************)

\* No two callbacks of a job overlap, and its status says whether it goes on.
OneChain ==
    \A j \in Steady :
        /\ \A b, c \in Chains : chain[j][b] # Off /\ chain[j][c] # Off => b = c
        /\ j \in Registered => (IsActive(j) <=> HasChain(j))

\* A job that was removed, or replaced, or stopped, is quiet: neither a timer
\* nor a callback of it is left.
OnlyRegisteredJobsRun ==
    \A j \in Steady : HasChain(j) => isRunning /\ j \in Registered

\* No run begins before its time, and a job with catch-up is never further
\* behind than one callback and one late timer make it, if both are short.
RunsAreOnTime ==
    \A j \in Steady, c \in Chains :
        chain[j][c].at = "awaiting" =>
            /\ chain[j][c].drift >= 0
            /\ j[1] \notin AvoidCatchUp /\ MaxRun + MaxLateness <= Interval[j[1]]
                => chain[j][c].drift <= MaxRun + MaxLateness

\* A job of a running scheduler runs again and again.
JobsKeepRunning ==
    \A n \in Names :
        []<>(jobs[n] = 0 \/ ~isRunning \/ IsAwaited(<<n, jobs[n]>>))

=============================================================================

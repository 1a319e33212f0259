------------------------ MODULE SocketScheduler_proofs ------------------------
(***************************************************************************)
(* What holds of the scheduler for any jobs, intervals and times: a job    *)
(* that was never interrupted has one chain at most, has it exactly while  *)
(* it is registered and the scheduler runs, and its timers are on time.    *)
(*                                                                         *)
(* The invariant says of such a job that the field timer refers to its     *)
(* chain, and relates the chain to late: where the timer will fire, and    *)
(* what a callback that is awaited has drifted and run.                    *)
(***************************************************************************)
EXTENDS SocketScheduler, TLAPS

\* The jobs that make up for lost time, and have the time to.
Punctual(j) == j[1] \notin AvoidCatchUp /\ MaxRun + MaxLateness <= Interval[j[1]]

OnTime(j, c) ==
    /\ chain[j][c].at = "armed" =>
        /\ late[j] + chain[j][c].wait >= 0
        /\ Punctual(j) => late[j] + chain[j][c].wait <= MaxRun + MaxLateness
    /\ chain[j][c].at = "awaiting" =>
        /\ chain[j][c].drift >= 0
        /\ chain[j][c].drift <= late[j]
        /\ late[j] <= chain[j][c].drift + chain[j][c].ran
        /\ Punctual(j) => chain[j][c].drift <= MaxRun + MaxLateness

JobInv(j) ==
    /\ HasChain(j) <=> isRunning /\ j \in Registered
    /\ \A c \in Chains : chain[j][c] # Off => c = timer[j]
    /\ j \in Registered /\ ~isRunning => timer[j] = 0
    /\ \A c \in Chains : OnTime(j, c)

\* A registration that is still to come has left no trace.
Fresh ==
    /\ \A n \in Names : jobs[n] <= added[n]
    /\ \A j \in Job : j[2] > added[j[1]] =>
            timer[j] = 0 /\ \A c \in Chains : chain[j][c] = Off

IInv == TypeOK /\ Fresh /\ \A j \in Steady : JobInv(j)

-----------------------------------------------------------------------------
\* A job is a name and a number.
LEMMA JobIsPair ==
    ASSUME NEW j \in Job
    PROVE  /\ j[1] \in Names /\ j[2] \in 1..MaxAdds[j[1]] /\ j[2] \in Nat
           /\ j = <<j[1], j[2]>>
  BY SchedulerBounds DEF Job

\* A new registration is one more job.
LEMMA NewJob ==
    ASSUME TypeOK, NEW n \in Names, added[n] < MaxAdds[n]
    PROVE  New(n) \in Job /\ New(n)[1] = n /\ New(n)[2] = added[n] + 1
  BY SchedulerBounds DEF New, Job, TypeOK

\* A chain is off, or a timer, or an awaited callback.
LEMMA ChainKinds ==
    ASSUME NEW x \in Chain
    PROVE  /\ x = Off \/ x.at = "armed" \/ x.at = "awaiting"
           /\ x.at = "armed" => x \in [at : {"armed"}, wait : Nat] /\ x # Off
           /\ x.at = "awaiting" =>
                x \in [at : {"awaiting"}, drift : Int, ran : 0..MaxRun] /\ x # Off
           /\ x = Off => x.at = "off"
  BY DEF Chain, Off

\* A timer is a chain ...
LEMMA ArmedChain ==
    ASSUME NEW wait \in Nat
    PROVE  /\ Armed(wait) \in Chain /\ Armed(wait) # Off
           /\ Armed(wait).at = "armed" /\ Armed(wait).wait = wait
  BY DEF Armed, Chain, Off

\* ... and so is a callback.
LEMMA AwaitingChain ==
    ASSUME NEW drift \in Int
    PROVE  /\ Awaiting(drift) \in Chain /\ Awaiting(drift) # Off
           /\ Awaiting(drift).at = "awaiting" /\ Awaiting(drift).drift = drift
           /\ Awaiting(drift).ran = 0
  BY TimingAssumption DEF Awaiting, Chain, Off

\* clearTimeout leaves a chain or turns it off; a steady job without an awaited
\* callback has none afterwards.
LEMMA ClearedChains ==
    ASSUME TypeOK, NEW js, NEW j \in Job
    PROVE  /\ Cleared(js) \in [Job -> [Chains -> Chain]]
           /\ j \notin js => Cleared(js)[j] = chain[j]
           /\ \A c \in Chains : Cleared(js)[j][c] \in {Off, chain[j][c]}
           /\ j \in js /\ JobInv(j) /\ ~IsAwaited(j) =>
                \A c \in Chains : Cleared(js)[j][c] = Off
<1>1. /\ Cleared(js) \in [Job -> [Chains -> Chain]]
      /\ j \notin js => Cleared(js)[j] = chain[j]
  <2>1. Off \in Chain
    BY DEF Chain
  <2> QED
    BY <2>1 DEF Cleared, TypeOK
<1>2. \A c \in Chains : Cleared(js)[j][c] \in {Off, chain[j][c]}
  BY DEF Cleared
<1>3. ASSUME j \in js, JobInv(j), ~IsAwaited(j), NEW c \in Chains
      PROVE  Cleared(js)[j][c] = Off
  <2>1. chain[j][c] \in Chain
    BY DEF TypeOK
  <2>2. chain[j][c] = Off \/ (chain[j][c].at = "armed" /\ c = timer[j])
    BY <1>3, <2>1, ChainKinds DEF JobInv, IsAwaited
  <2> QED
    BY <1>3, <2>2 DEF Cleared
<1> QED
  BY <1>1, <1>2, <1>3

\* startPreciseJob sets one timer for each of its jobs: in a free slot, for an
\* interval from now and no more than MaxLateness later.
FirstTimer(chains, j) ==
    \E c \in Chains, wait \in Nat :
        /\ chains[j][c] = Off
        /\ chain'[j] = [chains[j] EXCEPT ![c] = Armed(wait)]
        /\ timer'[j] = c /\ late'[j] = -Interval[j[1]]
        /\ late'[j] + wait \in 0..MaxLateness

NoTimer(chains, j) ==
    chain'[j] = chains[j] /\ timer'[j] = timer[j] /\ late'[j] = late[j]

LEMMA StartedJobs ==
    ASSUME TypeOK, NEW chains \in [Job -> [Chains -> Chain]], NEW js, NEW j \in Job,
           StartPreciseJobs(chains, js)
    PROVE  /\ chain' \in [Job -> [Chains -> Chain]]
           /\ timer' \in [Job -> 0..MaxChains] /\ late' \in [Job -> Int]
           /\ j \notin js => NoTimer(chains, j)
           /\ j \in js /\ j \notin interrupted => FirstTimer(chains, j)
<1>1. PICK slot \in [Job -> Chains], lateness \in [Job -> 0..MaxLateness] :
        /\ \A i \in js : chains[i][slot[i]] = Off
        /\ chain' = [i \in Job |-> IF i \notin js THEN chains[i] ELSE
                [chains[i] EXCEPT ![slot[i]] = Timer(i, Interval[i[1]] + lateness[i])]]
        /\ timer' = [i \in Job |-> IF i \in js THEN slot[i] ELSE timer[i]]
        /\ late' = [i \in Job |-> IF i \in js \ interrupted THEN -Interval[i[1]] ELSE late[i]]
  BY DEF StartPreciseJobs
<1>2. ASSUME NEW i \in Job
      PROVE  /\ Interval[i[1]] \in Nat /\ lateness[i] \in 0..MaxLateness
             /\ Interval[i[1]] + lateness[i] \in Nat
  <2>1. Interval[i[1]] \in Nat
    BY JobIsPair, IntervalAssumption
  <2> QED
    BY <2>1, TimingAssumption
<1>3. \A i \in Job : Timer(i, Interval[i[1]] + lateness[i]) \in Chain
  BY <1>2, ArmedChain DEF Timer
<1>4. chain' \in [Job -> [Chains -> Chain]]
  BY <1>1, <1>3
<1>5. timer' \in [Job -> 0..MaxChains] /\ late' \in [Job -> Int]
  <2>1. \A i \in Job : slot[i] \in 0..MaxChains /\ timer[i] \in 0..MaxChains
    BY SchedulerBounds DEF TypeOK, Chains
  <2>2. \A i \in Job : -Interval[i[1]] \in Int /\ late[i] \in Int
    BY <1>2 DEF TypeOK
  <2> QED
    BY <1>1, <2>1, <2>2
<1>6. ASSUME j \notin js
      PROVE  NoTimer(chains, j)
  BY <1>1, <1>6 DEF NoTimer
<1>7. ASSUME j \in js, j \notin interrupted
      PROVE  FirstTimer(chains, j)
  <2>1. Timer(j, Interval[j[1]] + lateness[j]) = Armed(Interval[j[1]] + lateness[j])
    BY <1>7 DEF Timer
  <2>2. late'[j] = -Interval[j[1]]
    BY <1>1, <1>7
  <2>3. late'[j] + (Interval[j[1]] + lateness[j]) \in 0..MaxLateness
    BY <1>2, <2>2, TimingAssumption
  <2>4. chain'[j] = [chains[j] EXCEPT ![slot[j]] = Armed(Interval[j[1]] + lateness[j])]
    BY <1>1, <1>7, <2>1
  <2>5. timer'[j] = slot[j] /\ chains[j][slot[j]] = Off /\ slot[j] \in Chains
    BY <1>1, <1>7
  <2> QED
    BY <1>2, <2>2, <2>3, <2>4, <2>5 DEF FirstTimer
<1> QED
  BY <1>4, <1>5, <1>6, <1>7

-----------------------------------------------------------------------------
(***************************************************************************)
(* Types                                                                   *)
(***************************************************************************)
\* The delay of the next timer is never negative.
LEMMA DelayIsNatural ==
    ASSUME NEW n \in Names, NEW drift \in Int, NEW behind \in Int
    PROVE  Delay(n, drift, behind) \in Nat
<1>1. Interval[n] \in Nat
  BY IntervalAssumption
<1> QED
  BY <1>1 DEF Delay, AtLeast

\* What the end of a callback does to its chain.
LEMMA NextTimer ==
    ASSUME TypeOK, NEW j \in Job, NEW c \in Chains, EndCallback(j, c)
    PROVE  /\ chain[j][c] \in [at : {"awaiting"}, drift : Int, ran : 0..MaxRun]
           /\ chain[j][c] # Off
           /\ \E wait \in Nat, lateness \in 0..MaxLateness :
                /\ chain' = [chain EXCEPT ![j][c] = Armed(wait)]
                /\ j \notin interrupted =>
                     wait = Delay(j[1], chain[j][c].drift, late[j] - Interval[j[1]]) + lateness
<1>1. chain[j][c].at = "awaiting" /\ chain[j][c] \in Chain
  BY DEF EndCallback, TypeOK
<1>2. chain[j][c] \in [at : {"awaiting"}, drift : Int, ran : 0..MaxRun] /\ chain[j][c] # Off
  BY <1>1, ChainKinds
<1> DEFINE delay == Delay(j[1], chain[j][c].drift, late[j] - Interval[j[1]])
<1>3. delay \in Nat
  <2>1. Interval[j[1]] \in Nat /\ late[j] \in Int /\ j[1] \in Names
    BY JobIsPair, IntervalAssumption DEF TypeOK
  <2>2. late[j] - Interval[j[1]] \in Int /\ chain[j][c].drift \in Int
    BY <1>2, <2>1
  <2> QED
    BY <2>1, <2>2, DelayIsNatural
<1>4. PICK lateness \in 0..MaxLateness :
        chain' = [chain EXCEPT ![j][c] = Timer(j, delay + lateness)]
  BY DEF EndCallback
<1> HIDE DEF delay
<1>5. delay + lateness \in Nat
  BY <1>3, TimingAssumption
<1>6. CASE j \in interrupted
  BY <1>2, <1>4, <1>6 DEF Timer
<1>7. CASE j \notin interrupted
  <2>1. chain' = [chain EXCEPT ![j][c] = Armed(delay + lateness)]
    BY <1>4, <1>7 DEF Timer
  <2> QED
    BY <1>2, <1>5, <2>1 DEF delay
<1> QED
  BY <1>6, <1>7

\* Time passes for a chain and leaves it what it is.
LEMMA PassedTypes ==
    ASSUME NEW x \in Chain, x.at = "armed" => x.wait > 0, x.at = "awaiting" => x.ran < MaxRun
    PROVE  /\ Passed(x) \in Chain
           /\ Passed(x) = Off <=> x = Off
           /\ Passed(x).at = x.at
           /\ x.at = "armed" => Passed(x).wait = x.wait - 1
           /\ x.at = "awaiting" => Passed(x).drift = x.drift /\ Passed(x).ran = x.ran + 1
<1>1. CASE x = Off
  BY <1>1 DEF Passed, Off
<1>2. CASE x.at = "armed"
  <2>1. x \in [at : {"armed"}, wait : Nat] /\ x # Off
    BY <1>2, ChainKinds
  <2>2. x.wait - 1 \in Nat
    BY <1>2, <2>1
  <2>3. Passed(x) = [x EXCEPT !.wait = @ - 1]
    BY <1>2 DEF Passed
  <2>4. Passed(x) \in [at : {"armed"}, wait : Nat] /\ Passed(x).wait = x.wait - 1
    BY <2>1, <2>2, <2>3
  <2>5. Passed(x).at = "armed" /\ Passed(x) \in Chain /\ Passed(x) # Off
    BY <2>4 DEF Chain, Off
  <2> QED
    BY <1>2, <2>1, <2>4, <2>5
<1>3. CASE x.at = "awaiting"
  <2>1. x \in [at : {"awaiting"}, drift : Int, ran : 0..MaxRun] /\ x # Off
    BY <1>3, ChainKinds
  <2>2. x.ran + 1 \in 0..MaxRun
    BY <1>3, <2>1, TimingAssumption
  <2>3. Passed(x) = [x EXCEPT !.ran = @ + 1]
    BY <1>3 DEF Passed
  <2>4. /\ Passed(x) \in [at : {"awaiting"}, drift : Int, ran : 0..MaxRun]
        /\ Passed(x).drift = x.drift /\ Passed(x).ran = x.ran + 1
    BY <2>1, <2>2, <2>3
  <2>5. Passed(x).at = "awaiting" /\ Passed(x) \in Chain /\ Passed(x) # Off
    BY <2>4 DEF Chain, Off
  <2> QED
    BY <1>3, <2>1, <2>4, <2>5
<1> QED
  BY <1>1, <1>2, <1>3, ChainKinds

\* Every step keeps the types.
LEMMA TypeStep == TypeOK /\ [Next]_vars => TypeOK'
<1> SUFFICES ASSUME TypeOK, [Next]_vars PROVE TypeOK'
  OBVIOUS
<1>1. ASSUME NEW n \in Names, addJob(n) PROVE TypeOK'
  <2>1. Cleared(Old(n)) \in [Job -> [Chains -> Chain]]
    <3>1. Off \in Chain
      BY DEF Chain
    <3> QED
      BY <3>1 DEF Cleared, TypeOK
  <2>2. /\ chain' \in [Job -> [Chains -> Chain]]
        /\ timer' \in [Job -> 0..MaxChains] /\ late' \in [Job -> Int]
    <3>1. StartPreciseJobs(Cleared(Old(n)), IF isRunning THEN {New(n)} ELSE {})
      BY <1>1 DEF addJob
    <3>2. New(n) \in Job
      BY <1>1, NewJob DEF addJob
    <3> QED
      BY <2>1, <3>1, <3>2, StartedJobs
  <2>3. interrupted' \subseteq Job
    BY <1>1 DEF addJob, Interrupted, Old, Registered, TypeOK
  <2>4. added[n] + 1 \in Nat /\ added[n] + 1 <= MaxAdds[n]
    <3>1. added[n] \in Nat /\ MaxAdds[n] \in Nat /\ added[n] < MaxAdds[n]
      BY <1>1, SchedulerBounds DEF addJob, TypeOK
    <3> QED
      BY <3>1
  <2> QED
    BY <1>1, <2>2, <2>3, <2>4 DEF addJob, TypeOK
<1>2. ASSUME NEW n \in Names, removeJob(n) PROVE TypeOK'
  <2>1. Cleared(Old(n)) \in [Job -> [Chains -> Chain]]
    <3>1. Off \in Chain
      BY DEF Chain
    <3> QED
      BY <3>1 DEF Cleared, TypeOK
  <2>2. interrupted' \subseteq Job
    BY <1>2 DEF removeJob, Interrupted, Old, Registered, TypeOK
  <2> QED
    <3>1. \A m \in Names : MaxAdds[m] \in Nat
      BY SchedulerBounds
    <3>2. \A m \in Names : jobs'[m] \in {0, jobs[m]}
      BY <1>2 DEF removeJob, TypeOK
    <3>3. jobs' \in [Names -> Nat] /\ \A m \in Names : jobs'[m] <= MaxAdds[m]
      BY <1>2, <3>1, <3>2 DEF removeJob, TypeOK
    <3> QED
      BY <1>2, <2>1, <2>2, <3>3 DEF removeJob, TypeOK
<1>3. ASSUME start PROVE TypeOK'
  <2>1. CASE \E j \in Job : TRUE
    <3>1. /\ chain' \in [Job -> [Chains -> Chain]]
          /\ timer' \in [Job -> 0..MaxChains] /\ late' \in [Job -> Int]
      <4>1. StartPreciseJobs(chain, {j \in Registered : ~IsActive(j)})
        BY <1>3 DEF start
      <4>2. chain \in [Job -> [Chains -> Chain]]
        BY DEF TypeOK
      <4> QED
        BY <2>1, <4>1, <4>2, StartedJobs
    <3> QED
      BY <1>3, <3>1 DEF start, TypeOK
  <2>2. CASE Job = {}
    <3>1. chain' \in [Job -> [Chains -> Chain]] /\ timer' \in [Job -> 0..MaxChains]
            /\ late' \in [Job -> Int]
      BY <1>3, <2>2 DEF start, StartPreciseJobs
    <3> QED
      BY <1>3, <3>1 DEF start, TypeOK
  <2> QED
    BY <2>1, <2>2
<1>4. ASSUME stop PROVE TypeOK'
  <2>1. Cleared(Registered) \in [Job -> [Chains -> Chain]]
    <3>1. Off \in Chain
      BY DEF Chain
    <3> QED
      BY <3>1 DEF Cleared, TypeOK
  <2>2. interrupted' \subseteq Job /\ timer' \in [Job -> 0..MaxChains]
    BY <1>4, SchedulerBounds DEF stop, Interrupted, Registered, TypeOK
  <2> QED
    BY <1>4, <2>1, <2>2 DEF stop, TypeOK
<1>5. ASSUME NEW j \in Job, NEW c \in Chains, Fire(j, c) PROVE TypeOK'
  <2>1. Awaiting(late[j]) \in Chain
    BY AwaitingChain DEF TypeOK
  <2> QED
    BY <1>5, <2>1 DEF Fire, TypeOK
<1>6. ASSUME NEW j \in Job, NEW c \in Chains, EndCallback(j, c) PROVE TypeOK'
  <2>1. PICK wait \in Nat : chain' = [chain EXCEPT ![j][c] = Armed(wait)]
    BY <1>6, NextTimer
  <2>2. chain' \in [Job -> [Chains -> Chain]]
    BY <2>1, ArmedChain DEF TypeOK
  <2>3. late' \in [Job -> Int]
    <3>1. late[j] - Interval[j[1]] \in Int
      BY JobIsPair, IntervalAssumption DEF TypeOK
    <3> QED
      BY <1>6, <3>1 DEF EndCallback, TypeOK
  <2>4. timer' \in [Job -> 0..MaxChains]
    BY <1>6, SchedulerBounds DEF EndCallback, TypeOK, Chains
  <2> QED
    BY <1>6, <2>2, <2>3, <2>4 DEF EndCallback, TypeOK
<1>7. ASSUME Tick PROVE TypeOK'
  <2>1. \A j \in Steady, c \in Chains : Passed(chain[j][c]) \in Chain
    BY <1>7, PassedTypes DEF Tick, Steady, TypeOK
  <2>2. chain' \in [Job -> [Chains -> Chain]]
    BY <1>7, <2>1 DEF Tick, TypeOK
  <2>3. late' \in [Job -> Int]
    BY <1>7 DEF Tick, TypeOK
  <2> QED
    BY <1>7, <2>2, <2>3 DEF Tick, TypeOK
<1>8. CASE UNCHANGED vars
  BY <1>8 DEF vars, TypeOK
<1> QED
  BY <1>1, <1>2, <1>3, <1>4, <1>5, <1>6, <1>7, <1>8 DEF Next

-----------------------------------------------------------------------------
(***************************************************************************)
(* Steady jobs                                                             *)
(***************************************************************************)
\* An interrupted job stays one.
LEMMA SteadyBefore ==
    ASSUME [Next]_vars, NEW j \in Steady'
    PROVE  j \in Steady
<1>1. interrupted \subseteq interrupted'
  <2>1. ASSUME NEW n \in Names, addJob(n) \/ removeJob(n) PROVE interrupted \subseteq interrupted'
    BY <2>1 DEF addJob, removeJob, Interrupted
  <2>2. CASE start \/ stop \/ Tick \/ UNCHANGED vars
    BY <2>2 DEF start, stop, Tick, vars, Interrupted
  <2>3. ASSUME NEW i \in Job, NEW c \in Chains, Fire(i, c) \/ EndCallback(i, c)
        PROVE  interrupted \subseteq interrupted'
    BY <2>3 DEF Fire, EndCallback
  <2> QED
    BY <2>1, <2>2, <2>3 DEF Next
<1> QED
  BY <1>1 DEF Steady

\* A job that had no chain and gets its first timer.
LEMMA JobStarts ==
    ASSUME TypeOK, NEW chains \in [Job -> [Chains -> Chain]], NEW js, NEW j \in Job,
           StartPreciseJobs(chains, js), j \in js, j \notin interrupted,
           \A c \in Chains : chains[j][c] = Off
    PROVE  /\ HasChain(j)' /\ timer'[j] # 0
           /\ \A c \in Chains : chain'[j][c] # Off => c = timer'[j]
           /\ \A c \in Chains : OnTime(j, c)'
<1>1. PICK c \in Chains, wait \in Nat :
        /\ chain'[j] = [chains[j] EXCEPT ![c] = Armed(wait)]
        /\ timer'[j] = c /\ late'[j] = -Interval[j[1]]
        /\ late'[j] + wait \in 0..MaxLateness
  <2>1. FirstTimer(chains, j)
    BY StartedJobs
  <2> QED
    BY <2>1 DEF FirstTimer
<1>2. chain'[j][c] = Armed(wait) /\ \A b \in Chains \ {c} : chain'[j][b] = Off
  BY <1>1
<1>3. chain'[j][c] # Off /\ chain'[j][c].at = "armed" /\ chain'[j][c].wait = wait
  BY <1>2, ArmedChain
<1>4. c # 0
  BY SchedulerBounds DEF Chains
<1>5. ASSUME NEW b \in Chains PROVE OnTime(j, b)'
  <2>1. CASE b = c
    <3>1. late'[j] + wait >= 0 /\ late'[j] + wait <= MaxRun + MaxLateness
      BY <1>1, TimingAssumption
    <3> QED
      BY <1>3, <2>1, <3>1 DEF OnTime
  <2>2. CASE b # c
    BY <1>2, <2>2 DEF OnTime, Off
  <2> QED
    BY <2>1, <2>2
<1> QED
  BY <1>1, <1>2, <1>3, <1>4, <1>5 DEF HasChain

\* A job that loses what it had.
LEMMA JobEnds ==
    ASSUME NEW j \in Job, \A c \in Chains : chain'[j][c] = Off
    PROVE  /\ ~HasChain(j)'
           /\ \A c \in Chains : chain'[j][c] # Off => c = timer'[j]
           /\ \A c \in Chains : OnTime(j, c)'
  BY DEF HasChain, OnTime, Off

\* A job that nothing happens to.
LEMMA JobStays ==
    ASSUME NEW j \in Job, JobInv(j), chain'[j] = chain[j], timer'[j] = timer[j],
           late'[j] = late[j]
    PROVE  /\ HasChain(j)' <=> HasChain(j)
           /\ \A c \in Chains : chain'[j][c] # Off => c = timer'[j]
           /\ \A c \in Chains : OnTime(j, c)'
  BY DEF HasChain, OnTime, Punctual, JobInv

\* The invariant of a steady job over each action: addJob,
LEMMA AddJobStep ==
    ASSUME IInv, NEW n \in Names, addJob(n), NEW j \in Steady', j \in Steady
    PROVE  JobInv(j)'
<1> USE DEF IInv
<1>0. j \in Job /\ j \notin interrupted /\ JobInv(j)
  BY DEF Steady
<1> DEFINE js == IF isRunning THEN {New(n)} ELSE {}
<1>1. /\ StartPreciseJobs(Cleared(Old(n)), js)
      /\ Cleared(Old(n)) \in [Job -> [Chains -> Chain]]
      /\ isRunning' = isRunning /\ jobs' = [jobs EXCEPT ![n] = added[n] + 1]
  BY <1>0, ClearedChains DEF addJob
<1>2. New(n) \in Job /\ New(n)[1] = n /\ New(n)[2] = added[n] + 1
  BY NewJob DEF addJob
<1>3. CASE j = New(n)
  <2>1. timer[j] = 0 /\ \A c \in Chains : chain[j][c] = Off
    <3>1. added[n] \in Nat
      BY DEF TypeOK
    <3> QED
      BY <1>0, <1>2, <1>3, <3>1 DEF Fresh
  <2>2. \A c \in Chains : Cleared(Old(n))[j][c] = Off
    BY <1>0, <2>1, ClearedChains
  <2>3. j \in Registered'
    BY <1>0, <1>1, <1>2, <1>3 DEF Registered, TypeOK
  <2>4. CASE isRunning
    BY <1>0, <1>1, <1>3, <2>2, <2>3, <2>4, JobStarts DEF JobInv
  <2>5. CASE ~isRunning
    <3>1. chain'[j] = Cleared(Old(n))[j] /\ timer'[j] = timer[j]
      <4>1. j \notin js
        BY <2>5
      <4> HIDE DEF js
      <4> QED
        BY <1>0, <1>1, <4>1, StartedJobs DEF NoTimer
    <3> QED
      BY <1>0, <1>1, <2>1, <2>2, <2>5, <3>1, JobEnds DEF JobInv
  <2> QED
    BY <2>4, <2>5
<1>4. CASE j # New(n)
  <2>1. /\ chain'[j] = Cleared(Old(n))[j] /\ timer'[j] = timer[j] /\ late'[j] = late[j]
    <3>1. j \notin js
      BY <1>4
    <3> HIDE DEF js
    <3> QED
      BY <1>0, <1>1, <3>1, StartedJobs DEF NoTimer
  <2>2. CASE j \in Old(n)
    <3>1. ~IsAwaited(j)
      BY <2>2 DEF addJob, Interrupted, Steady
    <3>2. \A c \in Chains : chain'[j][c] = Off
      BY <1>0, <2>1, <2>2, <3>1, ClearedChains
    <3>3. j \notin Registered'
      <4>1. jobs'[n] = added[n] + 1 /\ jobs[n] = j[2] /\ j[1] = n /\ jobs[n] <= added[n]
        BY <1>1, <2>2 DEF Old, Registered, Fresh, TypeOK
      <4>2. jobs'[n] # j[2]
        BY <4>1 DEF TypeOK
      <4> QED
        BY <4>1, <4>2 DEF Registered
    <3> QED
      BY <1>0, <3>2, <3>3, JobEnds DEF JobInv
  <2>3. CASE j \notin Old(n)
    <3>1. chain'[j] = chain[j]
      BY <1>0, <2>1, <2>3, ClearedChains
    <3>2. j \in Registered' <=> j \in Registered
      <4>1. CASE j[1] = n
        <5>1. j \notin Registered
          BY <2>3, <4>1 DEF Old
        <5>2. j[2] # added[n] + 1
          BY <1>0, <1>4, <4>1, JobIsPair DEF New
        <5>3. jobs'[j[1]] = added[n] + 1
          BY <1>1, <4>1 DEF TypeOK
        <5> QED
          BY <5>1, <5>2, <5>3 DEF Registered
      <4>2. CASE j[1] # n
        <5>1. jobs'[j[1]] = jobs[j[1]]
          BY <1>1, <4>2 DEF TypeOK
        <5> QED
          BY <5>1 DEF Registered
      <4> QED
        BY <4>1, <4>2
    <3> QED
      BY <1>0, <1>1, <2>1, <3>1, <3>2, JobStays DEF JobInv
  <2> QED
    BY <2>2, <2>3
<1> QED
  BY <1>3, <1>4

\* removeJob,
LEMMA RemoveJobStep ==
    ASSUME IInv, NEW n \in Names, removeJob(n), NEW j \in Steady', j \in Steady
    PROVE  JobInv(j)'
<1> USE DEF IInv
<1>0. j \in Job /\ j \notin interrupted /\ JobInv(j)
  BY DEF Steady
<1>1. /\ chain' = Cleared(Old(n)) /\ timer' = timer /\ late' = late
      /\ isRunning' = isRunning /\ jobs' = [jobs EXCEPT ![n] = 0]
  BY DEF removeJob
<1>2. CASE j \in Old(n)
  <2>1. ~IsAwaited(j)
    BY <1>2 DEF removeJob, Interrupted, Steady
  <2>2. \A c \in Chains : chain'[j][c] = Off
    BY <1>0, <1>1, <1>2, <2>1, ClearedChains
  <2>3. j \notin Registered'
    <3>1. jobs'[j[1]] = 0 /\ j[2] # 0
      BY <1>0, <1>1, <1>2, JobIsPair DEF Old, TypeOK
    <3> QED
      BY <3>1 DEF Registered
  <2> QED
    BY <1>0, <2>2, <2>3, JobEnds DEF JobInv
<1>3. CASE j \notin Old(n)
  <2>1. chain'[j] = chain[j]
    BY <1>0, <1>1, <1>3, ClearedChains
  <2>2. j \in Registered' <=> j \in Registered
    <3>1. CASE j[1] = n
      <4>1. j \notin Registered
        BY <1>3, <3>1 DEF Old
      <4>2. jobs'[j[1]] = 0 /\ j[2] # 0
        BY <1>0, <1>1, <3>1, JobIsPair DEF TypeOK
      <4> QED
        BY <4>1, <4>2 DEF Registered
    <3>2. CASE j[1] # n
      <4>1. jobs'[j[1]] = jobs[j[1]]
        BY <1>1, <3>2 DEF TypeOK
      <4> QED
        BY <4>1 DEF Registered
    <3> QED
      BY <3>1, <3>2
  <2> QED
    BY <1>0, <1>1, <2>1, <2>2, JobStays DEF JobInv
<1> QED
  BY <1>2, <1>3

\* start,
LEMMA StartStep ==
    ASSUME IInv, start, NEW j \in Steady', j \in Steady
    PROVE  JobInv(j)'
<1> USE DEF IInv
<1>0. j \in Job /\ j \notin interrupted /\ JobInv(j)
  BY DEF Steady
<1> DEFINE js == {i \in Registered : ~IsActive(i)}
<1>1. /\ StartPreciseJobs(chain, js) /\ chain \in [Job -> [Chains -> Chain]]
      /\ isRunning' = TRUE /\ Registered' = Registered
  BY DEF start, TypeOK, Registered
<1>2. CASE j \in js
  <2>1. j \in Registered /\ timer[j] = 0
    BY <1>2 DEF IsActive
  <2>2. \A c \in Chains : chain[j][c] = Off
    <3>1. \A c \in Chains : c # 0
      BY SchedulerBounds DEF Chains
    <3> QED
      BY <1>0, <2>1, <3>1 DEF JobInv
  <2> HIDE DEF js
  <2> QED
    BY <1>0, <1>1, <1>2, <2>1, <2>2, JobStarts DEF JobInv
<1>3. CASE j \notin js
  <2>1. j \in Registered => timer[j] # 0
    BY <1>3 DEF IsActive
  <2> HIDE DEF js
  <2>2. chain'[j] = chain[j] /\ timer'[j] = timer[j] /\ late'[j] = late[j]
    BY <1>0, <1>1, <1>3, StartedJobs DEF NoTimer
  <2>3. j \in Registered => isRunning
    BY <1>0, <2>1 DEF JobInv
  <2> QED
    BY <1>0, <1>1, <2>2, <2>3, JobStays DEF JobInv
<1> QED
  BY <1>2, <1>3

\* stop,
LEMMA StopStep ==
    ASSUME IInv, stop, NEW j \in Steady', j \in Steady
    PROVE  JobInv(j)'
<1> USE DEF IInv
<1>0. j \in Job /\ j \notin interrupted /\ JobInv(j)
  BY DEF Steady
<1>1. /\ chain' = Cleared(Registered) /\ late' = late
      /\ isRunning' = FALSE /\ Registered' = Registered
      /\ timer' = [i \in Job |-> IF i \in Registered THEN 0 ELSE timer[i]]
  BY DEF stop, Registered
<1>2. CASE j \in Registered
  <2>1. ~IsAwaited(j)
    BY <1>2 DEF stop, Interrupted, Steady
  <2>2. \A c \in Chains : chain'[j][c] = Off
    BY <1>0, <1>1, <1>2, <2>1, ClearedChains
  <2>3. timer'[j] = 0
    BY <1>0, <1>1, <1>2
  <2> QED
    BY <1>0, <1>1, <2>2, <2>3, JobEnds DEF JobInv
<1>3. CASE j \notin Registered
  <2>1. chain'[j] = chain[j] /\ timer'[j] = timer[j] /\ late'[j] = late[j]
    BY <1>0, <1>1, <1>3, ClearedChains
  <2> QED
    BY <1>0, <1>1, <1>3, <2>1, JobStays DEF JobInv
<1> QED
  BY <1>2, <1>3

\* a timer that fires,
LEMMA FireStep ==
    ASSUME IInv, NEW i \in Job, NEW c \in Chains, Fire(i, c), NEW j \in Steady', j \in Steady
    PROVE  JobInv(j)'
<1> USE DEF IInv
<1>0. j \in Job /\ JobInv(j)
  BY DEF Steady
<1>1. /\ chain' = [chain EXCEPT ![i][c] = Awaiting(late[i])] /\ timer' = timer /\ late' = late
      /\ isRunning' = isRunning /\ Registered' = Registered
      /\ chain[i][c].at = "armed" /\ chain[i][c].wait = 0
  BY DEF Fire, Registered
<1>2. CASE j # i
  <2>1. chain'[j] = chain[j]
    BY <1>0, <1>1, <1>2 DEF TypeOK
  <2> QED
    BY <1>0, <1>1, <2>1, JobStays DEF JobInv
<1>3. CASE j = i
  <2>1. chain[j][c] # Off /\ late[j] \in Int
    BY <1>0, <1>1, <1>3, ChainKinds DEF TypeOK
  <2>2. chain'[j][c] = Awaiting(late[j]) /\ \A b \in Chains \ {c} : chain'[j][b] = chain[j][b]
    BY <1>0, <1>1, <1>3 DEF TypeOK
  <2>3. /\ chain'[j][c] # Off /\ chain'[j][c].at = "awaiting"
        /\ chain'[j][c].drift = late[j] /\ chain'[j][c].ran = 0
    BY <2>1, <2>2, AwaitingChain
  <2>4. OnTime(j, c)'
    <3>1. late[j] >= 0 /\ (Punctual(j) => late[j] <= MaxRun + MaxLateness)
      BY <1>0, <1>1, <1>3, <2>1 DEF JobInv, OnTime
    <3> QED
      BY <1>1, <2>1, <2>3, <3>1 DEF OnTime, Punctual
  <2>5. \A b \in Chains : OnTime(j, b)'
    BY <1>0, <1>1, <2>2, <2>4 DEF JobInv, OnTime, Punctual
  <2>6. HasChain(j) /\ HasChain(j)'
    BY <2>1, <2>3 DEF HasChain
  <2> QED
    BY <1>0, <1>1, <2>1, <2>2, <2>5, <2>6 DEF JobInv
<1> QED
  BY <1>2, <1>3

\* Where the next timer fires, from where this run began and how long it took.
LEMMA NextTimerIsOnTime ==
    ASSUME NEW j \in Job, NEW drift \in Int, NEW ran \in 0..MaxRun, NEW now \in Int,
           NEW lateness \in 0..MaxLateness,
           drift >= 0, drift <= now, now <= drift + ran,
           Punctual(j) => drift <= MaxRun + MaxLateness
    PROVE  \A wait \in Int :
              wait = Delay(j[1], drift, now - Interval[j[1]]) + lateness =>
                /\ now - Interval[j[1]] + wait >= 0
                /\ Punctual(j) => now - Interval[j[1]] + wait <= MaxRun + MaxLateness
<1> DEFINE interval == Interval[j[1]]
<1>1. interval \in Nat /\ MaxRun \in Nat /\ MaxLateness \in Nat
  BY JobIsPair, IntervalAssumption, TimingAssumption
<1> HIDE DEF interval
<1>2. CASE j[1] \in AvoidCatchUp
  <2>1. Delay(j[1], drift, now - interval) = AtLeast(-(now - interval), interval)
    BY <1>2 DEF Delay, interval
  <2>2. now - interval + AtLeast(-(now - interval), interval) + lateness >= 0
    BY <1>1, TimingAssumption DEF AtLeast
  <2> QED
    BY <1>1, <1>2, <2>1, <2>2 DEF Punctual, interval, AtLeast
<1>3. CASE j[1] \notin AvoidCatchUp
  <2>1. Delay(j[1], drift, now - interval) = AtLeast(0, interval - drift)
    BY <1>3 DEF Delay, interval
  <2>2. now - interval + (AtLeast(0, interval - drift) + lateness) >= 0
    BY <1>1 DEF AtLeast
  <2>3. ASSUME Punctual(j)
        PROVE  now - interval + (AtLeast(0, interval - drift) + lateness) <= MaxRun + MaxLateness
    <3>1. drift <= interval
      BY <1>1, <2>3 DEF Punctual, interval
    <3>2. AtLeast(0, interval - drift) = interval - drift
      BY <1>1, <3>1 DEF AtLeast
    <3> QED
      BY <1>1, <3>2
  <2> QED
    BY <2>1, <2>2, <2>3 DEF interval
<1> QED
  BY <1>2, <1>3

\* the end of a callback,
LEMMA EndCallbackStep ==
    ASSUME IInv, NEW i \in Job, NEW c \in Chains, EndCallback(i, c),
           NEW j \in Steady', j \in Steady
    PROVE  JobInv(j)'
<1> USE DEF IInv
<1>0. j \in Job /\ j \notin interrupted /\ JobInv(j)
  BY DEF Steady
<1>1. /\ timer' = [timer EXCEPT ![i] = c]
      /\ late' = [late EXCEPT ![i] = IF i \in interrupted THEN late[i]
                                     ELSE late[i] - Interval[i[1]]]
      /\ isRunning' = isRunning /\ Registered' = Registered
      /\ chain[i][c].at = "awaiting"
  BY DEF EndCallback, Registered
<1>2. PICK wait \in Nat, lateness \in 0..MaxLateness :
        /\ chain' = [chain EXCEPT ![i][c] = Armed(wait)]
        /\ i \notin interrupted =>
             wait = Delay(i[1], chain[i][c].drift, late[i] - Interval[i[1]]) + lateness
  BY NextTimer
<1>3. CASE j # i
  <2>1. chain'[j] = chain[j] /\ timer'[j] = timer[j] /\ late'[j] = late[j]
    BY <1>0, <1>1, <1>2, <1>3 DEF TypeOK
  <2> QED
    BY <1>0, <1>1, <2>1, JobStays DEF JobInv
<1>4. CASE j = i
  <2>1. /\ chain[j][c] \in [at : {"awaiting"}, drift : Int, ran : 0..MaxRun]
        /\ chain[j][c] # Off /\ late[j] \in Int
    BY <1>4, NextTimer DEF TypeOK
  <2>2. chain'[j][c] = Armed(wait) /\ \A b \in Chains \ {c} : chain'[j][b] = chain[j][b]
    BY <1>0, <1>2, <1>4 DEF TypeOK
  <2>3. chain'[j][c] # Off /\ chain'[j][c].at = "armed" /\ chain'[j][c].wait = wait
    BY <2>2, ArmedChain
  <2>4. timer[j] = c /\ \A b \in Chains \ {c} : chain[j][b] = Off
    BY <1>0, <2>1 DEF JobInv
  <2>5. timer'[j] = c /\ late'[j] = late[j] - Interval[j[1]]
    BY <1>0, <1>1, <1>4 DEF TypeOK
  <2>6. OnTime(j, c)'
    <3>1. /\ chain[j][c].drift >= 0 /\ chain[j][c].drift <= late[j]
          /\ late[j] <= chain[j][c].drift + chain[j][c].ran
          /\ Punctual(j) => chain[j][c].drift <= MaxRun + MaxLateness
      BY <1>0, <1>1, <1>4 DEF JobInv, OnTime
    <3>2. wait = Delay(j[1], chain[j][c].drift, late[j] - Interval[j[1]]) + lateness
      BY <1>0, <1>2, <1>4
    <3>3. /\ late[j] - Interval[j[1]] + wait >= 0
          /\ Punctual(j) => late[j] - Interval[j[1]] + wait <= MaxRun + MaxLateness
      <4> DEFINE drift == chain[j][c].drift
                 ran == chain[j][c].ran
                 now == late[j]
      <4>1. /\ drift \in Int /\ ran \in 0..MaxRun /\ now \in Int
            /\ drift >= 0 /\ drift <= now /\ now <= drift + ran
            /\ Punctual(j) => drift <= MaxRun + MaxLateness
            /\ wait = Delay(j[1], drift, now - Interval[j[1]]) + lateness
        BY <2>1, <3>1, <3>2
      <4> HIDE DEF drift, ran, now
      <4>2. /\ now - Interval[j[1]] + wait >= 0
            /\ Punctual(j) => now - Interval[j[1]] + wait <= MaxRun + MaxLateness
        BY <1>0, <4>1, NextTimerIsOnTime
      <4> QED
        BY <4>2 DEF now
    <3> QED
      BY <2>3, <2>5, <3>3 DEF OnTime, Punctual
  <2>7. \A b \in Chains : OnTime(j, b)'
    BY <2>2, <2>4, <2>6 DEF OnTime, Off
  <2>8. HasChain(j) /\ HasChain(j)'
    BY <2>1, <2>3 DEF HasChain
  <2> QED
    BY <1>0, <1>1, <2>2, <2>4, <2>5, <2>7, <2>8 DEF JobInv
<1> QED
  BY <1>3, <1>4

\* the time that passes,
LEMMA TickStep ==
    ASSUME IInv, Tick, NEW j \in Steady', j \in Steady
    PROVE  JobInv(j)'
<1> USE DEF IInv
<1>0. j \in Job /\ JobInv(j) /\ late[j] \in Int
  BY DEF Steady, TypeOK
<1>1. /\ timer' = timer /\ isRunning' = isRunning /\ Registered' = Registered
      /\ \A c \in Chains : chain'[j][c] = Passed(chain[j][c])
      /\ late'[j] = IF HasChain(j) /\ late[j] < MaxLate THEN late[j] + 1 ELSE late[j]
  BY <1>0 DEF Tick, Registered, TypeOK
<1>2. ASSUME NEW c \in Chains
      PROVE  /\ chain[j][c] \in Chain
             /\ chain'[j][c] = Off <=> chain[j][c] = Off
             /\ chain'[j][c].at = chain[j][c].at
             /\ chain[j][c].at = "armed" =>
                    chain[j][c].wait > 0 /\ chain'[j][c].wait = chain[j][c].wait - 1
             /\ chain[j][c].at = "awaiting" => /\ chain'[j][c].drift = chain[j][c].drift
                                               /\ chain'[j][c].ran = chain[j][c].ran + 1
  <2>1. /\ chain[j][c].at = "armed" => chain[j][c].wait > 0
        /\ chain[j][c].at = "awaiting" => chain[j][c].ran < MaxRun
    BY DEF Tick
  <2>2. chain[j][c] \in Chain
    BY <1>0 DEF TypeOK
  <2> QED
    BY <1>1, <2>1, <2>2, PassedTypes
<1>3. HasChain(j)' <=> HasChain(j)
  BY <1>2 DEF HasChain
<1>4. ASSUME NEW c \in Chains PROVE OnTime(j, c)'
  <2>1. OnTime(j, c)
    BY <1>0 DEF JobInv
  <2>2. CASE chain[j][c].at = "armed"
    <3>1. chain[j][c] \in [at : {"armed"}, wait : Nat] /\ HasChain(j)
      BY <1>2, <2>2, ChainKinds DEF HasChain
    <3>2. /\ late'[j] + chain'[j][c].wait >= 0
          /\ late'[j] + chain'[j][c].wait <= late[j] + chain[j][c].wait
      <4>1. MaxLate \in Nat
        BY SchedulerBounds
      <4> QED
        BY <1>0, <1>1, <1>2, <2>1, <2>2, <3>1, <4>1 DEF OnTime
    <3>3. ASSUME Punctual(j) PROVE late'[j] + chain'[j][c].wait <= MaxRun + MaxLateness
      <4>1. late[j] + chain[j][c].wait <= MaxRun + MaxLateness
        BY <2>1, <2>2, <3>3 DEF OnTime
      <4>2. chain'[j][c].wait \in Int /\ late'[j] \in Int
        BY <1>0, <1>1, <1>2, <2>2, <3>1
      <4> QED
        BY <1>0, <3>1, <3>2, <4>1, <4>2, TimingAssumption
    <3> QED
      BY <1>2, <2>2, <3>2, <3>3 DEF OnTime, Punctual
  <2>3. CASE chain[j][c].at = "awaiting"
    <3>1. chain[j][c] \in [at : {"awaiting"}, drift : Int, ran : 0..MaxRun]
      BY <1>2, <2>3, ChainKinds
    <3>2. late[j] <= late'[j] /\ late'[j] <= late[j] + 1 /\ late'[j] \in Int
      BY <1>0, <1>1
    <3>3. chain[j][c].drift <= late'[j]
            /\ late'[j] <= chain[j][c].drift + (chain[j][c].ran + 1)
      BY <1>0, <2>1, <2>3, <3>1, <3>2 DEF OnTime
    <3> QED
      BY <1>2, <2>1, <2>3, <3>1, <3>3 DEF OnTime, Punctual
  <2>4. CASE chain[j][c] = Off
    BY <1>2, <2>4 DEF OnTime, Off
  <2> QED
    BY <1>2, <2>2, <2>3, <2>4, ChainKinds
<1> QED
  BY <1>0, <1>1, <1>2, <1>3, <1>4 DEF JobInv

\* and so over any step.
LEMMA SteadyStep ==
    ASSUME IInv, [Next]_vars, NEW j \in Steady'
    PROVE  JobInv(j)'
<1>1. j \in Steady
  BY SteadyBefore
<1>2. CASE UNCHANGED vars
  <2>1. JobInv(j) /\ j \in Job
    BY <1>1 DEF IInv, Steady
  <2> QED
    BY <1>2, <2>1 DEF vars, JobInv, HasChain, Registered, OnTime, Punctual
<1> QED
  BY <1>1, <1>2, AddJobStep, RemoveJobStep, StartStep, StopStep, FireStep, EndCallbackStep,
     TickStep DEF Next

-----------------------------------------------------------------------------
(***************************************************************************)
(* Registrations to come                                                   *)
(***************************************************************************)
\* No step touches a registration that is still to come.
LEMMA FreshStep == IInv /\ [Next]_vars => Fresh'
<1> SUFFICES ASSUME IInv, [Next]_vars PROVE Fresh'
  OBVIOUS
<1> USE DEF IInv
<1>0. /\ \A n \in Names : jobs[n] \in Nat /\ added[n] \in Nat /\ jobs[n] <= added[n]
      /\ \A j \in Job : j[1] \in Names /\ j[2] \in Nat /\ j[2] # 0
  BY JobIsPair DEF TypeOK, Fresh
<1>1. /\ \A n \in Names : jobs'[n] <= added'[n] /\ added[n] <= added'[n]
  <2>1. ASSUME NEW m \in Names, addJob(m), NEW n \in Names
        PROVE  jobs'[n] <= added'[n] /\ added[n] <= added'[n]
    BY <1>0, <2>1 DEF addJob, TypeOK
  <2>2. ASSUME NEW m \in Names, removeJob(m), NEW n \in Names
        PROVE  jobs'[n] <= added'[n] /\ added[n] <= added'[n]
    BY <1>0, <2>2 DEF removeJob, TypeOK
  <2>3. CASE start \/ stop \/ Tick \/ UNCHANGED vars
    BY <1>0, <2>3 DEF start, stop, Tick, vars
  <2>4. ASSUME NEW i \in Job, NEW c \in Chains, Fire(i, c) \/ EndCallback(i, c)
        PROVE  jobs' = jobs /\ added' = added
    BY <2>4 DEF Fire, EndCallback
  <2> QED
    BY <1>0, <2>1, <2>2, <2>3, <2>4 DEF Next
<1>2. ASSUME NEW j \in Job, j[2] > added'[j[1]]
      PROVE  timer'[j] = 0 /\ \A c \in Chains : chain'[j][c] = Off
  <2>0. /\ timer[j] = 0 /\ \A c \in Chains : chain[j][c] = Off
        /\ j \notin Registered /\ j[2] > added[j[1]]
    <3>1. j[2] > added[j[1]]
      <4>1. added[j[1]] <= added'[j[1]] /\ j[2] \in Nat /\ added[j[1]] \in Nat
        BY <1>0, <1>1
      <4>2. added'[j[1]] \in Nat
        BY <1>0, TypeStep DEF TypeOK
      <4> QED
        BY <1>2, <4>1, <4>2
    <3>2. j[2] # jobs[j[1]]
      BY <1>0, <3>1
    <3> QED
      BY <3>1, <3>2 DEF Fresh, Registered
  <2>1. ASSUME NEW n \in Names, addJob(n)
        PROVE  timer'[j] = 0 /\ \A c \in Chains : chain'[j][c] = Off
    <3> DEFINE js == IF isRunning THEN {New(n)} ELSE {}
    <3>1. /\ StartPreciseJobs(Cleared(Old(n)), js)
          /\ Cleared(Old(n)) \in [Job -> [Chains -> Chain]]
          /\ added' = [added EXCEPT ![n] = added[n] + 1]
      BY <2>1, ClearedChains DEF addJob
    <3>2. j # New(n)
      <4>1. New(n)[1] = n /\ New(n)[2] = added[n] + 1
        BY <2>1, NewJob DEF addJob
      <4>2. j[1] = n => added'[j[1]] = added[n] + 1
        BY <3>1 DEF TypeOK
      <4> QED
        BY <1>0, <1>2, <4>1, <4>2
    <3>3. j \notin js
      BY <3>2
    <3>4. \A c \in Chains : Cleared(Old(n))[j][c] = Off
      BY <2>0, ClearedChains
    <3> HIDE DEF js
    <3> QED
      BY <2>0, <3>1, <3>3, <3>4, StartedJobs DEF NoTimer
  <2>2. ASSUME NEW n \in Names, removeJob(n)
        PROVE  timer'[j] = 0 /\ \A c \in Chains : chain'[j][c] = Off
    BY <2>0, <2>2, ClearedChains DEF removeJob
  <2>3. ASSUME start PROVE timer'[j] = 0 /\ \A c \in Chains : chain'[j][c] = Off
    <3> DEFINE js == {i \in Registered : ~IsActive(i)}
    <3>1. StartPreciseJobs(chain, js) /\ chain \in [Job -> [Chains -> Chain]]
      BY <2>3 DEF start, TypeOK
    <3>2. j \notin js
      BY <2>0
    <3> HIDE DEF js
    <3> QED
      BY <2>0, <3>1, <3>2, StartedJobs DEF NoTimer
  <2>4. ASSUME stop PROVE timer'[j] = 0 /\ \A c \in Chains : chain'[j][c] = Off
    BY <2>0, <2>4, ClearedChains DEF stop
  <2>5. ASSUME NEW i \in Job, NEW b \in Chains, Fire(i, b) \/ EndCallback(i, b)
        PROVE  timer'[j] = 0 /\ \A c \in Chains : chain'[j][c] = Off
    <3>1. chain[i][b] # Off
      BY <2>5, ChainKinds DEF Fire, EndCallback, Off
    <3>2. i # j
      BY <2>0, <3>1
    <3>3. timer'[j] = timer[j] /\ chain'[j] = chain[j]
      BY <2>5, <3>2 DEF Fire, EndCallback, TypeOK
    <3> QED
      BY <2>0, <3>3
  <2>6. ASSUME Tick PROVE timer'[j] = 0 /\ \A c \in Chains : chain'[j][c] = Off
    BY <2>0, <2>6 DEF Tick, Passed, Off, TypeOK
  <2>7. CASE UNCHANGED vars
    BY <2>0, <2>7 DEF vars
  <2> QED
    BY <2>1, <2>2, <2>3, <2>4, <2>5, <2>6, <2>7 DEF Next
<1> QED
  BY <1>1, <1>2 DEF Fresh

-----------------------------------------------------------------------------
(***************************************************************************)
(* The theorems                                                            *)
(***************************************************************************)
\* The whole invariant: at the start, over a step, and always.
LEMMA InitInv == Init => IInv
<1> SUFFICES ASSUME Init PROVE IInv
  OBVIOUS
<1>1. TypeOK
  <2>1. Off \in Chain
    BY DEF Chain
  <2>2. \A n \in Names : MaxAdds[n] \in Nat /\ 0 <= MaxAdds[n]
    BY SchedulerBounds
  <2>3. 0 \in 0..MaxChains
    BY SchedulerBounds
  <2> QED
    <3>1. /\ jobs \in [Names -> Nat] /\ added \in [Names -> Nat] /\ isRunning \in BOOLEAN
          /\ \A n \in Names : jobs[n] <= MaxAdds[n] /\ added[n] <= MaxAdds[n]
      BY <2>2 DEF Init
    <3>2. chain \in [Job -> [Chains -> Chain]]
      BY <2>1 DEF Init
    <3>3. timer \in [Job -> 0..MaxChains] /\ late \in [Job -> Int] /\ interrupted \subseteq Job
      BY <2>3 DEF Init
    <3> QED
      BY <3>1, <3>2, <3>3 DEF TypeOK
<1>2. Fresh
  BY DEF Init, Fresh
<1>3. ASSUME NEW j \in Steady PROVE JobInv(j)
  BY <1>3 DEF Init, Steady, JobInv, HasChain, OnTime, Off
<1> QED
  BY <1>1, <1>2, <1>3 DEF IInv

LEMMA InvStep == IInv /\ [Next]_vars => IInv'
<1> SUFFICES ASSUME IInv, [Next]_vars PROVE IInv'
  OBVIOUS
<1>1. \A j \in Steady' : JobInv(j)'
  BY SteadyStep
<1> QED
  BY <1>1, TypeStep, FreshStep DEF IInv

LEMMA Invariance == Spec => []IInv
  BY InitInv, InvStep, PTL DEF Spec

\* The types, and with them that setTimeout is never given a negative delay.
THEOREM TypeCorrect == Spec => []TypeOK
<1>1. IInv => TypeOK
  BY DEF IInv
<1> QED
  BY <1>1, Invariance, PTL

\* A job that is never removed or stopped while its callback is awaited has one
\* timer or one callback at a time, and getStatus tells whether it has one.
THEOREM JobsRunOnce == Spec => []OneChain
<1>1. IInv => OneChain
  <2> SUFFICES ASSUME IInv, NEW j \in Steady
               PROVE  /\ \A b, c \in Chains : chain[j][b] # Off /\ chain[j][c] # Off => b = c
                      /\ j \in Registered => (IsActive(j) <=> HasChain(j))
    BY DEF OneChain
  <2>1. JobInv(j)
    BY DEF IInv
  <2>2. \A c \in Chains : c # 0
    BY SchedulerBounds DEF Chains
  <2> QED
    BY <2>1, <2>2 DEF JobInv, IsActive, HasChain
<1> QED
  BY <1>1, Invariance, PTL

\* removeJob, the replacement of a job by addJob, and stop leave nothing of such
\* a job behind.
THEOREM RemovedJobsAreQuiet == Spec => []OnlyRegisteredJobsRun
<1>1. IInv => OnlyRegisteredJobsRun
  BY DEF IInv, JobInv, OnlyRegisteredJobsRun
<1> QED
  BY <1>1, Invariance, PTL

\* runJob makes up for lateness: whatever callbacks and timers take, no run is
\* early, and a job whose interval holds one slow callback and one late timer
\* never falls further behind.
THEOREM JobsAreOnTime == Spec => []RunsAreOnTime
<1>1. IInv => RunsAreOnTime
  BY DEF IInv, JobInv, OnTime, Punctual, RunsAreOnTime
<1> QED
  BY <1>1, Invariance, PTL

=============================================================================

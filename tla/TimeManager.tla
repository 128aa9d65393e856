---------------------------- MODULE TimeManager -----------------------------
(***************************************************************************)
(* The replacement of the MacOS Time Manager (timer.cpp): a table of       *)
(* descriptors, one per installed TMTask, and the pass over it that the    *)
(* 60Hz interrupt makes.  A pass calls expired tasks, and a task is Mac    *)
(* code: it installs, primes and removes tasks, its own included, while    *)
(* the pass stands at its descriptor, and can be interrupted by a pass.    *)
(***************************************************************************)
EXTENDS MacTime

CONSTANTS
    Tasks,          \* addresses of TMTask records in Mac memory
    Extended,       \* those installed with InsXTime(): qType bit 0x4000
    NoTask,         \* no task
    NumDescs,       \* NUM_DESCS
    MaxNest,        \* bound on passes on top of each other
    Delays,         \* delays given to PrimeTime()
    ClockStep,      \* the clock advances by this
    MaxClock,       \* bound on the clock
    Horizon         \* bound on wake-up times

ASSUME NoTaskAssumption == NoTask \notin Tasks
ASSUME NumDescsAssumption == NumDescs \in Nat \ {0}
ASSUME MaxNestAssumption == MaxNest \in Nat \ {0}
ASSUME DelaysAssumption == Delays \subseteq MacDelay
ASSUME ClockAssumption == ClockStep \in HostTime /\ ClockStep.sec >= 0

Slots == 1 .. NumDescs
Time0 == [sec |-> 0, nsec |-> 0]
Before(a, b) == timer_cmp_time(a, b) < 0

VARIABLES
    desc,           \* the descriptors: task, wakeup, in_use
    active,         \* [Tasks -> BOOLEAN]: qType bit 0x8000
    tmWakeUp,       \* [Tasks -> BOOLEAN]: tmWakeUp # 0
    tmCount,        \* what the last RmvTime() left in tmCount of its task
    clock,          \* what timer_current_time() returns
    depth,          \* running calls of TimerInterrupt()
    pass,           \* [1 .. MaxNest -> their locals: i, now, and the task called]
    due,            \* history: when a task is to run, or ran last if it is extended
    ran             \* history: [1 .. MaxNest -> the tasks a pass has called]

memory == << active, tmWakeUp, tmCount >>
passes == << depth, pass, ran >>
vars == << desc, memory, clock, passes, due >>

NoPass == [i |-> 0, now |-> Time0, called |-> NoTask]

\* TimerInit().
Init ==
    /\ desc = [i \in Slots |-> [task |-> NoTask, wakeup |-> Time0, in_use |-> FALSE]]
    /\ active = [t \in Tasks |-> FALSE]
    /\ tmWakeUp = [t \in Tasks |-> FALSE]
    /\ tmCount = 0
    /\ clock = Time0
    /\ depth = 0
    /\ pass = [d \in 1 .. MaxNest |-> NoPass]
    /\ due = [t \in Tasks |-> Time0]
    /\ ran = [d \in 1 .. MaxNest |-> {}]

-----------------------------------------------------------------------------
(* The table.                                                              *)

Holds(i, t) == desc[i].in_use /\ desc[i].task = t

\* find_desc(): the first descriptor of the task is i.
Found(i, t) == Holds(i, t) /\ \A j \in 1 .. i - 1 : ~Holds(j, t)
Installed(t) == \E i \in Slots : Holds(i, t)

\* alloc_desc(): i is the first free descriptor, or there is none.
FirstFree(i) == ~desc[i].in_use /\ \A j \in 1 .. i - 1 : desc[j].in_use
TableFull == \A i \in Slots : desc[i].in_use

\* Mac code runs: the main program, or a task called by the last pass.
MacRuns == depth > 0 => pass[depth].called # NoTask

\* The task t does not wait any more.
Unscheduled(t) == due' = [due EXCEPT ![t] = IF t \in Extended THEN @ ELSE Time0]

-----------------------------------------------------------------------------
(* The traps.                                                              *)

\* Mutant of InsTime: the active bit survives, as it does a restart.
InsTime_KeepsActive(t) ==
    /\ MacRuns
    /\ ~Installed(t)
    /\ \E i \in Slots :
          /\ FirstFree(i)
          /\ desc' = [desc EXCEPT ![i].task = t, ![i].in_use = TRUE]
    /\ UNCHANGED << memory, clock, passes, due >>

\* InsTime() clears the active bit, also of a task that is installed.
InsTime(t) ==
    /\ MacRuns
    /\ active' = [active EXCEPT ![t] = FALSE]
    /\ \/ (Installed(t) \/ TableFull) /\ desc' = desc
       \/ /\ ~Installed(t)
          /\ \E i \in Slots :
                /\ FirstFree(i)
                /\ desc' = [desc EXCEPT ![i].task = t, ![i].in_use = TRUE]
    /\ Unscheduled(t)
    /\ UNCHANGED << tmWakeUp, tmCount, clock, passes >>

\* Mutant of TimeLeft: the operands of timer_sub_time() are swapped.
TimeLeft_Swapped(i) == timer_host2mac_time(timer_sub_time(clock, desc[i].wakeup))

\* RmvTime() leaves the time that was left in tmCount.
TimeLeft(i) == timer_host2mac_time(timer_sub_time(desc[i].wakeup, clock))

RmvTime(t) ==
    /\ MacRuns
    /\ \E i \in Slots :
          /\ Found(i, t)
          /\ tmCount' = IF active[t] THEN TimeLeft(i) ELSE 0
          /\ desc' = [desc EXCEPT ![i].in_use = FALSE]
    /\ active' = [active EXCEPT ![t] = FALSE]
    /\ Unscheduled(t)
    /\ UNCHANGED << tmWakeUp, clock, passes >>

\* An extended task that was scheduled before continues from that time.
PrimeBase(i, t) == IF t \in Extended /\ tmWakeUp[t] THEN desc[i].wakeup ELSE clock

DueBase(t) == IF t \in Extended /\ tmWakeUp[t] THEN due[t] ELSE clock

PrimeTime(t, time) ==
    LET delay == timer_mac2host_time(time)
    IN  /\ MacRuns
        /\ \E i \in Slots :
              /\ Found(i, t)
              /\ desc' = [desc EXCEPT ![i].wakeup = timer_add_time(PrimeBase(i, t), delay)]
              /\ ~Before(Horizon, desc'[i].wakeup)
        /\ tmWakeUp' = [tmWakeUp EXCEPT ![t] = @ \/ t \in Extended]
        /\ active' = [active EXCEPT ![t] = TRUE]
        /\ due' = [due EXCEPT ![t] = timer_add_time(DueBase(t), delay)]
        /\ ~Before(Horizon, due'[t])
        /\ UNCHANGED << tmCount, clock, passes >>

\* TimerReset(), in the RESET of a restarting MacOS.
TimerReset ==
    /\ MacRuns
    /\ desc' = [i \in Slots |-> [desc[i] EXCEPT !.in_use = FALSE]]
    /\ UNCHANGED << memory, clock, passes, due >>

-----------------------------------------------------------------------------
(* TimerInterrupt().                                                       *)

\* Mutant of TimerInterrupt: the pass misses the first descriptor.
TimerInterrupt_FromSecond ==
    /\ MacRuns
    /\ depth < MaxNest
    /\ depth' = depth + 1
    /\ pass' = [pass EXCEPT ![depth + 1] = [i |-> 2, now |-> clock, called |-> NoTask]]
    /\ UNCHANGED << desc, memory, clock, due, ran >>

\* The pass begins: it looks at the clock once.
TimerInterrupt ==
    /\ MacRuns
    /\ depth < MaxNest
    /\ depth' = depth + 1
    /\ pass' = [pass EXCEPT ![depth + 1] = [i |-> 1, now |-> clock, called |-> NoTask]]
    /\ UNCHANGED << desc, memory, clock, due, ran >>

Scanning == depth > 0 /\ pass[depth].called = NoTask

\* Mutant of Expired: a task is run as soon as its time is now.
Expired_Now(i, now) ==
    desc[i].in_use /\ active[desc[i].task] /\ ~Before(now, desc[i].wakeup)

Expired(i, now) ==
    /\ desc[i].in_use
    /\ active[desc[i].task]
    /\ Before(desc[i].wakeup, now)

\* A descriptor whose task is not to run.
Skip ==
    /\ Scanning
    /\ pass[depth].i <= NumDescs
    /\ ~Expired(pass[depth].i, pass[depth].now)
    /\ pass' = [pass EXCEPT ![depth].i = @ + 1]
    /\ UNCHANGED << desc, memory, clock, depth, due, ran >>

\* An expired task is made inactive and called, unless it has no code (tmAddr).
Fire(hasCode) ==
    /\ Scanning
    /\ pass[depth].i <= NumDescs
    /\ Expired(pass[depth].i, pass[depth].now)
    /\ LET t == desc[pass[depth].i].task
       IN  /\ active' = [active EXCEPT ![t] = FALSE]
           /\ Unscheduled(t)
           /\ IF hasCode
              THEN /\ pass' = [pass EXCEPT ![depth].called = t]
                   /\ ran' = [ran EXCEPT ![depth] = @ \cup {t}]
              ELSE /\ pass' = [pass EXCEPT ![depth].i = @ + 1]
                   /\ ran' = ran
    /\ UNCHANGED << desc, tmWakeUp, tmCount, clock, depth >>

TaskReturns ==
    /\ depth > 0
    /\ pass[depth].called # NoTask
    /\ pass' = [pass EXCEPT ![depth].called = NoTask, ![depth].i = @ + 1]
    /\ UNCHANGED << desc, memory, clock, depth, due, ran >>

PassEnds ==
    /\ Scanning
    /\ pass[depth].i > NumDescs
    /\ depth' = depth - 1
    /\ pass' = [pass EXCEPT ![depth] = NoPass]
    /\ ran' = [ran EXCEPT ![depth] = {}]
    /\ UNCHANGED << desc, memory, clock, due >>

Tick ==
    /\ Before(clock, MaxClock)
    /\ clock' = timer_add_time(clock, ClockStep)
    /\ UNCHANGED << desc, memory, passes, due >>

-----------------------------------------------------------------------------

Next ==
    \/ \E t \in Tasks : InsTime(t) \/ RmvTime(t)
    \/ \E t \in Tasks, time \in Delays : PrimeTime(t, time)
    \/ TimerReset
    \/ TimerInterrupt
    \/ Skip
    \/ \E hasCode \in BOOLEAN : Fire(hasCode)
    \/ TaskReturns
    \/ PassEnds
    \/ Tick

Spec == Init /\ [][Next]_vars

\* The 60Hz interrupt keeps coming, the clock runs, and a task returns in spite
\* of the passes that interrupt it.
FairSpec ==
    /\ Spec
    /\ WF_vars(TimerInterrupt)
    /\ WF_vars(Skip)
    /\ WF_vars(\E hasCode \in BOOLEAN : Fire(hasCode))
    /\ SF_vars(TaskReturns)
    /\ WF_vars(PassEnds)
    /\ WF_vars(Tick)

-----------------------------------------------------------------------------
(* Properties.                                                             *)

Desc == [task : Tasks \cup {NoTask}, wakeup : HostTime, in_use : BOOLEAN]
Pass == [i : 0 .. NumDescs + 1, now : HostTime, called : Tasks \cup {NoTask}]

TableType ==
    /\ desc \in [Slots -> Desc]
    /\ \A i \in Slots : desc[i].in_use => desc[i].task \in Tasks

TaskType ==
    /\ active \in [Tasks -> BOOLEAN]
    /\ tmWakeUp \in [Tasks -> BOOLEAN]
    /\ tmCount \in Int
    /\ clock \in HostTime
    /\ due \in [Tasks -> HostTime]

PassType ==
    /\ depth \in 0 .. MaxNest
    /\ pass \in [1 .. MaxNest -> Pass]
    /\ ran \in [1 .. MaxNest -> SUBSET Tasks]

\* The table, the task records and the passes are well formed.
TypeOK == TableType /\ TaskType /\ PassType

\* A task has at most one descriptor, whatever a task called in the middle of a
\* pass installs and removes: find_desc() is the whole of the bookkeeping.
UniqueDesc ==
    \A i, j \in Slots :
        desc[i].in_use /\ desc[j].in_use /\ desc[i].task = desc[j].task => i = j

OnSchedule(t) == \A i \in Slots : Holds(i, t) /\ active[t] => desc[i].wakeup = due[t]

\* A task that waits is scheduled for the time it asked for in PrimeTime(): no
\* descriptor it got second-hand and no restart leaves it with another's time.
Scheduled == \A t \in Tasks \ Extended : OnSchedule(t)

\* A pass calls a task once: a task that removes, installs and primes tasks with
\* no delay cannot keep TimerInterrupt() going.
OncePerPass ==
    [][\A d \in 1 .. MaxNest, t \in Tasks \ Extended :
            pass[d].called = NoTask /\ pass'[d].called = t => t \notin ran[d]]_vars

\* The alarms of the abstract specification: a task that has a descriptor waits if
\* its record says so, for the time that is in the descriptor.
Nanos(t) == t.sec * NanoPerSec + t.nsec
SlotOf(t) == CHOOSE i \in Slots : Holds(i, t)
Waits(t) == Installed(t) /\ active[t]
alarm == [t \in Tasks |->
    IF Waits(t) THEN "waiting" ELSE IF Installed(t) THEN "idle" ELSE "removed"]
alarmTime == [t \in Tasks |-> IF Waits(t) THEN Nanos(desc[SlotOf(t)].wakeup) ELSE 0]

Alarms == INSTANCE Alarms WITH state <- alarm, time <- alarmTime, clock <- Nanos(clock)

\* The Time Manager is an alarm clock: whatever passes, tasks called by them,
\* installations and restarts do to the table, a task rings no earlier than the
\* program asked, and its record is right when it is removed.
AlarmClock == Alarms!Spec

Overdue(t) ==
    \E i \in Slots : Holds(i, t) /\ active[t] /\ Before(desc[i].wakeup, clock)

\* A task whose time has come is called, or the Mac program removes or primes it
\* again: passes that its own tasks interrupt and change do not lose it.
TaskRuns == \A t \in Tasks : Overdue(t) ~> ~Overdue(t)

=============================================================================

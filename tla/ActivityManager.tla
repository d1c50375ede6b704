-------------------------- MODULE ActivityManager --------------------------
(***************************************************************************)
(* The scheduler that animates the graph views: ActivityManager and the    *)
(* part of Activity it drives (src/prefuse-beta/src/prefuse/activity).     *)
(*                                                                         *)
(* A manager is a thread with a list of activities.  Application threads   *)
(* (clients here: the Swing thread and any other) schedule and cancel      *)
(* activities and stop the manager; the manager thread copies the list,    *)
(* runs what is due and waits.  Java's monitors are modelled: mon[l] is    *)
(* the thread inside the monitor of the manager or activity l.  A          *)
(* synchronized block that takes no second monitor is one step, taken when *)
(* its monitor is free; a block that takes another one inside is held over *)
(* several steps.  ActivityManager.class is only locked by blocks of the   *)
(* first kind.                                                             *)
(*                                                                         *)
(* Managers are numbered in the order getInstance creates them.  Time is   *)
(* counted in milliseconds up to MaxTime, which stands for every later     *)
(* moment: at MaxTime each finite time has been reached.                   *)
(***************************************************************************)
EXTENDS Integers, SequencesExt

CONSTANTS
    Activities, Clients, None,
    Duration,       \* [Activities -> time], INFINITY for no end
    StepTime,       \* [Activities -> time between two steps]
    MaxManagers, MaxTime, MaxCalls,   \* bounds on the exploration
    \* What the application asks for:
    Runs,           \* activities it runs now
    RunAts,         \* pairs <<activity, time>>
    RunAfters,      \* triples <<before, after, once>>
    Cancels,        \* activities it cancels
    MayStop,        \* does it call stopThread?
    Throwing        \* activities whose run method may throw

INFINITY == -1
Managers == 1..MaxManagers
Threads == Managers \cup Clients
Monitors == Managers \cup Activities
Times == 0..MaxTime
Never == 4 * MaxTime + 1        \* Long.MAX_VALUE, later than any other time

ASSUME ThreadsAssumption ==
    /\ MaxManagers \in Nat \ {0}
    /\ Clients \cap Managers = {}
    /\ Activities \cap Managers = {}
    /\ None \notin Threads \cup Activities
ASSUME TimesAssumption ==
    /\ MaxTime \in Nat \ {0}
    /\ MaxCalls \in Nat
    /\ Duration \in [Activities -> Times \cup {INFINITY}]
    /\ StepTime \in [Activities -> Times]
ASSUME ScriptAssumption ==
    /\ Runs \subseteq Activities
    /\ RunAts \subseteq Activities \X Times
    /\ RunAfters \subseteq Activities \X Activities \X BOOLEAN
    /\ Cancels \subseteq Activities
    /\ MayStop \in BOOLEAN
    /\ Throwing \subseteq Activities

VARIABLES
    now, calls,
    startTime, nextTime, isScheduled, isRunning,    \* of each activity
    listeners,      \* of each activity: its ScheduleAfterActivity listeners
    owed,           \* history: activityScheduled events not yet answered by
                    \* activityFinished or activityCancelled, at least -1
    s_instance,     \* the current manager, 0 before the first
    activities, tmp, keepRunning,                   \* of each manager
    wakeTime,       \* m_nextTime of each manager
    mon, pc, ctx    \* monitors; of each thread, control and local variables

clock == <<now, calls>>
times == <<startTime, nextTime>>
flags == <<isScheduled, isRunning, owed>>
lists == <<activities, tmp>>
manager == <<wakeTime, keepRunning>>
vars == <<now, calls, startTime, nextTime, isScheduled, isRunning, listeners,
          owed, s_instance, activities, tmp, keepRunning, wakeTime, mon, pc, ctx>>

Listener == [after : Activities, remove : BOOLEAN]
\* act, mgr, at: arguments of _schedule and cancel; am, stopping: of _stop;
\* current, t, i, wake: of the manager's loop; of, todo: the listeners it fires.
Locals == [act : Activities \cup {None}, mgr : 0..MaxManagers, at : Times,
           am : 0..MaxManagers, stopping : BOOLEAN,
           current : Times, t : -1..Never, i : Nat, wake : 0..Never,
           of : Activities \cup {None}, todo : Seq(Listener)]
NoLocals == [act |-> None, mgr |-> 0, at |-> 0, am |-> 0, stopping |-> FALSE,
             current |-> 0, t |-> -1, i |-> 1, wake |-> 0,
             of |-> None, todo |-> <<>>]

Init ==
    /\ now = 0 /\ calls = 0
    /\ startTime = [a \in Activities |-> 0]
    /\ nextTime = [a \in Activities |-> 0]
    /\ isScheduled = [a \in Activities |-> FALSE]
    /\ isRunning = [a \in Activities |-> FALSE]
    /\ listeners = [a \in Activities |-> <<>>]
    /\ owed = [a \in Activities |-> 0]
    /\ s_instance = 0
    /\ activities = [m \in Managers |-> <<>>]
    /\ tmp = [m \in Managers |-> <<>>]
    /\ keepRunning = [m \in Managers |-> FALSE]
    /\ wakeTime = [m \in Managers |-> Never]
    /\ mon = [l \in Monitors |-> None]
    /\ pc = [th \in Threads |-> IF th \in Managers THEN "new" ELSE "idle"]
    /\ ctx = [th \in Threads |-> NoLocals]

-----------------------------------------------------------------------------
\* Monitors, time and control

Free(l, th) == mon[l] \in {None, th}
Reached(t, time) == time # Never /\ (t >= time \/ t = MaxTime)
StopTime(a) ==
    IF Duration[a] = INFINITY THEN Never ELSE startTime[a] + Duration[a]
Earliest(s, t) == IF t < 0 \/ s < t THEN s ELSE t

Goto(th, label) == pc' = [pc EXCEPT ![th] = label]
Set(th, locals) == ctx' = [ctx EXCEPT ![th] = locals]

\* getInstance: the live manager, or a new one, whose thread is started.
Instance ==
    IF s_instance = 0 \/ pc[s_instance] = "dead"
    THEN s_instance + 1 ELSE s_instance
GetInstance(th, label) ==
    /\ Instance \in Managers
    /\ s_instance' = Instance
    /\ pc' = [pc EXCEPT ![th] = label,
                        ![Instance] = IF @ = "new" THEN "boot" ELSE @]

\* Where a thread goes on after _schedule or cancel.
Resume(th) ==
    CASE th \in Managers -> "firing"
      [] th \notin Managers /\ ctx[th].stopping -> "stopping"
      [] OTHER -> "idle"
\* The arguments of the call that returns are gone.
Returned(th) ==
    [ctx EXCEPT ![th] = IF Resume(th) = "idle" THEN NoLocals
                        ELSE [@ EXCEPT !.act = None, !.mgr = 0, !.at = 0]]
Return(th) == Goto(th, Resume(th)) /\ ctx' = Returned(th)
Notified(th, label, m) ==
    [pc EXCEPT ![th] = label, ![m] = IF @ = "waiting" THEN "loop" ELSE @]

-----------------------------------------------------------------------------
\* What a client calls

Invoke(c) == pc[c] = "idle" /\ calls < MaxCalls /\ calls' = calls + 1

ScheduleAt(c, a, time) ==
    /\ Invoke(c)
    /\ GetInstance(c, "check")
    /\ Set(c, [NoLocals EXCEPT !.act = a, !.at = time, !.mgr = Instance])
    /\ UNCHANGED <<now, times, flags, listeners, lists, manager, mon>>

\* Activity.run and runAt
Run(c) == \E a \in Runs : ScheduleAt(c, a, now)
RunAt(c) == \E p \in RunAts : ScheduleAt(c, p[1], p[2])

\* runAfter (once) and alwaysRunAfter: add a listener to before.
RunAfter(c) == \E p \in RunAfters :
    /\ Invoke(c)
    /\ GetInstance(c, "idle")
    /\ listeners' = [listeners EXCEPT
          ![p[1]] = Append(@, [after |-> p[2], remove |-> p[3]])]
    /\ UNCHANGED <<now, times, flags, lists, manager, mon, ctx>>

Cancel(c) == \E a \in Cancels :
    /\ Invoke(c)
    /\ Goto(c, "cancel")
    /\ Set(c, [NoLocals EXCEPT !.act = a])
    /\ UNCHANGED <<now, times, flags, listeners, s_instance, lists, manager, mon>>

StopThread(c) ==
    /\ MayStop
    /\ Invoke(c)
    /\ s_instance # 0
    /\ Goto(c, "stop")
    /\ Set(c, [NoLocals EXCEPT !.am = s_instance])
    /\ UNCHANGED <<now, times, flags, listeners, s_instance, lists, manager, mon>>

-----------------------------------------------------------------------------
\* _schedule, on a client's thread or, called by a listener, on a manager's

\* An activity that is scheduled already is left alone.
AlreadyScheduled(a) == isScheduled[a]

\* The test is made in the activity's monitor, before the manager's is taken.
CheckScheduled(th) ==
    /\ pc[th] = "check"
    /\ Free(ctx[th].act, th)
    /\ IF AlreadyScheduled(ctx[th].act)
       THEN Return(th)
       ELSE Goto(th, "setStart") /\ UNCHANGED ctx
    /\ UNCHANGED <<clock, times, flags, listeners, s_instance, lists, manager, mon>>

SetStartTime(th) ==
    /\ pc[th] = "setStart"
    /\ startTime' = [startTime EXCEPT ![ctx[th].act] = ctx[th].at]
    /\ Goto(th, "add")
    /\ UNCHANGED <<clock, nextTime, flags, listeners, s_instance, lists,
                   manager, mon, ctx>>

Add(th) ==
    LET m == ctx[th].mgr IN
    /\ pc[th] = "add"
    /\ Free(m, th)
    /\ mon' = [mon EXCEPT ![m] = th]
    /\ activities' = [activities EXCEPT ![m] = Append(@, ctx[th].act)]
    /\ Goto(th, "mark")
    /\ UNCHANGED <<clock, times, flags, listeners, s_instance, tmp, manager, ctx>>

\* setScheduled(true), which fires activityScheduled when the flag rises,
\* then the new wake-up time; both inside the manager's monitor.
Mark(th) ==
    LET a == ctx[th].act  m == ctx[th].mgr  sooner == ctx[th].at < wakeTime[m] IN
    /\ pc[th] = "mark"
    /\ Free(a, th)
    /\ isScheduled' = [isScheduled EXCEPT ![a] = TRUE]
    /\ owed' = [owed EXCEPT ![a] = IF isScheduled[a] THEN @ ELSE @ + 1]
    /\ wakeTime' = [wakeTime EXCEPT ![m] = IF sooner THEN ctx[th].at ELSE @]
    /\ IF sooner THEN pc' = Notified(th, Resume(th), m) ELSE Goto(th, Resume(th))
    /\ ctx' = Returned(th)
    /\ mon' = [mon EXCEPT ![m] = None]
    /\ UNCHANGED <<clock, times, isRunning, listeners, s_instance, lists,
                   keepRunning>>

-----------------------------------------------------------------------------
\* Activity.cancel, called by a client or by _stop

\* An answered schedule: finished or cancelled.
Answer(a) == owed' = [owed EXCEPT ![a] = IF @ > -1 THEN @ - 1 ELSE @]

CancelUnscheduled(th) ==
    LET a == ctx[th].act IN
    /\ pc[th] = "cancel"
    /\ Free(a, th)
    /\ ~isScheduled[a]
    /\ isRunning' = [isRunning EXCEPT ![a] = FALSE]
    /\ Return(th)
    /\ UNCHANGED <<clock, times, isScheduled, owed, listeners, s_instance, lists,
                   manager, mon>>

\* Keeps the activity's monitor while it goes for the manager's.
CancelScheduled(th) ==
    LET a == ctx[th].act IN
    /\ pc[th] = "cancel"
    /\ Free(a, th)
    /\ isScheduled[a]
    /\ mon' = [mon EXCEPT ![a] = th]
    /\ GetInstance(th, "remove")
    /\ ctx' = [ctx EXCEPT ![th].mgr = Instance]
    /\ UNCHANGED <<clock, times, flags, listeners, lists, manager>>

\* m_nextTime once the list of activities is s.
ResetWhenEmpty_Kept(s, time) == time
ResetWhenEmpty_AtOne(s, time) == IF Len(s) <= 1 THEN Never ELSE time
ResetWhenEmpty(s, time) == IF s = <<>> THEN Never ELSE time

\* setScheduled(false)
Unscheduled_Forgotten(a) == isScheduled
Unscheduled(a) == [isScheduled EXCEPT ![a] = FALSE]

RemoveActivity(th) ==
    LET a == ctx[th].act
        m == ctx[th].mgr
        found == Contains(activities[m], a)
        left == RemoveFirst(activities[m], a)
    IN
    /\ pc[th] = "remove"
    /\ Free(m, th)
    /\ activities' = [activities EXCEPT ![m] = left]
    /\ wakeTime' = [wakeTime EXCEPT
          ![m] = IF found THEN ResetWhenEmpty(left, @) ELSE @]
    /\ isScheduled' = IF found THEN Unscheduled(a) ELSE isScheduled
    /\ isRunning' = [isRunning EXCEPT ![a] = FALSE]
    /\ Answer(a)
    /\ mon' = [mon EXCEPT ![a] = None]
    /\ Goto(th, "fireCancelled")
    /\ UNCHANGED <<clock, times, listeners, s_instance, tmp, keepRunning, ctx>>

\* A listener that was to schedule another activity once only goes away.
Staying(s) ==
    LET kept[n \in 0..Len(s)] ==
        IF n = 0 THEN <<>>
        ELSE IF s[n].remove THEN kept[n - 1] ELSE Append(kept[n - 1], s[n])
    IN  kept[Len(s)]

FireCancelled(th) ==
    /\ pc[th] = "fireCancelled"
    /\ listeners' = [listeners EXCEPT ![ctx[th].act] = Staying(@)]
    /\ Return(th)
    /\ UNCHANGED <<clock, times, flags, s_instance, lists, manager, mon>>

-----------------------------------------------------------------------------
\* _stop: cancels the activities, last first, inside the manager's monitor

StopEnter(c) ==
    LET m == ctx[c].am IN
    /\ pc[c] = "stop"
    /\ Free(m, c)
    /\ mon' = [mon EXCEPT ![m] = c]
    /\ Goto(c, "stopping")
    /\ ctx' = [ctx EXCEPT ![c].stopping = TRUE]
    /\ UNCHANGED <<clock, times, flags, listeners, s_instance, lists, manager>>

StopOne(c) ==
    LET m == ctx[c].am IN
    /\ pc[c] = "stopping"
    /\ activities[m] # <<>>
    /\ Goto(c, "cancel")
    /\ ctx' = [ctx EXCEPT ![c].act = Last(activities[m])]
    /\ UNCHANGED <<clock, times, flags, listeners, s_instance, lists, manager, mon>>

StopDone(c) ==
    LET m == ctx[c].am IN
    /\ pc[c] = "stopping"
    /\ activities[m] = <<>>
    /\ keepRunning' = [keepRunning EXCEPT ![m] = FALSE]
    /\ pc' = Notified(c, "idle", m)
    /\ ctx' = [ctx EXCEPT ![c] = NoLocals]
    /\ mon' = [mon EXCEPT ![m] = None]
    /\ UNCHANGED <<clock, times, flags, listeners, s_instance, lists, wakeTime>>

-----------------------------------------------------------------------------
\* The manager's thread

Boot(m) ==
    /\ pc[m] = "boot"
    /\ Free(m, m)
    /\ keepRunning' = [keepRunning EXCEPT ![m] = TRUE]
    /\ Goto(m, "loop")
    /\ UNCHANGED <<clock, times, flags, listeners, s_instance, lists, wakeTime,
                   mon, ctx>>

KeepRunning(m) ==
    /\ pc[m] = "loop"
    /\ Free(m, m)
    /\ Goto(m, IF keepRunning[m] THEN "count" ELSE "dead")
    /\ Set(m, NoLocals)
    /\ UNCHANGED <<clock, times, flags, listeners, s_instance, lists, manager, mon>>

\* Reads the clock only when there is something to run.
ActivityCount(m) ==
    /\ pc[m] = "count"
    /\ Free(m, m)
    /\ IF activities[m] = <<>>
       THEN Goto(m, "park") /\ UNCHANGED ctx
       ELSE Goto(m, "copy") /\ ctx' = [ctx EXCEPT ![m].current = now]
    /\ UNCHANGED <<clock, times, flags, listeners, s_instance, lists, manager, mon>>

CopyEnter(m) ==
    /\ pc[m] = "copy"
    /\ Free(m, m)
    /\ mon' = [mon EXCEPT ![m] = m]
    /\ Goto(m, "copying")
    /\ ctx' = [ctx EXCEPT ![m].i = 1]
    /\ UNCHANGED <<clock, times, flags, listeners, s_instance, lists, manager>>

\* Where the copying loop goes on after entry i.
NextIndex_Skip(i, removed) == i + 1
NextIndex(i, removed) == IF removed THEN i ELSE i + 1

\* Copies one entry of the list, and takes it off if this is its last run.
CopyOne(m) ==
    LET i == ctx[m].i
        a == activities[m][i]
        over == Reached(ctx[m].current, StopTime(a))
    IN
    /\ pc[m] = "copying"
    /\ i <= Len(activities[m])
    /\ tmp' = [tmp EXCEPT ![m] = Append(@, a)]
    /\ IF over
       THEN /\ Free(a, m)
            /\ activities' = [activities EXCEPT ![m] = RemoveAt(@, i)]
            /\ isScheduled' = Unscheduled(a)
       ELSE UNCHANGED <<activities, isScheduled>>
    /\ ctx' = [ctx EXCEPT ![m].i = NextIndex(i, over)]
    /\ UNCHANGED <<clock, times, isRunning, owed, listeners, s_instance, manager,
                   mon, pc>>

CopyDone(m) ==
    /\ pc[m] = "copying"
    /\ ctx[m].i > Len(activities[m])
    /\ wakeTime' = [wakeTime EXCEPT ![m] = ResetWhenEmpty(activities[m], @)]
    /\ mon' = [mon EXCEPT ![m] = None]
    /\ Goto(m, "running")
    /\ ctx' = [ctx EXCEPT ![m].i = 1, ![m].t = -1]
    /\ UNCHANGED <<clock, times, flags, listeners, s_instance, lists, keepRunning>>

\* The activity runActivity is called on.
Current(m) == tmp[m][ctx[m].i]
CallsRunActivity(m) == pc[m] = "running" /\ ctx[m].i <= Len(tmp[m])
Started(m) == Reached(ctx[m].current, startTime[Current(m)])
Ends(m) ==
    \/ Duration[Current(m)] = 0
    \/ Reached(ctx[m].current, StopTime(Current(m)))

\* runActivity returned s >= 0: be back in s milliseconds.
Back(m, s) == ctx' = [ctx EXCEPT ![m].t = Earliest(s, @), ![m].i = @ + 1]

NotYetStarted(m) ==
    /\ CallsRunActivity(m)
    /\ ~Started(m)
    /\ Back(m, startTime[Current(m)] - ctx[m].current)
    /\ UNCHANGED <<clock, times, flags, listeners, s_instance, lists, manager,
                   mon, pc>>

NotYetDue(m) ==
    /\ CallsRunActivity(m)
    /\ Started(m) /\ ~Ends(m)
    /\ ~Reached(ctx[m].current, nextTime[Current(m)])
    /\ Back(m, nextTime[Current(m)] - ctx[m].current)
    /\ UNCHANGED <<clock, times, flags, listeners, s_instance, lists, manager,
                   mon, pc>>

\* m_nextTime of an activity after a step at time t
NextStep_Now(a, t) == t
NextStep(a, t) == t + StepTime[a]

SetRunning(a, b) == isRunning' = [isRunning EXCEPT ![a] = b]

StepActivity(m) ==
    LET a == Current(m)  next == NextStep(a, ctx[m].current) IN
    /\ CallsRunActivity(m)
    /\ Started(m) /\ ~Ends(m)
    /\ Reached(ctx[m].current, nextTime[a])
    /\ Free(a, m)
    /\ SetRunning(a, TRUE)
    /\ nextTime' = [nextTime EXCEPT ![a] = next]
    /\ Back(m, next - ctx[m].current)
    /\ UNCHANGED <<clock, startTime, isScheduled, owed, listeners, s_instance,
                   lists, manager, mon, pc>>

LastStep(m) ==
    /\ CallsRunActivity(m)
    /\ Started(m) /\ Ends(m)
    /\ Free(Current(m), m)
    /\ SetRunning(Current(m), TRUE)
    /\ Goto(m, "ending")
    /\ UNCHANGED <<clock, times, isScheduled, owed, listeners, s_instance, lists,
                   manager, mon, ctx>>

\* run(elapsedTime) throws in either branch: the exception ends the thread.
Throw(m) ==
    /\ CallsRunActivity(m)
    /\ Current(m) \in Throwing
    /\ Started(m)
    /\ Ends(m) \/ Reached(ctx[m].current, nextTime[Current(m)])
    /\ Free(Current(m), m)
    /\ SetRunning(Current(m), TRUE)
    /\ Goto(m, "dead")
    /\ Set(m, NoLocals)
    /\ UNCHANGED <<clock, times, isScheduled, owed, listeners, s_instance, lists,
                   manager, mon>>

\* The listeners fireActivityFinished calls.
ToFire_Tail(a) == SubSeq(listeners[a], 2, Len(listeners[a]))
ToFire(a) == listeners[a]

\* setRunning(false); fireActivityFinished takes the array of listeners.
Finish(m) ==
    LET a == Current(m) IN
    /\ pc[m] = "ending"
    /\ Free(a, m)
    /\ SetRunning(a, FALSE)
    /\ Answer(a)
    /\ Goto(m, "firing")
    /\ ctx' = [ctx EXCEPT ![m].of = a, ![m].todo = ToFire(a)]
    /\ UNCHANGED <<clock, times, isScheduled, listeners, s_instance, lists,
                   manager, mon>>

\* activityFinished of one ScheduleAfterActivity: scheduleNow(after)
FireFinished(m) ==
    LET of == ctx[m].of  l == Head(ctx[m].todo) IN
    /\ pc[m] = "firing"
    /\ ctx[m].todo # <<>>
    /\ listeners' = IF l.remove
                    THEN [listeners EXCEPT ![of] = RemoveFirst(@, l)]
                    ELSE listeners
    /\ GetInstance(m, "check")
    /\ ctx' = [ctx EXCEPT ![m].todo = Tail(@), ![m].act = l.after,
                          ![m].at = now, ![m].mgr = Instance]
    /\ UNCHANGED <<clock, times, flags, lists, manager, mon>>

Fired(m) ==
    /\ pc[m] = "firing"
    /\ ctx[m].todo = <<>>
    /\ Goto(m, "running")
    /\ ctx' = [ctx EXCEPT ![m].i = @ + 1, ![m].of = None]
    /\ UNCHANGED <<clock, times, flags, listeners, s_instance, lists, manager, mon>>

AllRun(m) ==
    /\ pc[m] = "running"
    /\ ctx[m].i > Len(tmp[m])
    /\ tmp' = [tmp EXCEPT ![m] = <<>>]
    /\ Goto(m, IF ctx[m].t = -1 THEN "loop" ELSE "nap")
    /\ UNCHANGED <<clock, times, flags, listeners, s_instance, activities,
                   manager, mon, ctx>>

\* wait(t), where 0 means for ever, and wait()
Wait(m) ==
    LET t == IF pc[m] = "nap" THEN ctx[m].t ELSE 0 IN
    /\ pc[m] \in {"nap", "park"}
    /\ Free(m, m)
    /\ Goto(m, "waiting")
    /\ Set(m, [NoLocals EXCEPT !.wake = IF t = 0 THEN Never ELSE now + t])
    /\ UNCHANGED <<clock, times, flags, listeners, s_instance, lists, manager, mon>>

Timeout(m) ==
    /\ pc[m] = "waiting"
    /\ Reached(now, ctx[m].wake)
    /\ Goto(m, "loop")
    /\ UNCHANGED <<clock, times, flags, listeners, s_instance, lists, manager,
                   mon, ctx>>

-----------------------------------------------------------------------------
Schedule(th) ==
    CheckScheduled(th) \/ SetStartTime(th) \/ Add(th) \/ Mark(th)
DoCancel(th) ==
    \/ CancelUnscheduled(th) \/ CancelScheduled(th)
    \/ RemoveActivity(th) \/ FireCancelled(th)
Stop(c) == StopEnter(c) \/ StopOne(c) \/ StopDone(c)
RunActivity(m) ==
    \/ NotYetStarted(m) \/ NotYetDue(m) \/ StepActivity(m) \/ LastStep(m)
    \/ Finish(m) \/ FireFinished(m) \/ Fired(m)
Loop(m) ==
    \/ Boot(m) \/ KeepRunning(m) \/ ActivityCount(m)
    \/ CopyEnter(m) \/ CopyOne(m) \/ CopyDone(m)
    \/ RunActivity(m) \/ AllRun(m) \/ Wait(m) \/ Timeout(m)

Call(c) == Run(c) \/ RunAt(c) \/ RunAfter(c) \/ Cancel(c) \/ StopThread(c)

Tick ==
    /\ now < MaxTime
    /\ now' = now + 1
    /\ UNCHANGED <<calls, times, flags, listeners, s_instance, lists, manager,
                   mon, pc, ctx>>

\* Every client has made its calls, every manager waits for one or is gone.
Terminated ==
    /\ calls = MaxCalls /\ now = MaxTime
    /\ \A c \in Clients : pc[c] = "idle"
    /\ \A m \in Managers : \/ pc[m] \in {"new", "dead"}
                           \/ pc[m] = "waiting" /\ ctx[m].wake = Never
    /\ UNCHANGED vars

ClientStep(c) == Schedule(c) \/ DoCancel(c) \/ Stop(c)
ManagerStep(m) == Loop(m) \/ Schedule(m)

Next ==
    \/ \E c \in Clients : Call(c) \/ ClientStep(c)
    \/ \E m \in Managers : ManagerStep(m) \/ Throw(m)
    \/ Tick
    \/ Terminated

\* The clock and every thread go on; no call need ever be made and nothing
\* need ever throw.
Fairness ==
    /\ WF_vars(Tick)
    /\ \A c \in Clients : WF_vars(ClientStep(c))
    /\ \A m \in Managers : WF_vars(ManagerStep(m))

Spec == Init /\ [][Next]_vars
FairSpec == Spec /\ Fairness

-----------------------------------------------------------------------------
\* Properties

\* Where a thread can be: inside _schedule, inside cancel or elsewhere.
Scheduling == {"check", "setStart", "add", "mark"}
Cancelling == {"cancel", "remove", "fireCancelled"}
ClientLabels == {"idle", "stop", "stopping"} \cup Scheduling \cup Cancelling
ManagerLabels ==
    {"new", "boot", "loop", "count", "copy", "copying", "park", "nap",
     "waiting", "running", "ending", "firing", "dead"} \cup Scheduling

\* Every variable has its type.
ManagerTypeOK ==
    /\ now \in Times /\ calls \in 0..MaxCalls
    /\ startTime \in [Activities -> Times]
    /\ nextTime \in [Activities -> 0..2 * MaxTime]
    /\ isScheduled \in [Activities -> BOOLEAN]
    /\ isRunning \in [Activities -> BOOLEAN]
    /\ listeners \in [Activities -> Seq(Listener)]
    /\ owed \in [Activities -> Int]
    /\ s_instance \in 0..MaxManagers
    /\ activities \in [Managers -> Seq(Activities)]
    /\ tmp \in [Managers -> Seq(Activities)]
    /\ keepRunning \in [Managers -> BOOLEAN]
    /\ wakeTime \in [Managers -> Times \cup {Never}]
    /\ mon \in [Monitors -> Threads \cup {None}]
    /\ pc \in [Threads -> ClientLabels \cup ManagerLabels]
    /\ ctx \in [Threads -> Locals]

Listed(a, m) == Contains(activities[m], a)

\* No activity is in a manager's list twice ("already scheduled, do
\* nothing", _schedule): one cancel could not take it off.  This fails as soon
\* as two threads schedule one activity: both make the test before either adds
\* it to the list.  Under SoleScheduler, below, it is part of SoleInv.
ScheduledOnce ==
    \A m \in Managers : IsInjective(activities[m])

\* isScheduled tells the truth: an activity that says it is scheduled is in
\* the list of the current manager, or was left in the list of one whose
\* thread has ended.  If not, every later run is ignored.
ScheduledIsListed ==
    \A a \in Activities : isScheduled[a] =>
        \E m \in Managers : Listed(a, m) /\ (m = s_instance \/ pc[m] = "dead")

\* When nobody is inside the manager's monitor and nothing is scheduled,
\* m_nextTime is Long.MAX_VALUE, so that any schedule wakes the thread up.
NextTimeReset ==
    \A m \in Managers :
        mon[m] = None /\ activities[m] = <<>> => wakeTime[m] = Never

\* What each thread relies on between two of its steps, whatever the others
\* do.  A thread inside _schedule has an activity and a manager that exists
\* and, at setScheduled, is inside that manager's monitor with the activity
\* in its list.
ScheduleOK(th) ==
    pc[th] \in Scheduling =>
        /\ ctx[th].act \in Activities /\ ctx[th].mgr \in 1..s_instance
        /\ pc[th] = "mark" =>
              mon[ctx[th].mgr] = th /\ Listed(ctx[th].act, ctx[th].mgr)

\* A client that stops a manager is inside its monitor until it is done, also
\* while it cancels; one that cancels keeps the activity's monitor until the
\* activity is off the list.
Stopping(c) == pc[c] = "stopping" \/ (pc[c] \in Cancelling /\ ctx[c].stopping)
ClientOK(c) ==
    /\ pc[c] \in ClientLabels
    /\ pc[c] \in Scheduling => ~ctx[c].stopping
    /\ pc[c] \in Cancelling => ctx[c].act \in Activities
    /\ pc[c] = "stop" => ctx[c].am \in 1..s_instance
    /\ pc[c] = "stopping" => ctx[c].stopping
    /\ Stopping(c) => ctx[c].am \in 1..s_instance /\ mon[ctx[c].am] = c
    /\ pc[c] = "remove" => ctx[c].mgr \in 1..s_instance /\ mon[ctx[c].act] = c

\* The loop that copies the list is inside the manager's monitor, and stays
\* inside the list although it takes entries off as it goes.
ManagerOK(m) ==
    /\ pc[m] \in ManagerLabels
    /\ ctx[m].i >= 1 /\ ctx[m].t <= 2 * MaxTime
    /\ pc[m] = "nap" => ctx[m].t >= 0
    /\ pc[m] = "copying" => mon[m] = m /\ ctx[m].i <= Len(activities[m]) + 1
    /\ pc[m] = "ending" => ctx[m].i <= Len(tmp[m])
    /\ pc[m] \in Scheduling \cup {"firing"} => ctx[m].of \in Activities

\* A manager that has a successor is dead, and one whose list is empty has
\* its m_nextTime reset, unless its loop is still copying.
ListOK(m) ==
    /\ m < s_instance => pc[m] = "dead"
    /\ pc[m] # "copying" /\ activities[m] = <<>> => wakeTime[m] = Never

\* The inductive invariant of the scheduler.
ManagerInv ==
    /\ ManagerTypeOK
    /\ \A c \in Clients : ClientOK(c)
    /\ \A m \in Managers : ManagerOK(m) /\ ListOK(m)
    /\ \A th \in Threads : ScheduleOK(th)
    /\ ScheduledIsListed

\* No activity has two threads that may schedule it: there is one client, and
\* what is scheduled when another activity has finished is never run by it.
\* Then the test of isScheduled and the addition to the list, which are not
\* one step, do no harm.
Followers == {p[2] : p \in RunAfters}
SoleScheduler ==
    /\ \E c \in Clients : Clients = {c}
    /\ \A a \in Followers : a \notin Runs /\ \A p \in RunAts : p[1] # a

\* Under SoleScheduler: what a thread that schedules relies on.  It is the only
\* one to schedule its activity, which is in no list until it adds it, and
\* its manager stays the current one.
FollowerListener == [after : Followers, remove : BOOLEAN]
SoleThread(th) ==
    /\ ctx[th].todo \in Seq(FollowerListener)
    /\ pc[th] \in Scheduling => (th \in Managers <=> ctx[th].act \in Followers)
    /\ pc[th] \in Scheduling \cup {"remove"} => ctx[th].mgr = s_instance
    /\ pc[th] \in {"setStart", "add"} => \A m \in Managers : ~Listed(ctx[th].act, m)
    /\ pc[th] \in {"add", "mark"} => startTime[ctx[th].act] = ctx[th].at

\* And what is in a list is in no other one, is scheduled, and is waited for,
\* unless it is being added at this moment.
Marking(a, m) ==
    \E th \in Threads : pc[th] = "mark" /\ ctx[th].act = a /\ ctx[th].mgr = m
SoleList(m) ==
    /\ m > s_instance => pc[m] = "new" /\ activities[m] = <<>>
    /\ IsInjective(activities[m])
    /\ \A a \in Activities : Listed(a, m) =>
          /\ \A k \in Managers : Listed(a, k) => k = m
          /\ Marking(a, m) \/ (isScheduled[a] /\ wakeTime[m] <= startTime[a])

SoleInv ==
    /\ listeners \in [Activities -> Seq(FollowerListener)]
    /\ \A th \in Threads : SoleThread(th)
    /\ \A m \in Managers : SoleList(m)

\* What cancel and the loop rely on to answer each schedule once, under
\* SoleScheduler and where an activity that is to start later has no end:
\* then no start time that is set while the loop holds an activity in its
\* copy takes back its last run.
LaterEndless == \A p \in RunAts : Duration[p[1]] = INFINITY

\* The entries of its copy that a manager has still to run, and those among
\* them it is to run for the last time: what is off the list and not answered.
Resting == {"new", "boot", "loop", "count", "copy", "park", "nap", "waiting"}
First(m) ==
    CASE pc[m] = "copying" -> 1
      [] pc[m] \in {"running", "ending"} -> ctx[m].i
      [] pc[m] \in {"firing"} \cup Scheduling -> ctx[m].i + 1
      [] OTHER -> Len(tmp[m]) + 1
ToRun(m, a) == \E j \in First(m)..Len(tmp[m]) : tmp[m][j] = a
Over(m, a) == Reached(ctx[m].current, StopTime(a))
Expired(m, a) == ToRun(m, a) /\ (Over(m, a) \/ (pc[m] = "ending" /\ a = Current(m)))

\* The copy has no entry twice, is empty between two rounds, and has none of
\* the entries the loop has still to copy.
CopyOK(m) ==
    /\ IsInjective(tmp[m])
    /\ pc[m] \in Resting => tmp[m] = <<>>
    /\ pc[m] = "copying" =>
          \A k \in ctx[m].i..Len(activities[m]) : ~Contains(tmp[m], activities[m][k])

\* A start time about to be set keeps what is to run, and not over, from being
\* over; an activity about to leave the list by a cancel is scheduled.
TimeOK(th) ==
    LET a == ctx[th].act IN
    pc[th] \in {"check", "setStart"} /\ Duration[a] # INFINITY =>
        /\ ctx[th].at <= now
        /\ \A m \in Managers : ToRun(m, a) /\ ~Over(m, a) =>
              \/ th \in Clients /\ isScheduled[a]
              \/ ctx[m].current < ctx[th].at + Duration[a]
RemoveOK(c) == pc[c] = "remove" => isScheduled[ctx[c].act]

\* One answer is owed for being scheduled, one for a last run to come.
One(b) == IF b THEN 1 ELSE 0
Balanced(a) ==
    owed[a] >= One(isScheduled[a]) + One(\E m \in Managers : Expired(m, a))
StrandedBehind == \E m \in Managers : m < s_instance /\ activities[m] # <<>>
BalanceInv ==
    /\ \A m \in Managers : CopyOK(m)
    /\ \A a \in Activities : Duration[a] # INFINITY => startTime[a] <= now
    /\ \A th \in Threads : TimeOK(th)
    /\ \A c \in Clients : RemoveOK(c)
    /\ StrandedBehind \/ \A a \in Activities : Balanced(a)

\* m_nextTime is never later than the start of a scheduled activity, where
\* each activity has one thread that schedules it: a second one moves the start.
WakeTimeCovers ==
    \A m \in Managers : mon[m] = None =>
        \A a \in Activities : Listed(a, m) => wakeTime[m] <= startTime[a]

\* Each activityFinished and each activityCancelled answers an
\* activityScheduled of its own: an activity that was cancelled does not
\* finish, so that the one to run after it does not run, and one that
\* finished is not reported cancelled.  A thread that ends with activities in
\* its list breaks the balance: their cancels look into another list.  So does
\* an activity of finite duration that is to start later, cancelled and run
\* again while the loop holds it in its copy: it is finished for both.
Stranded == \E m \in Managers : pc[m] = "dead" /\ activities[m] # <<>>
EventsBalance == Stranded \/ \A a \in Activities : owed[a] >= 0

\* An activity of the list that the manager's loop comes back to is run to
\* its end and leaves the list.
SeenFinishes ==
    \A m \in Managers : \A a \in Activities :
        pc[m] = "loop" /\ Listed(a, m) ~> ~Listed(a, m)

\* When the manager's loop comes back to an activity another one is to run
\* after, that one is scheduled some time later, unless the first is
\* scheduled again before it has finished.
FollowerScheduled ==
    \A m \in Managers : \A p \in RunAfters :
        /\ pc[m] = "loop" /\ Listed(p[1], m)
        /\ Contains(listeners[p[1]], [after |-> p[2], remove |-> p[3]])
        ~> isScheduled[p[2]] \/ owed[p[1]] > 1

\* A scheduled activity of finite duration is run to its end ("Schedules an
\* Activity to start immediately").
ScheduledRuns ==
    \A m \in Managers : \A a \in Activities :
        Listed(a, m) ~> ~Listed(a, m)

\* cancel takes the activity off the schedule.
CancelReturns ==
    \A c \in Clients : pc[c] = "cancel" ~> pc[c] = "idle"
=============================================================================

----------------------- MODULE ActivityManager_proofs -----------------------
(***************************************************************************)
(* The scheduler's inductive invariant, for any number of activities,      *)
(* clients and managers.                                                   *)
(*                                                                         *)
(* A step of a thread th preserves ManagerInv because                      *)
(*   - it keeps the types,                                                 *)
(*   - it leaves th where ThreadOK(th) holds,                              *)
(*   - it leaves every other thread Undisturbed: with its control, its     *)
(*     locals, its monitors and the lists it guards with them,             *)
(*   - it keeps the lists and the flags in step.                           *)
(* There is one lemma per action, with one step for each of these.         *)
(*                                                                         *)
(* Where an activity has one thread that schedules it, SoleInv holds too,  *)
(* and with it WakeTimeCovers; where moreover one that is to start later   *)
(* has no end, BalanceInv, and with it EventsBalance.                      *)
(***************************************************************************)
EXTENDS ActivityManager, DataLemmas

Labels == ClientLabels \cup ManagerLabels

ThreadOK(th) ==
    /\ th \in Clients => ClientOK(th)
    /\ th \in Managers => ManagerOK(th)
    /\ ScheduleOK(th)

ListsOK == (\A m \in Managers : ListOK(m)) /\ ScheduledIsListed

\* The threads are the clients and the managers, apart.
LEMMA ThreadSets ==
  /\ Clients \cap Managers = {} /\ Threads = Managers \cup Clients
  /\ \A th \in Threads : th # None
  /\ \A m \in Managers : m \in Threads /\ m \in Monitors /\ m \in Int
  /\ \A a \in Activities : a \in Monitors /\ a # None
  /\ Managers = 1 .. MaxManagers /\ MaxManagers \in Nat \ {0}
  /\ MaxTime \in Nat \ {0} /\ Times = 0 .. MaxTime /\ Times \subseteq Nat
  /\ Never \in Nat /\ Never > 4 * MaxTime /\ Never \notin Times
<1>1. MaxTime \in Nat \ {0} /\ Never = 4 * MaxTime + 1 /\ Times = 0 .. MaxTime
  BY TimesAssumption DEF Never, Times
<1>2. /\ Never \in Nat /\ Never > 4 * MaxTime /\ Never \notin Times
      /\ Times \subseteq Nat
  BY <1>1
<1> QED BY <1>1, <1>2, ThreadsAssumption DEF Threads, Managers, Monitors

\* What the steps of the other threads leave to th.
Undisturbed(th) ==
    /\ ctx'[th] = ctx[th]
    /\ \/ pc'[th] = pc[th]
       \/ th \in Managers /\ pc[th] = "new" /\ pc'[th] = "boot"
       \/ th \in Managers /\ pc[th] = "waiting" /\ pc'[th] = "loop"
    /\ \A l \in Monitors : mon[l] = th => mon'[l] = th
    /\ \A m \in Managers : mon[m] = th => activities'[m] = activities[m]
    /\ th \in Managers => tmp'[th] = tmp[th]

LEMMA UndisturbedOK ==
  ASSUME NEW th \in Threads, ManagerTypeOK, ThreadOK(th), Undisturbed(th),
         s_instance' \in Int, s_instance' >= s_instance
  PROVE  ThreadOK(th)'
<1> USE ThreadSets DEF ThreadOK
<1>1. s_instance \in 0 .. MaxManagers /\ \A k \in 1 .. s_instance : k \in 1 .. s_instance' /\ k \in Managers
  BY DEF ManagerTypeOK
<1>2. ASSUME th \in Clients PROVE ClientOK(th)'
  <2>1. pc'[th] = pc[th] /\ ctx'[th] = ctx[th]
    BY <1>2 DEF Undisturbed
  <2>2. ctx[th].am \in 1 .. s_instance /\ mon[ctx[th].am] = th => mon'[ctx[th].am] = th
    BY <1>1 DEF Undisturbed
  <2>3. ctx[th].act \in Activities /\ mon[ctx[th].act] = th => mon'[ctx[th].act] = th
    BY DEF Undisturbed
  <2> QED BY <1>1, <1>2, <2>1, <2>2, <2>3 DEF ClientOK, Stopping, ClientLabels, Cancelling, Scheduling
<1>3. ASSUME th \in Managers PROVE ManagerOK(th)'
  <2>1. /\ ctx'[th] = ctx[th] /\ tmp'[th] = tmp[th]
        /\ mon[th] = th => mon'[th] = th /\ activities'[th] = activities[th]
    BY <1>3 DEF Undisturbed
  <2>2. CASE pc'[th] = pc[th]
    BY <1>3, <2>1, <2>2 DEF ManagerOK, ManagerLabels, Scheduling
  <2>3. CASE pc'[th] \in {"boot", "loop"}
    BY <1>3, <2>1, <2>3 DEF ManagerOK, ManagerLabels, Scheduling
  <2> QED BY <2>2, <2>3 DEF Undisturbed
<1>4. ScheduleOK(th)'
  <2>1. CASE pc'[th] = pc[th]
    <3>1. ctx'[th] = ctx[th]
      BY DEF Undisturbed
    <3>2. ctx[th].mgr \in 1 .. s_instance /\ mon[ctx[th].mgr] = th =>
            mon'[ctx[th].mgr] = th /\ activities'[ctx[th].mgr] = activities[ctx[th].mgr]
      BY <1>1 DEF Undisturbed
    <3> QED BY <1>1, <2>1, <3>1, <3>2 DEF ScheduleOK, Listed
  <2>2. CASE pc'[th] \in {"boot", "loop"}
    BY <2>2 DEF ScheduleOK, Scheduling
  <2> QED BY <2>1, <2>2 DEF Undisturbed
<1> QED BY <1>2, <1>3, <1>4

\* The invariant by threads, and put together again.
LEMMA InvByThreads ==
  ManagerInv <=> ManagerTypeOK /\ (\A th \in Threads : ThreadOK(th)) /\ ListsOK
BY ThreadSets DEF ManagerInv, ThreadOK, ListsOK

LEMMA StepKeepsInv ==
  ASSUME ManagerInv, NEW th \in Threads, ManagerTypeOK', ThreadOK(th)',
         \A o \in Threads : o # th => Undisturbed(o),
         s_instance' >= s_instance, ListsOK'
  PROVE  ManagerInv'
<1>1. s_instance' \in Int
  BY ThreadSets DEF ManagerTypeOK
<1>2. \A o \in Threads : ThreadOK(o)'
  BY <1>1, InvByThreads, UndisturbedOK
<1> QED BY <1>2, ThreadSets DEF ManagerInv, ThreadOK, ListsOK

\* A step that does not touch the lists.
ListsKept ==
    /\ activities' = activities /\ wakeTime' = wakeTime
    /\ isScheduled' = isScheduled
    /\ \A m \in Managers : /\ pc[m] = "dead" => pc'[m] = "dead"
                           /\ pc[m] = "copying" => pc'[m] = "copying"
    /\ \/ s_instance' = s_instance
       \/ /\ s_instance' = s_instance + 1
          /\ s_instance = 0 \/ pc[s_instance] = "dead"

LEMMA ListsKeptOK ==
  ASSUME ManagerInv, ListsKept, s_instance' \in 0 .. MaxManagers
  PROVE  ListsOK'
<1> USE ThreadSets
<1>1. s_instance \in 0 .. MaxManagers
  BY DEF ManagerInv, ManagerTypeOK
<1>2. ASSUME NEW m \in Managers PROVE ListOK(m)'
  <2>1. m < s_instance' => m < s_instance \/ (m = s_instance /\ pc[s_instance] = "dead")
    BY <1>1 DEF ListsKept
  <2> QED BY <2>1 DEF ListOK, ListsKept, ManagerInv
<1>3. ScheduledIsListed'
  <2> SUFFICES ASSUME NEW a \in Activities, isScheduled[a]
               PROVE  \E m \in Managers : Listed(a, m)' /\ (m = s_instance' \/ pc'[m] = "dead")
    BY DEF ScheduledIsListed, ListsKept
  <2>1. PICK m \in Managers : Listed(a, m) /\ (m = s_instance \/ pc[m] = "dead")
    BY DEF ManagerInv, ScheduledIsListed
  <2>2. Listed(a, m)'
    BY <2>1 DEF Listed, ListsKept
  <2>3. m = s_instance' \/ pc'[m] = "dead"
    BY <1>1, <2>1 DEF ListsKept
  <2> QED BY <2>2, <2>3
<1> QED BY <1>2, <1>3 DEF ListsOK

----------------------------------------------------------------------------
(* The helpers of the actions.                                             *)

LEMMA NoLocalsType == NoLocals \in Locals /\ NoLocals.i = 1 /\ NoLocals.t = -1
<1>1. <<>> \in Seq(Listener) /\ MaxManagers \in Nat
  BY ThreadSets
<1> QED BY <1>1, ThreadSets DEF NoLocals, Locals

\* The arguments of a call, once they are gone.
LEMMA LocalsReturned ==
  ASSUME NEW l \in Locals
  PROVE  LET r == [l EXCEPT !.act = None, !.mgr = 0, !.at = 0] IN
         /\ r \in Locals /\ r.i = l.i /\ r.t = l.t /\ r.of = l.of
         /\ r.am = l.am /\ r.stopping = l.stopping
<1>1. None \in Activities \cup {None} /\ 0 \in 0 .. MaxManagers /\ 0 \in Times
  BY ThreadSets
<1> QED BY <1>1 DEF Locals

LEMMA GetInstanceOK ==
  ASSUME ManagerTypeOK, NEW th \in Threads, NEW label \in Labels,
         label # "new", GetInstance(th, label)
  PROVE  /\ s_instance' \in 1 .. MaxManagers /\ s_instance' \in 0 .. MaxManagers
         /\ s_instance' = Instance
         /\ s_instance' >= s_instance
         /\ \/ s_instance' = s_instance
            \/ /\ s_instance' = s_instance + 1
               /\ s_instance = 0 \/ pc[s_instance] = "dead"
         /\ pc' \in [Threads -> Labels] /\ pc'[th] = label
         /\ \A o \in Threads : o # th =>
               \/ pc'[o] = pc[o]
               \/ o \in Managers /\ pc[o] = "new" /\ pc'[o] = "boot"
<1>1. s_instance \in 0 .. MaxManagers /\ s_instance' = Instance /\ Instance \in Managers
  BY DEF ManagerTypeOK, GetInstance
<1>2. /\ s_instance' \in 1 .. MaxManagers /\ s_instance' \in 0 .. MaxManagers
      /\ s_instance' >= s_instance
      /\ \/ s_instance' = s_instance
         \/ /\ s_instance' = s_instance + 1
            /\ s_instance = 0 \/ pc[s_instance] = "dead"
  BY <1>1, ThreadSets DEF Instance
<1> DEFINE k == Instance
<1>3. k \in Threads /\ k \in Managers
  BY <1>1, ThreadSets
<1>4. pc \in [Threads -> Labels]
  BY DEF ManagerTypeOK, Labels
<1>5. pc' = [pc EXCEPT ![th] = label, ![k] = IF @ = "new" THEN "boot" ELSE @]
  BY DEF GetInstance
<1> HIDE DEF k
<1>6. pc'[th] = label
  <2>1. CASE th = k
    BY <1>4, <1>5, <2>1
  <2>2. CASE th # k
    BY <1>3, <1>4, <1>5, <2>2
  <2> QED BY <2>1, <2>2
<1>7. ASSUME NEW o \in Threads, o # th
      PROVE  \/ pc'[o] = pc[o]
             \/ o \in Managers /\ pc[o] = "new" /\ pc'[o] = "boot"
  BY <1>3, <1>4, <1>5, <1>7
<1>8. pc' \in [Threads -> Labels]
  <2>1. DOMAIN pc' = Threads /\ pc' = [o \in Threads |-> pc'[o]]
    BY <1>4, <1>5
  <2>2. ASSUME NEW o \in Threads PROVE pc'[o] \in Labels
    <3>1. pc[o] \in Labels /\ "boot" \in Labels
      BY <1>4 DEF Labels, ManagerLabels
    <3>2. pc'[o] = label \/ pc'[o] = pc[o] \/ pc'[o] = "boot"
      BY <1>6, <1>7
    <3> QED BY <3>1, <3>2
  <2> QED BY <2>1, <2>2
<1> QED BY <1>1, <1>2, <1>6, <1>7, <1>8

\* A call that returns: control of th only, and its locals.
LEMMA ReturnOK ==
  ASSUME ManagerTypeOK, NEW th \in Threads, ThreadOK(th),
         pc[th] \in Scheduling \cup Cancelling,
         pc'[th] = Resume(th), ctx' = Returned(th),
         s_instance' = s_instance,
         \A l \in Monitors : l \in Managers /\ mon[l] = th /\ Stopping(th) => mon'[l] = th
  PROVE  /\ ctx' \in [Threads -> Locals] /\ ThreadOK(th)'
         /\ Resume(th) \in {"firing", "stopping", "idle"}
         /\ \A o \in Threads : o # th => ctx'[o] = ctx[o]
<1> USE ThreadSets, NoLocalsType
<1>1. ctx[th] \in Locals /\ ctx \in [Threads -> Locals] /\ s_instance \in 0 .. MaxManagers
  BY DEF ManagerTypeOK
<1>2. Resume(th) \in {"firing", "stopping", "idle"}
  BY DEF Resume
<1>3. [ctx[th] EXCEPT !.act = None, !.mgr = 0, !.at = 0] \in Locals
  BY <1>1, LocalsReturned
<1>4. ctx' \in [Threads -> Locals] /\ \A o \in Threads : o # th => ctx'[o] = ctx[o]
  BY <1>1, <1>3 DEF Returned
<1>5. CASE th \in Managers
  <2>1. Resume(th) = "firing" /\ th \notin Clients
    BY <1>5 DEF Resume
  <2>2. ctx'[th] = [ctx[th] EXCEPT !.act = None, !.mgr = 0, !.at = 0]
    BY <1>1, <2>1 DEF Returned
  <2>3. ctx'[th].i = ctx[th].i /\ ctx'[th].t = ctx[th].t /\ ctx'[th].of = ctx[th].of
    BY <1>1, <2>2, LocalsReturned
  <2>4. ctx[th].of \in Activities
    BY <1>5 DEF ThreadOK, ManagerOK, ManagerLabels, Scheduling, Cancelling
  <2> QED BY <1>4, <1>5, <2>1, <2>3, <2>4
          DEF ThreadOK, ManagerOK, ManagerLabels, ScheduleOK, Scheduling
<1>6. CASE th \in Clients /\ ctx[th].stopping
  <2>1. Resume(th) = "stopping" /\ th \notin Managers
    BY <1>6 DEF Resume
  <2>2. ctx'[th] = [ctx[th] EXCEPT !.act = None, !.mgr = 0, !.at = 0]
    BY <1>1, <2>1 DEF Returned
  <2>7. ctx'[th].am = ctx[th].am /\ ctx'[th].stopping = ctx[th].stopping
    BY <1>1, <2>2, LocalsReturned
  <2>3. ctx'[th].am = ctx[th].am /\ ctx'[th].stopping
    BY <1>6, <2>7, Zenon
  <2>4. Stopping(th)
    BY <1>6 DEF ThreadOK, ClientOK, Stopping
  <2>5. ctx[th].am \in 1 .. s_instance /\ mon[ctx[th].am] = th
    BY <1>6, <2>4 DEF ThreadOK, ClientOK
  <2>6. mon'[ctx[th].am] = th
    BY <1>1, <2>4, <2>5
  <2> QED BY <1>4, <1>6, <2>1, <2>3, <2>5, <2>6
          DEF ThreadOK, ClientOK, ClientLabels, ScheduleOK, Stopping, Scheduling, Cancelling
<1>7. CASE th \in Clients /\ ~ ctx[th].stopping
  <2>1. Resume(th) = "idle" /\ th \notin Managers
    BY <1>7 DEF Resume
  <2> QED BY <1>4, <1>7, <2>1
          DEF ThreadOK, ClientOK, ClientLabels, ScheduleOK, Stopping, Scheduling, Cancelling
<1> QED BY <1>2, <1>4, <1>5, <1>6, <1>7

----------------------------------------------------------------------------
(* What a client calls.                                                    *)

LEMMA InitInv ==
  ASSUME Init
  PROVE  ManagerInv
<1> USE ThreadSets, NoLocalsType DEF Init
<1>1. ManagerTypeOK
  <2>1. /\ 0 \in Times /\ 0 \in 0 .. 2 * MaxTime /\ 0 \in 0 .. MaxCalls
        /\ 0 \in 0 .. MaxManagers
    BY TimesAssumption
  <2>2. pc \in [Threads -> ClientLabels \cup ManagerLabels]
    BY DEF ClientLabels, ManagerLabels
  <2> QED BY <2>1, <2>2 DEF ManagerTypeOK
<1>2. ASSUME NEW c \in Clients PROVE ClientOK(c)
  <2>1. pc[c] = "idle"
    OBVIOUS
  <2> QED BY <2>1 DEF ClientOK, ClientLabels, Stopping, Scheduling, Cancelling
<1>3. ASSUME NEW m \in Managers PROVE ManagerOK(m)
  <2>1. pc[m] = "new" /\ ctx[m].i = 1 /\ ctx[m].t = -1
    OBVIOUS
  <2> QED BY <2>1 DEF ManagerOK, ManagerLabels, Scheduling
<1>4. \A th \in Threads : ScheduleOK(th)
  BY DEF ScheduleOK, Scheduling
<1>5. (\A m \in Managers : ListOK(m)) /\ ScheduledIsListed
  BY DEF ListOK, ScheduledIsListed
<1> QED BY <1>1, <1>2, <1>3, <1>4, <1>5 DEF ManagerInv

LEMMA InvokeOK ==
  ASSUME ManagerTypeOK, NEW c \in Clients, Invoke(c)
  PROVE  pc[c] = "idle" /\ calls' \in 0 .. MaxCalls
<1>1. calls \in 0 .. MaxCalls /\ calls < MaxCalls /\ calls' = calls + 1 /\ MaxCalls \in Nat
  BY TimesAssumption DEF ManagerTypeOK, Invoke
<1>2. calls' \in 0 .. MaxCalls
  BY <1>1
<1> QED BY <1>2 DEF Invoke

LEMMA ScheduleAtStep ==
  ASSUME ManagerInv, NEW c \in Clients, NEW a \in Activities, NEW time \in Times,
         ScheduleAt(c, a, time)
  PROVE  ManagerInv'
<1>1. ManagerTypeOK /\ pc[c] = "idle" /\ calls' \in 0 .. MaxCalls
  BY InvokeOK DEF ManagerInv, ScheduleAt
<1>2. /\ s_instance' \in 1 .. MaxManagers /\ s_instance' \in 0 .. MaxManagers
      /\ s_instance' = Instance
      /\ s_instance' >= s_instance
      /\ \/ s_instance' = s_instance
         \/ /\ s_instance' = s_instance + 1
            /\ s_instance = 0 \/ pc[s_instance] = "dead"
      /\ pc' \in [Threads -> Labels] /\ pc'[c] = "check"
      /\ \A o \in Threads : o # c =>
            \/ pc'[o] = pc[o]
            \/ o \in Managers /\ pc[o] = "new" /\ pc'[o] = "boot"
  <2>1. "check" \in Labels /\ "check" # "new"
    BY DEF Labels, ClientLabels, Scheduling
  <2> QED BY <1>1, <2>1, GetInstanceOK, ThreadSets DEF ScheduleAt
<1> DEFINE l == [NoLocals EXCEPT !.act = a, !.at = time, !.mgr = Instance]
<1>3. l \in Locals /\ l.act = a /\ l.mgr = Instance /\ l.stopping = FALSE
  <2> DEFINE k == Instance
  <2>1. k \in 0 .. MaxManagers
    BY <1>2
  <2>2. l = [NoLocals EXCEPT !.act = a, !.at = time, !.mgr = k]
    OBVIOUS
  <2> HIDE DEF k, l
  <2>3. l \in Locals /\ l.act = a /\ l.mgr = k /\ l.stopping = FALSE
    BY <2>1, <2>2, NoLocalsType DEF Locals, NoLocals
  <2> QED BY <2>3 DEF k
<1>4. ctx' = [ctx EXCEPT ![c] = l]
  BY DEF ScheduleAt, Set
<1> HIDE DEF l
<1>5. ctx' \in [Threads -> Locals] /\ ctx'[c] = l /\ \A o \in Threads : o # c => ctx'[o] = ctx[o]
  BY <1>1, <1>3, <1>4, ThreadSets DEF ManagerTypeOK
<1>6. ManagerTypeOK'
  BY <1>1, <1>2, <1>5 DEF ManagerTypeOK, Labels, ScheduleAt, times, flags, lists, manager
<1>7. ThreadOK(c)'
  BY <1>2, <1>3, <1>5, ThreadSets DEF ThreadOK, ClientOK, ScheduleOK, Stopping, ClientLabels, Scheduling, Cancelling
<1>8. \A o \in Threads : o # c => Undisturbed(o)
  BY <1>2, <1>5 DEF Undisturbed, ScheduleAt, lists
<1>9. ListsOK'
  <2>1. ListsKept
    BY <1>1, <1>2, ThreadSets DEF ListsKept, ScheduleAt, lists, manager, flags
  <2> QED BY <1>2, <2>1, ListsKeptOK
<1> QED BY <1>2, <1>6, <1>7, <1>8, <1>9, StepKeepsInv, ThreadSets

LEMMA RunAfterStep ==
  ASSUME ManagerInv, NEW c \in Clients, RunAfter(c)
  PROVE  ManagerInv'
<1>1. ManagerTypeOK /\ pc[c] = "idle" /\ calls' \in 0 .. MaxCalls
  BY InvokeOK DEF ManagerInv, RunAfter
<1>2. /\ s_instance' \in 1 .. MaxManagers /\ s_instance' \in 0 .. MaxManagers
      /\ s_instance' >= s_instance
      /\ \/ s_instance' = s_instance
         \/ /\ s_instance' = s_instance + 1
            /\ s_instance = 0 \/ pc[s_instance] = "dead"
      /\ pc' \in [Threads -> Labels] /\ pc'[c] = "idle"
      /\ \A o \in Threads : o # c =>
            \/ pc'[o] = pc[o]
            \/ o \in Managers /\ pc[o] = "new" /\ pc'[o] = "boot"
  <2>1. "idle" \in Labels /\ "idle" # "new"
    BY DEF Labels, ClientLabels
  <2> QED BY ZenonT(30), <1>1, <2>1, GetInstanceOK, ThreadSets DEF RunAfter
<1>3. listeners' \in [Activities -> Seq(Listener)]
  <2>1. PICK p \in RunAfters : listeners' = [listeners EXCEPT
          ![p[1]] = Append(@, [after |-> p[2], remove |-> p[3]])]
    BY DEF RunAfter
  <2>2. p[1] \in Activities /\ p[2] \in Activities /\ p[3] \in BOOLEAN
    BY ScriptAssumption
  <2>3. [after |-> p[2], remove |-> p[3]] \in Listener
    BY <2>2 DEF Listener
  <2> QED BY <1>1, <2>1, <2>2, <2>3 DEF ManagerTypeOK
<1>4. ManagerTypeOK'
  BY <1>1, <1>2, <1>3 DEF ManagerTypeOK, Labels, RunAfter, times, flags, lists, manager
<1>5. ThreadOK(c)'
  BY <1>2, ThreadSets DEF ThreadOK, ClientOK, ScheduleOK, Stopping, ClientLabels, Scheduling, Cancelling
<1>6. \A o \in Threads : o # c => Undisturbed(o)
  BY <1>2 DEF Undisturbed, RunAfter, lists
<1>7. ListsOK'
  <2>1. ListsKept
    BY <1>1, <1>2, ThreadSets DEF ListsKept, RunAfter, lists, manager, flags
  <2> QED BY <1>2, <2>1, ListsKeptOK
<1> QED BY <1>2, <1>4, <1>5, <1>6, <1>7, StepKeepsInv, ThreadSets

LEMMA CancelStep ==
  ASSUME ManagerInv, NEW c \in Clients, Cancel(c)
  PROVE  ManagerInv'
<1>1. ManagerTypeOK /\ pc[c] = "idle" /\ calls' \in 0 .. MaxCalls
  BY InvokeOK DEF ManagerInv, Cancel
<1>2. PICK a \in Cancels : ctx' = [ctx EXCEPT ![c] = [NoLocals EXCEPT !.act = a]]
  BY DEF Cancel, Set
<1> DEFINE l == [NoLocals EXCEPT !.act = a]
<1>3. l \in Locals /\ l.act \in Activities /\ l.stopping = FALSE
  BY ScriptAssumption, NoLocalsType DEF Locals, NoLocals
<1> HIDE DEF l
<1>4. /\ ctx' \in [Threads -> Locals] /\ ctx'[c] = l
      /\ \A o \in Threads : o # c => ctx'[o] = ctx[o]
  BY <1>1, <1>2, <1>3, ThreadSets DEF ManagerTypeOK, l
<1>5. /\ pc' \in [Threads -> Labels] /\ pc'[c] = "cancel"
      /\ \A o \in Threads : o # c => pc'[o] = pc[o]
  BY <1>1, ThreadSets DEF ManagerTypeOK, Cancel, Goto, Labels, ClientLabels, Cancelling
<1>6. ManagerTypeOK'
  BY <1>1, <1>4, <1>5 DEF ManagerTypeOK, Labels, Cancel, times, flags, lists, manager
<1>7. ThreadOK(c)'
  BY <1>3, <1>4, <1>5, ThreadSets
     DEF ThreadOK, ClientOK, ScheduleOK, Stopping, ClientLabels, Scheduling, Cancelling
<1>8. \A o \in Threads : o # c => Undisturbed(o)
  BY <1>4, <1>5 DEF Undisturbed, Cancel, lists
<1>9. ListsOK' /\ s_instance' >= s_instance
  <2>1. ListsKept
    BY <1>1, <1>5, ThreadSets DEF ListsKept, Cancel, lists, manager, flags
  <2> QED BY <1>1, <2>1, ListsKeptOK, ThreadSets DEF ManagerTypeOK, Cancel
<1> QED BY <1>6, <1>7, <1>8, <1>9, StepKeepsInv, ThreadSets

LEMMA StopThreadStep ==
  ASSUME ManagerInv, NEW c \in Clients, StopThread(c)
  PROVE  ManagerInv'
<1>1. ManagerTypeOK /\ pc[c] = "idle" /\ calls' \in 0 .. MaxCalls
  BY InvokeOK DEF ManagerInv, StopThread
<1> DEFINE l == [NoLocals EXCEPT !.am = s_instance]
<1>2. ctx' = [ctx EXCEPT ![c] = l]
  BY DEF StopThread, Set
<1>3. /\ s_instance \in 1 .. MaxManagers /\ s_instance \in 0 .. MaxManagers
      /\ s_instance \in 1 .. s_instance
  BY <1>1, ThreadSets DEF ManagerTypeOK, StopThread
<1>4. l \in Locals /\ l.am = s_instance /\ l.stopping = FALSE
  BY <1>3, NoLocalsType DEF Locals, NoLocals
<1> HIDE DEF l
<1>5. /\ ctx' \in [Threads -> Locals] /\ ctx'[c] = l
      /\ \A o \in Threads : o # c => ctx'[o] = ctx[o]
  BY <1>1, <1>2, <1>4, ThreadSets DEF ManagerTypeOK
<1>6. /\ pc' \in [Threads -> Labels] /\ pc'[c] = "stop"
      /\ \A o \in Threads : o # c => pc'[o] = pc[o]
  BY <1>1, ThreadSets DEF ManagerTypeOK, StopThread, Goto, Labels, ClientLabels
<1>7. ManagerTypeOK'
  BY <1>1, <1>5, <1>6 DEF ManagerTypeOK, Labels, StopThread, times, flags, lists, manager
<1>8. ThreadOK(c)'
  BY <1>3, <1>4, <1>5, <1>6, ThreadSets
     DEF StopThread, ThreadOK, ClientOK, ScheduleOK, Stopping, ClientLabels,
         Scheduling, Cancelling
<1>9. \A o \in Threads : o # c => Undisturbed(o)
  BY <1>5, <1>6 DEF Undisturbed, StopThread, lists
<1>10. ListsOK' /\ s_instance' >= s_instance
  <2>1. ListsKept
    BY <1>1, <1>6, ThreadSets DEF ListsKept, StopThread, lists, manager, flags
  <2> QED BY <1>1, <2>1, ListsKeptOK, ThreadSets DEF ManagerTypeOK, StopThread
<1> QED BY <1>7, <1>8, <1>9, <1>10, StepKeepsInv, ThreadSets

----------------------------------------------------------------------------
(* _schedule                                                               *)

LEMMA CheckScheduledStep ==
  ASSUME ManagerInv, NEW th \in Threads, CheckScheduled(th)
  PROVE  ManagerInv'
<1>1. ManagerTypeOK /\ ThreadOK(th) /\ pc[th] = "check"
  BY InvByThreads DEF CheckScheduled
<1>2. /\ ctx' \in [Threads -> Locals] /\ ThreadOK(th)'
      /\ pc'[th] \in {"firing", "stopping", "idle", "setStart"}
      /\ \A o \in Threads : o # th => ctx'[o] = ctx[o]
  <2>1. CASE AlreadyScheduled(ctx[th].act)
    <3>1. pc'[th] = Resume(th) /\ ctx' = Returned(th)
      BY <1>1, <2>1 DEF CheckScheduled, Return, Goto, ManagerTypeOK
    <3>2. pc[th] \in Scheduling \cup Cancelling /\ s_instance' = s_instance /\ mon' = mon
      BY <1>1 DEF CheckScheduled, Scheduling
    <3> QED BY <1>1, <3>1, <3>2, ReturnOK
  <2>2. CASE ~ AlreadyScheduled(ctx[th].act)
    <3>1. pc'[th] = "setStart" /\ ctx' = ctx /\ s_instance' = s_instance
      BY <1>1, <2>2 DEF CheckScheduled, Goto, ManagerTypeOK
    <3> QED BY <1>1, <3>1, ThreadSets
            DEF ManagerTypeOK, ThreadOK, ClientOK, ManagerOK, ScheduleOK, Stopping,
                ClientLabels, ManagerLabels, Scheduling, Cancelling
  <2> QED BY <2>1, <2>2
<1>3. /\ pc' \in [Threads -> Labels] /\ \A o \in Threads : o # th => pc'[o] = pc[o]
  <2>1. pc' = [pc EXCEPT ![th] = pc'[th]]
    BY <1>1 DEF CheckScheduled, Return, Goto, ManagerTypeOK
  <2>2. pc'[th] \in Labels
    BY <1>2 DEF Labels, ClientLabels, ManagerLabels, Scheduling
  <2> QED BY <1>1, <2>1, <2>2 DEF ManagerTypeOK, Labels
<1>4. ManagerTypeOK'
  BY <1>1, <1>2, <1>3
     DEF ManagerTypeOK, Labels, CheckScheduled, clock, times, flags, lists, manager
<1>5. \A o \in Threads : o # th => Undisturbed(o)
  BY <1>2, <1>3 DEF Undisturbed, CheckScheduled, lists
<1>6. ListsOK' /\ s_instance' >= s_instance
  <2>1. ListsKept
    BY <1>1, <1>3, ThreadSets DEF ListsKept, CheckScheduled, lists, manager, flags
  <2> QED BY <1>1, <2>1, ListsKeptOK, ThreadSets DEF ManagerTypeOK, CheckScheduled
<1> QED BY <1>2, <1>4, <1>5, <1>6, StepKeepsInv

LEMMA SetStartTimeStep ==
  ASSUME ManagerInv, NEW th \in Threads, SetStartTime(th)
  PROVE  ManagerInv'
<1>1. ManagerTypeOK /\ ThreadOK(th) /\ pc[th] = "setStart"
  BY InvByThreads DEF SetStartTime
<1>2. ctx' = ctx /\ s_instance' = s_instance
  BY DEF SetStartTime
<1>3. /\ pc' \in [Threads -> Labels] /\ pc'[th] = "add"
      /\ \A o \in Threads : o # th => pc'[o] = pc[o]
  BY <1>1 DEF ManagerTypeOK, SetStartTime, Goto, Labels, ClientLabels, Scheduling
<1>4. startTime' \in [Activities -> Times]
  <2>1. ctx[th].at \in Times
    BY <1>1 DEF ManagerTypeOK, Locals
  <2> QED BY <1>1, <2>1 DEF ManagerTypeOK, SetStartTime
<1>5. ManagerTypeOK'
  BY <1>1, <1>2, <1>3, <1>4
     DEF ManagerTypeOK, Labels, SetStartTime, clock, flags, lists, manager
<1>6. ThreadOK(th)'
  BY <1>1, <1>2, <1>3, ThreadSets
     DEF ManagerTypeOK, ThreadOK, ClientOK, ManagerOK, ScheduleOK, Stopping,
         ClientLabels, ManagerLabels, Scheduling, Cancelling
<1>7. \A o \in Threads : o # th => Undisturbed(o)
  BY <1>2, <1>3 DEF Undisturbed, SetStartTime, lists
<1>8. ListsOK' /\ s_instance' >= s_instance
  <2>1. ListsKept
    BY <1>1, <1>3, ThreadSets DEF ListsKept, SetStartTime, lists, manager, flags
  <2> QED BY <1>1, <2>1, ListsKeptOK, ThreadSets DEF ManagerTypeOK, SetStartTime
<1> QED BY <1>5, <1>6, <1>7, <1>8, StepKeepsInv

LEMMA AddStep ==
  ASSUME ManagerInv, NEW th \in Threads, Add(th)
  PROVE  ManagerInv'
<1> DEFINE a == ctx[th].act  m == ctx[th].mgr
<1>1. ManagerTypeOK /\ ThreadOK(th) /\ pc[th] = "add" /\ ListsOK
  BY InvByThreads DEF Add
<1>2. a \in Activities /\ m \in 1 .. s_instance /\ m \in Managers
  BY <1>1, ThreadSets DEF ThreadOK, ScheduleOK, Scheduling, ManagerTypeOK
<1>3. ctx' = ctx /\ s_instance' = s_instance /\ mon[m] \in {None, th}
  BY DEF Add, Free
<1>4. /\ pc' \in [Threads -> Labels] /\ pc'[th] = "mark"
      /\ \A o \in Threads : o # th => pc'[o] = pc[o]
  BY <1>1 DEF ManagerTypeOK, Add, Goto, Labels, ClientLabels, Scheduling
<1>5. /\ mon' \in [Monitors -> Threads \cup {None}] /\ mon'[m] = th
      /\ \A l \in Monitors : l # m => mon'[l] = mon[l]
  BY <1>1, <1>2, ThreadSets DEF ManagerTypeOK, Add
<1>6. activities' = [activities EXCEPT ![m] = Append(activities[m], a)]
  BY DEF Add
<1> HIDE DEF a, m
<1>7. /\ Append(activities[m], a) \in Seq(Activities)
      /\ Contains(Append(activities[m], a), a)
      /\ \A e : Contains(activities[m], e) => Contains(Append(activities[m], a), e)
      /\ Len(Append(activities[m], a)) > 0 /\ Append(activities[m], a) # <<>>
  <2>1. activities[m] \in Seq(Activities)
    BY <1>1, <1>2 DEF ManagerTypeOK
  <2>2. Len(Append(activities[m], a)) = Len(activities[m]) + 1 /\ Len(activities[m]) \in Nat
    BY <1>2, <2>1
  <2> QED BY <1>2, <2>1, <2>2, AppendContains
<1>8. /\ activities' \in [Managers -> Seq(Activities)]
      /\ activities'[m] = Append(activities[m], a)
      /\ \A k \in Managers : k # m => activities'[k] = activities[k]
  BY <1>1, <1>2, <1>6, <1>7 DEF ManagerTypeOK
<1>9. ManagerTypeOK'
  BY <1>1, <1>3, <1>4, <1>5, <1>8
     DEF ManagerTypeOK, Labels, Add, clock, times, flags, manager
<1>10. ThreadOK(th)'
  <2>1. Contains(activities'[m], a)
    BY <1>7, <1>8
  <2>2. ScheduleOK(th)'
    BY <1>2, <1>3, <1>4, <1>5, <2>1 DEF ScheduleOK, Listed, a, m
  <2> QED BY <1>1, <1>3, <1>4, <2>2, ThreadSets
      DEF ManagerTypeOK, ThreadOK, ClientOK, ManagerOK, Stopping,
          ClientLabels, ManagerLabels, Scheduling, Cancelling
<1>11. \A o \in Threads : o # th => Undisturbed(o)
  BY <1>2, <1>3, <1>4, <1>5, <1>8, ThreadSets DEF Undisturbed, Add
<1>12. ASSUME NEW k \in Managers PROVE ListOK(k)'
  <2>1. ListOK(k) /\ wakeTime' = wakeTime /\ k \in Threads
    BY <1>1, ThreadSets DEF ListsOK, Add, manager
  <2>2. /\ pc[k] = "dead" => pc'[k] = "dead"
        /\ pc[k] = "copying" => pc'[k] = "copying"
    BY <1>1, <1>4, <2>1
  <2>3. activities'[k] = <<>> => activities[k] = <<>>
    BY <1>7, <1>8
  <2> QED BY <1>3, <2>1, <2>2, <2>3 DEF ListOK
<1>13. ScheduledIsListed'
  <2> SUFFICES ASSUME NEW e \in Activities, isScheduled[e]
               PROVE  \E k \in Managers : Listed(e, k)' /\ (k = s_instance' \/ pc'[k] = "dead")
    BY DEF ScheduledIsListed, Add, flags
  <2>1. PICK k \in Managers : Listed(e, k) /\ (k = s_instance \/ pc[k] = "dead")
    BY <1>1 DEF ListsOK, ScheduledIsListed
  <2>2. Listed(e, k)'
    BY <1>7, <1>8, <2>1 DEF Listed
  <2>3. k = s_instance' \/ pc'[k] = "dead"
    BY <1>1, <1>3, <1>4, <2>1, ThreadSets
  <2> QED BY <2>2, <2>3
<1>14. s_instance' >= s_instance
  BY <1>1, <1>3, ThreadSets DEF ManagerTypeOK
<1> QED BY <1>9, <1>10, <1>11, <1>12, <1>13, <1>14, StepKeepsInv DEF ListsOK

\* notify wakes a waiting thread up.
LEMMA NotifiedOK ==
  ASSUME ManagerTypeOK, NEW th \in Threads, NEW label \in Labels, NEW m \in Managers,
         label # "waiting", pc' = Notified(th, label, m)
  PROVE  /\ pc' \in [Threads -> Labels] /\ pc'[th] = label
         /\ \A o \in Threads : o # th =>
               \/ pc'[o] = pc[o]
               \/ o \in Managers /\ pc[o] = "waiting" /\ pc'[o] = "loop"
<1>1. pc \in [Threads -> Labels] /\ m \in Threads
  BY ThreadSets DEF ManagerTypeOK, Labels
<1>2. pc' = [pc EXCEPT ![th] = label, ![m] = IF @ = "waiting" THEN "loop" ELSE @]
  BY DEF Notified
<1>3. pc'[th] = label
  <2>1. CASE th = m
    BY <1>1, <1>2, <2>1
  <2>2. CASE th # m
    BY <1>1, <1>2, <2>2
  <2> QED BY <2>1, <2>2
<1>4. ASSUME NEW o \in Threads, o # th
      PROVE  \/ pc'[o] = pc[o]
             \/ o \in Managers /\ pc[o] = "waiting" /\ pc'[o] = "loop"
  BY <1>1, <1>2, <1>4
<1>5. pc' \in [Threads -> Labels]
  <2>1. pc' = [o \in Threads |-> pc'[o]]
    BY <1>1, <1>2
  <2>2. ASSUME NEW o \in Threads PROVE pc'[o] \in Labels
    <3>1. pc[o] \in Labels /\ "loop" \in Labels
      BY <1>1 DEF Labels, ManagerLabels
    <3> QED BY <1>3, <1>4, <3>1
  <2> QED BY <2>1, <2>2
<1> QED BY <1>3, <1>4, <1>5

LEMMA MarkStep ==
  ASSUME ManagerInv, NEW th \in Threads, Mark(th)
  PROVE  ManagerInv'
<1> DEFINE a == ctx[th].act  m == ctx[th].mgr  sooner == ctx[th].at < wakeTime[m]
<1>1. ManagerTypeOK /\ ThreadOK(th) /\ pc[th] = "mark" /\ ListsOK
  BY InvByThreads DEF Mark
<1>2. /\ a \in Activities /\ m \in 1 .. s_instance /\ m \in Managers
      /\ mon[m] = th /\ Listed(a, m) /\ m \in Monitors /\ a \in Monitors
  BY SMTT(20), <1>1, ThreadSets DEF ThreadOK, ScheduleOK, Scheduling, ManagerTypeOK
<1>3. ~ Stopping(th)
  BY <1>1 DEF Stopping, Cancelling
<1>4. s_instance' = s_instance /\ activities' = activities
  BY DEF Mark, lists
<1>5. /\ pc' \in [Threads -> Labels] /\ pc'[th] = Resume(th)
      /\ \A o \in Threads : o # th =>
            \/ pc'[o] = pc[o]
            \/ o \in Managers /\ pc[o] = "waiting" /\ pc'[o] = "loop"
  <2>1. Resume(th) \in Labels /\ Resume(th) # "waiting"
    BY DEF Resume, Labels, ClientLabels, ManagerLabels
  <2>2. CASE sooner
    BY <1>1, <1>2, <2>1, <2>2, NotifiedOK DEF Mark
  <2>3. CASE ~ sooner
    BY <1>1, <2>1, <2>3 DEF Mark, Goto, ManagerTypeOK, Labels
  <2> QED BY <2>2, <2>3
<1>6. /\ mon' \in [Monitors -> Threads \cup {None}]
      /\ \A l \in Monitors : l # m => mon'[l] = mon[l]
  BY <1>1, <1>2 DEF ManagerTypeOK, Mark
<1>7. /\ ctx' \in [Threads -> Locals] /\ ThreadOK(th)'
      /\ Resume(th) \in {"firing", "stopping", "idle"}
      /\ \A o \in Threads : o # th => ctx'[o] = ctx[o]
  BY <1>1, <1>3, <1>4, <1>5, ReturnOK DEF Mark, Scheduling
<1>8. wakeTime' \in [Managers -> Times \cup {Never}]
  <2>1. ctx[th].at \in Times
    BY <1>1 DEF ManagerTypeOK, Locals
  <2> QED BY <1>1, <1>2, <2>1 DEF Mark, ManagerTypeOK
<1>9. /\ isScheduled' \in [Activities -> BOOLEAN] /\ isScheduled'[a]
      /\ \A e \in Activities : e # a => isScheduled'[e] = isScheduled[e]
  BY <1>1, <1>2 DEF Mark, ManagerTypeOK
<1>10. owed' \in [Activities -> Int]
  BY <1>1, <1>2 DEF Mark, ManagerTypeOK
<1>11. ManagerTypeOK'
  BY <1>1, <1>4, <1>5, <1>6, <1>7, <1>8, <1>9, <1>10
     DEF ManagerTypeOK, Labels, Mark, clock, times, lists
<1>12. \A o \in Threads : o # th => Undisturbed(o)
  BY <1>2, <1>4, <1>5, <1>6, <1>7 DEF Undisturbed, Mark, lists
<1>13. ASSUME NEW k \in Managers PROVE ListOK(k)'
  <2>1. ListOK(k) /\ k \in Threads /\ s_instance' = s_instance
    BY <1>1, <1>4, ThreadSets DEF ListsOK
  <2>2. /\ pc[k] = "dead" => pc'[k] = "dead"
        /\ pc[k] = "copying" => pc'[k] = "copying"
    BY <1>1, <1>5, <2>1
  <2>3. activities[k] = <<>> => wakeTime'[k] = wakeTime[k]
    <3>1. activities[m] # <<>>
      BY <1>2 DEF Listed, Contains
    <3>2. k # m => wakeTime'[k] = wakeTime[k]
      BY <1>1, <1>2 DEF Mark, ManagerTypeOK
    <3> QED BY <3>1, <3>2
  <2> QED BY <1>4, <2>1, <2>2, <2>3 DEF ListOK
<1>14. ScheduledIsListed'
  <2> SUFFICES ASSUME NEW e \in Activities, isScheduled'[e]
               PROVE  \E k \in Managers : Listed(e, k)' /\ (k = s_instance' \/ pc'[k] = "dead")
    BY DEF ScheduledIsListed
  <2>1. CASE e = a
    <3>1. Contains(activities'[m], e)
      BY <1>2, <1>4, <2>1 DEF Listed
    <3>2. m = s_instance \/ pc[m] = "dead"
      BY SMTT(20), <1>1, <1>2, ThreadSets DEF ListsOK, ListOK, ManagerTypeOK
    <3>3. pc[m] = "dead" => pc'[m] = "dead"
      BY <1>1, <1>2, <1>5, ThreadSets
    <3> HIDE DEF m
    <3>4. \E k \in Managers : Contains(activities'[k], e)
                              /\ (k = s_instance' \/ pc'[k] = "dead")
      BY <1>2, <1>4, <3>1, <3>2, <3>3
    <3> QED BY <3>4 DEF Listed
  <2>2. CASE e # a
    <3>1. PICK k \in Managers : Listed(e, k) /\ (k = s_instance \/ pc[k] = "dead")
      BY <1>1, <1>9, <2>2 DEF ListsOK, ScheduledIsListed
    <3>2. Listed(e, k)'
      BY <1>4, <3>1 DEF Listed
    <3>3. k = s_instance' \/ pc'[k] = "dead"
      BY <1>1, <1>4, <1>5, <3>1, ThreadSets
    <3> QED BY <3>2, <3>3
  <2> QED BY <2>1, <2>2
<1>15. s_instance' >= s_instance
  BY <1>1, <1>4, ThreadSets DEF ManagerTypeOK
<1> QED BY <1>7, <1>11, <1>12, <1>13, <1>14, <1>15, StepKeepsInv DEF ListsOK

----------------------------------------------------------------------------
(* cancel                                                                  *)

LEMMA CancelUnscheduledStep ==
  ASSUME ManagerInv, NEW c \in Clients, CancelUnscheduled(c)
  PROVE  ManagerInv'
<1>1. ManagerTypeOK /\ ThreadOK(c) /\ pc[c] = "cancel" /\ c \in Threads
  BY InvByThreads, ThreadSets DEF CancelUnscheduled
<1>2. ctx[c].act \in Activities
  BY <1>1 DEF ThreadOK, ClientOK, Cancelling
<1>3. s_instance' = s_instance /\ mon' = mon
  BY DEF CancelUnscheduled
<1>4. /\ pc' \in [Threads -> Labels] /\ pc'[c] = Resume(c)
      /\ \A o \in Threads : o # c => pc'[o] = pc[o]
  <2>1. Resume(c) \in Labels
    BY DEF Resume, Labels, ClientLabels, ManagerLabels
  <2> QED BY <1>1, <2>1 DEF CancelUnscheduled, Return, Goto, ManagerTypeOK, Labels
<1>5. /\ ctx' \in [Threads -> Locals] /\ ThreadOK(c)'
      /\ \A o \in Threads : o # c => ctx'[o] = ctx[o]
  BY <1>1, <1>3, <1>4, ReturnOK DEF CancelUnscheduled, Return, Cancelling
<1>6. isRunning' \in [Activities -> BOOLEAN]
  BY <1>1 DEF CancelUnscheduled, ManagerTypeOK
<1>7. ManagerTypeOK'
  BY <1>1, <1>3, <1>4, <1>5, <1>6
     DEF ManagerTypeOK, Labels, CancelUnscheduled, clock, times, lists, manager
<1>8. \A o \in Threads : o # c => Undisturbed(o)
  BY <1>3, <1>4, <1>5 DEF Undisturbed, CancelUnscheduled, lists
<1>9. ListsOK' /\ s_instance' >= s_instance
  <2>1. ListsKept
    BY <1>1, <1>4, ThreadSets DEF ListsKept, CancelUnscheduled, lists, manager
  <2> QED BY <1>1, <1>3, <2>1, ListsKeptOK, ThreadSets DEF ManagerTypeOK
<1> QED BY <1>1, <1>5, <1>7, <1>8, <1>9, StepKeepsInv

LEMMA CancelScheduledStep ==
  ASSUME ManagerInv, NEW c \in Clients, CancelScheduled(c)
  PROVE  ManagerInv'
<1> DEFINE a == ctx[c].act  k == Instance
<1>1. ManagerTypeOK /\ ThreadOK(c) /\ pc[c] = "cancel" /\ c \in Threads
  BY InvByThreads, ThreadSets DEF CancelScheduled
<1>2. a \in Activities /\ a \in Monitors /\ mon[a] \in {None, c}
  BY <1>1, ThreadSets DEF ThreadOK, ClientOK, Cancelling, CancelScheduled, Free
<1>3. /\ s_instance' \in 1 .. MaxManagers /\ s_instance' \in 0 .. MaxManagers
      /\ s_instance' = k /\ s_instance' >= s_instance
      /\ \/ s_instance' = s_instance
         \/ /\ s_instance' = s_instance + 1
            /\ s_instance = 0 \/ pc[s_instance] = "dead"
      /\ pc' \in [Threads -> Labels] /\ pc'[c] = "remove"
      /\ \A o \in Threads : o # c =>
            \/ pc'[o] = pc[o]
            \/ o \in Managers /\ pc[o] = "new" /\ pc'[o] = "boot"
  <2>1. "remove" \in Labels /\ "remove" # "new"
    BY DEF Labels, ClientLabels, Cancelling
  <2> QED BY <1>1, <2>1, GetInstanceOK DEF CancelScheduled
<1>4. ctx' = [ctx EXCEPT ![c].mgr = k]
  BY DEF CancelScheduled
<1>5. mon' = [mon EXCEPT ![a] = c]
  BY DEF CancelScheduled
<1> HIDE DEF k
<1>6. /\ ctx' \in [Threads -> Locals]
      /\ \A o \in Threads : o # c => ctx'[o] = ctx[o]
  <2>1. ctx[c] \in Locals /\ ctx \in [Threads -> Locals]
    BY <1>1 DEF ManagerTypeOK
  <2>2. [ctx[c] EXCEPT !.mgr = k] \in Locals
    BY <1>3, <2>1 DEF Locals
  <2> QED BY <1>4, <2>1, <2>2
<1>7. /\ ctx'[c].act = a /\ ctx'[c].mgr = k /\ ctx'[c].am = ctx[c].am
      /\ ctx'[c].stopping = ctx[c].stopping
  BY <1>1, <1>4 DEF ManagerTypeOK, Locals
<1>8. /\ mon' \in [Monitors -> Threads \cup {None}] /\ mon'[a] = c
      /\ \A l \in Monitors : l # a => mon'[l] = mon[l]
  BY <1>1, <1>2, <1>5 DEF ManagerTypeOK
<1> HIDE DEF a
<1>9. ManagerTypeOK'
  BY <1>1, <1>3, <1>6, <1>8
     DEF ManagerTypeOK, Labels, CancelScheduled, clock, times, flags, lists, manager
<1>10. ThreadOK(c)'
  <2>1. Stopping(c)' => Stopping(c)
    BY <1>1, <1>3, <1>7 DEF Stopping, Cancelling
  <2>2. Stopping(c) => ctx[c].am \in 1 .. s_instance /\ mon[ctx[c].am] = c
    BY <1>1 DEF ThreadOK, ClientOK
  <2>3. s_instance \in 0 .. MaxManagers
    BY <1>1 DEF ManagerTypeOK
  <2>4. ctx[c].am \in 1 .. s_instance => ctx[c].am \in 1 .. s_instance' /\ ctx[c].am \in Monitors
    BY <1>3, <2>3, ThreadSets
  <2>5. Stopping(c) => mon'[ctx[c].am] = c
    BY <1>8, <2>2, <2>4
  <2>6. k \in 1 .. s_instance'
    BY <1>3
  <2> QED BY <1>2, <1>3, <1>7, <1>8, <2>1, <2>2, <2>4, <2>5, <2>6, ThreadSets
      DEF ThreadOK, ClientOK, ClientLabels, ScheduleOK, Scheduling, Cancelling
<1>11. \A o \in Threads : o # c => Undisturbed(o)
  BY <1>2, <1>3, <1>6, <1>8, ThreadSets DEF Undisturbed, CancelScheduled, lists
<1>12. ListsOK'
  <2>1. ListsKept
    BY <1>1, <1>3, ThreadSets DEF ListsKept, CancelScheduled, lists, flags, manager
  <2> QED BY <1>3, <2>1, ListsKeptOK
<1> QED BY <1>1, <1>3, <1>9, <1>10, <1>11, <1>12, StepKeepsInv

LEMMA RemoveActivityStep ==
  ASSUME ManagerInv, NEW c \in Clients, RemoveActivity(c)
  PROVE  ManagerInv'
<1> DEFINE a == ctx[c].act  m == ctx[c].mgr
           found == Contains(activities[m], a)
           left == RemoveFirst(activities[m], a)
<1>1. /\ ManagerTypeOK /\ ThreadOK(c) /\ pc[c] = "remove" /\ c \in Threads
      /\ ListsOK
  BY InvByThreads, ThreadSets DEF RemoveActivity
<1>2. /\ a \in Activities /\ a \in Monitors /\ mon[a] = c
      /\ m \in Managers /\ m \in 1 .. s_instance /\ mon[m] \in {None, c}
  BY SMTT(20), <1>1, ThreadSets
     DEF ThreadOK, ClientOK, Cancelling, RemoveActivity, Free, ManagerTypeOK
<1>3. s_instance' = s_instance /\ ctx' = ctx
  BY DEF RemoveActivity
<1>4. /\ pc' \in [Threads -> Labels] /\ pc'[c] = "fireCancelled"
      /\ \A o \in Threads : o # c => pc'[o] = pc[o]
  BY <1>1 DEF ManagerTypeOK, RemoveActivity, Goto, Labels, ClientLabels, Cancelling
<1>5. /\ mon' \in [Monitors -> Threads \cup {None}]
      /\ \A l \in Monitors : l # a => mon'[l] = mon[l]
  BY <1>1, <1>2 DEF ManagerTypeOK, RemoveActivity
<1>6. /\ activities' = [activities EXCEPT ![m] = left]
      /\ wakeTime' = [wakeTime EXCEPT
            ![m] = IF found THEN ResetWhenEmpty(left, @) ELSE @]
      /\ isScheduled' = IF found THEN [isScheduled EXCEPT ![a] = FALSE] ELSE isScheduled
  BY DEF RemoveActivity, Unscheduled
<1>7. isRunning' \in [Activities -> BOOLEAN] /\ owed' \in [Activities -> Int]
  BY <1>1, <1>2 DEF RemoveActivity, Answer, ManagerTypeOK
<1>8. activities[m] \in Seq(Activities)
  BY <1>1, <1>2 DEF ManagerTypeOK
<1>9. left \in Seq(Activities) /\ (~ found => left = activities[m])
  BY <1>8, RemoveFirstProperties
<1>10. \A e : e # a /\ Contains(activities[m], e) => Contains(left, e)
  BY <1>8, RemoveFirstKeeps
<1> HIDE DEF a, m, left, found
<1>11. /\ activities' \in [Managers -> Seq(Activities)] /\ activities'[m] = left
       /\ \A k \in Managers : k # m => activities'[k] = activities[k]
  BY <1>1, <1>2, <1>6, <1>9 DEF ManagerTypeOK
<1>12. /\ wakeTime' \in [Managers -> Times \cup {Never}]
       /\ wakeTime'[m] = IF found /\ left = <<>> THEN Never ELSE wakeTime[m]
       /\ \A k \in Managers : k # m => wakeTime'[k] = wakeTime[k]
  BY <1>1, <1>2, <1>6 DEF ManagerTypeOK, ResetWhenEmpty
<1>13. /\ isScheduled' \in [Activities -> BOOLEAN]
       /\ found => ~ isScheduled'[a]
       /\ \A e \in Activities : e # a \/ ~ found => isScheduled'[e] = isScheduled[e]
  BY <1>1, <1>2, <1>6 DEF ManagerTypeOK
<1>14. ManagerTypeOK'
  BY <1>1, <1>3, <1>4, <1>5, <1>7, <1>11, <1>12, <1>13
     DEF ManagerTypeOK, Labels, RemoveActivity, clock, times
<1>15. ThreadOK(c)'
  <2>1. Stopping(c)' => Stopping(c)
    BY <1>1, <1>3, <1>4 DEF Stopping, Cancelling
  <2>2. Stopping(c) => ctx[c].am \in 1 .. s_instance /\ mon[ctx[c].am] = c
    BY <1>1 DEF ThreadOK, ClientOK
  <2>3. ctx[c].am \in 1 .. s_instance => ctx[c].am \in Managers
    BY <1>1, ThreadSets DEF ManagerTypeOK
  <2>4. \A k \in Managers : k # a /\ k \in Monitors
    BY <1>2, ThreadsAssumption, ThreadSets
  <2>5. Stopping(c) => mon'[ctx[c].am] = c
    BY <1>5, <2>2, <2>3, <2>4
  <2> QED BY <1>2, <1>3, <1>4, <2>1, <2>2, <2>5, ThreadSets
      DEF ThreadOK, ClientOK, ClientLabels, ScheduleOK, Scheduling, Cancelling, a
<1>16. \A o \in Threads : o # c => Undisturbed(o)
  BY <1>2, <1>3, <1>4, <1>5, <1>11, ThreadSets DEF Undisturbed, RemoveActivity
<1>17. ASSUME NEW k \in Managers PROVE ListOK(k)'
  <2>1. ListOK(k) /\ k \in Threads /\ k # c
    BY <1>1, ThreadSets DEF ListsOK
  <2>2. pc'[k] = pc[k]
    BY <1>4, <2>1
  <2>3. CASE k = m
    BY <1>3, <1>9, <1>11, <1>12, <2>1, <2>2, <2>3 DEF ListOK
  <2>4. CASE k # m
    BY <1>3, <1>11, <1>12, <2>1, <2>2, <2>4 DEF ListOK
  <2> QED BY <2>3, <2>4
<1>18. ScheduledIsListed'
  <2> SUFFICES ASSUME NEW e \in Activities, isScheduled'[e]
               PROVE  \E k \in Managers : Listed(e, k)' /\ (k = s_instance' \/ pc'[k] = "dead")
    BY DEF ScheduledIsListed
  <2>1. isScheduled[e] /\ (e # a \/ ~ found)
    BY <1>13
  <2>2. PICK k \in Managers : Listed(e, k) /\ (k = s_instance \/ pc[k] = "dead")
    BY <1>1, <2>1 DEF ListsOK, ScheduledIsListed
  <2>3. Listed(e, k)'
    <3>1. CASE k = m
      BY <1>9, <1>10, <1>11, <2>1, <2>2, <3>1 DEF Listed
    <3>2. CASE k # m
      BY <1>11, <2>2, <3>2 DEF Listed
    <3> QED BY <3>1, <3>2
  <2>4. k = s_instance' \/ pc'[k] = "dead"
    BY <1>1, <1>3, <1>4, <2>2, ThreadSets
  <2> QED BY <2>3, <2>4
<1>19. s_instance' >= s_instance
  BY <1>1, <1>3, ThreadSets DEF ManagerTypeOK
<1> QED BY <1>1, <1>14, <1>15, <1>16, <1>17, <1>18, <1>19, StepKeepsInv DEF ListsOK

\* What stays of a list of listeners is a list of such listeners.
LEMMA StayingType ==
  ASSUME NEW T, NEW s \in Seq(T)
  PROVE  Staying(s) \in Seq(T)
<1> DEFINE N == Len(s)  S == Seq(T)  base == <<>>
           after(n, x) == IF s[n].remove THEN x ELSE Append(x, s[n])
           step == [n \in 1 .. N |-> [x \in S |-> after(n, x)]]
           Eq(h) == h = [n \in 0 .. N |->
                           IF n = 0 THEN base
                           ELSE IF s[n].remove THEN h[n - 1]
                                ELSE Append(h[n - 1], s[n])]
           kept == CHOOSE h : Eq(h)
<1>1. N \in Nat /\ base \in S
  OBVIOUS
<1>2. \A n \in 1 .. N : s[n] \in T
  OBVIOUS
<1>3. \A n \in 1 .. N : \A x \in S : after(n, x) \in S
  BY <1>2
<1>4. Staying(s) = kept[N]
  BY DEF Staying
<1> HIDE DEF N, S, base, after
<1>5. step \in [1 .. N -> [S -> S]] /\ \A n \in 1 .. N : \A x \in S : step[n][x] = after(n, x)
  BY <1>3
<1> HIDE DEF step
<1>6. PICK g \in [0 .. N -> S] : g[0] = base /\ \A n \in 1 .. N : g[n] = step[n][g[n - 1]]
  <2>1. N \in Nat /\ base \in S /\ step \in [1 .. N -> [S -> S]]
    BY <1>1, <1>5
  <2>2. \E g : PrimRec(g, N, S, base, step)
    BY <2>1, RecursionExists
  <2> QED BY <2>2 DEF PrimRec
<1>7. ASSUME NEW n \in 1 .. N
      PROVE  g[n] = IF s[n].remove THEN g[n - 1] ELSE Append(g[n - 1], s[n])
  <2>1. g[n - 1] \in S
    <3>1. n - 1 \in 0 .. N
      BY <1>1
    <3> QED BY <1>6, <3>1
  <2> QED BY <1>5, <1>6, <2>1 DEF after
<1>8. Eq(g)
  <2>1. \A n \in 0 .. N : n = 0 \/ n \in 1 .. N
    BY <1>1
  <2> QED BY <1>1, <1>6, <1>7, <2>1
<1>9. Eq(kept)
  <2> HIDE DEF Eq
  <2> QED BY <1>8
<1> HIDE DEF kept
<1>10. ASSUME NEW n \in 0 .. N
       PROVE  kept[n] = IF n = 0 THEN base
                        ELSE IF s[n].remove THEN kept[n - 1]
                             ELSE Append(kept[n - 1], s[n])
  BY <1>9
<1> DEFINE P == {n \in 0 .. N : kept[n] \in S}
<1>11. 0 \in P
  BY <1>1, <1>10
<1>12. ASSUME NEW n \in 1 .. N, n - 1 \in P PROVE n \in P
  <2>1. n \in 0 .. N /\ n # 0
    BY <1>1
  <2>2. kept[n - 1] \in Seq(T)
    BY <1>12 DEF S
  <2>3. s[n] \in T
    BY <1>2
  <2>4. kept[n] = IF s[n].remove THEN kept[n - 1] ELSE Append(kept[n - 1], s[n])
    BY <1>10, <2>1
  <2>5. kept[n] \in Seq(T)
    BY <2>2, <2>3, <2>4
  <2> QED BY <2>1, <2>5 DEF S
<1> HIDE DEF P
<1>13. \A n \in 0 .. N : n \in P
  BY <1>1, <1>11, <1>12, UpTo
<1>14. N \in 0 .. N
  BY <1>1
<1> QED BY <1>4, <1>13, <1>14 DEF P, S

LEMMA FireCancelledStep ==
  ASSUME ManagerInv, NEW c \in Clients, FireCancelled(c)
  PROVE  ManagerInv'
<1>1. ManagerTypeOK /\ ThreadOK(c) /\ pc[c] = "fireCancelled" /\ c \in Threads
  BY InvByThreads, ThreadSets DEF FireCancelled
<1>2. ctx[c].act \in Activities
  BY <1>1 DEF ThreadOK, ClientOK, Cancelling
<1>3. s_instance' = s_instance /\ mon' = mon
  BY DEF FireCancelled
<1>4. /\ pc' \in [Threads -> Labels] /\ pc'[c] = Resume(c)
      /\ \A o \in Threads : o # c => pc'[o] = pc[o]
  <2>1. Resume(c) \in Labels
    BY DEF Resume, Labels, ClientLabels, ManagerLabels
  <2> QED BY <1>1, <2>1 DEF FireCancelled, Return, Goto, ManagerTypeOK, Labels
<1>5. /\ ctx' \in [Threads -> Locals] /\ ThreadOK(c)'
      /\ \A o \in Threads : o # c => ctx'[o] = ctx[o]
  BY <1>1, <1>3, <1>4, ReturnOK DEF FireCancelled, Return, Cancelling
<1>6. listeners' \in [Activities -> Seq(Listener)]
  <2>1. Staying(listeners[ctx[c].act]) \in Seq(Listener)
    BY <1>1, <1>2, StayingType DEF ManagerTypeOK
  <2> QED BY <1>1, <1>2, <2>1 DEF FireCancelled, ManagerTypeOK
<1>7. ManagerTypeOK'
  BY <1>1, <1>3, <1>4, <1>5, <1>6
     DEF ManagerTypeOK, Labels, FireCancelled, clock, times, flags, lists, manager
<1>8. \A o \in Threads : o # c => Undisturbed(o)
  BY <1>3, <1>4, <1>5 DEF Undisturbed, FireCancelled, lists
<1>9. ListsOK' /\ s_instance' >= s_instance
  <2>1. ListsKept
    BY <1>1, <1>4, ThreadSets DEF ListsKept, FireCancelled, lists, flags, manager
  <2> QED BY <1>1, <1>3, <2>1, ListsKeptOK, ThreadSets DEF ManagerTypeOK
<1> QED BY <1>1, <1>5, <1>7, <1>8, <1>9, StepKeepsInv

----------------------------------------------------------------------------
(* _stop                                                                   *)

LEMMA StopEnterStep ==
  ASSUME ManagerInv, NEW c \in Clients, StopEnter(c)
  PROVE  ManagerInv'
<1> DEFINE m == ctx[c].am
<1>1. ManagerTypeOK /\ ThreadOK(c) /\ pc[c] = "stop" /\ c \in Threads
  BY InvByThreads, ThreadSets DEF StopEnter
<1>2. m \in 1 .. s_instance /\ m \in Managers /\ mon[m] \in {None, c}
  BY <1>1, ThreadSets DEF ThreadOK, ClientOK, StopEnter, Free, ManagerTypeOK
<1>3. /\ pc' \in [Threads -> Labels] /\ pc'[c] = "stopping"
      /\ \A o \in Threads : o # c => pc'[o] = pc[o]
  BY <1>1 DEF ManagerTypeOK, StopEnter, Goto, Labels, ClientLabels
<1>4. /\ ctx' \in [Threads -> Locals] /\ ctx'[c].am = m /\ ctx'[c].stopping
      /\ \A o \in Threads : o # c => ctx'[o] = ctx[o]
  <2>1. ctx[c] \in Locals /\ ctx \in [Threads -> Locals]
    BY <1>1 DEF ManagerTypeOK
  <2>2. [ctx[c] EXCEPT !.stopping = TRUE] \in Locals
    BY <2>1 DEF Locals
  <2>3. ctx' = [ctx EXCEPT ![c].stopping = TRUE]
    BY DEF StopEnter
  <2>4. ctx'[c] = [ctx[c] EXCEPT !.stopping = TRUE]
    BY <1>1, <2>1, <2>3
  <2> QED BY <1>1, <2>1, <2>2, <2>3, <2>4 DEF Locals
<1>5. /\ mon' \in [Monitors -> Threads \cup {None}] /\ mon'[m] = c
      /\ \A l \in Monitors : l # m => mon'[l] = mon[l]
  BY <1>1, <1>2, ThreadSets DEF ManagerTypeOK, StopEnter
<1>6. ManagerTypeOK'
  BY <1>1, <1>3, <1>4, <1>5
     DEF ManagerTypeOK, Labels, StopEnter, clock, times, flags, lists, manager
<1>7. ThreadOK(c)'
  BY <1>2, <1>3, <1>4, <1>5, ThreadSets
     DEF StopEnter, ThreadOK, ClientOK, ClientLabels, ScheduleOK, Stopping,
         Scheduling, Cancelling
<1>8. \A o \in Threads : o # c => Undisturbed(o)
  BY <1>2, <1>3, <1>4, <1>5, ThreadSets DEF Undisturbed, StopEnter, lists
<1>9. ListsOK' /\ s_instance' >= s_instance
  <2>1. ListsKept
    BY <1>1, <1>3, ThreadSets DEF ListsKept, StopEnter, lists, flags, manager
  <2> QED BY <1>1, <2>1, ListsKeptOK, ThreadSets DEF ManagerTypeOK, StopEnter
<1> QED BY <1>1, <1>6, <1>7, <1>8, <1>9, StepKeepsInv

LEMMA StopOneStep ==
  ASSUME ManagerInv, NEW c \in Clients, StopOne(c)
  PROVE  ManagerInv'
<1> DEFINE m == ctx[c].am  a == Last(activities[m])
<1>1. ManagerTypeOK /\ ThreadOK(c) /\ pc[c] = "stopping" /\ c \in Threads
  BY InvByThreads, ThreadSets DEF StopOne
<1>2. /\ m \in 1 .. s_instance /\ m \in Managers /\ mon[m] = c /\ ctx[c].stopping
      /\ s_instance' = s_instance /\ mon' = mon
  BY <1>1, ThreadSets DEF ThreadOK, ClientOK, Stopping, StopOne, ManagerTypeOK
<1>3. a \in Activities
  <2>1. activities[m] \in Seq(Activities) /\ activities[m] # <<>>
    BY <1>1, <1>2 DEF ManagerTypeOK, StopOne
  <2>2. Len(activities[m]) \in 1 .. Len(activities[m])
    BY <2>1
  <2> QED BY <2>1, <2>2 DEF Last
<1>4. /\ pc' \in [Threads -> Labels] /\ pc'[c] = "cancel"
      /\ \A o \in Threads : o # c => pc'[o] = pc[o]
  BY <1>1 DEF ManagerTypeOK, StopOne, Goto, Labels, ClientLabels, Cancelling
<1>5. ctx' = [ctx EXCEPT ![c].act = a]
  BY DEF StopOne
<1> HIDE DEF a
<1>6. /\ ctx' \in [Threads -> Locals] /\ ctx'[c].act = a /\ ctx'[c].am = m
      /\ ctx'[c].stopping = ctx[c].stopping
      /\ \A o \in Threads : o # c => ctx'[o] = ctx[o]
  <2>1. ctx[c] \in Locals /\ ctx \in [Threads -> Locals]
    BY <1>1 DEF ManagerTypeOK
  <2>2. [ctx[c] EXCEPT !.act = a] \in Locals
    BY <1>3, <2>1 DEF Locals
  <2>3. ctx'[c] = [ctx[c] EXCEPT !.act = a]
    BY <1>1, <1>5, <2>1
  <2> QED BY <1>1, <1>5, <2>1, <2>2, <2>3 DEF Locals
<1> HIDE DEF m
<1>7. ManagerTypeOK'
  BY <1>1, <1>2, <1>4, <1>6
     DEF ManagerTypeOK, Labels, StopOne, clock, times, flags, lists, manager
<1>8. ThreadOK(c)'
  BY <1>2, <1>3, <1>4, <1>6, ThreadSets
     DEF ThreadOK, ClientOK, ClientLabels, ScheduleOK, Stopping, Scheduling, Cancelling
<1>9. \A o \in Threads : o # c => Undisturbed(o)
  BY <1>2, <1>4, <1>6, ThreadSets DEF Undisturbed, StopOne, lists
<1>10. ListsOK' /\ s_instance' >= s_instance
  <2>1. ListsKept
    BY <1>1, <1>4, ThreadSets DEF ListsKept, StopOne, lists, flags, manager
  <2> QED BY <1>1, <1>2, <2>1, ListsKeptOK, ThreadSets DEF ManagerTypeOK
<1> QED BY <1>1, <1>7, <1>8, <1>9, <1>10, StepKeepsInv

LEMMA StopDoneStep ==
  ASSUME ManagerInv, NEW c \in Clients, StopDone(c)
  PROVE  ManagerInv'
<1> DEFINE m == ctx[c].am
<1>1. ManagerTypeOK /\ ThreadOK(c) /\ pc[c] = "stopping" /\ c \in Threads /\ ListsOK
  BY InvByThreads, ThreadSets DEF StopDone
<1>2. /\ m \in 1 .. s_instance /\ m \in Managers /\ mon[m] = c /\ m \in Monitors
      /\ s_instance' = s_instance
  BY <1>1, ThreadSets DEF ThreadOK, ClientOK, Stopping, StopDone, ManagerTypeOK
<1>3. /\ pc' \in [Threads -> Labels] /\ pc'[c] = "idle"
      /\ \A o \in Threads : o # c =>
            \/ pc'[o] = pc[o]
            \/ o \in Managers /\ pc[o] = "waiting" /\ pc'[o] = "loop"
  <2>1. "idle" \in Labels
    BY DEF Labels, ClientLabels
  <2> QED BY <1>1, <1>2, <2>1, NotifiedOK DEF StopDone
<1>4. /\ ctx' \in [Threads -> Locals] /\ ctx'[c] = NoLocals
      /\ \A o \in Threads : o # c => ctx'[o] = ctx[o]
  BY <1>1, NoLocalsType DEF StopDone, ManagerTypeOK
<1>5. /\ mon' \in [Monitors -> Threads \cup {None}]
      /\ \A l \in Monitors : l # m => mon'[l] = mon[l]
  BY <1>1, <1>2 DEF ManagerTypeOK, StopDone
<1>6. keepRunning' \in [Managers -> BOOLEAN]
  BY <1>1, <1>2 DEF ManagerTypeOK, StopDone
<1>7. ManagerTypeOK'
  BY <1>1, <1>2, <1>3, <1>4, <1>5, <1>6
     DEF ManagerTypeOK, Labels, StopDone, clock, times, flags, lists
<1>8. ThreadOK(c)'
  BY <1>3, ThreadSets
     DEF ThreadOK, ClientOK, ClientLabels, ScheduleOK, Stopping, Scheduling, Cancelling
<1>9. \A o \in Threads : o # c => Undisturbed(o)
  BY <1>2, <1>3, <1>4, <1>5, ThreadSets DEF Undisturbed, StopDone, lists
<1>10. ListsOK' /\ s_instance' >= s_instance
  <2>1. ListsKept
    BY <1>1, <1>2, <1>3, ThreadSets DEF ListsKept, StopDone, lists, flags
  <2> QED BY <1>1, <1>2, <2>1, ListsKeptOK, ThreadSets DEF ManagerTypeOK
<1> QED BY <1>1, <1>7, <1>8, <1>9, <1>10, StepKeepsInv

----------------------------------------------------------------------------
(* The manager's thread.  Most of its steps go on to a label x with locals *)
(* l, and touch neither the lists nor the monitors.                        *)

LoopStep(m, x, l) ==
    /\ pc' = [pc EXCEPT ![m] = x] /\ ctx' = [ctx EXCEPT ![m] = l]
    /\ UNCHANGED <<now, calls, startTime, isScheduled, listeners, s_instance,
                   activities, wakeTime, mon>>
    /\ nextTime' \in [Activities -> 0 .. 2 * MaxTime]
    /\ isRunning' \in [Activities -> BOOLEAN] /\ owed' \in [Activities -> Int]
    /\ keepRunning' \in [Managers -> BOOLEAN]
    /\ tmp' \in [Managers -> Seq(Activities)]
    /\ \A k \in Managers : k # m => tmp'[k] = tmp[k]
    /\ pc[m] \notin {"dead", "copying"} /\ x \notin Scheduling \cup {"copying"}
    /\ l.i >= 1 /\ l.t <= 2 * MaxTime
    /\ x = "nap" => l.t >= 0
    /\ x = "ending" => l.i <= Len(tmp'[m])
    /\ x = "firing" => l.of \in Activities

LEMMA LoopStepOK ==
  ASSUME ManagerInv, NEW m \in Managers, NEW x \in ManagerLabels, NEW l \in Locals,
         LoopStep(m, x, l)
  PROVE  ManagerInv'
<1>1. /\ ManagerTypeOK /\ ThreadOK(m) /\ m \in Threads /\ m \notin Clients
      /\ s_instance' = s_instance
  BY InvByThreads, ThreadSets DEF LoopStep
<1>2. /\ pc' \in [Threads -> Labels] /\ pc'[m] = x
      /\ \A o \in Threads : o # m => pc'[o] = pc[o]
  BY <1>1 DEF ManagerTypeOK, LoopStep, Labels
<1>3. /\ ctx' \in [Threads -> Locals] /\ ctx'[m] = l
      /\ \A o \in Threads : o # m => ctx'[o] = ctx[o]
  BY <1>1 DEF ManagerTypeOK, LoopStep
<1>4. ManagerTypeOK'
  BY <1>1, <1>2, <1>3 DEF ManagerTypeOK, Labels, LoopStep
<1>5. ThreadOK(m)'
  BY <1>1, <1>2, <1>3 DEF LoopStep, ThreadOK, ManagerOK, ScheduleOK
<1>6. \A o \in Threads : o # m => Undisturbed(o)
  BY <1>2, <1>3 DEF Undisturbed, LoopStep
<1>7. ListsOK' /\ s_instance' >= s_instance
  <2>1. ListsKept
    BY <1>1, <1>2, ThreadSets DEF ListsKept, LoopStep
  <2> QED BY <1>1, <2>1, ListsKeptOK, ThreadSets DEF ManagerTypeOK
<1> QED BY <1>1, <1>4, <1>5, <1>6, <1>7, StepKeepsInv

\* What a step of the loop finds.
LEMMA LoopFinds ==
  ASSUME ManagerInv, NEW m \in Managers
  PROVE  /\ ManagerTypeOK /\ ManagerOK(m) /\ m \in Threads
         /\ ctx \in [Threads -> Locals] /\ ctx[m] \in Locals
         /\ pc \in [Threads -> Labels]
         /\ ctx = [ctx EXCEPT ![m] = ctx[m]] /\ pc = [pc EXCEPT ![m] = pc[m]]
         /\ ctx[m].i \in Nat /\ ctx[m].i >= 1 /\ ctx[m].current \in Times
         /\ ctx[m].t \in -1 .. Never /\ ctx[m].t <= 2 * MaxTime
<1>1. ManagerTypeOK /\ ManagerOK(m) /\ m \in Threads
  BY ThreadSets DEF ManagerInv
<1>2. ctx \in [Threads -> Locals] /\ ctx[m] \in Locals /\ pc \in [Threads -> Labels]
  BY <1>1 DEF ManagerTypeOK, Labels
<1>3. ctx = [ctx EXCEPT ![m] = ctx[m]] /\ pc = [pc EXCEPT ![m] = pc[m]]
  BY <1>1, <1>2
<1>4. /\ ctx[m].i \in Nat /\ ctx[m].i >= 1 /\ ctx[m].current \in Times
      /\ ctx[m].t \in -1 .. Never /\ ctx[m].t <= 2 * MaxTime
  BY <1>1, <1>2 DEF Locals, ManagerOK
<1> QED BY <1>1, <1>2, <1>3, <1>4

LEMMA BootStep ==
  ASSUME ManagerInv, NEW m \in Managers, Boot(m)
  PROVE  ManagerInv'
<1>1. LoopStep(m, "loop", ctx[m])
  BY LoopFinds
     DEF LoopStep, Boot, Goto, ManagerTypeOK, ManagerOK, Scheduling, clock, times,
         flags, lists
<1> QED BY <1>1, LoopFinds, LoopStepOK DEF ManagerLabels

LEMMA KeepRunningStep ==
  ASSUME ManagerInv, NEW m \in Managers, KeepRunning(m)
  PROVE  ManagerInv'
<1> DEFINE x == IF keepRunning[m] THEN "count" ELSE "dead"
<1>1. x \in ManagerLabels \ (Scheduling \cup {"copying", "nap", "ending", "firing"})
  BY DEF ManagerLabels, Scheduling
<1> HIDE DEF x
<1>2. LoopStep(m, x, NoLocals)
  BY SMTT(20), <1>1, LoopFinds, NoLocalsType, ThreadSets
     DEF LoopStep, KeepRunning, Goto, Set, ManagerTypeOK, ManagerOK, Scheduling,
         clock, times, flags, lists, manager, x
<1> QED BY <1>1, <1>2, LoopFinds, NoLocalsType, LoopStepOK

LEMMA ActivityCountStep ==
  ASSUME ManagerInv, NEW m \in Managers, ActivityCount(m)
  PROVE  ManagerInv'
<1>1. CASE activities[m] = <<>>
  <2>1. LoopStep(m, "park", ctx[m])
    BY <1>1, LoopFinds
       DEF LoopStep, ActivityCount, Goto, ManagerTypeOK, ManagerOK, Scheduling,
           clock, times, flags, lists, manager
  <2> QED BY <2>1, LoopFinds, LoopStepOK DEF ManagerLabels
<1>2. CASE activities[m] # <<>>
  <2> DEFINE l == [ctx[m] EXCEPT !.current = now]
  <2>1. l \in Locals /\ l.i = ctx[m].i /\ l.t = ctx[m].t
    <3>1. ctx[m] \in Locals /\ now \in Times
      BY LoopFinds DEF ManagerTypeOK
    <3> QED BY <3>1 DEF Locals
  <2>2. ctx' = [ctx EXCEPT ![m] = l]
    BY <1>2, LoopFinds DEF ActivityCount
  <2> HIDE DEF l
  <2>3. LoopStep(m, "copy", l)
    BY <1>2, <2>1, <2>2, LoopFinds
       DEF LoopStep, ActivityCount, Goto, ManagerTypeOK, ManagerOK, Scheduling,
           clock, times, flags, lists, manager
  <2> QED BY <2>1, <2>3, LoopFinds, LoopStepOK DEF ManagerLabels
<1> QED BY <1>1, <1>2

\* runActivity returned s: the loop goes on to the next activity.
LEMMA BackOK ==
  ASSUME ManagerInv, NEW m \in Managers, NEW s \in 0 .. 2 * MaxTime, Back(m, s)
  PROVE  \E l \in Locals : /\ ctx' = [ctx EXCEPT ![m] = l]
                          /\ l.i >= 1 /\ l.t <= 2 * MaxTime
<1> DEFINE t == Earliest(s, ctx[m].t)
           l == [ctx[m] EXCEPT !.t = t, !.i = ctx[m].i + 1]
<1>1. t \in -1 .. Never /\ t <= 2 * MaxTime
  <2>1. /\ s \in -1 .. Never /\ s <= 2 * MaxTime
    BY ThreadSets
  <2> QED BY <2>1, LoopFinds DEF Earliest
<1>2. ctx' = [ctx EXCEPT ![m] = l]
  BY LoopFinds DEF Back
<1>3. ctx[m] \in Locals /\ ctx[m].i + 1 \in Nat /\ ctx[m].i + 1 >= 1
  BY LoopFinds
<1> HIDE DEF t
<1>4. l \in Locals /\ l.i = ctx[m].i + 1 /\ l.t = t
  BY <1>1, <1>3 DEF Locals
<1> HIDE DEF l
<1> QED BY <1>1, <1>2, <1>3, <1>4

\* The activity that runs, and its times.
LEMMA CurrentOK ==
  ASSUME ManagerInv, NEW m \in Managers, ctx[m].i <= Len(tmp[m])
  PROVE  /\ Current(m) \in Activities /\ Current(m) \in Monitors
         /\ startTime[Current(m)] \in Times
         /\ nextTime[Current(m)] \in 0 .. 2 * MaxTime
         /\ StepTime[Current(m)] \in Times
<1>1. tmp[m] \in Seq(Activities) /\ ctx[m].i \in Nat /\ ctx[m].i >= 1
  BY LoopFinds DEF ManagerTypeOK
<1>2. ctx[m].i \in 1 .. Len(tmp[m])
  BY <1>1
<1>3. Current(m) \in Activities
  BY <1>1, <1>2 DEF Current
<1>4. StepTime[Current(m)] \in Times
  BY <1>3, TimesAssumption
<1> QED BY <1>3, <1>4, LoopFinds, ThreadSets DEF ManagerTypeOK

LEMMA NotYetStartedStep ==
  ASSUME ManagerInv, NEW m \in Managers, NotYetStarted(m)
  PROVE  ManagerInv'
<1> DEFINE s == startTime[Current(m)] - ctx[m].current
<1>1. pc[m] = "running" /\ ctx[m].i <= Len(tmp[m])
  BY DEF NotYetStarted, CallsRunActivity
<1>2. s \in 0 .. 2 * MaxTime
  <2>1. startTime[Current(m)] \in Times /\ ctx[m].current \in Times
    BY <1>1, CurrentOK, LoopFinds
  <2>2. ~ (ctx[m].current >= startTime[Current(m)])
    BY <2>1, ThreadSets DEF NotYetStarted, Started, Reached
  <2> QED BY <2>1, <2>2, ThreadSets
<1>3. Back(m, s)
  BY DEF NotYetStarted
<1> HIDE DEF s
<1>4. PICK l \in Locals : /\ ctx' = [ctx EXCEPT ![m] = l]
                          /\ l.i >= 1 /\ l.t <= 2 * MaxTime
  BY <1>2, <1>3, BackOK
<1>5. LoopStep(m, "running", l)
  BY <1>1, <1>4, LoopFinds
     DEF LoopStep, NotYetStarted, ManagerTypeOK, Scheduling, clock, times, flags,
         lists, manager
<1> QED BY <1>5, LoopStepOK DEF ManagerLabels

LEMMA NotYetDueStep ==
  ASSUME ManagerInv, NEW m \in Managers, NotYetDue(m)
  PROVE  ManagerInv'
<1> DEFINE s == nextTime[Current(m)] - ctx[m].current
<1>1. pc[m] = "running" /\ ctx[m].i <= Len(tmp[m])
  BY DEF NotYetDue, CallsRunActivity
<1>2. s \in 0 .. 2 * MaxTime
  <2>1. nextTime[Current(m)] \in 0 .. 2 * MaxTime /\ ctx[m].current \in Times
    BY <1>1, CurrentOK, LoopFinds
  <2>2. ~ (ctx[m].current >= nextTime[Current(m)])
    BY <2>1, ThreadSets DEF NotYetDue, Reached
  <2> QED BY <2>1, <2>2, ThreadSets
<1>3. Back(m, s)
  BY DEF NotYetDue
<1> HIDE DEF s
<1>4. PICK l \in Locals : /\ ctx' = [ctx EXCEPT ![m] = l]
                          /\ l.i >= 1 /\ l.t <= 2 * MaxTime
  BY <1>2, <1>3, BackOK
<1>5. LoopStep(m, "running", l)
  BY <1>1, <1>4, LoopFinds
     DEF LoopStep, NotYetDue, ManagerTypeOK, Scheduling, clock, times, flags,
         lists, manager
<1> QED BY <1>5, LoopStepOK DEF ManagerLabels

LEMMA StepActivityStep ==
  ASSUME ManagerInv, NEW m \in Managers, StepActivity(m)
  PROVE  ManagerInv'
<1> DEFINE next == NextStep(Current(m), ctx[m].current)
           s == next - ctx[m].current
<1>1. pc[m] = "running" /\ ctx[m].i <= Len(tmp[m])
  BY DEF StepActivity, CallsRunActivity
<1>2. s \in 0 .. 2 * MaxTime /\ next \in 0 .. 2 * MaxTime
  BY SMTT(20), <1>1, CurrentOK, LoopFinds, ThreadSets DEF NextStep
<1>3. Back(m, s) /\ nextTime' = [nextTime EXCEPT ![Current(m)] = next]
  BY DEF StepActivity
<1> HIDE DEF s, next
<1>4. PICK l \in Locals : /\ ctx' = [ctx EXCEPT ![m] = l]
                          /\ l.i >= 1 /\ l.t <= 2 * MaxTime
  BY <1>2, <1>3, BackOK
<1>5. nextTime' \in [Activities -> 0 .. 2 * MaxTime]
  BY <1>2, <1>3, LoopFinds DEF ManagerTypeOK
<1>6. isRunning' \in [Activities -> BOOLEAN]
  BY LoopFinds DEF StepActivity, SetRunning, ManagerTypeOK
<1>7. LoopStep(m, "running", l)
  BY <1>1, <1>4, <1>5, <1>6, LoopFinds
     DEF LoopStep, StepActivity, ManagerTypeOK, Scheduling, clock, lists, manager
<1> QED BY <1>7, LoopStepOK DEF ManagerLabels

LEMMA LastStepStep ==
  ASSUME ManagerInv, NEW m \in Managers, LastStep(m)
  PROVE  ManagerInv'
<1>1. pc[m] = "running" /\ ctx[m].i <= Len(tmp[m])
  BY DEF LastStep, CallsRunActivity
<1>2. isRunning' \in [Activities -> BOOLEAN]
  BY LoopFinds DEF LastStep, SetRunning, ManagerTypeOK
<1>3. LoopStep(m, "ending", ctx[m])
  BY <1>1, <1>2, LoopFinds
     DEF LoopStep, LastStep, Goto, ManagerTypeOK, Scheduling, clock, times, lists,
         manager
<1> QED BY <1>3, LoopFinds, LoopStepOK DEF ManagerLabels

LEMMA ThrowStep ==
  ASSUME ManagerInv, NEW m \in Managers, Throw(m)
  PROVE  ManagerInv'
<1>1. pc[m] = "running"
  BY DEF Throw, CallsRunActivity
<1>2. isRunning' \in [Activities -> BOOLEAN]
  BY LoopFinds DEF Throw, SetRunning, ManagerTypeOK
<1>3. LoopStep(m, "dead", NoLocals)
  BY SMTT(20), <1>1, <1>2, LoopFinds, NoLocalsType, ThreadSets
     DEF LoopStep, Throw, Goto, Set, ManagerTypeOK, Scheduling, clock, times, lists,
         manager
<1> QED BY <1>3, NoLocalsType, LoopStepOK DEF ManagerLabels

LEMMA FinishStep ==
  ASSUME ManagerInv, NEW m \in Managers, Finish(m)
  PROVE  ManagerInv'
<1> DEFINE a == Current(m)  l == [ctx[m] EXCEPT !.of = a, !.todo = listeners[a]]
<1>1. pc[m] = "ending" /\ ctx[m].i <= Len(tmp[m])
  BY LoopFinds DEF Finish, ManagerOK
<1>2. a \in Activities /\ listeners[a] \in Seq(Listener)
  BY <1>1, CurrentOK, LoopFinds DEF ManagerTypeOK
<1>3. isRunning' \in [Activities -> BOOLEAN] /\ owed' \in [Activities -> Int]
  BY <1>2, LoopFinds DEF Finish, SetRunning, Answer, ManagerTypeOK
<1>4. ctx' = [ctx EXCEPT ![m] = l]
  BY LoopFinds DEF Finish, ToFire
<1> HIDE DEF a
<1>5. l \in Locals /\ l.of = a /\ l.i = ctx[m].i /\ l.t = ctx[m].t
  BY ZenonT(30), <1>2, LoopFinds DEF Locals
<1> HIDE DEF l
<1>6. LoopStep(m, "firing", l)
  BY <1>1, <1>2, <1>3, <1>4, <1>5, LoopFinds
     DEF LoopStep, Finish, Goto, ManagerTypeOK, Scheduling, clock, times, lists,
         manager
<1> QED BY <1>5, <1>6, LoopStepOK DEF ManagerLabels

LEMMA FiredStep ==
  ASSUME ManagerInv, NEW m \in Managers, Fired(m)
  PROVE  ManagerInv'
<1> DEFINE l == [ctx[m] EXCEPT !.i = ctx[m].i + 1, !.of = None]
<1>1. pc[m] = "firing"
  BY DEF Fired
<1>2. ctx[m].i + 1 \in Nat /\ ctx[m].i + 1 >= 1
  BY LoopFinds
<1>3. ctx' = [ctx EXCEPT ![m] = l]
  BY LoopFinds DEF Fired
<1>4. l \in Locals /\ l.i = ctx[m].i + 1 /\ l.t = ctx[m].t
  BY ZenonT(30), <1>2, LoopFinds DEF Locals
<1> HIDE DEF l
<1>5. LoopStep(m, "running", l)
  BY <1>1, <1>2, <1>3, <1>4, LoopFinds
     DEF LoopStep, Fired, Goto, ManagerTypeOK, Scheduling, clock, times, flags,
         lists, manager
<1> QED BY <1>4, <1>5, LoopStepOK DEF ManagerLabels

LEMMA AllRunStep ==
  ASSUME ManagerInv, NEW m \in Managers, AllRun(m)
  PROVE  ManagerInv'
<1> DEFINE x == IF ctx[m].t = -1 THEN "loop" ELSE "nap"
<1>1. /\ x \in ManagerLabels \ (Scheduling \cup {"copying", "ending", "firing"})
      /\ x = "nap" => ctx[m].t >= 0
  BY LoopFinds DEF ManagerLabels, Scheduling
<1>2. pc[m] = "running" /\ pc' = [pc EXCEPT ![m] = x]
  BY DEF AllRun, Goto
<1> HIDE DEF x
<1>3. tmp' \in [Managers -> Seq(Activities)] /\ \A k \in Managers : k # m => tmp'[k] = tmp[k]
  BY LoopFinds DEF AllRun, ManagerTypeOK
<1>4. LoopStep(m, x, ctx[m])
  BY <1>1, <1>2, <1>3, LoopFinds
     DEF LoopStep, AllRun, ManagerTypeOK, Scheduling, clock, times, flags, manager
<1> QED BY <1>1, <1>4, LoopFinds, LoopStepOK

LEMMA WaitStep ==
  ASSUME ManagerInv, NEW m \in Managers, Wait(m)
  PROVE  ManagerInv'
<1> DEFINE t == IF pc[m] = "nap" THEN ctx[m].t ELSE 0
           w == IF t = 0 THEN Never ELSE now + t
           l == [NoLocals EXCEPT !.wake = w]
<1>1. pc[m] \in {"nap", "park"} /\ ctx' = [ctx EXCEPT ![m] = l]
  BY DEF Wait, Set
<1>2. w \in 0 .. Never
  <2>1. t \in 0 .. 2 * MaxTime
    BY LoopFinds, ThreadSets DEF ManagerOK
  <2>2. now \in 0 .. MaxTime
    BY LoopFinds, ThreadSets DEF ManagerTypeOK
  <2> HIDE DEF t
  <2> QED BY <2>1, <2>2, ThreadSets
<1> HIDE DEF w
<1>3. l \in Locals /\ l.i = 1 /\ l.t = -1
  BY <1>2, NoLocalsType DEF Locals, NoLocals
<1> HIDE DEF l
<1>4. LoopStep(m, "waiting", l)
  BY SMTT(20), <1>1, <1>3, LoopFinds, ThreadSets
     DEF LoopStep, Wait, Goto, ManagerTypeOK, Scheduling, clock, times, flags, lists,
         manager
<1> QED BY <1>3, <1>4, LoopStepOK DEF ManagerLabels

LEMMA TimeoutStep ==
  ASSUME ManagerInv, NEW m \in Managers, Timeout(m)
  PROVE  ManagerInv'
<1>1. LoopStep(m, "loop", ctx[m])
  BY LoopFinds
     DEF LoopStep, Timeout, Goto, ManagerTypeOK, ManagerOK, Scheduling, clock, times,
         flags, lists, manager
<1> QED BY <1>1, LoopFinds, LoopStepOK DEF ManagerLabels

\* The loop that copies the list.
LEMMA CopyEnterStep ==
  ASSUME ManagerInv, NEW m \in Managers, CopyEnter(m)
  PROVE  ManagerInv'
<1> DEFINE l == [ctx[m] EXCEPT !.i = 1]
<1>1. /\ ManagerTypeOK /\ ManagerOK(m) /\ m \in Threads /\ m \in Monitors
      /\ m \notin Clients /\ pc[m] = "copy" /\ s_instance' = s_instance
      /\ mon[m] \in {None, m}
  BY LoopFinds, ThreadSets DEF CopyEnter, Free
<1>2. /\ pc' \in [Threads -> Labels] /\ pc'[m] = "copying"
      /\ \A o \in Threads : o # m => pc'[o] = pc[o]
  BY <1>1 DEF ManagerTypeOK, CopyEnter, Goto, Labels, ManagerLabels
<1>3. ctx' = [ctx EXCEPT ![m] = l]
  BY LoopFinds DEF CopyEnter
<1>4. l \in Locals /\ l.i = 1 /\ l.t = ctx[m].t
  BY ZenonT(30), LoopFinds DEF Locals
<1> HIDE DEF l
<1>5. /\ ctx' \in [Threads -> Locals] /\ ctx'[m] = l
      /\ \A o \in Threads : o # m => ctx'[o] = ctx[o]
  BY <1>1, <1>3, <1>4, LoopFinds
<1>6. /\ mon' \in [Monitors -> Threads \cup {None}] /\ mon'[m] = m
      /\ \A k \in Monitors : k # m => mon'[k] = mon[k]
  BY <1>1 DEF ManagerTypeOK, CopyEnter
<1>7. ManagerTypeOK'
  BY <1>1, <1>2, <1>5, <1>6
     DEF ManagerTypeOK, Labels, CopyEnter, clock, times, flags, lists, manager
<1>8. ThreadOK(m)'
  <2>1. activities' = activities /\ activities[m] \in Seq(Activities)
    BY <1>1 DEF CopyEnter, lists, ManagerTypeOK
  <2>2. 1 <= Len(activities'[m]) + 1
    BY <2>1
  <2> QED BY <1>1, <1>2, <1>4, <1>5, <1>6, <2>2, LoopFinds
      DEF ThreadOK, ManagerOK, ManagerLabels, ScheduleOK, Scheduling
<1>9. \A o \in Threads : o # m => Undisturbed(o)
  BY <1>1, <1>2, <1>5, <1>6, ThreadSets DEF Undisturbed, CopyEnter, lists
<1>10. ListsOK' /\ s_instance' >= s_instance
  <2>1. ListsKept
    BY <1>1, <1>2, ThreadSets DEF ListsKept, CopyEnter, lists, flags, manager
  <2> QED BY <1>1, <2>1, ListsKeptOK, ThreadSets DEF ManagerTypeOK
<1> QED BY <1>1, <1>7, <1>8, <1>9, <1>10, StepKeepsInv

LEMMA CopyOneStep ==
  ASSUME ManagerInv, NEW m \in Managers, CopyOne(m)
  PROVE  ManagerInv'
<1> DEFINE i == ctx[m].i  a == activities[m][i]
           over == Reached(ctx[m].current, StopTime(a))
           j == NextIndex(i, over)
           l == [ctx[m] EXCEPT !.i = j]
<1>1. /\ ManagerTypeOK /\ ManagerOK(m) /\ ListsOK /\ m \in Threads /\ m \notin Clients
      /\ pc[m] = "copying" /\ mon[m] = m /\ i <= Len(activities[m])
      /\ s_instance' = s_instance /\ pc' = pc /\ mon' = mon /\ wakeTime' = wakeTime
  BY LoopFinds, ThreadSets DEF CopyOne, ManagerOK, manager, ManagerInv, ListsOK
<1>2. /\ activities[m] \in Seq(Activities) /\ i \in 1 .. Len(activities[m])
      /\ Len(activities[m]) \in Nat
  <2>1. activities[m] \in Seq(Activities) /\ Len(activities[m]) \in Nat
    BY <1>1 DEF ManagerTypeOK
  <2> QED BY <1>1, <2>1, LoopFinds
<1>3. a \in Activities
  BY <1>2
<1>4. j \in Nat /\ j >= 1 /\ j = IF over THEN i ELSE i + 1
  BY <1>2 DEF NextIndex
<1>5. ctx' = [ctx EXCEPT ![m] = l]
  BY LoopFinds DEF CopyOne
<1>6. /\ tmp' = [tmp EXCEPT ![m] = Append(@, a)]
      /\ over => /\ activities' = [activities EXCEPT ![m] = RemoveAt(@, i)]
                 /\ isScheduled' = [isScheduled EXCEPT ![a] = FALSE]
      /\ ~ over => activities' = activities /\ isScheduled' = isScheduled
  BY DEF CopyOne, Unscheduled
<1> HIDE DEF over, a, j
<1>7. l \in Locals /\ l.i = j /\ l.t = ctx[m].t
  BY ZenonT(30), <1>4, LoopFinds DEF Locals
<1> HIDE DEF l
<1>8. /\ ctx' \in [Threads -> Locals] /\ ctx'[m] = l
      /\ \A o \in Threads : o # m => ctx'[o] = ctx[o]
  BY <1>1, <1>5, <1>7, LoopFinds
<1>9. /\ tmp' \in [Managers -> Seq(Activities)]
      /\ \A k \in Managers : k # m => tmp'[k] = tmp[k]
  BY <1>1, <1>3, <1>6 DEF ManagerTypeOK
<1> DEFINE rest == RemoveAt(activities[m], i)
<1>10. rest \in Seq(Activities) /\ Len(rest) = Len(activities[m]) - 1
  BY <1>2, RemoveAtProperties
<1>11. \A e : e # a /\ Contains(activities[m], e) => Contains(rest, e)
  BY <1>2, RemoveAtKeeps DEF a
<1>12. over => activities' = [activities EXCEPT ![m] = rest]
  BY <1>6
<1> HIDE DEF rest
<1>13. /\ activities' \in [Managers -> Seq(Activities)]
       /\ activities'[m] = IF over THEN rest ELSE activities[m]
       /\ \A k \in Managers : k # m => activities'[k] = activities[k]
  BY ZenonT(30), <1>1, <1>6, <1>10, <1>12 DEF ManagerTypeOK
<1>14. /\ isScheduled' \in [Activities -> BOOLEAN]
       /\ over => ~ isScheduled'[a]
       /\ \A e \in Activities : e # a \/ ~ over => isScheduled'[e] = isScheduled[e]
  BY <1>1, <1>3, <1>6 DEF ManagerTypeOK
<1>15. ManagerTypeOK'
  BY <1>1, <1>8, <1>9, <1>13, <1>14 DEF ManagerTypeOK, CopyOne, clock, times, manager
<1>16. ThreadOK(m)'
  <2>1. j <= Len(activities'[m]) + 1
    <3>1. CASE over
      BY <1>2, <1>4, <1>10, <1>13, <3>1
    <3>2. CASE ~ over
      BY <1>2, <1>4, <1>13, <3>2
    <3> QED BY <3>1, <3>2
  <2> QED BY <1>1, <1>4, <1>7, <1>8, <2>1, LoopFinds
      DEF ThreadOK, ManagerOK, ManagerLabels, ScheduleOK, Scheduling
<1>17. \A o \in Threads : o # m => Undisturbed(o)
  BY <1>1, <1>8, <1>9, <1>13, ThreadSets DEF Undisturbed
<1>18. ASSUME NEW k \in Managers PROVE ListOK(k)'
  <2>1. ListOK(k)
    BY <1>1 DEF ListsOK
  <2>2. k # m => activities'[k] = activities[k]
    BY <1>13
  <2> QED BY <1>1, <2>1, <2>2 DEF ListOK
<1>19. ScheduledIsListed'
  <2> SUFFICES ASSUME NEW e \in Activities, isScheduled'[e]
               PROVE  \E k \in Managers : Listed(e, k)' /\ (k = s_instance' \/ pc'[k] = "dead")
    BY DEF ScheduledIsListed
  <2>1. isScheduled[e] /\ (e # a \/ ~ over)
    BY <1>14
  <2>2. PICK k \in Managers : Listed(e, k) /\ (k = s_instance \/ pc[k] = "dead")
    BY <1>1, <2>1 DEF ListsOK, ScheduledIsListed
  <2>3. Listed(e, k)'
    <3>1. CASE k = m
      BY <1>11, <1>13, <2>1, <2>2, <3>1 DEF Listed
    <3>2. CASE k # m
      BY <1>13, <2>2, <3>2 DEF Listed
    <3> QED BY <3>1, <3>2
  <2> QED BY <1>1, <2>2, <2>3
<1>20. s_instance' >= s_instance
  BY <1>1, ThreadSets DEF ManagerTypeOK
<1> QED BY <1>1, <1>15, <1>16, <1>17, <1>18, <1>19, <1>20, StepKeepsInv DEF ListsOK

LEMMA CopyDoneStep ==
  ASSUME ManagerInv, NEW m \in Managers, CopyDone(m)
  PROVE  ManagerInv'
<1> DEFINE l == [ctx[m] EXCEPT !.i = 1, !.t = -1]
<1>1. /\ ManagerTypeOK /\ ManagerOK(m) /\ ListsOK /\ m \in Threads /\ m \in Monitors
      /\ m \notin Clients /\ pc[m] = "copying" /\ mon[m] = m
      /\ s_instance' = s_instance /\ activities' = activities
      /\ isScheduled' = isScheduled
  BY LoopFinds, ThreadSets DEF CopyDone, ManagerOK, lists, flags, ManagerInv, ListsOK
<1>2. /\ pc' \in [Threads -> Labels] /\ pc'[m] = "running"
      /\ \A o \in Threads : o # m => pc'[o] = pc[o]
  BY <1>1 DEF ManagerTypeOK, CopyDone, Goto, Labels, ManagerLabels
<1>3. ctx' = [ctx EXCEPT ![m] = l]
  BY LoopFinds DEF CopyDone
<1>4. l \in Locals /\ l.i = 1 /\ l.t = -1
  <2>1. -1 \in -1 .. Never
    BY ThreadSets
  <2> QED BY ZenonT(30), <2>1, LoopFinds DEF Locals
<1> HIDE DEF l
<1>5. /\ ctx' \in [Threads -> Locals] /\ ctx'[m] = l
      /\ \A o \in Threads : o # m => ctx'[o] = ctx[o]
  BY <1>1, <1>3, <1>4, LoopFinds
<1>6. /\ mon' \in [Monitors -> Threads \cup {None}]
      /\ \A k \in Monitors : k # m => mon'[k] = mon[k]
  BY <1>1 DEF ManagerTypeOK, CopyDone
<1>7. /\ wakeTime' \in [Managers -> Times \cup {Never}]
      /\ activities[m] = <<>> => wakeTime'[m] = Never
      /\ \A k \in Managers : k # m => wakeTime'[k] = wakeTime[k]
  BY <1>1 DEF ManagerTypeOK, CopyDone, ResetWhenEmpty
<1>8. ManagerTypeOK'
  BY <1>1, <1>2, <1>5, <1>6, <1>7
     DEF ManagerTypeOK, Labels, CopyDone, clock, times, flags, lists
<1>9. ThreadOK(m)'
  BY <1>1, <1>2, <1>4, <1>5, ThreadSets
     DEF ThreadOK, ManagerOK, ManagerLabels, ScheduleOK, Scheduling
<1>10. \A o \in Threads : o # m => Undisturbed(o)
  BY <1>1, <1>2, <1>5, <1>6, ThreadSets DEF Undisturbed, CopyDone, lists
<1>11. ASSUME NEW k \in Managers PROVE ListOK(k)'
  <2>1. ListOK(k) /\ k \in Threads
    BY <1>1, ThreadSets DEF ListsOK
  <2>2. CASE k = m
    BY <1>1, <1>2, <1>7, <2>1, <2>2 DEF ListOK
  <2>3. CASE k # m
    BY <1>1, <1>2, <1>7, <2>1, <2>3 DEF ListOK
  <2> QED BY <2>2, <2>3
<1>12. ScheduledIsListed'
  BY <1>1, <1>2, ThreadSets DEF ListsOK, ScheduledIsListed, Listed
<1>13. s_instance' >= s_instance
  BY <1>1, ThreadSets DEF ManagerTypeOK
<1> QED BY <1>1, <1>8, <1>9, <1>10, <1>11, <1>12, <1>13, StepKeepsInv DEF ListsOK

LEMMA FireFinishedStep ==
  ASSUME ManagerInv, NEW m \in Managers, FireFinished(m)
  PROVE  ManagerInv'
<1> DEFINE of == ctx[m].of  e == Head(ctx[m].todo)  k == Instance
           l == [ctx[m] EXCEPT !.todo = Tail(ctx[m].todo), !.act = e.after,
                               !.at = now, !.mgr = k]
<1>1. /\ ManagerTypeOK /\ ManagerOK(m) /\ m \in Threads /\ m \notin Clients
      /\ pc[m] = "firing" /\ of \in Activities
  BY LoopFinds, ThreadSets DEF FireFinished, ManagerOK
<1>2. /\ ctx[m].todo \in Seq(Listener) /\ e \in Listener
      /\ Tail(ctx[m].todo) \in Seq(Listener) /\ e.after \in Activities
  <2>1. ctx[m].todo \in Seq(Listener) /\ ctx[m].todo # <<>>
    BY LoopFinds DEF FireFinished, Locals
  <2>2. e \in Listener /\ Tail(ctx[m].todo) \in Seq(Listener)
    BY <2>1
  <2> QED BY <2>1, <2>2 DEF Listener
<1>3. /\ s_instance' \in 1 .. MaxManagers /\ s_instance' \in 0 .. MaxManagers
      /\ s_instance' = k /\ s_instance' >= s_instance
      /\ \/ s_instance' = s_instance
         \/ /\ s_instance' = s_instance + 1
            /\ s_instance = 0 \/ pc[s_instance] = "dead"
      /\ pc' \in [Threads -> Labels] /\ pc'[m] = "check"
      /\ \A o \in Threads : o # m =>
            \/ pc'[o] = pc[o]
            \/ o \in Managers /\ pc[o] = "new" /\ pc'[o] = "boot"
  <2>1. "check" \in Labels /\ "check" # "new"
    BY DEF Labels, ClientLabels, Scheduling
  <2> QED BY <1>1, <2>1, GetInstanceOK DEF FireFinished
<1>4. ctx' = [ctx EXCEPT ![m] = l]
  BY LoopFinds DEF FireFinished
<1>5. listeners' \in [Activities -> Seq(Listener)]
  <2>1. RemoveFirst(listeners[of], e) \in Seq(Listener)
    BY <1>1, RemoveFirstProperties DEF ManagerTypeOK
  <2> QED BY <1>1, <2>1 DEF FireFinished, ManagerTypeOK
<1> HIDE DEF k, e
<1>6. /\ l \in Locals /\ l.act = e.after /\ l.mgr = k /\ l.of = of
      /\ l.i = ctx[m].i /\ l.t = ctx[m].t
  <2>1. now \in Times /\ ctx[m] \in Locals /\ k \in 0 .. MaxManagers
    BY <1>3, LoopFinds DEF ManagerTypeOK
  <2> QED BY <1>2, <2>1 DEF Locals
<1> HIDE DEF l
<1>7. /\ ctx' \in [Threads -> Locals] /\ ctx'[m] = l
      /\ \A o \in Threads : o # m => ctx'[o] = ctx[o]
  BY <1>1, <1>4, <1>6, LoopFinds
<1>8. ManagerTypeOK'
  BY <1>1, <1>3, <1>5, <1>7
     DEF ManagerTypeOK, Labels, FireFinished, clock, times, flags, lists, manager
<1>9. ThreadOK(m)'
  BY <1>1, <1>2, <1>3, <1>6, <1>7, LoopFinds
     DEF ThreadOK, ManagerOK, ManagerLabels, ScheduleOK, Scheduling
<1>10. \A o \in Threads : o # m => Undisturbed(o)
  BY <1>3, <1>7 DEF Undisturbed, FireFinished, lists
<1>11. ListsOK'
  <2>1. ListsKept
    BY <1>1, <1>3, ThreadSets DEF ListsKept, FireFinished, lists, flags, manager
  <2> QED BY <1>3, <2>1, ListsKeptOK
<1> QED BY <1>1, <1>3, <1>8, <1>9, <1>10, <1>11, StepKeepsInv

----------------------------------------------------------------------------

LEMMA TickStep ==
  ASSUME ManagerInv, Tick
  PROVE  ManagerInv'
<1>1. ManagerTypeOK /\ now' \in Times
  BY ThreadSets DEF ManagerInv, ManagerTypeOK, Tick
<1>2. ManagerTypeOK'
  BY <1>1 DEF ManagerTypeOK, Tick, times, flags, lists, manager
<1>3. \A th \in Threads : ThreadOK(th)'
  BY InvByThreads
     DEF Tick, ThreadOK, ClientOK, ManagerOK, ScheduleOK, Stopping, Listed, times,
         flags, lists, manager
<1>4. ListsOK'
  BY InvByThreads
     DEF Tick, ListsOK, ListOK, ScheduledIsListed, Listed, times, flags, lists, manager
<1> QED BY <1>2, <1>3, <1>4, ThreadSets DEF ManagerInv, ThreadOK, ListsOK

LEMMA StutterStep ==
  ASSUME ManagerInv, UNCHANGED vars
  PROVE  ManagerInv'
BY DEF vars, ManagerInv, ManagerTypeOK, ClientOK, ManagerOK, ListOK, ScheduleOK,
       Stopping, Listed, ScheduledIsListed

LEMMA NextInv ==
  ASSUME ManagerInv, [Next]_vars
  PROVE  ManagerInv'
<1>1. ASSUME NEW th \in Threads, Schedule(th) PROVE ManagerInv'
  BY <1>1, CheckScheduledStep, SetStartTimeStep, AddStep, MarkStep DEF Schedule
<1>2. ASSUME NEW c \in Clients, Call(c) PROVE ManagerInv'
  <2>1. CASE Run(c)
    <3>1. PICK a \in Runs : ScheduleAt(c, a, now)
      BY <2>1 DEF Run
    <3>2. a \in Activities /\ now \in Times
      BY ScriptAssumption DEF ManagerInv, ManagerTypeOK
    <3> QED BY <3>1, <3>2, ScheduleAtStep
  <2>2. CASE RunAt(c)
    <3>1. PICK p \in RunAts : ScheduleAt(c, p[1], p[2])
      BY <2>2 DEF RunAt
    <3>2. p[1] \in Activities /\ p[2] \in Times
      BY ScriptAssumption
    <3> QED BY <3>1, <3>2, ScheduleAtStep
  <2> QED BY <1>2, <2>1, <2>2, RunAfterStep, CancelStep, StopThreadStep DEF Call
<1>3. ASSUME NEW c \in Clients, ClientStep(c) PROVE ManagerInv'
  <2>1. c \in Threads
    BY ThreadSets
  <2>2. CASE DoCancel(c)
    BY <2>2, CancelUnscheduledStep, CancelScheduledStep, RemoveActivityStep,
       FireCancelledStep DEF DoCancel
  <2>3. CASE Stop(c)
    BY <2>3, StopEnterStep, StopOneStep, StopDoneStep DEF Stop
  <2> QED BY <1>1, <1>3, <2>1, <2>2, <2>3 DEF ClientStep
<1>4. ASSUME NEW m \in Managers, RunActivity(m) PROVE ManagerInv'
  BY <1>4, NotYetStartedStep, NotYetDueStep, StepActivityStep, LastStepStep,
     FinishStep, FireFinishedStep, FiredStep DEF RunActivity
<1>5. ASSUME NEW m \in Managers, Loop(m) PROVE ManagerInv'
  BY <1>4, <1>5, BootStep, KeepRunningStep, ActivityCountStep, CopyEnterStep,
     CopyOneStep, CopyDoneStep, AllRunStep, WaitStep, TimeoutStep DEF Loop
<1>6. ASSUME NEW m \in Managers, ManagerStep(m) PROVE ManagerInv'
  <2>1. m \in Threads
    BY ThreadSets
  <2> QED BY <1>1, <1>5, <1>6, <2>1 DEF ManagerStep
<1>7. CASE UNCHANGED vars
  BY <1>7, StutterStep
<1> QED BY <1>2, <1>3, <1>6, <1>7, ThrowStep, TickStep DEF Next, Terminated

\* Whatever the threads do, every one of them finds what it relies on, and
\* the lists and flags agree: the inductive invariant holds for any number
\* of clients, managers and activities.
THEOREM ManagerSafe == Spec => []ManagerInv
<1>1. Init => ManagerInv
  BY InitInv
<1>2. ManagerInv /\ [Next]_vars => ManagerInv'
  BY NextInv
<1> QED BY <1>1, <1>2, PTL DEF Spec

\* An activity that says it is scheduled is in the list of the current
\* manager, or in the list a dead one left.
THEOREM Scheduled == Spec => []ScheduledIsListed
<1>1. ManagerInv => ScheduledIsListed
  BY DEF ManagerInv
<1> QED BY <1>1, ManagerSafe, PTL

\* With an empty list and nobody in the monitor, m_nextTime is reset: the
\* next schedule wakes the thread up.
THEOREM NextTime == Spec => []NextTimeReset
<1>1. ManagerInv => NextTimeReset
  <2> SUFFICES ASSUME ManagerInv, NEW m \in Managers, mon[m] = None,
                      activities[m] = <<>>
               PROVE  wakeTime[m] = Never
    BY DEF NextTimeReset
  <2>1. pc[m] # "copying"
    BY ThreadSets DEF ManagerInv, ManagerOK
  <2> QED BY <2>1 DEF ManagerInv, ListOK
<1> QED BY <1>1, ManagerSafe, PTL

----------------------------------------------------------------------------
(* One thread per activity: SoleInv, on top of ManagerInv.                 *)
(*                                                                         *)
(* Between _schedule's test of isScheduled and its addition to the list    *)
(* no other thread schedules the same activity (OneScheduler), so that the *)
(* activity is still in no list when it is added.  A step then only has to *)
(* leave the other threads their control (Quiet) and what SoleThread says  *)
(* of them (OthersSole).                                                   *)

\* What the steps of a thread th leave to the others.
Quiet(th) ==
    /\ \A o \in Threads : o # th =>
          /\ ctx'[o] = ctx[o]
          /\ \/ pc'[o] = pc[o]
             \/ pc[o] \in {"new", "waiting"} /\ pc'[o] \in {"boot", "loop"}
    /\ \A k \in Managers : k > s_instance' => pc'[k] = pc[k]
    /\ \/ s_instance' = s_instance
       \/ /\ s_instance' = s_instance + 1
          /\ s_instance = 0 \/ pc[s_instance] = "dead"

\* Only the current manager's thread can be at work.
LEMMA OneManager ==
  ASSUME ManagerInv, SoleInv, NEW m \in Managers, pc[m] \notin {"new", "dead"}
  PROVE  m = s_instance /\ s_instance # 0
<1>1. s_instance \in Nat /\ m \in Nat /\ m >= 1
  BY ThreadSets DEF ManagerInv, ManagerTypeOK
<1>2. ~ (m < s_instance) /\ ~ (m > s_instance)
  BY DEF ManagerInv, ListOK, SoleInv, SoleList
<1> QED BY <1>1, <1>2

\* A thread that schedules is the client or the current manager.
LEMMA OneScheduler ==
  ASSUME SoleScheduler, ManagerInv, SoleInv, NEW t \in Threads, NEW o \in Threads,
         pc[t] \in Scheduling, pc[o] \in Scheduling, ctx[t].act = ctx[o].act
  PROVE  t = o
<1>1. t \in Managers <=> o \in Managers
  BY DEF SoleInv, SoleThread
<1>2. CASE t \in Managers
  <2>1. pc[t] \notin {"new", "dead"} /\ pc[o] \notin {"new", "dead"}
    BY DEF Scheduling
  <2> QED BY <1>1, <1>2, <2>1, OneManager
<1>3. CASE t \notin Managers
  BY <1>1, <1>3, ThreadSets DEF SoleScheduler
<1> QED BY <1>2, <1>3

\* While the client calls nothing, a new manager takes over only when the
\* old one's thread has ended, and then nobody schedules.
LEMMA NobodySchedules ==
  ASSUME SoleScheduler, ManagerInv, SoleInv, NEW c \in Clients, Quiet(c),
         NEW o \in Threads, o # c, pc[o] \in Scheduling \cup {"remove"}
  PROVE  s_instance' = s_instance
<1>1. o \in Managers
  BY ThreadSets DEF SoleScheduler
<1>2. pc[o] \in Scheduling
  BY <1>1 DEF ManagerInv, ManagerOK, ManagerLabels, Scheduling
<1>3. pc[o] \notin {"new", "dead"}
  BY <1>2 DEF Scheduling
<1>4. o = s_instance /\ s_instance # 0
  BY <1>1, <1>3, OneManager
<1> QED BY <1>3, <1>4 DEF Quiet

LEMMA OthersSole ==
  ASSUME SoleInv, NEW th \in Threads, Quiet(th), NEW o \in Threads, o # th,
         pc[o] \in Scheduling \cup {"remove"} => s_instance' = s_instance,
         pc[o] \in {"setStart", "add"} =>
            \A m \in Managers : Listed(ctx[o].act, m)' => Listed(ctx[o].act, m),
         pc[o] \in {"add", "mark"} => startTime'[ctx[o].act] = startTime[ctx[o].act]
  PROVE  SoleThread(o)'
<1>1. SoleThread(o) /\ ctx'[o] = ctx[o]
  BY DEF SoleInv, Quiet
<1>2. CASE pc'[o] = pc[o]
  <2>1. pc[o] \in {"setStart", "add"} => \A m \in Managers : ~ Listed(ctx[o].act, m)'
    BY <1>1 DEF SoleThread
  <2>2. pc[o] \in {"setStart", "add"} => \A m \in Managers : ~ Listed(ctx[o].act, m)
    BY <1>1 DEF SoleThread
  <2> QED BY <1>1, <1>2, <2>1 DEF SoleThread, Scheduling, Listed
<1>3. CASE pc'[o] \in {"boot", "loop"}
  BY <1>1, <1>3 DEF SoleThread, Scheduling
<1> QED BY <1>2, <1>3 DEF Quiet

\* A thread in the middle of adding stays there while the others go on.
LEMMA MarkingStays ==
  ASSUME NEW th \in Threads, Quiet(th), NEW a, NEW m, Marking(a, m),
         ~ (pc[th] = "mark" /\ ctx[th].act = a /\ ctx[th].mgr = m)
  PROVE  Marking(a, m)'
<1>1. PICK o \in Threads : pc[o] = "mark" /\ ctx[o].act = a /\ ctx[o].mgr = m
  BY DEF Marking
<1>2. o # th
  BY <1>1
<1>3. pc'[o] = "mark" /\ ctx'[o] = ctx[o]
  BY <1>1, <1>2 DEF Quiet
<1> QED BY <1>1, <1>3 DEF Marking

\* The lists stay as they are.
LEMMA ListsSole ==
  ASSUME ManagerInv, SoleInv, NEW th \in Threads, Quiet(th), pc[th] # "mark",
         activities' = activities, wakeTime' = wakeTime,
         isScheduled' = isScheduled, startTime' = startTime
  PROVE  \A m \in Managers : SoleList(m)'
<1> SUFFICES ASSUME NEW m \in Managers PROVE SoleList(m)'
  OBVIOUS
<1>1. SoleList(m) /\ s_instance \in Int /\ m \in Int
  BY ThreadSets DEF SoleInv, ManagerInv, ManagerTypeOK
<1>2. m > s_instance' => pc'[m] = "new" /\ activities'[m] = <<>>
  <2>1. m > s_instance' => m > s_instance /\ pc'[m] = pc[m]
    BY <1>1 DEF Quiet
  <2> QED BY <1>1, <2>1 DEF SoleList
<1>3. \A a \in Activities : Marking(a, m) => Marking(a, m)'
  BY MarkingStays
<1>4. \A a \in Activities : \A k \in Managers : Listed(a, k)' <=> Listed(a, k)
  BY DEF Listed
<1> QED BY <1>1, <1>2, <1>3, <1>4 DEF SoleList

LEMMA ListsKeptSole ==
  ASSUME ManagerInv, SoleInv, NEW th \in Threads, Quiet(th), pc[th] # "mark",
         activities' = activities, wakeTime' = wakeTime,
         isScheduled' = isScheduled, startTime' = startTime,
         \A o \in Threads : o # th /\ pc[o] \in Scheduling \cup {"remove"} =>
            s_instance' = s_instance,
         listeners' \in [Activities -> Seq(FollowerListener)],
         SoleThread(th)'
  PROVE  SoleInv'
<1>1. ASSUME NEW o \in Threads, o # th PROVE SoleThread(o)'
  <2>1. \A m \in Managers : Listed(ctx[o].act, m)' => Listed(ctx[o].act, m)
    <3>1. ctx'[o] = ctx[o]
      BY <1>1 DEF Quiet
    <3> QED BY <3>1 DEF Listed
  <2> QED BY <1>1, <2>1, OthersSole
<1> QED BY <1>1, ListsSole DEF SoleInv

\* A step that has nothing to do with the schedule.
Calm(th) ==
    /\ activities' = activities /\ wakeTime' = wakeTime
    /\ isScheduled' = isScheduled /\ startTime' = startTime
    /\ listeners' = listeners /\ s_instance' = s_instance
    /\ Quiet(th)
    /\ pc[th] # "mark" /\ pc'[th] \notin Scheduling \cup {"remove"}
    /\ \/ ctx'[th].todo \in {ctx[th].todo, <<>>}
       \/ \E a \in Activities : ctx'[th].todo = listeners[a]

LEMMA CalmSole ==
  ASSUME ManagerInv, SoleInv, NEW th \in Threads, Calm(th)
  PROVE  SoleInv'
<1>1. ctx'[th].todo \in Seq(FollowerListener)
  <2>1. /\ ctx[th].todo \in Seq(FollowerListener) /\ <<>> \in Seq(FollowerListener)
        /\ \A a \in Activities : listeners[a] \in Seq(FollowerListener)
    BY DEF SoleInv, SoleThread
  <2> QED BY <2>1 DEF Calm
<1>2. SoleThread(th)'
  BY <1>1 DEF SoleThread, Calm, Scheduling
<1>3. listeners' \in [Activities -> Seq(FollowerListener)]
  BY DEF SoleInv, Calm
<1> QED BY <1>2, <1>3, ListsKeptSole DEF Calm

LEMMA QuietGoto ==
  ASSUME ManagerTypeOK, NEW th \in Threads, NEW label, NEW l,
         pc[th] \notin {"new"} \/ th \in Clients, s_instance' = s_instance,
         \A k \in Managers : k > s_instance => pc[k] = "new",
         pc' = [pc EXCEPT ![th] = label], ctx' = [ctx EXCEPT ![th] = l]
  PROVE  Quiet(th) /\ pc'[th] = label /\ ctx'[th] = l
<1>1. /\ \A o \in Threads : o # th => ctx'[o] = ctx[o] /\ pc'[o] = pc[o]
      /\ pc'[th] = label /\ ctx'[th] = l
  BY DEF ManagerTypeOK
<1>2. \A k \in Managers : k > s_instance' => k # th /\ k \in Threads
  BY ThreadSets
<1> QED BY <1>1, <1>2 DEF Quiet

LEMMA Unborn ==
  ASSUME SoleInv
  PROVE  \A k \in Managers : k > s_instance => pc[k] = "new"
BY DEF SoleInv, SoleList

LEMMA LoopSole ==
  ASSUME ManagerInv, SoleInv, NEW m \in Managers,
         \/ Boot(m) \/ KeepRunning(m) \/ ActivityCount(m) \/ CopyEnter(m)
         \/ NotYetStarted(m) \/ NotYetDue(m) \/ StepActivity(m) \/ LastStep(m)
         \/ Throw(m) \/ Finish(m) \/ Fired(m) \/ AllRun(m) \/ Wait(m) \/ Timeout(m)
  PROVE  SoleInv' /\ Quiet(m)
<1> USE LoopFinds, Unborn DEF Scheduling
<1>0. NoLocals.todo = <<>>
  BY DEF NoLocals
<1>1. CASE Boot(m)
  <2>1. Quiet(m) /\ pc'[m] = "loop" /\ ctx'[m] = ctx[m]
    BY <1>1, QuietGoto DEF Boot, Goto
  <2> QED BY <1>1, <2>1, CalmSole DEF Calm, Boot, lists, flags, times
<1>2. CASE KeepRunning(m)
  <2> DEFINE x == IF keepRunning[m] THEN "count" ELSE "dead"
  <2>1. Quiet(m) /\ pc'[m] = x /\ ctx'[m] = NoLocals
    <3>1. pc' = [pc EXCEPT ![m] = x] /\ ctx' = [ctx EXCEPT ![m] = NoLocals]
      BY <1>2 DEF KeepRunning, Goto, Set
    <3> HIDE DEF x
    <3> QED BY <1>2, <3>1, QuietGoto DEF KeepRunning
  <2> QED BY <1>0, <1>2, <2>1, CalmSole DEF Calm, KeepRunning, lists, flags, times, manager
<1>3. CASE ActivityCount(m)
  <2>1. CASE activities[m] = <<>>
    <3>1. Quiet(m) /\ pc'[m] = "park" /\ ctx'[m] = ctx[m]
      BY <1>3, <2>1, QuietGoto DEF ActivityCount, Goto
    <3> QED BY <1>3, <3>1, CalmSole DEF Calm, ActivityCount, lists, flags, times, manager
  <2>2. CASE activities[m] # <<>>
    <3> DEFINE l == [ctx[m] EXCEPT !.current = now]
    <3>1. l.todo = ctx[m].todo
      BY DEF Locals
    <3>2. Quiet(m) /\ pc'[m] = "copy" /\ ctx'[m] = l
      <4>1. ctx' = [ctx EXCEPT ![m] = l]
        BY <1>3, <2>2 DEF ActivityCount
      <4> HIDE DEF l
      <4> QED BY <1>3, <2>2, <4>1, QuietGoto DEF ActivityCount, Goto
    <3> HIDE DEF l
    <3> QED BY <1>3, <3>1, <3>2, CalmSole DEF Calm, ActivityCount, lists, flags, times, manager
  <2> QED BY <2>1, <2>2
<1>4. CASE CopyEnter(m)
  <2> DEFINE l == [ctx[m] EXCEPT !.i = 1]
  <2>1. l.todo = ctx[m].todo
    BY DEF Locals
  <2>2. Quiet(m) /\ pc'[m] = "copying" /\ ctx'[m] = l
    <3>1. ctx' = [ctx EXCEPT ![m] = l]
      BY <1>4 DEF CopyEnter
    <3> HIDE DEF l
    <3> QED BY <1>4, <3>1, QuietGoto DEF CopyEnter, Goto
  <2> HIDE DEF l
  <2> QED BY <1>4, <2>1, <2>2, CalmSole DEF Calm, CopyEnter, lists, flags, times, manager
<1>5. ASSUME NEW s, Back(m, s)
      PROVE  \E l : ctx' = [ctx EXCEPT ![m] = l] /\ l.todo = ctx[m].todo
  <2> DEFINE l == [ctx[m] EXCEPT !.t = Earliest(s, ctx[m].t), !.i = ctx[m].i + 1]
  <2>1. ctx' = [ctx EXCEPT ![m] = l]
    BY <1>5 DEF Back
  <2>2. l.todo = ctx[m].todo
    BY DEF Locals
  <2> HIDE DEF l
  <2> QED BY <2>1, <2>2
<1>6. ASSUME NEW s, Back(m, s), pc' = pc, pc[m] = "running", s_instance' = s_instance
      PROVE  Quiet(m) /\ pc'[m] = "running" /\ ctx'[m].todo = ctx[m].todo
  <2>1. PICK l : ctx' = [ctx EXCEPT ![m] = l] /\ l.todo = ctx[m].todo
    BY <1>5, <1>6
  <2>2. pc' = [pc EXCEPT ![m] = "running"]
    BY <1>6
  <2> QED BY <1>6, <2>1, <2>2, QuietGoto
<1>7. CASE NotYetStarted(m)
  <2>1. Quiet(m) /\ pc'[m] = "running" /\ ctx'[m].todo = ctx[m].todo
    BY <1>6, <1>7 DEF NotYetStarted, CallsRunActivity
  <2> QED BY <1>7, <2>1, CalmSole
      DEF Calm, NotYetStarted, CallsRunActivity, lists, flags, times, manager
<1>8. CASE NotYetDue(m)
  <2>1. Quiet(m) /\ pc'[m] = "running" /\ ctx'[m].todo = ctx[m].todo
    BY <1>6, <1>8 DEF NotYetDue, CallsRunActivity
  <2> QED BY <1>8, <2>1, CalmSole
      DEF Calm, NotYetDue, CallsRunActivity, lists, flags, times, manager
<1>9. CASE StepActivity(m)
  <2>1. Quiet(m) /\ pc'[m] = "running" /\ ctx'[m].todo = ctx[m].todo
    BY <1>6, <1>9 DEF StepActivity, CallsRunActivity
  <2> QED BY <1>9, <2>1, CalmSole
      DEF Calm, StepActivity, CallsRunActivity, lists, manager
<1>10. CASE LastStep(m)
  <2>1. Quiet(m) /\ pc'[m] = "ending" /\ ctx'[m] = ctx[m]
    BY <1>10, QuietGoto DEF LastStep, CallsRunActivity, Goto
  <2> QED BY <1>10, <2>1, CalmSole DEF Calm, LastStep, CallsRunActivity, lists, times, manager
<1>11. CASE Throw(m)
  <2>1. Quiet(m) /\ pc'[m] = "dead" /\ ctx'[m] = NoLocals
    BY <1>11, QuietGoto DEF Throw, CallsRunActivity, Goto, Set
  <2> QED BY <1>0, <1>11, <2>1, CalmSole DEF Calm, Throw, CallsRunActivity, lists, times, manager
<1>12. CASE Finish(m)
  <2> DEFINE a == Current(m)  l == [ctx[m] EXCEPT !.of = a, !.todo = listeners[a]]
  <2>1. a \in Activities
    BY <1>12, CurrentOK DEF Finish, ManagerOK
  <2>2. l.todo = listeners[a]
    BY DEF Locals
  <2>3. Quiet(m) /\ pc'[m] = "firing" /\ ctx'[m] = l
    <3>1. ctx' = [ctx EXCEPT ![m] = l]
      BY <1>12 DEF Finish, ToFire
    <3> HIDE DEF l
    <3> QED BY <1>12, <3>1, QuietGoto DEF Finish, Goto
  <2> HIDE DEF l, a
  <2> QED BY <1>12, <2>1, <2>2, <2>3, CalmSole DEF Calm, Finish, lists, times, manager
<1>13. CASE Fired(m)
  <2> DEFINE l == [ctx[m] EXCEPT !.i = ctx[m].i + 1, !.of = None]
  <2>1. l.todo = ctx[m].todo
    BY DEF Locals
  <2>2. Quiet(m) /\ pc'[m] = "running" /\ ctx'[m] = l
    <3>1. ctx' = [ctx EXCEPT ![m] = l]
      BY <1>13 DEF Fired
    <3> HIDE DEF l
    <3> QED BY <1>13, <3>1, QuietGoto DEF Fired, Goto
  <2> HIDE DEF l
  <2> QED BY <1>13, <2>1, <2>2, CalmSole DEF Calm, Fired, lists, flags, times, manager
<1>14. CASE AllRun(m)
  <2> DEFINE x == IF ctx[m].t = -1 THEN "loop" ELSE "nap"
  <2>1. Quiet(m) /\ pc'[m] = x /\ ctx'[m] = ctx[m]
    <3>1. pc' = [pc EXCEPT ![m] = x]
      BY <1>14 DEF AllRun, Goto
    <3> HIDE DEF x
    <3> QED BY <1>14, <3>1, QuietGoto DEF AllRun
  <2> QED BY <1>14, <2>1, CalmSole DEF Calm, AllRun, flags, times, manager
<1>15. CASE Wait(m)
  <2>1. PICK w : ctx' = [ctx EXCEPT ![m] = [NoLocals EXCEPT !.wake = w]]
    BY <1>15 DEF Wait, Set
  <2> DEFINE l == [NoLocals EXCEPT !.wake = w]
  <2>2. l.todo = <<>>
    BY DEF NoLocals
  <2>3. Quiet(m) /\ pc'[m] = "waiting" /\ ctx'[m] = l
    <3>1. ctx' = [ctx EXCEPT ![m] = l]
      BY <2>1
    <3> HIDE DEF l
    <3> QED BY <1>15, <3>1, QuietGoto DEF Wait, Goto
  <2> HIDE DEF l
  <2> QED BY <1>15, <2>2, <2>3, CalmSole DEF Calm, Wait, lists, flags, times, manager
<1>16. CASE Timeout(m)
  <2>1. Quiet(m) /\ pc'[m] = "loop" /\ ctx'[m] = ctx[m]
    BY <1>16, QuietGoto DEF Timeout, Goto
  <2> QED BY <1>16, <2>1, CalmSole DEF Calm, Timeout, lists, flags, times, manager
<1> QED BY <1>1, <1>2, <1>3, <1>4, <1>7, <1>8, <1>9, <1>10, <1>11, <1>12, <1>13,
           <1>14, <1>15, <1>16

\* getInstance seen from the other threads.
LEMMA QuietInstance ==
  ASSUME ManagerTypeOK, SoleInv, NEW th \in Threads, NEW label \in Labels,
         label # "new", GetInstance(th, label), th \in Clients \/ th = s_instance,
         NEW l, ctx' = [ctx EXCEPT ![th] = l]
  PROVE  /\ Quiet(th) /\ pc'[th] = label /\ ctx'[th] = l
         /\ s_instance' = Instance
<1>1. /\ s_instance' \in 1 .. MaxManagers /\ s_instance' = Instance
      /\ s_instance' >= s_instance
      /\ \/ s_instance' = s_instance
         \/ /\ s_instance' = s_instance + 1
            /\ s_instance = 0 \/ pc[s_instance] = "dead"
      /\ pc'[th] = label
      /\ \A o \in Threads : o # th =>
            \/ pc'[o] = pc[o]
            \/ o \in Managers /\ pc[o] = "new" /\ pc'[o] = "boot"
  BY GetInstanceOK
<1>2. ctx'[th] = l /\ \A o \in Threads : o # th => ctx'[o] = ctx[o]
  BY DEF ManagerTypeOK
<1>3. ASSUME NEW k \in Managers, k > s_instance' PROVE pc'[k] = pc[k]
  <2>1. s_instance \in Int /\ k \in Threads /\ s_instance' \in Int
    BY <1>1, ThreadSets DEF ManagerTypeOK
  <2>2. k # th /\ k # Instance
    BY <1>1, <1>3, <2>1, ThreadSets
  <2> QED BY <2>1, <2>2 DEF GetInstance, ManagerTypeOK
<1> QED BY <1>1, <1>2, <1>3 DEF Quiet

LEMMA ScheduleAtSole ==
  ASSUME SoleScheduler, ManagerInv, SoleInv, NEW c \in Clients,
         NEW a \in Activities \ Followers, NEW time \in Times, ScheduleAt(c, a, time)
  PROVE  SoleInv' /\ Quiet(c)
<1>1. ManagerTypeOK /\ pc[c] = "idle" /\ c \in Threads /\ c \notin Managers
  BY InvokeOK, ThreadSets DEF ManagerInv, ScheduleAt
<1> DEFINE l == [NoLocals EXCEPT !.act = a, !.at = time, !.mgr = Instance]
<1>2. l.act = a /\ l.mgr = Instance /\ l.todo = <<>>
  BY DEF NoLocals
<1>3. ctx' = [ctx EXCEPT ![c] = l]
  BY DEF ScheduleAt, Set
<1> HIDE DEF l
<1>4. /\ Quiet(c) /\ pc'[c] = "check" /\ ctx'[c] = l /\ s_instance' = Instance
  <2>1. "check" \in Labels /\ "check" # "new"
    BY DEF Labels, ClientLabels, Scheduling
  <2> QED BY <1>1, <1>3, <2>1, QuietInstance DEF ScheduleAt
<1>5. SoleThread(c)'
  <2>1. ctx'[c].todo \in Seq(FollowerListener)
    <3>1. ctx'[c].todo = <<>> /\ <<>> \in Seq(FollowerListener)
      BY <1>2, <1>4
    <3> QED BY <3>1
  <2>2. c \in Managers <=> ctx'[c].act \in Followers
    BY <1>1, <1>2, <1>4
  <2>3. ctx'[c].mgr = s_instance'
    BY <1>2, <1>4
  <2> QED BY <1>4, <2>1, <2>2, <2>3 DEF SoleThread, Scheduling
<1>6. listeners' \in [Activities -> Seq(FollowerListener)]
  BY DEF SoleInv, ScheduleAt
<1> QED BY <1>1, <1>4, <1>5, <1>6, ListsKeptSole, NobodySchedules
        DEF ScheduleAt, times, flags, lists, manager

LEMMA RunAfterSole ==
  ASSUME SoleScheduler, ManagerInv, SoleInv, NEW c \in Clients, RunAfter(c)
  PROVE  SoleInv' /\ Quiet(c)
<1>1. ManagerTypeOK /\ pc[c] = "idle" /\ c \in Threads
  BY InvokeOK, ThreadSets DEF ManagerInv, RunAfter
<1>2. PICK p \in RunAfters :
        /\ GetInstance(c, "idle")
        /\ listeners' = [listeners EXCEPT
              ![p[1]] = Append(@, [after |-> p[2], remove |-> p[3]])]
        /\ UNCHANGED <<now, times, flags, lists, manager, mon, ctx>>
  BY DEF RunAfter
<1>3. /\ Quiet(c) /\ pc'[c] = "idle" /\ ctx'[c] = ctx[c]
  <2>1. "idle" \in Labels /\ "idle" # "new"
    BY DEF Labels, ClientLabels
  <2>2. ctx' = [ctx EXCEPT ![c] = ctx[c]]
    BY <1>1, <1>2 DEF ManagerTypeOK
  <2> QED BY <1>1, <1>2, <2>1, <2>2, QuietInstance
<1>4. SoleThread(c)'
  <2>1. ctx[c].todo \in Seq(FollowerListener)
    BY <1>1 DEF SoleInv, SoleThread
  <2> QED BY <1>3, <2>1 DEF SoleThread, Scheduling
<1>5. listeners' \in [Activities -> Seq(FollowerListener)]
  <2>1. p[1] \in Activities /\ p[2] \in Followers /\ p[3] \in BOOLEAN
    BY ScriptAssumption DEF Followers
  <2>2. [after |-> p[2], remove |-> p[3]] \in FollowerListener
    BY <2>1 DEF FollowerListener
  <2> QED BY <1>2, <2>1, <2>2 DEF SoleInv
<1> QED BY <1>1, <1>2, <1>3, <1>4, <1>5, ListsKeptSole, NobodySchedules
        DEF times, flags, lists, manager

\* What a call that returns does to its thread.
LEMMA ReturnSole ==
  ASSUME ManagerTypeOK, NEW th \in Threads, ctx' = Returned(th)
  PROVE  /\ Resume(th) \in {"firing", "stopping", "idle"}
         /\ ctx'[th].todo \in {ctx[th].todo, <<>>}
         /\ \E l : ctx' = [ctx EXCEPT ![th] = l]
<1>1. Resume(th) \in {"firing", "stopping", "idle"}
  BY DEF Resume
<1> DEFINE l == IF Resume(th) = "idle" THEN NoLocals
                ELSE [ctx[th] EXCEPT !.act = None, !.mgr = 0, !.at = 0]
<1>2. ctx' = [ctx EXCEPT ![th] = l]
  BY DEF Returned
<1>3. ctx[th] \in Locals /\ ctx \in [Threads -> Locals]
  BY DEF ManagerTypeOK
<1>4. l.todo \in {ctx[th].todo, <<>>}
  <2>1. CASE Resume(th) = "idle"
    BY <2>1 DEF NoLocals
  <2>2. CASE Resume(th) # "idle"
    BY <1>3, <2>2 DEF Locals
  <2> QED BY <2>1, <2>2
<1> HIDE DEF l
<1>5. ctx'[th] = l
  BY <1>2, <1>3
<1> QED BY <1>1, <1>2, <1>4, <1>5

LEMMA ClientSole ==
  ASSUME ManagerInv, SoleInv, NEW c \in Clients,
         \/ Cancel(c) \/ StopThread(c) \/ CancelUnscheduled(c)
         \/ StopEnter(c) \/ StopOne(c) \/ StopDone(c)
  PROVE  SoleInv' /\ Quiet(c)
<1> USE Unborn DEF Scheduling
<1>0. /\ c \in Threads /\ c \notin Managers /\ ManagerTypeOK /\ NoLocals.todo = <<>>
      /\ ctx[c] \in Locals /\ ctx \in [Threads -> Locals]
      /\ ctx = [ctx EXCEPT ![c] = ctx[c]]
  BY ThreadSets DEF ManagerInv, ManagerTypeOK, NoLocals
<1>1. CASE Cancel(c)
  <2>1. PICK a \in Cancels : ctx' = [ctx EXCEPT ![c] = [NoLocals EXCEPT !.act = a]]
    BY <1>1 DEF Cancel, Set
  <2> DEFINE l == [NoLocals EXCEPT !.act = a]
  <2>2. l.todo = <<>>
    BY DEF NoLocals
  <2>3. Quiet(c) /\ pc'[c] = "cancel" /\ ctx'[c] = l
    <3>1. ctx' = [ctx EXCEPT ![c] = l]
      BY <2>1
    <3> HIDE DEF l
    <3> QED BY <1>0, <1>1, <3>1, QuietGoto DEF Cancel, Goto
  <2> HIDE DEF l
  <2> QED BY <1>0, <1>1, <2>2, <2>3, CalmSole
      DEF Calm, Cancel, Invoke, lists, flags, times, manager
<1>2. CASE StopThread(c)
  <2> DEFINE l == [NoLocals EXCEPT !.am = s_instance]
  <2>2. l.todo = <<>>
    BY DEF NoLocals
  <2>3. Quiet(c) /\ pc'[c] = "stop" /\ ctx'[c] = l
    <3>1. ctx' = [ctx EXCEPT ![c] = l]
      BY <1>2 DEF StopThread, Set
    <3> HIDE DEF l
    <3> QED BY <1>0, <1>2, <3>1, QuietGoto DEF StopThread, Goto
  <2> HIDE DEF l
  <2> QED BY <1>0, <1>2, <2>2, <2>3, CalmSole
      DEF Calm, StopThread, Invoke, lists, flags, times, manager
<1>3. CASE CancelUnscheduled(c)
  <2>1. /\ Resume(c) \in {"firing", "stopping", "idle"}
        /\ ctx'[c].todo \in {ctx[c].todo, <<>>}
        /\ \E l : ctx' = [ctx EXCEPT ![c] = l]
    BY <1>0, <1>3, ReturnSole DEF CancelUnscheduled, Return
  <2>2. Quiet(c) /\ pc'[c] = Resume(c)
    <3>1. PICK l : ctx' = [ctx EXCEPT ![c] = l]
      BY <2>1
    <3>2. pc' = [pc EXCEPT ![c] = Resume(c)] /\ s_instance' = s_instance
      BY <1>3 DEF CancelUnscheduled, Return, Goto
    <3>3. \A k \in Managers : k > s_instance => pc[k] = "new"
      BY Unborn
    <3> QED BY <1>0, <3>1, <3>2, <3>3, QuietGoto
  <2> QED BY <1>0, <1>3, <2>1, <2>2, CalmSole
      DEF Calm, CancelUnscheduled, lists, times, manager
<1>4. CASE StopEnter(c)
  <2> DEFINE l == [ctx[c] EXCEPT !.stopping = TRUE]
  <2>1. l.todo = ctx[c].todo
    BY <1>0 DEF Locals
  <2>2. Quiet(c) /\ pc'[c] = "stopping" /\ ctx'[c] = l
    <3>1. ctx' = [ctx EXCEPT ![c] = l]
      BY <1>4 DEF StopEnter
    <3> HIDE DEF l
    <3> QED BY <1>0, <1>4, <3>1, QuietGoto DEF StopEnter, Goto
  <2> HIDE DEF l
  <2> QED BY <1>0, <1>4, <2>1, <2>2, CalmSole
      DEF Calm, StopEnter, lists, flags, times, manager
<1>5. CASE StopOne(c)
  <2> DEFINE l == [ctx[c] EXCEPT !.act = Last(activities[ctx[c].am])]
  <2>1. l.todo = ctx[c].todo
    BY <1>0 DEF Locals
  <2>2. Quiet(c) /\ pc'[c] = "cancel" /\ ctx'[c] = l
    <3>1. ctx' = [ctx EXCEPT ![c] = l]
      BY <1>5 DEF StopOne
    <3> HIDE DEF l
    <3> QED BY <1>0, <1>5, <3>1, QuietGoto DEF StopOne, Goto
  <2> HIDE DEF l
  <2> QED BY <1>0, <1>5, <2>1, <2>2, CalmSole
      DEF Calm, StopOne, lists, flags, times, manager
<1>6. CASE StopDone(c)
  <2> DEFINE m == ctx[c].am
  <2>1. m \in Managers /\ ~ (m > s_instance)
    <3>1. ClientOK(c) /\ pc[c] = "stopping" /\ s_instance \in 0 .. MaxManagers
      BY <1>0, <1>6 DEF StopDone, ManagerInv, ManagerTypeOK
    <3> QED BY <3>1, ThreadSets DEF ClientOK, Stopping
  <2>2. /\ pc'[c] = "idle"
        /\ \A o \in Threads : o # c =>
            \/ pc'[o] = pc[o]
            \/ o \in Managers /\ pc[o] = "waiting" /\ pc'[o] = "loop"
    <3>1. "idle" \in Labels
      BY DEF Labels, ClientLabels
    <3> QED BY <1>0, <1>6, <2>1, <3>1, NotifiedOK DEF StopDone
  <2>3. ctx'[c] = NoLocals /\ \A o \in Threads : o # c => ctx'[o] = ctx[o]
    BY <1>0, <1>6 DEF StopDone
  <2>4. \A k \in Managers : k > s_instance => pc'[k] = pc[k]
    <3>1. \A k \in Managers : k > s_instance => pc[k] = "new" /\ k # c /\ k \in Threads
      BY <1>0, ThreadSets
    <3> QED BY <2>2, <3>1
  <2> QED BY <1>0, <1>6, <2>2, <2>3, <2>4, CalmSole
      DEF Calm, Quiet, StopDone, lists, flags, times
<1> QED BY <1>1, <1>2, <1>3, <1>4, <1>5, <1>6

\* What a thread inside _schedule finds.
LEMMA ScheduleFinds ==
  ASSUME ManagerInv, SoleInv, NEW th \in Threads, pc[th] \in Scheduling
  PROVE  /\ ManagerTypeOK /\ ctx[th] \in Locals
         /\ ctx[th].act \in Activities /\ ctx[th].mgr = s_instance
         /\ s_instance \in Managers /\ ctx[th].at \in Times
         /\ ctx[th].todo \in Seq(FollowerListener)
         /\ th \in Managers <=> ctx[th].act \in Followers
         /\ th \in Clients \/ ~ (th > s_instance)
<1>1. ManagerTypeOK /\ ctx[th] \in Locals /\ s_instance \in 0 .. MaxManagers
  BY DEF ManagerInv, ManagerTypeOK
<1>2. ctx[th].act \in Activities /\ ctx[th].mgr \in 1 .. s_instance
  BY DEF ManagerInv, ScheduleOK
<1>3. /\ ctx[th].mgr = s_instance /\ ctx[th].todo \in Seq(FollowerListener)
      /\ th \in Managers <=> ctx[th].act \in Followers
  BY DEF SoleInv, SoleThread
<1>4. s_instance \in Managers
  BY <1>1, <1>2, <1>3, ThreadSets
<1>5. th \in Managers => th = s_instance
  BY OneManager DEF Scheduling
<1> QED BY <1>1, <1>2, <1>3, <1>4, <1>5, ThreadSets DEF Locals

LEMMA CheckScheduledSole ==
  ASSUME SoleScheduler, ManagerInv, SoleInv, NEW th \in Threads, CheckScheduled(th)
  PROVE  SoleInv' /\ Quiet(th)
<1> DEFINE a == ctx[th].act
<1>1. pc[th] = "check" /\ pc[th] \in Scheduling
  BY DEF CheckScheduled, Scheduling
<1>2. \A k \in Managers : k > s_instance => pc[k] = "new"
  BY Unborn
<1>3. CASE AlreadyScheduled(a)
  <2>1. /\ Resume(th) \in {"firing", "stopping", "idle"}
        /\ ctx'[th].todo \in {ctx[th].todo, <<>>}
        /\ \E l : ctx' = [ctx EXCEPT ![th] = l]
    BY <1>1, <1>3, ScheduleFinds, ReturnSole DEF CheckScheduled, Return
  <2>2. Quiet(th) /\ pc'[th] = Resume(th)
    <3>1. PICK l : ctx' = [ctx EXCEPT ![th] = l]
      BY <2>1
    <3>2. pc' = [pc EXCEPT ![th] = Resume(th)] /\ s_instance' = s_instance
      BY <1>3 DEF CheckScheduled, Return, Goto
    <3> QED BY <1>1, <1>2, <3>1, <3>2, ScheduleFinds, QuietGoto
  <2> QED BY <1>1, <2>1, <2>2, CalmSole
      DEF Calm, CheckScheduled, Scheduling, lists, flags, times, manager
<1>4. CASE ~ AlreadyScheduled(a)
  <2>1. Quiet(th) /\ pc'[th] = "setStart" /\ ctx' = ctx /\ s_instance' = s_instance
    <3>1. /\ pc' = [pc EXCEPT ![th] = "setStart"] /\ ctx' = ctx
          /\ s_instance' = s_instance
      BY <1>4 DEF CheckScheduled, Goto
    <3>2. ctx' = [ctx EXCEPT ![th] = ctx[th]]
      BY <1>1, <3>1, ScheduleFinds DEF ManagerTypeOK
    <3> QED BY ZenonT(40), <1>1, <1>2, <3>1, <3>2, ScheduleFinds, QuietGoto
  <2>2. ASSUME NEW m \in Managers, Listed(a, m) PROVE FALSE
    <3>1. a \in Activities /\ ~ isScheduled[a]
      BY <1>1, <1>4, ScheduleFinds DEF AlreadyScheduled
    <3>2. Marking(a, m)
      BY <2>2, <3>1 DEF SoleInv, SoleList
    <3>3. PICK o \in Threads : pc[o] = "mark" /\ ctx[o].act = a
      BY <3>2 DEF Marking
    <3>4. o = th
      BY <1>1, <3>3, OneScheduler DEF Scheduling
    <3> QED BY <1>1, <3>3, <3>4
  <2>3. \A m \in Managers : ~ Listed(a, m)'
    BY <2>1, <2>2 DEF CheckScheduled, lists, Listed
  <2>4. SoleThread(th)'
    BY <1>1, <2>1, <2>3, ScheduleFinds DEF SoleThread, Scheduling
  <2>5. listeners' \in [Activities -> Seq(FollowerListener)]
    BY DEF SoleInv, CheckScheduled
  <2> QED BY <1>1, <2>1, <2>4, <2>5, ListsKeptSole
      DEF CheckScheduled, lists, flags, times, manager
<1> QED BY <1>3, <1>4

LEMMA SetStartTimeSole ==
  ASSUME SoleScheduler, ManagerInv, SoleInv, NEW th \in Threads, SetStartTime(th)
  PROVE  SoleInv' /\ Quiet(th)
<1> DEFINE a == ctx[th].act
<1>1. pc[th] = "setStart" /\ pc[th] \in Scheduling
  BY DEF SetStartTime, Scheduling
<1>2. /\ a \in Activities /\ ManagerTypeOK
      /\ \A m \in Managers : ~ Listed(a, m)
  BY <1>1, ScheduleFinds DEF SoleInv, SoleThread
<1>3. Quiet(th) /\ pc'[th] = "add" /\ ctx' = ctx /\ s_instance' = s_instance
  <2>1. /\ pc' = [pc EXCEPT ![th] = "add"] /\ ctx' = ctx /\ s_instance' = s_instance
    BY DEF SetStartTime, Goto
  <2>2. ctx' = [ctx EXCEPT ![th] = ctx[th]]
    BY <1>2, <2>1 DEF ManagerTypeOK
  <2> QED BY <1>1, <1>2, <2>1, <2>2, Unborn, QuietGoto
<1>4. /\ startTime'[a] = ctx[th].at
      /\ \A e : e # a => startTime'[e] = startTime[e]
      /\ activities' = activities /\ wakeTime' = wakeTime /\ isScheduled' = isScheduled
      /\ listeners' = listeners
  <2>1. startTime' = [startTime EXCEPT ![a] = ctx[th].at]
    BY DEF SetStartTime
  <2>2. startTime \in [Activities -> Times]
    BY <1>2 DEF ManagerTypeOK
  <2> QED BY <1>2, <2>1, <2>2 DEF SetStartTime, lists, flags, manager
<1>5. SoleThread(th)'
  <2>1. \A m \in Managers : ~ Listed(a, m)'
    BY <1>2, <1>3, <1>4 DEF Listed
  <2> QED BY <1>1, <1>3, <1>4, <2>1, ScheduleFinds DEF SoleThread, Scheduling
<1>6. ASSUME NEW o \in Threads, o # th PROVE SoleThread(o)'
  <2>1. \A m \in Managers : Listed(ctx[o].act, m)' => Listed(ctx[o].act, m)
    BY <1>3, <1>4 DEF Listed
  <2>2. pc[o] \in {"add", "mark"} => ctx[o].act # a
    BY <1>1, <1>6, OneScheduler DEF Scheduling
  <2> QED BY <1>3, <1>4, <1>6, <2>1, <2>2, OthersSole
<1>7. ASSUME NEW m \in Managers PROVE SoleList(m)'
  <2>1. SoleList(m)
    BY DEF SoleInv
  <2>2. \A e \in Activities : Marking(e, m) => Marking(e, m)'
    BY <1>1, <1>3, MarkingStays
  <2>3. \A e \in Activities : \A k \in Managers : Listed(e, k)' <=> Listed(e, k)
    BY <1>4 DEF Listed
  <2>4. \A e \in Activities : Listed(e, m) => startTime'[e] = startTime[e]
    BY <1>2, <1>4
  <2>5. m > s_instance' => pc'[m] = pc[m]
    BY <1>3 DEF Quiet
  <2> QED BY <1>3, <1>4, <2>1, <2>2, <2>3, <2>4, <2>5 DEF SoleList
<1> QED BY <1>3, <1>4, <1>5, <1>6, <1>7 DEF SoleInv

LEMMA AddSole ==
  ASSUME SoleScheduler, ManagerInv, SoleInv, NEW th \in Threads, Add(th)
  PROVE  SoleInv' /\ Quiet(th)
<1> DEFINE a == ctx[th].act  m == s_instance
<1>1. pc[th] = "add" /\ pc[th] \in Scheduling
  BY DEF Add, Scheduling
<1>2. /\ a \in Activities /\ ManagerTypeOK /\ ctx[th].mgr = m /\ m \in Managers
      /\ startTime[a] = ctx[th].at /\ \A k \in Managers : ~ Listed(a, k)
  BY <1>1, ScheduleFinds DEF SoleInv, SoleThread
<1>3. Quiet(th) /\ pc'[th] = "mark" /\ ctx' = ctx /\ s_instance' = s_instance
  <2>1. /\ pc' = [pc EXCEPT ![th] = "mark"] /\ ctx' = ctx /\ s_instance' = s_instance
    BY DEF Add, Goto
  <2>2. ctx' = [ctx EXCEPT ![th] = ctx[th]]
    BY <1>2, <2>1 DEF ManagerTypeOK
  <2> QED BY ZenonT(40), <1>1, <1>2, <2>1, <2>2, Unborn, QuietGoto
<1>4. /\ startTime' = startTime /\ wakeTime' = wakeTime /\ isScheduled' = isScheduled
      /\ listeners' = listeners
  BY DEF Add, times, flags, manager
<1>5. /\ activities'[m] = Append(activities[m], a) /\ activities[m] \in Seq(Activities)
      /\ \A k \in Managers : k # m => activities'[k] = activities[k]
  BY <1>2 DEF Add, ManagerTypeOK
<1>6. /\ IsInjective(Append(activities[m], a))
      /\ \A e : Contains(Append(activities[m], a), e) => e = a \/ Contains(activities[m], e)
  <2>1. IsInjective(activities[m]) /\ ~ Contains(activities[m], a)
    BY <1>2 DEF SoleInv, SoleList, Listed
  <2> QED BY <1>2, <1>5, <2>1, InjectiveAppend
<1> HIDE DEF m, a
<1>7. /\ \A e : \A k \in Managers :
            Contains(activities'[k], e) /\ e # a => Contains(activities[k], e)
      /\ \A k \in Managers : Contains(activities'[k], a) => k = m
  BY <1>2, <1>5, <1>6 DEF Listed
<1>8. SoleThread(th)'
  <2>1. ctx[th].todo \in Seq(FollowerListener) /\ (th \in Managers <=> a \in Followers)
    BY <1>1, ScheduleFinds DEF a
  <2> QED BY <1>2, <1>3, <1>4, <2>1 DEF SoleThread, a, m
<1>9. ASSUME NEW o \in Threads, o # th PROVE SoleThread(o)'
  <2>1. pc[o] \in Scheduling => ctx[o].act # a
    BY <1>1, <1>9, OneScheduler DEF a
  <2>2. pc[o] \in {"setStart", "add"} =>
          \A k \in Managers : Listed(ctx[o].act, k)' => Listed(ctx[o].act, k)
    <3>1. ctx'[o] = ctx[o]
      BY <1>3
    <3> QED BY <1>7, <2>1, <3>1 DEF Scheduling, Listed
  <2> QED BY <1>3, <1>4, <1>9, <2>2, OthersSole
<1>10. ASSUME NEW k \in Managers PROVE SoleList(k)'
  <2>1. SoleList(k) /\ k \in Int /\ m \in Int
    BY <1>2, ThreadSets DEF SoleInv
  <2>2. k > s_instance' => pc'[k] = "new" /\ activities'[k] = <<>>
    <3>1. k > s_instance' => k # m /\ pc'[k] = pc[k] /\ k > s_instance
      BY <1>3, <2>1 DEF Quiet, m
    <3> QED BY <1>5, <2>1, <3>1 DEF SoleList
  <2>3. IsInjective(activities'[k])
    BY <1>5, <1>6, <2>1 DEF SoleList
  <2>4. ASSUME NEW e \in Activities, Listed(e, k)'
        PROVE  /\ \A j \in Managers : Listed(e, j)' => j = k
               /\ Marking(e, k)' \/ (isScheduled'[e] /\ wakeTime'[k] <= startTime'[e])
    <3>1. CASE e = a
      <4>1. k = m
        BY <1>7, <2>4, <3>1 DEF Listed
      <4>2. Marking(e, k)'
        BY <1>2, <1>3, <3>1, <4>1 DEF Marking, a
      <4> QED BY <1>7, <3>1, <4>1, <4>2 DEF Listed
    <3>2. CASE e # a
      <4>1. Listed(e, k) /\ \A j \in Managers : Listed(e, j)' => Listed(e, j)
        BY <1>7, <2>4, <3>2 DEF Listed
      <4>2. Marking(e, k) => Marking(e, k)'
        BY <1>1, <1>3, MarkingStays
      <4> QED BY <1>4, <2>1, <4>1, <4>2 DEF SoleList
    <3> QED BY <3>1, <3>2
  <2> QED BY <2>2, <2>3, <2>4 DEF SoleList
<1> QED BY <1>3, <1>4, <1>8, <1>9, <1>10 DEF SoleInv

LEMMA MarkSole ==
  ASSUME SoleScheduler, ManagerInv, SoleInv, NEW th \in Threads, Mark(th)
  PROVE  SoleInv' /\ Quiet(th)
<1> DEFINE a == ctx[th].act  m == s_instance  sooner == ctx[th].at < wakeTime[m]
<1>1. pc[th] = "mark" /\ pc[th] \in Scheduling
  BY DEF Mark, Scheduling
<1>2. /\ a \in Activities /\ ManagerTypeOK /\ ctx[th].mgr = m /\ m \in Managers
      /\ startTime[a] = ctx[th].at /\ ctx[th].at \in Times
  BY <1>1, ScheduleFinds DEF SoleInv, SoleThread
<1>3. /\ startTime' = startTime /\ activities' = activities /\ listeners' = listeners
      /\ s_instance' = s_instance
  BY DEF Mark, times, lists
<1>4. /\ isScheduled'[a] /\ \A e \in Activities : isScheduled[e] => isScheduled'[e]
  BY <1>2 DEF Mark, ManagerTypeOK
<1>5. /\ wakeTime'[m] <= startTime[a]
      /\ \A k \in Managers : wakeTime'[k] <= wakeTime[k]
      /\ \A k \in Managers : wakeTime[k] \in Int /\ wakeTime'[k] \in Int
      /\ \A e \in Activities : startTime[e] \in Int
  <2>1. wakeTime' = [wakeTime EXCEPT ![m] = IF sooner THEN ctx[th].at ELSE @]
    BY <1>2 DEF Mark
  <2>2. /\ wakeTime \in [Managers -> Times \cup {Never}] /\ startTime \in [Activities -> Times]
        /\ Never \in Int /\ Times \subseteq Int
    BY <1>2, ThreadSets DEF ManagerTypeOK
  <2> HIDE DEF m, a
  <2>3. \A k \in Managers : wakeTime[k] \in Int
    BY <2>2
  <2>4. \A k \in Managers : k # m => wakeTime'[k] = wakeTime[k]
    BY <2>1, <2>2
  <2>5. wakeTime'[m] = IF sooner THEN ctx[th].at ELSE wakeTime[m]
    BY <1>2, <2>1, <2>2
  <2>6. /\ ctx[th].at \in Int /\ wakeTime'[m] \in Int
        /\ wakeTime'[m] <= startTime[a] /\ wakeTime'[m] <= wakeTime[m]
    <3>1. ctx[th].at \in Int /\ wakeTime[m] \in Int
      BY <1>2, <2>2, <2>3
    <3>2. CASE sooner
      BY <1>2, <2>5, <3>1, <3>2
    <3>3. CASE ~ sooner
      BY <1>2, <2>5, <3>1, <3>3
    <3> QED BY <3>2, <3>3
  <2>7. ASSUME NEW k \in Managers
        PROVE  wakeTime'[k] <= wakeTime[k] /\ wakeTime'[k] \in Int
    BY <2>3, <2>4, <2>6
  <2>8. \A e \in Activities : startTime[e] \in Int
    BY <2>2
  <2> QED BY <2>3, <2>6, <2>7, <2>8
<1>6. /\ Quiet(th) /\ pc'[th] \in {"firing", "stopping", "idle"}
      /\ ctx'[th].todo \in {ctx[th].todo, <<>>}
  <2>1. /\ Resume(th) \in {"firing", "stopping", "idle"}
        /\ ctx'[th].todo \in {ctx[th].todo, <<>>}
        /\ \E l : ctx' = [ctx EXCEPT ![th] = l]
    BY <1>2, ReturnSole DEF Mark
  <2>2. \A o \in Threads : o # th => ctx'[o] = ctx[o]
    BY <1>2, <2>1 DEF ManagerTypeOK
  <2>3. /\ pc'[th] = Resume(th)
        /\ \A o \in Threads : o # th =>
              \/ pc'[o] = pc[o]
              \/ o \in Managers /\ pc[o] = "waiting" /\ pc'[o] = "loop"
    <3>1. Resume(th) \in Labels /\ Resume(th) # "waiting"
      BY <2>1 DEF Labels, ClientLabels, ManagerLabels
    <3>2. CASE sooner
      BY <1>2, <3>1, <3>2, NotifiedOK DEF Mark
    <3>3. CASE ~ sooner
      BY <1>2, <3>3 DEF Mark, Goto, ManagerTypeOK
    <3> QED BY <3>2, <3>3
  <2>4. ASSUME NEW k \in Managers, k > s_instance' PROVE pc'[k] = pc[k]
    <3>1. pc[k] = "new" /\ k # th /\ k \in Threads
      BY <1>1, <1>3, <2>4, Unborn, ThreadSets
    <3> QED BY <2>3, <3>1
  <2> QED BY <1>3, <2>1, <2>2, <2>3, <2>4 DEF Quiet
<1>7. SoleThread(th)'
  <2>1. ctx'[th].todo \in Seq(FollowerListener)
    <3>1. ctx[th].todo \in Seq(FollowerListener) /\ <<>> \in Seq(FollowerListener)
      BY <1>1, ScheduleFinds
    <3> QED BY <1>6, <3>1
  <2> QED BY <1>6, <2>1 DEF SoleThread, Scheduling
<1>8. ASSUME NEW o \in Threads, o # th PROVE SoleThread(o)'
  <2>1. \A k \in Managers : Listed(ctx[o].act, k)' => Listed(ctx[o].act, k)
    <3>1. ctx'[o] = ctx[o]
      BY <1>6, <1>8 DEF Quiet
    <3> QED BY <1>3, <3>1 DEF Listed
  <2> QED BY <1>3, <1>6, <1>8, <2>1, OthersSole
<1>9. ASSUME NEW k \in Managers PROVE SoleList(k)'
  <2>1. SoleList(k)
    BY DEF SoleInv
  <2>2. k > s_instance' => pc'[k] = pc[k]
    BY <1>6 DEF Quiet
  <2>3. \A e \in Activities : \A j \in Managers : Listed(e, j)' <=> Listed(e, j)
    BY <1>3 DEF Listed
  <2>4. ASSUME NEW e \in Activities, Listed(e, k)
        PROVE  Marking(e, k)' \/ (isScheduled'[e] /\ wakeTime'[k] <= startTime'[e])
    <3>1. CASE e = a /\ k = m
      BY <1>3, <1>4, <1>5, <3>1
    <3>2. CASE ~ (e = a /\ k = m)
      <4>1. CASE Marking(e, k)
        BY <1>2, <1>6, <3>2, <4>1, MarkingStays
      <4>2. CASE ~ Marking(e, k)
        <5>1. isScheduled[e] /\ wakeTime[k] <= startTime[e]
          BY <2>1, <2>4, <4>2 DEF SoleList
        <5>2. wakeTime'[k] <= wakeTime[k] /\ wakeTime[k] \in Int
              /\ wakeTime'[k] \in Int /\ startTime[e] \in Int
          BY <1>5
        <5>3. wakeTime'[k] <= startTime[e]
          BY <5>1, <5>2
        <5> QED BY <1>3, <1>4, <5>1, <5>3
      <4> QED BY <4>1, <4>2
    <3> QED BY <3>1, <3>2
  <2> QED BY <1>3, <2>1, <2>2, <2>3, <2>4 DEF SoleList
<1>10. listeners' \in [Activities -> Seq(FollowerListener)]
  BY <1>3 DEF SoleInv
<1> QED BY <1>6, <1>7, <1>8, <1>9, <1>10 DEF SoleInv

LEMMA CancelScheduledSole ==
  ASSUME SoleScheduler, ManagerInv, SoleInv, NEW c \in Clients, CancelScheduled(c)
  PROVE  SoleInv' /\ Quiet(c)
<1>1. ManagerTypeOK /\ pc[c] = "cancel" /\ c \in Threads /\ ctx[c] \in Locals
  BY ThreadSets DEF CancelScheduled, ManagerInv, ManagerTypeOK
<1> DEFINE l == [ctx[c] EXCEPT !.mgr = Instance]
<1>2. l.todo = ctx[c].todo /\ l.mgr = Instance
  BY <1>1 DEF Locals
<1>3. ctx' = [ctx EXCEPT ![c] = l]
  BY DEF CancelScheduled
<1> HIDE DEF l
<1>4. Quiet(c) /\ pc'[c] = "remove" /\ ctx'[c] = l /\ s_instance' = Instance
  <2>1. "remove" \in Labels /\ "remove" # "new"
    BY DEF Labels, ClientLabels, Cancelling
  <2> QED BY <1>1, <1>3, <2>1, QuietInstance DEF CancelScheduled
<1>5. SoleThread(c)'
  <2>1. ctx[c].todo \in Seq(FollowerListener)
    BY <1>1 DEF SoleInv, SoleThread
  <2> QED BY <1>2, <1>4, <2>1 DEF SoleThread, Scheduling
<1>6. listeners' \in [Activities -> Seq(FollowerListener)]
  BY DEF SoleInv, CancelScheduled
<1> QED BY <1>1, <1>4, <1>5, <1>6, ListsKeptSole, NobodySchedules
        DEF CancelScheduled, times, flags, lists, manager

\* A step that only takes activities off the lists, and marks no other one.
LEMMA ShrunkSole ==
  ASSUME ManagerInv, SoleInv, NEW th \in Threads, Quiet(th), pc[th] # "mark",
         s_instance' = s_instance, startTime' = startTime, listeners' = listeners,
         \A k \in Managers : IsInjective(activities'[k]),
         \A k \in Managers : activities[k] = <<>> => activities'[k] = <<>>,
         \A k \in Managers : \A e \in Activities : Contains(activities'[k], e) =>
            /\ Contains(activities[k], e)
            /\ wakeTime'[k] = wakeTime[k] /\ isScheduled'[e] = isScheduled[e],
         SoleThread(th)'
  PROVE  SoleInv'
<1>1. \A k \in Managers : \A e \in Activities : Listed(e, k)' => Listed(e, k)
  BY DEF Listed
<1>2. ASSUME NEW o \in Threads, o # th PROVE SoleThread(o)'
  <2>1. pc[o] \in {"setStart", "add"} =>
          \A m \in Managers : Listed(ctx[o].act, m)' => Listed(ctx[o].act, m)
    <3>1. ctx'[o] = ctx[o]
      BY <1>2 DEF Quiet
    <3>2. pc[o] \in {"setStart", "add"} => ctx[o].act \in Activities
      BY ScheduleFinds DEF Scheduling
    <3> QED BY <3>1, <3>2 DEF Listed
  <2> QED BY <1>2, <2>1, OthersSole
<1>3. ASSUME NEW k \in Managers PROVE SoleList(k)'
  <2>1. SoleList(k)
    BY DEF SoleInv
  <2>2. k > s_instance' => pc'[k] = "new" /\ activities'[k] = <<>>
    BY <2>1 DEF SoleList, Quiet
  <2>3. ASSUME NEW e \in Activities, Listed(e, k)'
        PROVE  /\ \A j \in Managers : Listed(e, j)' => j = k
               /\ Marking(e, k)' \/ (isScheduled'[e] /\ wakeTime'[k] <= startTime'[e])
    <3>1. Listed(e, k) /\ \A j \in Managers : Listed(e, j)' => Listed(e, j)
      BY <1>1, <2>3
    <3>2. Marking(e, k) => Marking(e, k)'
      BY MarkingStays
    <3>3. wakeTime'[k] = wakeTime[k] /\ isScheduled'[e] = isScheduled[e]
      BY <2>3 DEF Listed
    <3> QED BY <2>1, <3>1, <3>2, <3>3 DEF SoleList
  <2> QED BY <2>2, <2>3 DEF SoleList
<1>4. listeners' \in [Activities -> Seq(FollowerListener)]
  BY DEF SoleInv
<1> QED BY <1>2, <1>3, <1>4 DEF SoleInv

LEMMA RemoveActivitySole ==
  ASSUME ManagerInv, SoleInv, NEW c \in Clients, RemoveActivity(c)
  PROVE  SoleInv' /\ Quiet(c)
<1> DEFINE a == ctx[c].act  m == ctx[c].mgr
           found == Contains(activities[m], a)
           left == RemoveFirst(activities[m], a)
<1>1. /\ ManagerTypeOK /\ pc[c] = "remove" /\ c \in Threads /\ ClientOK(c)
      /\ SoleThread(c) /\ s_instance' = s_instance /\ startTime' = startTime
      /\ listeners' = listeners /\ ctx' = ctx
  BY ThreadSets DEF RemoveActivity, ManagerInv, SoleInv, times
<1>2. a \in Activities /\ m \in Managers /\ activities[m] \in Seq(Activities)
  <2>1. a \in Activities /\ m \in 1 .. s_instance /\ s_instance \in 0 .. MaxManagers
    BY <1>1 DEF ClientOK, Cancelling, ManagerTypeOK
  <2>2. m \in Managers
    BY <2>1, ThreadSets
  <2> QED BY <1>1, <2>1, <2>2 DEF ManagerTypeOK
<1>3. Quiet(c) /\ pc'[c] = "fireCancelled"
  <2>1. pc' = [pc EXCEPT ![c] = "fireCancelled"]
    BY DEF RemoveActivity, Goto
  <2>2. ctx' = [ctx EXCEPT ![c] = ctx[c]]
    BY <1>1 DEF ManagerTypeOK
  <2> QED BY <1>1, <2>1, <2>2, Unborn, QuietGoto
<1>4. SoleThread(c)'
  BY <1>1, <1>3 DEF SoleThread, Scheduling
<1>5. /\ activities' = [activities EXCEPT ![m] = left]
      /\ wakeTime' = [wakeTime EXCEPT
            ![m] = IF found THEN ResetWhenEmpty(left, @) ELSE @]
      /\ isScheduled' = IF found THEN [isScheduled EXCEPT ![a] = FALSE] ELSE isScheduled
  BY DEF RemoveActivity, Unscheduled
<1>6. /\ IsInjective(left) /\ ~ Contains(left, a)
      /\ \A e : Contains(left, e) => Contains(activities[m], e)
      /\ activities[m] = <<>> => left = <<>>
  <2>1. IsInjective(activities[m])
    BY <1>2 DEF SoleInv, SoleList
  <2>2. activities[m] = <<>> => left = <<>>
    <3>1. activities[m] = <<>> => ~ found
      BY DEF Contains
    <3> QED BY <1>2, <3>1, RemoveFirstProperties
  <2> QED BY <1>2, <2>1, <2>2, InjectiveRemoveFirst
<1>7. \A k \in Managers : found /\ Contains(activities[k], a) => k = m
  BY <1>2 DEF SoleInv, SoleList, Listed
<1>8. \A e : Contains(left, e) => left # <<>>
  BY DEF Contains
<1> HIDE DEF found, left, a, m
<1>9. /\ activities'[m] = left
      /\ \A k \in Managers : k # m => activities'[k] = activities[k]
      /\ Contains(left, a) = FALSE
  BY <1>1, <1>2, <1>5, <1>6 DEF ManagerTypeOK
<1>10. \A k \in Managers : k # m \/ left # <<>> => wakeTime'[k] = wakeTime[k]
  BY <1>1, <1>2, <1>5 DEF ManagerTypeOK, ResetWhenEmpty
<1>11. \A e \in Activities : e # a \/ ~ found => isScheduled'[e] = isScheduled[e]
  BY <1>1, <1>2, <1>5 DEF ManagerTypeOK
<1>12. ASSUME NEW k \in Managers
       PROVE  /\ IsInjective(activities'[k])
              /\ activities[k] = <<>> => activities'[k] = <<>>
              /\ \A e \in Activities : Contains(activities'[k], e) =>
                    /\ Contains(activities[k], e)
                    /\ wakeTime'[k] = wakeTime[k] /\ isScheduled'[e] = isScheduled[e]
  <2>1. CASE k = m
    BY <1>6, <1>8, <1>9, <1>10, <1>11, <2>1
  <2>2. CASE k # m
    <3>1. IsInjective(activities[k])
      BY DEF SoleInv, SoleList
    <3> QED BY <1>7, <1>9, <1>10, <1>11, <2>2, <3>1
  <2> QED BY <2>1, <2>2
<1> QED BY <1>1, <1>3, <1>4, <1>12, ShrunkSole

LEMMA FireCancelledSole ==
  ASSUME ManagerInv, SoleInv, NEW c \in Clients, FireCancelled(c)
  PROVE  SoleInv' /\ Quiet(c)
<1>1. /\ ManagerTypeOK /\ pc[c] = "fireCancelled" /\ c \in Threads
      /\ ctx[c].act \in Activities /\ s_instance' = s_instance
      /\ SoleThread(c) /\ listeners \in [Activities -> Seq(FollowerListener)]
  BY ThreadSets DEF FireCancelled, ManagerInv, ClientOK, Cancelling, SoleInv
<1>2. /\ Resume(c) \in {"firing", "stopping", "idle"}
      /\ ctx'[c].todo \in {ctx[c].todo, <<>>}
      /\ \E l : ctx' = [ctx EXCEPT ![c] = l]
  BY <1>1, ReturnSole DEF FireCancelled, Return
<1>3. Quiet(c) /\ pc'[c] = Resume(c)
  <2>1. PICK l : ctx' = [ctx EXCEPT ![c] = l]
    BY <1>2
  <2>2. pc' = [pc EXCEPT ![c] = Resume(c)]
    BY DEF FireCancelled, Return, Goto
  <2> QED BY <1>1, <2>1, <2>2, Unborn, QuietGoto
<1>4. SoleThread(c)'
  <2>1. ctx[c].todo \in Seq(FollowerListener) /\ <<>> \in Seq(FollowerListener)
    BY <1>1 DEF SoleThread
  <2> QED BY <1>2, <1>3, <2>1 DEF SoleThread, Scheduling
<1>5. listeners' \in [Activities -> Seq(FollowerListener)]
  <2>1. Staying(listeners[ctx[c].act]) \in Seq(FollowerListener)
    BY <1>1, StayingType
  <2> QED BY <1>1, <2>1 DEF FireCancelled
<1> QED BY <1>1, <1>3, <1>4, <1>5, ListsKeptSole
        DEF FireCancelled, lists, flags, times, manager

LEMMA CopyOneSole ==
  ASSUME ManagerInv, SoleInv, NEW m \in Managers, CopyOne(m)
  PROVE  SoleInv' /\ Quiet(m)
<1> DEFINE i == ctx[m].i  a == activities[m][i]
           over == Reached(ctx[m].current, StopTime(a))
           rest == RemoveAt(activities[m], i)
           l == [ctx[m] EXCEPT !.i = NextIndex(i, over)]
<1>1. /\ ManagerTypeOK /\ m \in Threads /\ pc[m] = "copying" /\ i <= Len(activities[m])
      /\ s_instance' = s_instance /\ pc' = pc /\ wakeTime' = wakeTime
      /\ startTime' = startTime /\ listeners' = listeners
      /\ ctx[m] \in Locals /\ i \in Nat /\ i >= 1
  BY LoopFinds DEF CopyOne, manager, times
<1>2. activities[m] \in Seq(Activities) /\ i \in 1 .. Len(activities[m])
  <2>1. activities[m] \in Seq(Activities) /\ Len(activities[m]) \in Nat
    BY <1>1 DEF ManagerTypeOK
  <2> QED BY <1>1, <2>1
<1>3. a \in Activities
  BY <1>2
<1>4. /\ over => /\ activities' = [activities EXCEPT ![m] = rest]
                 /\ isScheduled' = [isScheduled EXCEPT ![a] = FALSE]
      /\ ~ over => activities' = activities /\ isScheduled' = isScheduled
      /\ ctx' = [ctx EXCEPT ![m] = l]
  BY DEF CopyOne, Unscheduled
<1>5. l.todo = ctx[m].todo
  BY <1>1 DEF Locals
<1>6. /\ IsInjective(rest) /\ ~ Contains(rest, a)
      /\ \A e : Contains(rest, e) => Contains(activities[m], e)
  <2>1. IsInjective(activities[m])
    BY DEF SoleInv, SoleList
  <2> QED BY <1>2, <2>1, InjectiveRemoveAt
<1>7. \A k \in Managers : Contains(activities[k], a) => k = m
  <2>1. Contains(activities[m], a)
    BY <1>2 DEF Contains
  <2> QED BY <1>3, <2>1 DEF SoleInv, SoleList, Listed
<1>8. activities[m] # <<>>
  BY <1>2
<1> HIDE DEF over, rest, a, l
<1>9. Quiet(m) /\ pc'[m] = "copying" /\ ctx'[m] = l
  <2>1. pc' = [pc EXCEPT ![m] = "copying"]
    BY <1>1, LoopFinds
  <2> QED BY <1>1, <1>4, <2>1, Unborn, QuietGoto
<1>10. SoleThread(m)'
  <2>1. ctx[m].todo \in Seq(FollowerListener)
    BY <1>1 DEF SoleInv, SoleThread
  <2> QED BY <1>5, <1>9, <2>1 DEF SoleThread, Scheduling
<1>11. /\ over => activities'[m] = rest
       /\ \A k \in Managers : k # m \/ ~ over => activities'[k] = activities[k]
       /\ \A e \in Activities : e # a \/ ~ over => isScheduled'[e] = isScheduled[e]
  BY <1>1, <1>3, <1>4 DEF ManagerTypeOK
<1>12. ASSUME NEW k \in Managers
       PROVE  /\ IsInjective(activities'[k])
              /\ activities[k] = <<>> => activities'[k] = <<>>
              /\ \A e \in Activities : Contains(activities'[k], e) =>
                    /\ Contains(activities[k], e)
                    /\ wakeTime'[k] = wakeTime[k] /\ isScheduled'[e] = isScheduled[e]
  <2>1. CASE k = m /\ over
    BY <1>1, <1>6, <1>8, <1>11, <2>1
  <2>2. CASE ~ (k = m /\ over)
    <3>1. IsInjective(activities[k])
      BY DEF SoleInv, SoleList
    <3> QED BY <1>1, <1>7, <1>11, <2>2, <3>1
  <2> QED BY <2>1, <2>2
<1> QED BY <1>1, <1>9, <1>10, <1>12, ShrunkSole

LEMMA CopyDoneSole ==
  ASSUME ManagerInv, SoleInv, NEW m \in Managers, CopyDone(m)
  PROVE  SoleInv' /\ Quiet(m)
<1> DEFINE l == [ctx[m] EXCEPT !.i = 1, !.t = -1]
<1>1. /\ ManagerTypeOK /\ m \in Threads /\ pc[m] = "copying"
      /\ s_instance' = s_instance /\ activities' = activities
      /\ isScheduled' = isScheduled /\ startTime' = startTime /\ listeners' = listeners
      /\ ctx[m] \in Locals
  BY LoopFinds DEF CopyDone, lists, flags, times
<1>2. l.todo = ctx[m].todo
  BY <1>1 DEF Locals
<1>3. ctx' = [ctx EXCEPT ![m] = l]
  BY DEF CopyDone
<1> HIDE DEF l
<1>4. Quiet(m) /\ pc'[m] = "running" /\ ctx'[m] = l
  BY <1>1, <1>3, Unborn, QuietGoto DEF CopyDone, Goto
<1>5. SoleThread(m)'
  <2>1. ctx[m].todo \in Seq(FollowerListener)
    BY <1>1 DEF SoleInv, SoleThread
  <2> QED BY <1>2, <1>4, <2>1 DEF SoleThread, Scheduling
<1>6. \A k \in Managers : activities[k] # <<>> => wakeTime'[k] = wakeTime[k]
  BY <1>1 DEF ManagerTypeOK, CopyDone, ResetWhenEmpty
<1>7. \A k \in Managers : \A e : Contains(activities[k], e) => activities[k] # <<>>
  BY DEF Contains
<1>8. \A k \in Managers : IsInjective(activities[k])
  BY DEF SoleInv, SoleList
<1> QED BY <1>1, <1>4, <1>5, <1>6, <1>7, <1>8, ShrunkSole

LEMMA FireFinishedSole ==
  ASSUME ManagerInv, SoleInv, NEW m \in Managers, FireFinished(m)
  PROVE  SoleInv' /\ Quiet(m)
<1> DEFINE of == ctx[m].of  e == Head(ctx[m].todo)  rest == Tail(ctx[m].todo)
           l == [ctx[m] EXCEPT !.todo = rest, !.act = e.after,
                               !.at = now, !.mgr = Instance]
<1>1. /\ ManagerTypeOK /\ m \in Threads /\ pc[m] = "firing" /\ ctx[m] \in Locals
      /\ of \in Activities
  BY LoopFinds DEF FireFinished, ManagerOK
<1>2. m = s_instance
  BY <1>1, OneManager
<1>3. e \in FollowerListener /\ rest \in Seq(FollowerListener) /\ e.after \in Followers
  <2>1. ctx[m].todo \in Seq(FollowerListener) /\ ctx[m].todo # <<>>
    BY <1>1 DEF FireFinished, SoleInv, SoleThread
  <2>2. e \in FollowerListener /\ rest \in Seq(FollowerListener)
    BY <2>1
  <2> QED BY <2>2 DEF FollowerListener
<1>4. ctx' = [ctx EXCEPT ![m] = l]
  BY DEF FireFinished
<1>5. listeners' \in [Activities -> Seq(FollowerListener)]
  <2>1. listeners \in [Activities -> Seq(FollowerListener)]
    BY DEF SoleInv
  <2>2. RemoveFirst(listeners[of], e) \in Seq(FollowerListener)
    BY <1>1, <2>1, RemoveFirstProperties
  <2> QED BY <1>1, <2>1, <2>2 DEF FireFinished
<1> HIDE DEF rest, e
<1>6. l.todo = rest /\ l.act = e.after /\ l.mgr = Instance
  BY <1>1 DEF Locals
<1> HIDE DEF l
<1>7. Quiet(m) /\ pc'[m] = "check" /\ ctx'[m] = l /\ s_instance' = Instance
  <2>1. "check" \in Labels /\ "check" # "new"
    BY DEF Labels, ClientLabels, Scheduling
  <2> QED BY <1>1, <1>2, <1>4, <2>1, QuietInstance DEF FireFinished
<1>8. s_instance' = s_instance
  <2>1. s_instance # 0
    BY <1>2, ThreadSets
  <2> QED BY <1>1, <1>2, <1>7, <2>1 DEF Instance
<1>9. SoleThread(m)'
  BY <1>3, <1>6, <1>7 DEF SoleThread, Scheduling
<1> QED BY <1>1, <1>5, <1>7, <1>8, <1>9, ListsKeptSole
        DEF FireFinished, lists, flags, times, manager

LEMMA InitSole ==
  ASSUME Init
  PROVE  SoleInv
<1>1. listeners \in [Activities -> Seq(FollowerListener)]
  BY DEF Init
<1>2. ASSUME NEW th \in Threads PROVE SoleThread(th)
  <2>1. pc[th] \in {"new", "idle"} /\ ctx[th].todo = <<>>
    BY DEF Init, NoLocals
  <2>2. <<>> \in Seq(FollowerListener)
    OBVIOUS
  <2> QED BY <2>1, <2>2 DEF SoleThread, Scheduling
<1>3. ASSUME NEW m \in Managers PROVE SoleList(m)
  <2>1. activities[m] = <<>> /\ pc[m] = "new"
    BY ThreadSets DEF Init
  <2>2. IsInjective(activities[m]) /\ \A a \in Activities : ~ Listed(a, m)
    BY <2>1 DEF IsInjective, Listed, Contains
  <2> QED BY <2>1, <2>2 DEF SoleList
<1> QED BY <1>1, <1>2, <1>3 DEF SoleInv

LEMMA NextSole ==
  ASSUME SoleScheduler, ManagerInv, SoleInv, [Next]_vars
  PROVE  SoleInv'
<1>1. ASSUME NEW th \in Threads, Schedule(th) PROVE SoleInv'
  BY <1>1, CheckScheduledSole, SetStartTimeSole, AddSole, MarkSole DEF Schedule
<1>2. ASSUME NEW c \in Clients, Call(c) PROVE SoleInv'
  <2>1. CASE Run(c)
    <3>1. PICK a \in Runs : ScheduleAt(c, a, now)
      BY <2>1 DEF Run
    <3>2. a \in Activities \ Followers /\ now \in Times
      BY ScriptAssumption DEF ManagerInv, ManagerTypeOK, SoleScheduler
    <3> QED BY <3>1, <3>2, ScheduleAtSole
  <2>2. CASE RunAt(c)
    <3>1. PICK p \in RunAts : ScheduleAt(c, p[1], p[2])
      BY <2>2 DEF RunAt
    <3>2. p[1] \in Activities \ Followers /\ p[2] \in Times
      BY ScriptAssumption DEF SoleScheduler
    <3> QED BY <3>1, <3>2, ScheduleAtSole
  <2> QED BY <1>2, <2>1, <2>2, RunAfterSole, ClientSole DEF Call
<1>3. ASSUME NEW c \in Clients, ClientStep(c) PROVE SoleInv'
  <2>1. c \in Threads
    BY ThreadSets
  <2>2. CASE DoCancel(c)
    BY <2>2, ClientSole, CancelScheduledSole, RemoveActivitySole, FireCancelledSole
       DEF DoCancel
  <2>3. CASE Stop(c)
    BY <2>3, ClientSole DEF Stop
  <2> QED BY <1>1, <1>3, <2>1, <2>2, <2>3 DEF ClientStep
<1>4. ASSUME NEW m \in Managers, ManagerStep(m) PROVE SoleInv'
  <2>1. m \in Threads
    BY ThreadSets
  <2>2. CASE Loop(m)
    BY <2>2, LoopSole, CopyOneSole, CopyDoneSole, FireFinishedSole
       DEF Loop, RunActivity
  <2> QED BY <1>1, <1>4, <2>1, <2>2 DEF ManagerStep
<1>5. ASSUME NEW m \in Managers, Throw(m) PROVE SoleInv'
  BY <1>5, LoopSole
<1>6. CASE Tick
  BY <1>6
     DEF Tick, SoleInv, SoleThread, SoleList, Marking, Listed, times, flags, lists,
         manager
<1>7. CASE UNCHANGED vars
  BY <1>7 DEF vars, SoleInv, SoleThread, SoleList, Marking, Listed
<1> QED BY <1>2, <1>3, <1>4, <1>5, <1>6, <1>7 DEF Next, Terminated

\* Where each activity has one thread that schedules it, the lists are what
\* _schedule and the loop take them for.
THEOREM SoleSafe == ASSUME SoleScheduler PROVE Spec => [](ManagerInv /\ SoleInv)
<1>1. Init => ManagerInv /\ SoleInv
  BY InitInv, InitSole
<1>2. ManagerInv /\ SoleInv /\ [Next]_vars => (ManagerInv /\ SoleInv)'
  BY NextInv, NextSole
<1> QED BY <1>1, <1>2, PTL DEF Spec

\* Then m_nextTime, outside the monitor, is no later than the start time of any
\* activity in the list.
THEOREM WakesInTime == ASSUME SoleScheduler PROVE Spec => []WakeTimeCovers
<1>1. ManagerInv /\ SoleInv => WakeTimeCovers
  <2> SUFFICES ASSUME ManagerInv, SoleInv, NEW m \in Managers, mon[m] = None,
                      NEW a \in Activities, Listed(a, m)
               PROVE  wakeTime[m] <= startTime[a]
    BY DEF WakeTimeCovers
  <2>1. ~ Marking(a, m)
    BY ThreadSets DEF Marking, ManagerInv, ScheduleOK, Scheduling
  <2> QED BY <2>1 DEF SoleInv, SoleList
<1> QED BY <1>1, SoleSafe, PTL

----------------------------------------------------------------------------
(* The balance of the events: BalanceInv, on top of SoleInv.               *)
(*                                                                         *)
(* An activity owes an answer while it is scheduled, and one more while    *)
(* the loop holds it, off the list, for its last run (Expired).  Most      *)
(* steps leave the times and the flags and only shorten the copy of the    *)
(* thread that takes them (CopyStep); the flags change where the answers   *)
(* do (Mark, RemoveActivity, Finish), or an answer owed for being          *)
(* scheduled becomes one owed for the last run (CopyOne).  A start time    *)
(* set meanwhile lies so late that it does not make a run the last one     *)
(* (TimeOK).                                                               *)

\* Between two steps of a manager its copy of the list only gets shorter, from
\* the front, and its clock is not read.
OwnCopy(m) ==
    /\ tmp'[m] \in {tmp[m], <<>>}
    /\ pc'[m] \in Resting \cup {"copying"} => tmp'[m] = <<>>
    /\ tmp'[m] # <<>> /\ pc'[m] # "dead" =>
          First(m)' >= First(m) /\ ctx'[m].current = ctx[m].current
    /\ pc'[m] = "ending" => Over(m, Current(m)) /\ Current(m)' = Current(m)

\* What is still to run, and where the copy is read from.
LEMMA FirstIs ==
  ASSUME ManagerInv, NEW m \in Managers
  PROVE  /\ First(m) \in Nat /\ First(m) >= 1
         /\ tmp[m] \in Seq(Activities) /\ Len(tmp[m]) \in Nat
         /\ pc[m] \in {"new", "dead"} => First(m) = Len(tmp[m]) + 1
         /\ First(m) = Len(tmp[m]) + 1 => \A a : ~ ToRun(m, a)
         /\ tmp[m] = <<>> => \A a : ~ ToRun(m, a)
<1>1. ctx[m].i \in Nat /\ ctx[m].i >= 1 /\ tmp[m] \in Seq(Activities)
  BY LoopFinds DEF ManagerTypeOK
<1>2. Len(tmp[m]) \in Nat
  BY <1>1
<1>3. First(m) \in Nat /\ First(m) >= 1
  BY <1>1, <1>2 DEF First, Scheduling
<1>4. pc[m] \in {"new", "dead"} => First(m) = Len(tmp[m]) + 1
  BY DEF First, Scheduling
<1> QED BY <1>1, <1>2, <1>3, <1>4 DEF ToRun

\* The times of an activity of finite duration.
LEMMA NotOver ==
  ASSUME ManagerInv, NEW m \in Managers, NEW a \in Activities, Duration[a] # INFINITY
  PROVE  /\ ctx[m].current \in Times /\ startTime[a] \in Times /\ Duration[a] \in Times
         /\ Over(m, a) <=> \/ ctx[m].current >= startTime[a] + Duration[a]
                           \/ ctx[m].current = MaxTime
<1>1. /\ ctx[m].current \in Times /\ startTime[a] \in Times /\ Duration[a] \in Times
      /\ Times = 0 .. MaxTime /\ MaxTime \in Nat \ {0} /\ Never = 4 * MaxTime + 1
  BY LoopFinds, ThreadSets, TimesAssumption DEF ManagerTypeOK, ManagerInv, Never
<1>2. startTime[a] + Duration[a] # Never
  BY <1>1
<1> QED BY <1>1, <1>2 DEF Over, Reached, StopTime

LEMMA EndlessNotOver ==
  ASSUME NEW m, NEW a, Duration[a] = INFINITY
  PROVE  ~ Over(m, a)
BY DEF Over, Reached, StopTime

\* A manager that takes no step keeps its copy.
LEMMA OthersCopy ==
  ASSUME ManagerInv, BalanceInv, NEW th \in Threads, Quiet(th), NEW k \in Managers,
         k # th, tmp'[k] = tmp[k]
  PROVE  /\ \A a : ToRun(k, a)' <=> ToRun(k, a)
         /\ ctx'[k] = ctx[k] /\ Current(k)' = Current(k)
         /\ pc'[k] = pc[k] \/ (tmp[k] = <<>> /\ pc'[k] \in {"boot", "loop"})
<1>1. k \in Threads /\ ctx'[k] = ctx[k]
  BY ThreadSets DEF Quiet
<1>2. Current(k)' = Current(k)
  BY <1>1 DEF Current
<1>3. CASE pc'[k] = pc[k]
  <2>1. First(k)' = First(k)
    BY <1>1, <1>3 DEF First, Scheduling
  <2> QED BY <1>1, <1>2, <1>3, <2>1 DEF ToRun
<1>4. CASE pc[k] \in {"new", "waiting"} /\ pc'[k] \in {"boot", "loop"}
  <2>1. tmp[k] = <<>>
    BY <1>4 DEF BalanceInv, CopyOK, Resting
  <2>2. First(k)' = 1 /\ First(k) = 1
    BY <1>4, <2>1 DEF First, Scheduling
  <2> QED BY <1>1, <1>2, <1>4, <2>1, <2>2 DEF ToRun
<1> QED BY <1>1, <1>3, <1>4 DEF Quiet

LEMMA OthersExpired ==
  ASSUME ManagerInv, BalanceInv, NEW th \in Threads, Quiet(th), NEW k \in Managers,
         k # th, tmp'[k] = tmp[k], NEW a, startTime'[a] = startTime[a]
  PROVE  /\ Over(k, a)' <=> Over(k, a)
         /\ Expired(k, a)' <=> Expired(k, a)
<1>1. Over(k, a)' <=> Over(k, a)
  BY OthersCopy DEF Over, StopTime
<1>2. tmp[k] = <<>> => ~ ToRun(k, a)
  BY FirstIs
<1> QED BY <1>1, <1>2, OthersCopy DEF Expired

LEMMA OthersCopyOK ==
  ASSUME ManagerInv, BalanceInv, NEW th \in Threads, Quiet(th), NEW k \in Managers,
         k # th, tmp'[k] = tmp[k],
         pc[k] = "copying" => activities'[k] = activities[k]
  PROVE  CopyOK(k)'
<1>1. CopyOK(k)
  BY DEF BalanceInv
<1>2. CASE pc'[k] = pc[k]
  BY <1>1, <1>2, OthersCopy DEF CopyOK
<1>3. CASE tmp[k] = <<>> /\ pc'[k] \in {"boot", "loop"}
  BY <1>1, <1>3 DEF CopyOK
<1> QED BY <1>2, <1>3, OthersCopy

\* The manager that takes the step.
LEMMA OwnExpired ==
  ASSUME ManagerInv, ManagerInv', NEW m \in Managers, OwnCopy(m), NEW a,
         startTime'[a] = startTime[a]
  PROVE  /\ ToRun(m, a)' => ToRun(m, a) /\ (Over(m, a)' <=> Over(m, a))
         /\ Expired(m, a)' => Expired(m, a)
         /\ ToRun(m, a)' => ctx'[m].current = ctx[m].current
<1>1. /\ First(m) \in Nat /\ First(m)' \in Nat /\ First(m)' >= 1
      /\ Len(tmp[m]) \in Nat /\ Len(tmp'[m]) \in Nat
  <2>1. m \in Threads
    BY ThreadSets
  <2>2. /\ ctx'[m] \in Locals /\ ctx'[m].i >= 1
        /\ tmp'[m] \in Seq(Activities)
    BY <2>1 DEF ManagerInv, ManagerTypeOK, ManagerOK
  <2>3. ctx'[m].i \in Nat /\ Len(tmp'[m]) \in Nat
    BY <2>2 DEF Locals
  <2>4. First(m)' \in Nat /\ First(m)' >= 1
    BY <2>2, <2>3 DEF First, Scheduling
  <2> QED BY <2>3, <2>4, FirstIs
<1>2. ASSUME ToRun(m, a)' PROVE ToRun(m, a) /\ ctx'[m].current = ctx[m].current
  <2>1. PICK j \in First(m)' .. Len(tmp'[m]) : tmp'[m][j] = a
    BY <1>2 DEF ToRun
  <2>2. tmp'[m] # <<>> /\ pc'[m] # "dead"
    <3>1. pc'[m] = "dead" => First(m)' = Len(tmp'[m]) + 1
      BY DEF First, Scheduling
    <3> QED BY <1>1, <2>1, <3>1
  <2>3. tmp'[m] = tmp[m] /\ First(m)' >= First(m) /\ ctx'[m].current = ctx[m].current
    BY <2>2 DEF OwnCopy
  <2>4. j \in First(m) .. Len(tmp[m])
    BY <1>1, <2>1, <2>3
  <2> QED BY <2>1, <2>3, <2>4 DEF ToRun
<1>3. ASSUME ToRun(m, a)' PROVE Over(m, a)' <=> Over(m, a)
  BY <1>2, <1>3 DEF Over, StopTime
<1>4. ASSUME Expired(m, a)' PROVE Expired(m, a)
  BY <1>2, <1>3, <1>4 DEF Expired, OwnCopy
<1> QED BY <1>2, <1>3, <1>4

LEMMA OwnCopyOK ==
  ASSUME BalanceInv, NEW m \in Managers, OwnCopy(m)
  PROVE  CopyOK(m)'
<1>1. IsInjective(tmp[m]) /\ IsInjective(<<>>)
  BY DEF BalanceInv, CopyOK, IsInjective
<1>2. \A e : ~ Contains(<<>>, e)
  BY DEF Contains
<1> QED BY <1>1, <1>2 DEF OwnCopy, CopyOK

\* A step that leaves the times, and the copies of the other threads.
CopyStep(th) ==
    /\ Quiet(th) /\ now' = now /\ startTime' = startTime
    /\ \A k \in Managers :
          /\ k # th => tmp'[k] = tmp[k]
          /\ k # th /\ pc[k] = "copying" => activities'[k] = activities[k]
          /\ k < s_instance => activities'[k] = activities[k]
    /\ th \in Managers => OwnCopy(th)
    /\ \A c \in Clients : c # th /\ isScheduled[ctx[c].act] => isScheduled'[ctx[c].act]

LEMMA ExpiredKept ==
  ASSUME ManagerInv, ManagerInv', BalanceInv, NEW th \in Threads, CopyStep(th),
         NEW k \in Managers, NEW a
  PROVE  /\ ToRun(k, a)' => ToRun(k, a) /\ (Over(k, a)' <=> Over(k, a))
         /\ Expired(k, a)' => Expired(k, a)
         /\ ToRun(k, a)' => ctx'[k].current = ctx[k].current
<1>1. CASE k = th
  BY <1>1, OwnExpired DEF CopyStep
<1>2. CASE k # th
  BY <1>2, OthersCopy, OthersExpired DEF CopyStep
<1> QED BY <1>1, <1>2

LEMMA StrandedStays ==
  ASSUME ManagerInv, ManagerInv', NEW th, Quiet(th), StrandedBehind,
         \A k \in Managers : k < s_instance => activities'[k] = activities[k]
  PROVE  StrandedBehind'
<1>1. PICK m \in Managers : m < s_instance /\ activities[m] # <<>>
  BY DEF StrandedBehind
<1>2. s_instance \in Int /\ s_instance' \in Int /\ s_instance' >= s_instance
  BY ThreadSets DEF ManagerInv, ManagerTypeOK, Quiet
<1>3. m < s_instance' /\ activities'[m] # <<>>
  BY <1>1, <1>2, ThreadSets
<1> QED BY <1>3 DEF StrandedBehind

\* Then only the balance itself is left to show.
LEMMA CopyStepBalance ==
  ASSUME ManagerInv, ManagerInv', BalanceInv, NEW th \in Threads, CopyStep(th),
         TimeOK(th)', th \in Clients => RemoveOK(th)',
         StrandedBehind' \/ \A a \in Activities : Balanced(a)'
  PROVE  BalanceInv'
<1>1. ASSUME NEW k \in Managers PROVE CopyOK(k)'
  BY OwnCopyOK, OthersCopyOK DEF CopyStep
<1>2. ASSUME NEW o \in Threads, o # th PROVE TimeOK(o)'
  <2>1. TimeOK(o) /\ ctx'[o] = ctx[o]
    BY <1>2 DEF BalanceInv, CopyStep, Quiet
  <2>2. pc'[o] \in {"check", "setStart"} => pc'[o] = pc[o]
    BY <1>2 DEF CopyStep, Quiet
  <2> SUFFICES ASSUME NEW a, a = ctx[o].act, pc[o] \in {"check", "setStart"},
                      Duration[a] # INFINITY
               PROVE  /\ ctx[o].at <= now
                      /\ \A m \in Managers : ToRun(m, a)' /\ ~Over(m, a)' =>
                            \/ o \in Clients /\ isScheduled'[a]
                            \/ ctx'[m].current < ctx[o].at + Duration[a]
    BY <2>1, <2>2 DEF TimeOK, CopyStep
  <2>3. o \in Clients /\ isScheduled[a] => isScheduled'[a]
    BY <1>2 DEF CopyStep
  <2> QED BY <2>1, <2>3, ExpiredKept DEF TimeOK
<1>3. ASSUME NEW c \in Clients, c # th PROVE RemoveOK(c)'
  <2>1. RemoveOK(c) /\ ctx'[c] = ctx[c] /\ (pc'[c] = "remove" => pc[c] = "remove")
    BY <1>3, ThreadSets DEF BalanceInv, CopyStep, Quiet
  <2> QED BY <1>3, <2>1 DEF RemoveOK, CopyStep
<1>4. \A a \in Activities : Duration[a] # INFINITY => startTime'[a] <= now'
  BY DEF BalanceInv, CopyStep
<1> QED BY <1>1, <1>2, <1>3, <1>4, ThreadSets DEF BalanceInv

\* A step that does not change the flags either.
LEMMA KeepBalance ==
  ASSUME ManagerInv, ManagerInv', BalanceInv, NEW th \in Threads, Quiet(th),
         now' = now, startTime' = startTime, isScheduled' = isScheduled, owed' = owed,
         \A k \in Managers :
            /\ k # th => tmp'[k] = tmp[k]
            /\ k # th /\ pc[k] = "copying" => activities'[k] = activities[k]
            /\ k < s_instance => activities'[k] = activities[k],
         th \in Managers => OwnCopy(th),
         TimeOK(th)', th \in Clients => RemoveOK(th)'
  PROVE  BalanceInv'
<1>1. CopyStep(th)
  BY DEF CopyStep
<1>2. ASSUME NEW a \in Activities, Balanced(a) PROVE Balanced(a)'
  <2>1. /\ owed'[a] = owed[a] /\ isScheduled'[a] = isScheduled[a]
        /\ (\E m \in Managers : Expired(m, a)') => \E m \in Managers : Expired(m, a)
    BY <1>1, ExpiredKept
  <2>2. owed[a] \in Int
    BY DEF ManagerInv, ManagerTypeOK
  <2> QED BY <1>2, <2>1, <2>2 DEF Balanced, One
<1> QED BY <1>1, <1>2, StrandedStays, CopyStepBalance DEF BalanceInv

LEMMA CalmBalance ==
  ASSUME ManagerInv, ManagerInv', BalanceInv, NEW th \in Threads, Quiet(th),
         pc'[th] \notin {"check", "setStart", "remove"},
         UNCHANGED <<now, startTime, isScheduled, owed, activities>>,
         \A k \in Managers : k # th => tmp'[k] = tmp[k],
         th \in Managers => OwnCopy(th)
  PROVE  BalanceInv'
<1>1. TimeOK(th)' /\ RemoveOK(th)'
  BY DEF TimeOK, RemoveOK
<1> QED BY <1>1, KeepBalance

\* A copy that is empty before or after the step, and one that is read on.
LEMMA OwnEmpty ==
  ASSUME BalanceInv, NEW m \in Managers, tmp'[m] \in {tmp[m], <<>>},
         pc[m] \in Resting \/ tmp'[m] = <<>>, pc'[m] # "ending"
  PROVE  OwnCopy(m)
<1>1. tmp'[m] = <<>>
  BY DEF BalanceInv, CopyOK
<1> QED BY <1>1 DEF OwnCopy

LEMMA OwnGoesOn ==
  ASSUME NEW m \in Managers, tmp' = tmp, First(m)' >= First(m),
         ctx'[m].current = ctx[m].current,
         pc'[m] \notin Resting \cup {"copying", "ending"}
  PROVE  OwnCopy(m)
BY DEF OwnCopy

\* The loop reads its copy from the front.
LEMMA LoopOwn ==
  ASSUME ManagerInv, BalanceInv, NEW m \in Managers,
         \/ Boot(m) \/ KeepRunning(m) \/ ActivityCount(m) \/ CopyEnter(m) \/ CopyDone(m)
         \/ NotYetStarted(m) \/ NotYetDue(m) \/ StepActivity(m) \/ LastStep(m)
         \/ Throw(m) \/ Finish(m) \/ Fired(m) \/ AllRun(m) \/ Wait(m) \/ Timeout(m)
  PROVE  /\ OwnCopy(m) /\ pc'[m] \notin {"check", "setStart", "remove"}
         /\ \A k \in Managers : k # m => tmp'[k] = tmp[k]
<1> DEFINE i == ctx[m].i  n == Len(tmp[m])
<1> USE LoopFinds DEF Resting, Goto
<1>1. CASE Boot(m)
  BY <1>1, OwnEmpty DEF Boot, lists
<1>2. CASE KeepRunning(m)
  BY <1>2, OwnEmpty DEF KeepRunning, lists
<1>3. CASE ActivityCount(m)
  BY <1>3, OwnEmpty DEF ActivityCount, lists
<1>4. CASE CopyEnter(m)
  BY <1>4, OwnEmpty DEF CopyEnter, lists
<1>5. CASE CopyDone(m)
  <2>1. tmp' = tmp /\ pc[m] = "copying" /\ pc'[m] = "running"
    BY <1>5 DEF CopyDone, lists
  <2>2. ctx'[m].i = 1 /\ ctx'[m].current = ctx[m].current
    BY <1>5 DEF CopyDone, Locals
  <2>3. First(m) = 1 /\ First(m)' = 1
    BY <2>1, <2>2 DEF First, Scheduling
  <2> QED BY <2>1, <2>2, <2>3, OwnGoesOn
<1>6. ASSUME NEW s, Back(m, s), pc[m] = "running", pc' = pc, tmp' = tmp
      PROVE  OwnCopy(m)
  <2>1. ctx'[m].i = i + 1 /\ ctx'[m].current = ctx[m].current
    BY <1>6 DEF Back, Locals
  <2>2. First(m) = i /\ First(m)' = i + 1
    BY <1>6, <2>1 DEF First, Scheduling
  <2> QED BY <1>6, <2>1, <2>2, OwnGoesOn
<1>7. CASE NotYetStarted(m)
  BY <1>6, <1>7 DEF NotYetStarted, CallsRunActivity, lists
<1>8. CASE NotYetDue(m)
  BY <1>6, <1>8 DEF NotYetDue, CallsRunActivity, lists
<1>9. CASE StepActivity(m)
  BY <1>6, <1>9 DEF StepActivity, CallsRunActivity, lists
<1>10. CASE LastStep(m)
  <2>1. /\ tmp' = tmp /\ ctx' = ctx /\ pc[m] = "running" /\ pc'[m] = "ending"
        /\ i <= Len(tmp[m]) /\ Started(m) /\ Ends(m)
    BY <1>10 DEF LastStep, CallsRunActivity, lists
  <2>2. First(m) = i /\ First(m)' = i /\ Current(m)' = Current(m)
    BY <2>1 DEF First, Current, Scheduling
  <2>3. Over(m, Current(m))
    <3>1. Current(m) \in Activities /\ startTime[Current(m)] \in Times
      BY <2>1, CurrentOK
    <3>2. CASE Duration[Current(m)] = 0
      <4>1. StopTime(Current(m)) = startTime[Current(m)]
        BY <3>1, <3>2, ThreadSets DEF StopTime, INFINITY
      <4> QED BY <2>1, <4>1 DEF Over, Started
    <3> QED BY <2>1, <3>2 DEF Ends, Over
  <2> QED BY <2>1, <2>2, <2>3 DEF OwnCopy
<1>11. CASE Throw(m)
  <2>1. /\ tmp' = tmp /\ pc[m] = "running" /\ pc'[m] = "dead" /\ ctx'[m] = NoLocals
        /\ i <= Len(tmp[m])
    BY <1>11 DEF Throw, CallsRunActivity, lists, Set
  <2> QED BY <2>1 DEF OwnCopy
<1>12. CASE Finish(m)
  <2>1. tmp' = tmp /\ pc[m] = "ending" /\ pc'[m] = "firing"
    BY <1>12 DEF Finish, lists
  <2>2. ctx'[m].i = i /\ ctx'[m].current = ctx[m].current
    BY <1>12 DEF Finish, Locals
  <2>3. First(m) = i /\ First(m)' = i + 1
    BY <2>1, <2>2 DEF First, Scheduling
  <2> QED BY <2>1, <2>2, <2>3, OwnGoesOn
<1>13. CASE Fired(m)
  <2>1. tmp' = tmp /\ pc[m] = "firing" /\ pc'[m] = "running"
    BY <1>13 DEF Fired, lists
  <2>2. ctx'[m].i = i + 1 /\ ctx'[m].current = ctx[m].current
    BY <1>13 DEF Fired, Locals
  <2>3. First(m) = i + 1 /\ First(m)' = i + 1
    BY <2>1, <2>2 DEF First, Scheduling
  <2> QED BY <2>1, <2>2, <2>3, OwnGoesOn
<1>14. CASE AllRun(m)
  <2>1. /\ tmp'[m] = <<>> /\ pc'[m] \in {"loop", "nap"}
        /\ \A k \in Managers : k # m => tmp'[k] = tmp[k]
    BY <1>14 DEF AllRun, ManagerTypeOK
  <2> QED BY <2>1, OwnEmpty
<1>15. CASE Wait(m)
  BY <1>15, OwnEmpty DEF Wait, lists
<1>16. CASE Timeout(m)
  BY <1>16, OwnEmpty DEF Timeout, lists
<1> QED BY <1>1, <1>2, <1>3, <1>4, <1>5, <1>7, <1>8, <1>9, <1>10, <1>11, <1>12, <1>13,
           <1>14, <1>15, <1>16

LEMMA LoopBalance ==
  ASSUME ManagerInv, ManagerInv', SoleInv, BalanceInv, NEW m \in Managers,
         \/ Boot(m) \/ KeepRunning(m) \/ ActivityCount(m) \/ CopyEnter(m) \/ CopyDone(m)
         \/ NotYetStarted(m) \/ NotYetDue(m) \/ StepActivity(m) \/ LastStep(m)
         \/ Throw(m) \/ Fired(m) \/ AllRun(m) \/ Wait(m) \/ Timeout(m)
  PROVE  BalanceInv'
<1>1. m \in Threads /\ Quiet(m)
  BY LoopSole, CopyDoneSole, ThreadSets
<1>2. /\ OwnCopy(m) /\ pc'[m] \notin {"check", "setStart", "remove"}
      /\ \A k \in Managers : k # m => tmp'[k] = tmp[k]
  BY LoopOwn
<1>3. UNCHANGED <<now, startTime, isScheduled, owed, activities>>
  <2>1. CASE Boot(m) \/ KeepRunning(m) \/ ActivityCount(m) \/ CopyEnter(m) \/ CopyDone(m)
    BY <2>1 DEF Boot, KeepRunning, ActivityCount, CopyEnter, CopyDone,
                clock, times, flags, lists
  <2>2. CASE NotYetStarted(m) \/ NotYetDue(m) \/ StepActivity(m) \/ LastStep(m)
    BY <2>2 DEF NotYetStarted, NotYetDue, StepActivity, LastStep,
                clock, times, flags, lists
  <2>3. CASE Throw(m) \/ Fired(m) \/ AllRun(m) \/ Wait(m) \/ Timeout(m)
    BY <2>3 DEF Throw, Fired, AllRun, Wait, Timeout, clock, times, flags, lists
  <2> QED BY <2>1, <2>2, <2>3
<1> QED BY <1>1, <1>2, <1>3, CalmBalance

\* A client that neither schedules nor takes an activity off the list.
LEMMA ClientBalance ==
  ASSUME SoleScheduler, ManagerInv, ManagerInv', SoleInv, BalanceInv, NEW c \in Clients,
         \/ RunAfter(c) \/ Cancel(c) \/ StopThread(c) \/ CancelUnscheduled(c)
         \/ FireCancelled(c) \/ StopEnter(c) \/ StopOne(c) \/ StopDone(c)
  PROVE  BalanceInv'
<1>1. c \in Threads /\ c \notin Managers /\ Quiet(c) /\ ManagerTypeOK
  BY RunAfterSole, ClientSole, FireCancelledSole, ThreadSets DEF ManagerInv
<1>2. pc'[c] \notin {"check", "setStart", "remove"}
  <2>1. CASE RunAfter(c)
    <3>1. Instance \in Managers /\ pc' = [pc EXCEPT ![c] = "idle",
                              ![Instance] = IF @ = "new" THEN "boot" ELSE @]
      BY <2>1 DEF RunAfter, GetInstance
    <3>2. c # Instance
      BY <1>1, <3>1
    <3> QED BY <1>1, <3>1, <3>2 DEF ManagerTypeOK
  <2>2. CASE CancelUnscheduled(c) \/ FireCancelled(c)
    BY <1>1, <2>2 DEF CancelUnscheduled, FireCancelled, Return, Goto, Resume, ManagerTypeOK
  <2>3. CASE Cancel(c) \/ StopThread(c) \/ StopEnter(c) \/ StopOne(c)
    BY <1>1, <2>3 DEF Cancel, StopThread, StopEnter, StopOne, Goto, ManagerTypeOK
  <2>4. CASE StopDone(c)
    BY <1>1, <2>4 DEF StopDone, Notified, ManagerTypeOK
  <2> QED BY <2>1, <2>2, <2>3, <2>4
<1>3. UNCHANGED <<now, startTime, isScheduled, owed, activities, tmp>>
  BY DEF RunAfter, Cancel, StopThread, CancelUnscheduled, FireCancelled, StopEnter,
         StopOne, StopDone, clock, times, flags, lists
<1> QED BY <1>1, <1>2, <1>3, CalmBalance

\* A manager inside _schedule, which a listener called, is past the entry that
\* finished.
LEMMA ScheduleOwn ==
  ASSUME ManagerInv, NEW th \in Managers, pc[th] \in Scheduling \cup {"firing"},
         pc'[th] \in Scheduling \cup {"firing"}, tmp' = tmp,
         ctx'[th].i = ctx[th].i, ctx'[th].current = ctx[th].current
  PROVE  OwnCopy(th)
<1>1. First(th) = ctx[th].i + 1 /\ First(th)' = ctx[th].i + 1
  BY DEF First, Scheduling
<1> QED BY <1>1, LoopFinds, OwnGoesOn DEF Scheduling, Resting

\* The times _schedule is called with: an activity whose last run is still to
\* come, not being over, ends later than now.
LEMMA CalledInTime ==
  ASSUME ManagerInv, BalanceInv, NEW a \in Activities, Duration[a] # INFINITY,
         NEW m \in Managers, ~ Over(m, a)
  PROVE  ctx[m].current < now + Duration[a]
<1>1. /\ ctx[m].current \in Times /\ startTime[a] \in Times /\ Duration[a] \in Times
      /\ ctx[m].current < startTime[a] + Duration[a]
  BY NotOver, ThreadSets
<1>2. startTime[a] <= now /\ now \in Times
  BY DEF BalanceInv, ManagerInv, ManagerTypeOK
<1> QED BY <1>1, <1>2, ThreadSets

LEMMA ScheduleAtBalance ==
  ASSUME SoleScheduler, ManagerInv, ManagerInv', SoleInv, BalanceInv, NEW c \in Clients,
         NEW a \in Activities \ Followers, NEW time \in Times, ScheduleAt(c, a, time),
         time = now \/ Duration[a] = INFINITY
  PROVE  BalanceInv'
<1>1. c \in Threads /\ c \notin Managers /\ Quiet(c) /\ ManagerTypeOK
  BY ScheduleAtSole, ThreadSets DEF ManagerInv
<1>2. UNCHANGED <<now, startTime, isScheduled, owed, activities, tmp>>
  BY DEF ScheduleAt, Invoke, times, flags, lists
<1>3. ctx'[c].act = a /\ ctx'[c].at = time
  BY <1>1 DEF ScheduleAt, Set, ManagerTypeOK, NoLocals
<1>4. pc'[c] = "check"
  <2>1. Instance \in Managers /\ pc' = [pc EXCEPT ![c] = "check",
                            ![Instance] = IF @ = "new" THEN "boot" ELSE @]
    BY DEF ScheduleAt, GetInstance
  <2>2. c # Instance
    BY <1>1, <2>1
  <2> QED BY <1>1, <2>1, <2>2 DEF ManagerTypeOK
<1>5. TimeOK(c)'
  <2> SUFFICES ASSUME Duration[a] # INFINITY
               PROVE  /\ time <= now
                      /\ \A m \in Managers : ToRun(m, a)' /\ ~ Over(m, a)' =>
                            ctx'[m].current < time + Duration[a]
    BY <1>2, <1>3 DEF TimeOK
  <2>1. time = now /\ now \in Nat
    BY <1>1, ThreadSets DEF ManagerTypeOK
  <2>2. ASSUME NEW m \in Managers, ~ Over(m, a)'
        PROVE  ctx'[m].current < time + Duration[a]
    <3>1. ctx'[m] = ctx[m]
      BY <1>1, <2>2, ThreadSets DEF Quiet
    <3>2. ~ Over(m, a)
      BY <1>2, <2>2, <3>1 DEF Over, StopTime
    <3> QED BY <2>1, <3>1, <3>2, CalledInTime
  <2> QED BY <2>1, <2>2
<1>6. RemoveOK(c)'
  BY <1>4 DEF RemoveOK
<1> QED BY <1>1, <1>2, <1>5, <1>6, KeepBalance

LEMMA FireFinishedBalance ==
  ASSUME ManagerInv, ManagerInv', SoleInv, BalanceInv, NEW m \in Managers, FireFinished(m)
  PROVE  BalanceInv'
<1> DEFINE e == Head(ctx[m].todo)
<1>1. m \in Threads /\ m \notin Clients /\ Quiet(m) /\ ManagerTypeOK /\ ctx[m] \in Locals
  BY FireFinishedSole, ThreadSets, LoopFinds
<1>2. UNCHANGED <<now, startTime, isScheduled, owed, activities, tmp>>
  BY DEF FireFinished, clock, times, flags, lists
<1>3. /\ pc[m] = "firing" /\ ctx[m].todo # <<>>
      /\ ctx' = [ctx EXCEPT ![m].todo = Tail(@), ![m].act = e.after,
                            ![m].at = now, ![m].mgr = Instance]
  BY DEF FireFinished
<1>4. /\ ctx'[m].act = e.after /\ ctx'[m].at = now /\ ctx'[m].i = ctx[m].i
      /\ ctx'[m].current = ctx[m].current
  BY <1>1, <1>3 DEF Locals, ManagerTypeOK
<1>5. e.after \in Activities
  <2>1. ctx[m].todo \in Seq(Listener)
    BY <1>1 DEF Locals
  <2>2. e \in Listener
    BY <1>3, <2>1
  <2> QED BY <2>2 DEF Listener
<1>6. pc'[m] = "check"
  <2>1. Instance = m /\ m = s_instance
    <3>1. m = s_instance /\ s_instance # 0
      BY <1>3, OneManager
    <3> QED BY <1>3, <3>1 DEF Instance
  <2>2. pc' = [pc EXCEPT ![m] = "check", ![m] = IF @ = "new" THEN "boot" ELSE @]
    BY <2>1 DEF FireFinished, GetInstance
  <2> QED BY <1>1, <2>2 DEF ManagerTypeOK
<1>7. OwnCopy(m)
  BY <1>2, <1>3, <1>4, <1>6, ScheduleOwn DEF Scheduling
<1> HIDE DEF e
<1>8. TimeOK(m)'
  <2> SUFFICES ASSUME NEW a, a = e.after, Duration[a] # INFINITY
               PROVE  /\ now <= now
                      /\ \A k \in Managers : ToRun(k, a)' /\ ~ Over(k, a)' =>
                            ctx'[k].current < now + Duration[a]
    BY <1>2, <1>4 DEF TimeOK
  <2>1. now \in Nat
    BY <1>1, ThreadSets DEF ManagerTypeOK
  <2>2. ASSUME NEW k \in Managers, ToRun(k, a)', ~ Over(k, a)'
        PROVE  ctx'[k].current < now + Duration[a]
    <3>1. ctx'[k].current = ctx[k].current
      BY <1>1, <1>4, <2>2, ThreadSets DEF Quiet
    <3>2. ~ Over(k, a)
      BY <1>2, <2>2, <3>1 DEF Over, StopTime
    <3> QED BY <1>5, <3>1, <3>2, CalledInTime
  <2> QED BY <2>1, <2>2
<1> QED BY <1>1, <1>2, <1>7, <1>8, KeepBalance

\* _schedule goes on, or returns.
LEMMA ScheduleGoesOn ==
  ASSUME ManagerInv, SoleInv, NEW th \in Threads, Schedule(th)
  PROVE  /\ pc[th] \in Scheduling /\ tmp' = tmp /\ now' = now
         /\ pc'[th] \in {"setStart", "add", "mark", "firing", "stopping", "idle"}
         /\ th \in Managers => pc'[th] \in Scheduling \cup {"firing"}
         /\ pc'[th] = "setStart" => /\ pc[th] = "check" /\ ctx' = ctx
                                    /\ ~ isScheduled[ctx[th].act]
         /\ th \in Managers =>
               ctx'[th].i = ctx[th].i /\ ctx'[th].current = ctx[th].current
<1>1. /\ pc[th] \in Scheduling /\ tmp' = tmp /\ now' = now
  BY DEF Schedule, CheckScheduled, SetStartTime, Add, Mark, Scheduling, clock, lists
<1>2. ManagerTypeOK /\ ctx[th] \in Locals
  BY <1>1, ScheduleFinds
<1>3. /\ Resume(th) \in {"firing", "stopping", "idle"}
      /\ th \in Managers => Resume(th) = "firing"
  BY DEF Resume
<1>4. ASSUME ctx' = Returned(th), th \in Managers
      PROVE  ctx'[th].i = ctx[th].i /\ ctx'[th].current = ctx[th].current
  <2>1. ctx' = [ctx EXCEPT ![th] = [@ EXCEPT !.act = None, !.mgr = 0, !.at = 0]]
    BY <1>3, <1>4 DEF Returned
  <2> QED BY <1>2, <2>1 DEF Locals, ManagerTypeOK
<1>5. CASE CheckScheduled(th) /\ AlreadyScheduled(ctx[th].act)
  <2>1. pc'[th] = Resume(th) /\ ctx' = Returned(th)
    BY <1>2, <1>5 DEF CheckScheduled, Return, Goto, ManagerTypeOK
  <2> QED BY <1>1, <1>3, <1>4, <2>1
<1>6. CASE CheckScheduled(th) /\ ~ AlreadyScheduled(ctx[th].act)
  <2>1. /\ pc'[th] = "setStart" /\ ctx' = ctx /\ pc[th] = "check"
        /\ ~ isScheduled[ctx[th].act]
    BY <1>2, <1>6 DEF CheckScheduled, Goto, ManagerTypeOK, AlreadyScheduled
  <2> QED BY <1>1, <2>1 DEF Scheduling
<1>7. CASE SetStartTime(th) \/ Add(th)
  <2>1. pc'[th] \in {"add", "mark"} /\ ctx' = ctx
    BY <1>2, <1>7 DEF SetStartTime, Add, Goto, ManagerTypeOK
  <2> QED BY <1>1, <2>1 DEF Scheduling
<1>8. CASE Mark(th)
  <2>1. ctx' = Returned(th)
    BY <1>8 DEF Mark
  <2>2. pc'[th] = Resume(th)
    <3>1. CASE pc' = Notified(th, Resume(th), ctx[th].mgr)
      <4>1. Resume(th) # "waiting"
        BY <1>3
      <4> QED BY <1>2, <3>1, <4>1 DEF Notified, ManagerTypeOK
    <3>2. CASE Goto(th, Resume(th))
      BY <1>2, <3>2 DEF Goto, ManagerTypeOK
    <3> QED BY <1>8, <3>1, <3>2 DEF Mark
  <2> QED BY <1>1, <1>3, <1>4, <2>1, <2>2
<1> QED BY <1>5, <1>6, <1>7, <1>8 DEF Schedule

LEMMA ScheduleOwns ==
  ASSUME ManagerInv, SoleInv, NEW th \in Threads, Schedule(th)
  PROVE  th \in Managers => OwnCopy(th)
BY ScheduleGoesOn, ScheduleOwn

LEMMA CheckScheduledBalance ==
  ASSUME SoleScheduler, ManagerInv, ManagerInv', SoleInv, BalanceInv, NEW th \in Threads,
         CheckScheduled(th)
  PROVE  BalanceInv'
<1>1. Schedule(th) /\ Quiet(th)
  BY CheckScheduledSole DEF Schedule
<1>2. UNCHANGED <<now, startTime, isScheduled, owed, activities, tmp>>
  BY DEF CheckScheduled, clock, times, flags, lists
<1>3. /\ pc'[th] \notin {"check", "remove"}
      /\ pc'[th] = "setStart" => /\ pc[th] = "check" /\ ctx' = ctx
                                 /\ ~ isScheduled[ctx[th].act]
      /\ th \in Managers => OwnCopy(th)
  BY <1>1, ScheduleGoesOn, ScheduleOwns
<1>4. TimeOK(th)'
  <2>1. CASE pc'[th] # "setStart"
    BY <1>3, <2>1 DEF TimeOK
  <2>2. CASE pc'[th] = "setStart"
    <3> SUFFICES ASSUME NEW a, a = ctx[th].act, Duration[a] # INFINITY
                 PROVE  /\ ctx[th].at <= now
                        /\ \A m \in Managers : ToRun(m, a)' /\ ~ Over(m, a)' =>
                              ctx[m].current < ctx[th].at + Duration[a]
      BY <1>2, <1>3, <2>2 DEF TimeOK
    <3>1. TimeOK(th) /\ pc[th] = "check" /\ ctx' = ctx /\ ~ isScheduled[a]
      BY <1>3, <2>2 DEF BalanceInv
    <3>2. ASSUME NEW m \in Managers, ToRun(m, a)', ~ Over(m, a)'
          PROVE  ToRun(m, a) /\ ~ Over(m, a)
      <4>1. CASE m = th
        BY <1>2, <1>3, <3>2, <4>1, OwnExpired
      <4>2. CASE m # th
        BY <1>1, <1>2, <3>2, <4>2, OthersCopy, OthersExpired
      <4> QED BY <4>1, <4>2
    <3> QED BY <3>1, <3>2 DEF TimeOK
  <2> QED BY <2>1, <2>2
<1>5. RemoveOK(th)'
  BY <1>3 DEF RemoveOK
<1> QED BY <1>1, <1>2, <1>3, <1>4, <1>5, KeepBalance

LEMMA AddBalance ==
  ASSUME SoleScheduler, ManagerInv, ManagerInv', SoleInv, BalanceInv, NEW th \in Threads,
         Add(th)
  PROVE  BalanceInv'
<1>1. Schedule(th) /\ Quiet(th) /\ pc[th] \in Scheduling
  BY AddSole DEF Schedule, Add, Scheduling
<1>2. UNCHANGED <<now, startTime, isScheduled, owed, tmp>>
  BY DEF Add, clock, times, flags
<1>3. th \in Managers => OwnCopy(th)
  BY <1>1, ScheduleOwns
<1>4. pc'[th] = "mark"
  BY DEF Add, Goto, ManagerInv, ManagerTypeOK
<1>5. ASSUME NEW k \in Managers, k < s_instance \/ (k # th /\ pc[k] = "copying")
      PROVE  activities'[k] = activities[k]
  <2>1. ctx[th].mgr = s_instance /\ s_instance \in Int /\ ManagerTypeOK
    BY <1>1, ScheduleFinds, ThreadSets
  <2>2. activities' = [activities EXCEPT ![s_instance] = Append(@, ctx[th].act)]
        /\ mon[s_instance] \in {None, th}
    BY <2>1 DEF Add, Free
  <2>3. k # s_instance
    <3>1. CASE k < s_instance
      BY <2>1, <3>1, ThreadSets
    <3>2. CASE k # th /\ pc[k] = "copying"
      <4>1. mon[k] = k /\ k # None
        BY <3>2, ThreadSets DEF ManagerInv, ManagerOK
      <4> QED BY <2>2, <3>2, <4>1
    <3> QED BY <1>5, <3>1, <3>2
  <2> QED BY <2>1, <2>2, <2>3 DEF ManagerTypeOK
<1>6. TimeOK(th)' /\ RemoveOK(th)'
  BY <1>4 DEF TimeOK, RemoveOK
<1> QED BY <1>1, <1>2, <1>3, <1>5, <1>6, KeepBalance

LEMMA CancelScheduledBalance ==
  ASSUME SoleScheduler, ManagerInv, ManagerInv', SoleInv, BalanceInv, NEW c \in Clients,
         CancelScheduled(c)
  PROVE  BalanceInv'
<1>1. c \in Threads /\ c \notin Managers /\ Quiet(c) /\ ManagerTypeOK
  BY CancelScheduledSole, ThreadSets DEF ManagerInv
<1>2. UNCHANGED <<now, startTime, isScheduled, owed, activities, tmp>>
  BY DEF CancelScheduled, clock, times, flags, lists
<1>3. pc'[c] = "remove"
  <2>1. Instance \in Managers /\ pc' = [pc EXCEPT ![c] = "remove",
                            ![Instance] = IF @ = "new" THEN "boot" ELSE @]
    BY DEF CancelScheduled, GetInstance
  <2>2. c # Instance
    BY <1>1, <2>1
  <2> QED BY <1>1, <2>1, <2>2 DEF ManagerTypeOK
<1>4. ctx'[c].act = ctx[c].act /\ isScheduled[ctx[c].act]
  BY <1>1 DEF CancelScheduled, ManagerTypeOK, Locals
<1>5. TimeOK(c)' /\ RemoveOK(c)'
  BY <1>2, <1>3, <1>4 DEF TimeOK, RemoveOK
<1> QED BY <1>1, <1>2, <1>5, KeepBalance

\* The start time of an activity is set by the one thread that schedules it,
\* to a time at which what is left to run of it is not over.
LEMMA SetStartTimeBalance ==
  ASSUME SoleScheduler, ManagerInv, ManagerInv', SoleInv, BalanceInv, NEW th \in Threads,
         SetStartTime(th)
  PROVE  BalanceInv'
<1>0. PICK b : b = ctx[th].act
  OBVIOUS
<1>1. /\ Schedule(th) /\ Quiet(th) /\ pc[th] = "setStart" /\ ManagerTypeOK
      /\ b \in Activities /\ pc'[th] = "add" /\ ctx' = ctx
  BY <1>0, SetStartTimeSole, ScheduleFinds DEF Schedule, SetStartTime, Goto, Scheduling, ManagerTypeOK
<1>2. UNCHANGED <<now, isScheduled, owed, activities, tmp, s_instance>>
  BY DEF SetStartTime, clock, flags, lists
<1>3. startTime'[b] = ctx[th].at /\ \A e : e # b => startTime'[e] = startTime[e]
  BY <1>0, <1>1 DEF SetStartTime, ManagerTypeOK
<1>4. ~ isScheduled[b]
  <2>1. \A m \in Managers : ~ Listed(b, m)
    BY <1>0, <1>1 DEF SoleInv, SoleThread
  <2> QED BY <1>1, <2>1 DEF ManagerInv, ScheduledIsListed
<1>5. Duration[b] # INFINITY =>
        /\ ctx[th].at <= now
        /\ \A m \in Managers : ToRun(m, b) /\ ~ Over(m, b) =>
               ctx[m].current < ctx[th].at + Duration[b]
  BY <1>0, <1>1, <1>4 DEF BalanceInv, TimeOK
<1>6. \A o \in Threads : pc[o] \in Scheduling /\ ctx[o].act = b => o = th
  BY <1>0, <1>1, OneScheduler DEF Scheduling
<1>7. th \in Managers => OwnCopy(th)
  BY <1>1, ScheduleOwns
<1>8. ASSUME NEW k \in Managers
      PROVE  CopyOK(k)' /\ First(k)' = First(k) /\ (pc'[k] = "ending" => pc[k] = "ending")
  <2>1. CASE k = th
    <3>1. First(k)' = First(k)
      BY <1>1, <1>2, <2>1 DEF First, Scheduling
    <3> QED BY <1>1, <1>7, <2>1, <3>1, OwnCopyOK
  <2>2. CASE k # th
    <3>1. CopyOK(k)'
      BY <1>1, <1>2, <2>2, OthersCopyOK
    <3>2. CASE pc'[k] = pc[k]
      BY <1>1, <1>2, <3>1, <3>2 DEF First
    <3>3. CASE tmp[k] = <<>> /\ pc'[k] \in {"boot", "loop"} /\ pc'[k] # pc[k]
      <4>1. pc[k] \in {"new", "waiting"}
        BY <1>1, <2>2, <3>3, ThreadSets DEF Quiet
      <4> QED BY <1>1, <1>2, <3>1, <3>3, <4>1 DEF First, Scheduling
    <3> QED BY <1>1, <1>2, <2>2, <3>1, <3>2, <3>3, OthersCopy
  <2> QED BY <2>1, <2>2
<1>9. ASSUME NEW k \in Managers, NEW a
      PROVE  /\ ToRun(k, a)' => ToRun(k, a)
             /\ a # b => (Over(k, a)' <=> Over(k, a))
  BY <1>1, <1>2, <1>3, <1>8 DEF ToRun, Over, StopTime
<1>10. ASSUME NEW k \in Managers, ToRun(k, b), Over(k, b)' PROVE Over(k, b)
  <2> SUFFICES ASSUME ~ Over(k, b) PROVE FALSE
    OBVIOUS
  <2>1. CASE Duration[b] = INFINITY
    BY <1>10, <2>1 DEF Over, Reached, StopTime
  <2>2. CASE Duration[b] # INFINITY
    <3>1. /\ ctx[k].current < ctx[th].at + Duration[b]
          /\ ctx[k].current # MaxTime
      BY <1>1, <1>5, <1>10, <2>2, NotOver
    <3>2. ctx[k].current \in Nat /\ ctx[th].at \in Nat /\ Duration[b] \in Nat
      BY <1>1, <2>2, NotOver, ThreadSets, ScheduleFinds DEF Scheduling
    <3>3. ctx[k].current >= ctx[th].at + Duration[b]
      BY <1>1, <1>3, <1>10, <2>2, <3>1 DEF Over, Reached, StopTime
    <3> QED BY <3>1, <3>2, <3>3
  <2> QED BY <2>1, <2>2
<1>11. ASSUME NEW k \in Managers, NEW a, Expired(k, a)' PROVE Expired(k, a)
  <2>1. ToRun(k, a)'
    BY <1>11 DEF Expired
  <2>2. ToRun(k, a) /\ (Over(k, a)' => Over(k, a))
    BY <1>9, <1>10, <2>1
  <2>3. Current(k)' = Current(k)
    BY <1>1, <1>2 DEF Current
  <2> QED BY <1>8, <1>11, <2>2, <2>3 DEF Expired
<1>12. ASSUME NEW o \in Threads PROVE TimeOK(o)'
  <2>1. CASE o = th
    BY <1>1, <2>1 DEF TimeOK
  <2>2. CASE o # th
    <3> SUFFICES ASSUME NEW a, a = ctx[o].act, pc[o] \in {"check", "setStart"},
                        Duration[a] # INFINITY
                 PROVE  /\ ctx[o].at <= now
                        /\ \A m \in Managers : ToRun(m, a)' /\ ~ Over(m, a)' =>
                              \/ o \in Clients /\ isScheduled[a]
                              \/ ctx[m].current < ctx[o].at + Duration[a]
      <4>1. pc'[o] \in {"check", "setStart"} => pc[o] = pc'[o]
        BY <1>1, <2>2 DEF Quiet
      <4> QED BY <1>1, <1>2, <4>1 DEF TimeOK
    <3>1. a # b
      BY <1>6, <2>2 DEF Scheduling
    <3> QED BY <1>9, <3>1 DEF BalanceInv, TimeOK
  <2> QED BY <2>1, <2>2
<1>13. ASSUME NEW c \in Clients PROVE RemoveOK(c)'
  <2>1. RemoveOK(c) /\ (pc'[c] = "remove" => pc[c] = "remove")
    BY <1>1, ThreadSets DEF BalanceInv, Quiet
  <2> QED BY <1>1, <1>2, <2>1 DEF RemoveOK
<1>14. ASSUME NEW a \in Activities, Duration[a] # INFINITY PROVE startTime'[a] <= now'
  BY <1>2, <1>3, <1>5, <1>14 DEF BalanceInv
<1>15. StrandedBehind' <=> StrandedBehind
  BY <1>2 DEF StrandedBehind
<1>16. ASSUME NEW a \in Activities, Balanced(a) PROVE Balanced(a)'
  <2>1. (\E m \in Managers : Expired(m, a)') => \E m \in Managers : Expired(m, a)
    BY <1>11
  <2>2. owed[a] \in Int
    BY <1>1 DEF ManagerTypeOK
  <2> QED BY <1>2, <1>16, <2>1, <2>2 DEF Balanced, One
<1> QED BY <1>8, <1>12, <1>13, <1>14, <1>15, <1>16 DEF BalanceInv

\* An activity that becomes scheduled owes an answer.
LEMMA MarkBalance ==
  ASSUME SoleScheduler, ManagerInv, ManagerInv', SoleInv, BalanceInv, NEW th \in Threads,
         Mark(th)
  PROVE  BalanceInv'
<1>0. PICK b : b = ctx[th].act
  OBVIOUS
<1>1. /\ Schedule(th) /\ Quiet(th) /\ pc[th] \in Scheduling /\ ManagerTypeOK
      /\ b \in Activities
  BY <1>0, MarkSole, ScheduleFinds DEF Schedule, Mark, Scheduling
<1>2. UNCHANGED <<now, startTime, activities, tmp, s_instance>>
  BY DEF Mark, clock, times, lists
<1>3. /\ isScheduled'[b] = TRUE /\ owed'[b] = IF isScheduled[b] THEN owed[b] ELSE owed[b] + 1
      /\ \A e \in Activities : e # b => isScheduled'[e] = isScheduled[e] /\ owed'[e] = owed[e]
  BY <1>0, <1>1 DEF Mark, ManagerTypeOK
<1>4. \A c \in Clients : c # th /\ isScheduled[ctx[c].act] => isScheduled'[ctx[c].act]
  BY <1>0, <1>1 DEF Mark, ManagerTypeOK
<1>5. CopyStep(th)
  BY <1>1, <1>2, <1>4, ScheduleOwns DEF CopyStep
<1>6. TimeOK(th)' /\ RemoveOK(th)'
  <2>1. pc'[th] \notin {"check", "setStart", "remove"}
    <3>1. pc'[th] \in {"firing", "stopping", "idle"}
      <4>1. Resume(th) \in {"firing", "stopping", "idle"}
        BY DEF Resume
      <4>2. CASE pc' = Notified(th, Resume(th), ctx[th].mgr)
        BY <1>1, <4>1, <4>2 DEF Notified, ManagerTypeOK
      <4>3. CASE Goto(th, Resume(th))
        BY <1>1, <4>1, <4>3 DEF Goto, ManagerTypeOK
      <4> QED BY <4>2, <4>3 DEF Mark
    <3> QED BY <3>1
  <2> QED BY <2>1 DEF TimeOK, RemoveOK
<1>7. ASSUME NEW a \in Activities, Balanced(a) PROVE Balanced(a)'
  <2>1. (\E m \in Managers : Expired(m, a)') => \E m \in Managers : Expired(m, a)
    BY <1>5, ExpiredKept
  <2>2. owed[a] \in Int /\ isScheduled[a] \in BOOLEAN
    BY <1>1 DEF ManagerTypeOK
  <2>3. CASE a = b
    BY <1>3, <1>7, <2>1, <2>2, <2>3 DEF Balanced, One
  <2>4. CASE a # b
    BY <1>3, <1>7, <2>1, <2>2, <2>4 DEF Balanced, One
  <2> QED BY <2>3, <2>4
<1> QED BY <1>1, <1>2, <1>5, <1>6, <1>7, StrandedStays, CopyStepBalance DEF BalanceInv

\* The cancel of an activity answers for its schedule, unless the activity was
\* left in the list of a manager that is gone.
LEMMA RemoveActivityBalance ==
  ASSUME SoleScheduler, ManagerInv, ManagerInv', SoleInv, BalanceInv, NEW c \in Clients,
         RemoveActivity(c)
  PROVE  BalanceInv'
<1>0. PICK b, m : b = ctx[c].act /\ m = ctx[c].mgr
  OBVIOUS
<1>1. /\ c \in Threads /\ c \notin Managers /\ Quiet(c) /\ ManagerTypeOK
      /\ pc[c] = "remove" /\ pc'[c] = "fireCancelled"
  BY RemoveActivitySole, ThreadSets DEF RemoveActivity, Goto, ManagerInv, ManagerTypeOK
<1>2. b \in Activities /\ m = s_instance /\ m \in Managers /\ isScheduled[b]
  <2>1. b \in Activities /\ ctx[c].mgr \in 1 .. s_instance
    BY <1>0, <1>1 DEF ManagerInv, ClientOK, Cancelling
  <2>2. m = s_instance /\ isScheduled[b]
    BY <1>0, <1>1 DEF SoleInv, SoleThread, BalanceInv, RemoveOK
  <2> QED BY <1>0, <1>1, <2>1, <2>2, ThreadSets DEF ManagerTypeOK
<1>3. UNCHANGED <<now, startTime, tmp, s_instance>>
  BY DEF RemoveActivity, clock, times
<1>4. /\ \A k \in Managers : k # m => activities'[k] = activities[k]
      /\ Listed(b, m) => isScheduled'[b] = FALSE
      /\ \A e \in Activities : e # b => isScheduled'[e] = isScheduled[e] /\ owed'[e] = owed[e]
      /\ owed'[b] = IF owed[b] > -1 THEN owed[b] - 1 ELSE owed[b]
  BY <1>0, <1>1, <1>2 DEF RemoveActivity, Unscheduled, Listed, Answer, ManagerTypeOK
<1>5. mon[m] \in {None, c}
  BY <1>0 DEF RemoveActivity, Free
<1>6. ASSUME NEW k \in Managers, k < s_instance \/ pc[k] = "copying"
      PROVE  activities'[k] = activities[k]
  <2>1. k # m
    <3>1. CASE k < s_instance
      BY <1>2, <3>1, ThreadSets
    <3>2. CASE pc[k] = "copying"
      <4>1. mon[k] = k /\ k # None /\ k # c
        BY <1>1, <3>2, ThreadSets DEF ManagerInv, ManagerOK
      <4> QED BY <1>5, <4>1
    <3> QED BY <1>6, <3>1, <3>2
  <2> QED BY <1>4, <2>1
<1>7. \A o \in Clients : o = c
  BY DEF SoleScheduler
<1>8. CopyStep(c)
  BY <1>1, <1>3, <1>6, <1>7 DEF CopyStep
<1>9. TimeOK(c)' /\ RemoveOK(c)'
  BY <1>1 DEF TimeOK, RemoveOK
<1>10. CASE ~ Listed(b, m)
  <2>1. PICK k \in Managers : Listed(b, k) /\ (k = s_instance \/ pc[k] = "dead")
    BY <1>2 DEF ManagerInv, ScheduledIsListed
  <2>2. k # s_instance /\ pc[k] # "new"
    BY <1>2, <1>10, <2>1
  <2>3. k < s_instance
    <3>1. ~ (k > s_instance) /\ k \in Int /\ s_instance \in Int
      BY <1>2, <2>2, Unborn, ThreadSets
    <3> QED BY <2>2, <3>1
  <2>4. activities[k] # <<>>
    BY <2>1 DEF Listed, Contains
  <2>5. StrandedBehind'
    BY <1>3, <1>6, <2>3, <2>4 DEF StrandedBehind
  <2> QED BY <1>1, <1>8, <1>9, <2>5, CopyStepBalance
<1>11. CASE Listed(b, m)
  <2>1. ASSUME NEW a \in Activities, Balanced(a) PROVE Balanced(a)'
    <3>1. (\E k \in Managers : Expired(k, a)') => \E k \in Managers : Expired(k, a)
      BY <1>1, <1>8, ExpiredKept
    <3>2. owed[a] \in Int
      BY <1>1 DEF ManagerTypeOK
    <3>3. CASE a = b
      <4>1. owed[b] >= 1 + One(\E k \in Managers : Expired(k, b))
        BY <1>2, <2>1, <3>3 DEF Balanced, One
      <4>2. owed[b] >= 1
        BY <3>2, <3>3, <4>1 DEF One
      <4>3. isScheduled'[b] = FALSE /\ owed'[b] = owed[b] - 1
        BY <1>4, <1>11, <3>2, <3>3, <4>2
      <4> QED BY <3>1, <3>2, <3>3, <4>1, <4>3 DEF Balanced, One
    <3>4. CASE a # b
      BY <1>4, <2>1, <3>1, <3>2, <3>4 DEF Balanced, One
    <3> QED BY <3>3, <3>4
  <2> QED BY <1>1, <1>6, <1>8, <1>9, <2>1, StrandedStays, CopyStepBalance DEF BalanceInv
<1> QED BY <1>10, <1>11

\* The finish of an activity answers for its schedule: it was still to run and
\* its time had come.
LEMMA FinishBalance ==
  ASSUME SoleScheduler, ManagerInv, ManagerInv', SoleInv, BalanceInv, NEW m \in Managers,
         Finish(m)
  PROVE  BalanceInv'
<1>0. PICK b : b = Current(m)
  OBVIOUS
<1>1. /\ m \in Threads /\ m \notin Clients /\ Quiet(m) /\ ManagerTypeOK /\ b \in Activities
      /\ pc[m] = "ending" /\ pc'[m] = "firing" /\ ctx[m].i \in 1 .. Len(tmp[m])
  <2>1. m \in Threads /\ m \notin Clients /\ Quiet(m) /\ ManagerTypeOK
    BY LoopSole, LoopFinds, ThreadSets
  <2>2. pc[m] = "ending" /\ pc'[m] = "firing"
    BY <2>1 DEF Finish, Goto, ManagerTypeOK
  <2>3. /\ ctx[m].i <= Len(tmp[m]) /\ ctx[m].i \in Nat /\ ctx[m].i >= 1
        /\ Len(tmp[m]) \in Nat
    BY <2>2, LoopFinds, FirstIs DEF ManagerOK
  <2>4. b \in Activities
    BY <1>0, <2>3, CurrentOK
  <2> QED BY <2>1, <2>2, <2>3, <2>4
<1>2. UNCHANGED <<now, startTime, isScheduled, activities, tmp, s_instance>>
  BY DEF Finish, clock, times, lists
<1>3. /\ \A e \in Activities : e # b => owed'[e] = owed[e]
      /\ owed'[b] = IF owed[b] > -1 THEN owed[b] - 1 ELSE owed[b]
  BY <1>0, <1>1 DEF Finish, Answer, ManagerTypeOK
<1>4. CopyStep(m)
  BY <1>1, <1>2, LoopOwn DEF CopyStep
<1>5. TimeOK(m)'
  BY <1>1 DEF TimeOK
<1>6. Expired(m, b)
  <2>1. First(m) = ctx[m].i /\ tmp[m][ctx[m].i] = b
    BY <1>0, <1>1 DEF First, Scheduling, Current
  <2>2. ToRun(m, b)
    BY <1>1, <2>1 DEF ToRun
  <2> QED BY <1>0, <1>1, <2>2 DEF Expired
<1>7. ASSUME NEW k \in Managers, Expired(k, b)' PROVE FALSE
  <2>1. CASE k # m
    <3>1. ToRun(k, b)
      BY <1>1, <1>4, <1>7, ExpiredKept DEF Expired
    <3>2. pc[k] \in {"new", "dead"}
      BY <1>1, <2>1, OneManager
    <3> QED BY <3>1, <3>2, FirstIs
  <2>2. CASE k = m
    <3>1. /\ ctx'[m].i = ctx[m].i /\ First(m)' = ctx[m].i + 1
      <4>1. ctx'[m].i = ctx[m].i
        BY LoopFinds DEF Finish, Locals
      <4> QED BY <1>1, <4>1 DEF First, Scheduling
    <3>2. PICK j \in First(m)' .. Len(tmp'[m]) : tmp'[m][j] = b
      BY <1>7, <2>2 DEF Expired, ToRun
    <3>3. j \in 1 .. Len(tmp[m]) /\ j # ctx[m].i /\ tmp[m][j] = tmp[m][ctx[m].i]
      <4>1. Len(tmp[m]) \in Nat
        BY FirstIs
      <4> QED BY <1>0, <1>1, <1>2, <3>1, <3>2, <4>1 DEF Current
    <3>4. IsInjective(tmp[m]) /\ tmp[m] \in Seq(Activities)
      BY <1>1 DEF BalanceInv, CopyOK, ManagerTypeOK
    <3> QED BY <1>1, <3>3, <3>4 DEF IsInjective
  <2> QED BY <2>1, <2>2
<1>8. ASSUME NEW a \in Activities, Balanced(a) PROVE Balanced(a)'
  <2>1. (\E k \in Managers : Expired(k, a)') => \E k \in Managers : Expired(k, a)
    BY <1>1, <1>4, ExpiredKept
  <2>2. owed[a] \in Int
    BY <1>1 DEF ManagerTypeOK
  <2>3. CASE a = b
    <3>1. owed[b] >= One(isScheduled[b]) + 1
      BY <1>6, <1>8, <2>3 DEF Balanced, One
    <3>2. owed'[b] = owed[b] - 1
      BY <1>3, <2>2, <2>3, <3>1 DEF One
    <3>3. ~ \E k \in Managers : Expired(k, a)'
      BY <1>7, <2>3
    <3> QED BY <1>2, <2>2, <2>3, <3>1, <3>2, <3>3 DEF Balanced, One
  <2>4. CASE a # b
    BY <1>2, <1>3, <1>8, <2>1, <2>2, <2>4 DEF Balanced, One
  <2> QED BY <2>3, <2>4
<1> QED BY <1>1, <1>2, <1>4, <1>5, <1>8, StrandedStays, CopyStepBalance DEF BalanceInv

\* The loop copies an entry it has not copied yet.  If its time has come, the
\* answer that was owed for its being scheduled is owed for its last run.
LEMMA CopyOneBalance ==
  ASSUME SoleScheduler, ManagerInv, ManagerInv', SoleInv, BalanceInv, NEW m \in Managers,
         CopyOne(m)
  PROVE  BalanceInv'
<1>0. PICK i, s, b, over : /\ i = ctx[m].i /\ s = activities[m] /\ b = s[i]
                           /\ over \in BOOLEAN /\ over <=> Over(m, b)
  OBVIOUS
<1>1. /\ m \in Threads /\ m \notin Clients /\ Quiet(m) /\ ManagerTypeOK /\ pc[m] = "copying"
      /\ pc' = pc /\ UNCHANGED <<now, startTime, owed, s_instance, mon>>
      /\ s \in Seq(Activities) /\ i \in 1 .. Len(s) /\ b \in Activities
      /\ tmp[m] \in Seq(Activities) /\ m = s_instance /\ mon[m] = m
  <2>1. /\ m \in Threads /\ m \notin Clients /\ Quiet(m) /\ ManagerTypeOK /\ pc[m] = "copying"
        /\ pc' = pc /\ UNCHANGED <<now, startTime, owed, s_instance, mon>>
    BY CopyOneSole, LoopFinds, ThreadSets DEF CopyOne, clock, times
  <2>2. s \in Seq(Activities) /\ tmp[m] \in Seq(Activities) /\ Len(s) \in Nat
    BY <1>0, <2>1 DEF ManagerTypeOK
  <2>3. i \in 1 .. Len(s)
    BY <1>0, <2>2, LoopFinds DEF CopyOne
  <2>4. m = s_instance /\ mon[m] = m
    BY <2>1, OneManager DEF ManagerInv, ManagerOK
  <2> QED BY <1>0, <2>1, <2>2, <2>3, <2>4
<1>2. /\ \A k \in Managers : k # m => tmp'[k] = tmp[k] /\ activities'[k] = activities[k]
      /\ tmp'[m] = Append(tmp[m], b)
      /\ activities'[m] = IF over THEN RemoveAt(s, i) ELSE s
      /\ over => mon[b] \in {None, m} /\ isScheduled'[b] = FALSE
      /\ ~ over => isScheduled' = isScheduled
      /\ \A e \in Activities : e # b => isScheduled'[e] = isScheduled[e]
  <2>1. /\ tmp' = [tmp EXCEPT ![m] = Append(@, b)]
        /\ IF over THEN /\ Free(b, m)
                        /\ activities' = [activities EXCEPT ![m] = RemoveAt(@, i)]
                        /\ isScheduled' = [isScheduled EXCEPT ![b] = FALSE]
                   ELSE UNCHANGED <<activities, isScheduled>>
    BY <1>0 DEF CopyOne, Unscheduled, Over
  <2>2. over => mon[b] \in {None, m}
    BY <2>1 DEF Free
  <2>3. /\ \A k \in Managers : k # m => tmp'[k] = tmp[k]
        /\ tmp'[m] = Append(tmp[m], b)
    BY <1>1, <2>1 DEF ManagerTypeOK
  <2>4. /\ \A k \in Managers : k # m => activities'[k] = activities[k]
        /\ activities'[m] = IF over THEN RemoveAt(s, i) ELSE s
    BY <1>0, <1>1, <2>1 DEF ManagerTypeOK
  <2>5. /\ over => isScheduled'[b] = FALSE
        /\ ~ over => isScheduled' = isScheduled
        /\ \A e \in Activities : e # b => isScheduled'[e] = isScheduled[e]
    BY <1>1, <2>1 DEF ManagerTypeOK
  <2> QED BY <2>2, <2>3, <2>4, <2>5
<1>3. /\ ctx'[m].i = (IF over THEN i ELSE i + 1) /\ ctx'[m].current = ctx[m].current
  <2>1. ctx' = [ctx EXCEPT ![m].i = NextIndex(i, over)]
    <3>1. ctx' = [ctx EXCEPT ![m].i = NextIndex(i, Over(m, b))]
      BY <1>0 DEF CopyOne, Over
    <3>2. NextIndex(i, Over(m, b)) = NextIndex(i, over)
      BY <1>0 DEF NextIndex
    <3> QED BY <3>1, <3>2
  <2>2. ctx \in [Threads -> Locals] /\ ctx[m] \in Locals
    BY LoopFinds
  <2>3. ctx'[m] = [ctx[m] EXCEPT !.i = NextIndex(i, over)]
    BY <1>1, <2>1, <2>2
  <2>4. ctx'[m].i = NextIndex(i, over) /\ ctx'[m].current = ctx[m].current
    BY <2>2, <2>3 DEF Locals
  <2> QED BY <2>4 DEF NextIndex
<1>4. /\ IsInjective(s) /\ IsInjective(tmp[m])
      /\ \A k \in i .. Len(s) : ~ Contains(tmp[m], s[k])
  BY <1>0, <1>1 DEF SoleInv, SoleList, BalanceInv, CopyOK
<1>5. CopyOK(m)'
  <2>1. ~ Contains(tmp[m], b) /\ Len(s) \in Nat
    BY <1>0, <1>1, <1>4
  <2>2. /\ IsInjective(Append(tmp[m], b))
        /\ \A e : Contains(Append(tmp[m], b), e) => e = b \/ Contains(tmp[m], e)
    BY <1>1, <1>4, <2>1, InjectiveAppend
  <2>3. ASSUME NEW k \in ctx'[m].i .. Len(activities'[m])
        PROVE  \E j \in i + 1 .. Len(s) : activities'[m][k] = s[j]
    <3>1. CASE ~ over
      BY <1>1, <1>2, <1>3, <2>1, <2>3, <3>1
    <3>2. CASE over
      <4>1. /\ Len(RemoveAt(s, i)) = Len(s) - 1
            /\ \A j \in 1 .. Len(s) - 1 : RemoveAt(s, i)[j] = IF j < i THEN s[j] ELSE s[j + 1]
        BY <1>1, RemoveAtProperties
      <4>2. k \in i .. Len(s) - 1 /\ activities'[m][k] = RemoveAt(s, i)[k]
        BY <1>2, <1>3, <2>3, <3>2, <4>1
      <4>3. activities'[m][k] = s[k + 1] /\ k + 1 \in i + 1 .. Len(s)
        BY <1>1, <2>1, <4>1, <4>2
      <4> QED BY <4>3
    <3> QED BY <3>1, <3>2
  <2>4. ASSUME NEW j \in i + 1 .. Len(s) PROVE ~ Contains(Append(tmp[m], b), s[j])
    <3>1. j \in i .. Len(s) /\ j \in DOMAIN s /\ i \in DOMAIN s /\ j # i
      BY <1>1, <2>1
    <3>2. s[j] # b
      BY <1>0, <1>4, <3>1 DEF IsInjective
    <3> QED BY <1>4, <2>2, <3>1, <3>2
  <2> QED BY <1>1, <1>2, <2>2, <2>3, <2>4 DEF CopyOK, Resting
<1>6. ASSUME NEW k \in Managers, k # m PROVE CopyOK(k)'
  BY <1>1, <1>2, <1>6, OthersCopyOK
<1>7. ASSUME NEW k \in Managers, NEW a, ToRun(k, a)'
      PROVE  k = m /\ (ToRun(m, a) \/ a = b)
  <2>1. CASE k # m
    <3>1. ToRun(k, a)
      BY <1>1, <1>2, <1>7, <2>1, OthersCopy
    <3>2. pc[k] \in {"new", "dead"}
      BY <1>1, <2>1, OneManager
    <3> QED BY <3>1, <3>2, FirstIs
  <2>2. CASE k = m
    <3>1. First(m) = 1 /\ First(m)' = 1
      BY <1>1 DEF First, Scheduling
    <3>2. PICK j \in 1 .. Len(tmp'[m]) : tmp'[m][j] = a
      BY <1>7, <2>2, <3>1 DEF ToRun
    <3>3. j \in 1 .. Len(tmp[m]) \/ j = Len(tmp[m]) + 1
      BY <1>1, <1>2, <3>2
    <3>4. CASE j \in 1 .. Len(tmp[m])
      BY <1>1, <1>2, <2>2, <3>1, <3>2, <3>4 DEF ToRun
    <3>5. CASE j = Len(tmp[m]) + 1
      BY <1>1, <1>2, <2>2, <3>2, <3>5
    <3> QED BY <3>3, <3>4, <3>5
  <2> QED BY <2>1, <2>2
<1>8. ASSUME NEW a PROVE Over(m, a)' <=> Over(m, a)
  BY <1>1, <1>3 DEF Over, StopTime
<1>9. isScheduled[b]
  <2>1. Listed(b, m)
    BY <1>0, <1>1 DEF Listed, Contains
  <2>2. ~ Marking(b, m)
    <3> SUFFICES ASSUME NEW o \in Threads, pc[o] = "mark", ctx[o].mgr = m PROVE FALSE
      BY DEF Marking
    <3>1. mon[m] = o
      BY DEF ManagerInv, ScheduleOK, Scheduling
    <3> QED BY <1>1, <3>1
  <2> QED BY <1>1, <2>1, <2>2 DEF SoleInv, SoleList
<1>10. ASSUME NEW o \in Threads PROVE TimeOK(o)'
  <2> SUFFICES ASSUME NEW a, a = ctx[o].act, pc[o] \in {"check", "setStart"}, o # m,
                      Duration[a] # INFINITY
               PROVE  /\ ctx[o].at <= now
                      /\ \A k \in Managers : ToRun(k, a)' /\ ~ Over(k, a)' =>
                            \/ o \in Clients /\ isScheduled'[a]
                            \/ ctx'[k].current < ctx[o].at + Duration[a]
    <3>1. o # m => ctx'[o] = ctx[o]
      BY <1>1 DEF Quiet
    <3> QED BY <1>1, <3>1 DEF TimeOK
  <2>1. TimeOK(o) /\ o \in Clients
    <3>1. o \notin Managers
      BY <1>1, OneManager
    <3> QED BY <3>1, ThreadSets DEF BalanceInv
  <2>2. a \in Activities
    BY ScheduleFinds DEF Scheduling
  <2>3. ASSUME NEW k \in Managers, ToRun(k, a)', ~ Over(k, a)'
        PROVE  isScheduled'[a] \/ ctx'[k].current < ctx[o].at + Duration[a]
    <3>1. k = m /\ (ToRun(m, a) \/ a = b) /\ ~ Over(m, a)
      BY <1>7, <1>8, <2>3
    <3>2. isScheduled[a] => isScheduled'[a]
      BY <1>0, <1>2, <2>2, <3>1
    <3>3. CASE ToRun(m, a)
      BY <1>3, <2>1, <3>1, <3>2, <3>3 DEF TimeOK
    <3>4. CASE a = b
      BY <1>9, <3>2, <3>4
    <3> QED BY <3>1, <3>3, <3>4
  <2> QED BY <2>1, <2>3 DEF TimeOK
<1>11. ASSUME NEW c \in Clients PROVE RemoveOK(c)'
  <2> SUFFICES ASSUME pc[c] = "remove" PROVE isScheduled'[ctx[c].act]
    <3>1. ctx'[c] = ctx[c]
      BY <1>1, ThreadSets DEF Quiet
    <3> QED BY <1>1, <3>1 DEF RemoveOK
  <2>1. mon[ctx[c].act] = c /\ ctx[c].act \in Activities /\ isScheduled[ctx[c].act]
    BY DEF ManagerInv, ClientOK, Cancelling, BalanceInv, RemoveOK
  <2>2. over => ctx[c].act # b
    <3>1. c # m /\ c # None
      BY <1>1, ThreadSets
    <3>2. over => mon[b] # c
      BY <1>2, <3>1
    <3> QED BY <2>1, <3>2
  <2>3. CASE over
    BY <1>2, <2>1, <2>2, <2>3
  <2>4. CASE ~ over
    BY <1>2, <2>1, <2>4
  <2> QED BY <2>3, <2>4
<1>12. StrandedBehind' <=> StrandedBehind
  <2>1. \A k \in Managers : k < s_instance => activities'[k] = activities[k]
    BY <1>1, <1>2, ThreadSets
  <2> QED BY <1>1, <2>1 DEF StrandedBehind
<1>13. ASSUME NEW a \in Activities, Balanced(a) PROVE Balanced(a)'
  <2>1. owed'[a] = owed[a] /\ owed[a] \in Int
    BY <1>1 DEF ManagerTypeOK
  <2>2. CASE a = b /\ over
    <3>1. owed[a] >= 1
      BY <1>9, <1>13, <2>1, <2>2 DEF Balanced, One
    <3> QED BY <1>2, <2>1, <2>2, <3>1 DEF Balanced, One
  <2>3. CASE a # b \/ ~ over
    <3>1. ASSUME NEW k \in Managers, Expired(k, a)' PROVE Expired(k, a)
      <4>1. k = m /\ (ToRun(m, a) \/ a = b) /\ (Over(m, a)' <=> Over(m, a))
        BY <1>7, <1>8, <3>1 DEF Expired
      <4>2. Over(m, a)'
        BY <1>1, <3>1, <4>1 DEF Expired
      <4> QED BY <1>0, <2>3, <4>1, <4>2 DEF Expired
    <3>2. (\E k \in Managers : Expired(k, a)') => \E k \in Managers : Expired(k, a)
      BY <3>1
    <3>3. isScheduled'[a] = isScheduled[a]
      BY <1>2, <2>3
    <3> QED BY <1>13, <2>1, <3>2, <3>3 DEF Balanced, One
  <2> QED BY <2>2, <2>3
<1>14. \A a \in Activities : Duration[a] # INFINITY => startTime'[a] <= now'
  BY <1>1 DEF BalanceInv
<1> QED BY <1>5, <1>6, <1>10, <1>11, <1>12, <1>13, <1>14 DEF BalanceInv

\* Time goes on.
LEMMA TickBalance ==
  ASSUME ManagerInv, BalanceInv, Tick
  PROVE  BalanceInv'
<1>1. /\ pc' = pc /\ ctx' = ctx /\ now' = now + 1 /\ now \in Nat
      /\ UNCHANGED <<startTime, isScheduled, owed, activities, tmp, s_instance>>
  BY ThreadSets DEF Tick, times, flags, lists, ManagerInv, ManagerTypeOK
<1>2. ASSUME NEW m \in Managers, NEW a
      PROVE  /\ ToRun(m, a)' <=> ToRun(m, a)
             /\ Over(m, a)' <=> Over(m, a)
             /\ Expired(m, a)' <=> Expired(m, a)
  <2>1. First(m)' = First(m) /\ Current(m)' = Current(m)
    BY <1>1 DEF First, Current
  <2>2. Over(m, a)' <=> Over(m, a)
    BY <1>1 DEF Over, StopTime
  <2> QED BY <1>1, <2>1, <2>2 DEF ToRun, Expired
<1>3. \A m \in Managers : CopyOK(m)'
  BY <1>1 DEF CopyOK, BalanceInv
<1>4. ASSUME NEW a \in Activities, Duration[a] # INFINITY PROVE startTime'[a] <= now'
  <2>1. startTime[a] \in Nat /\ startTime[a] <= now
    BY <1>4, ThreadSets DEF BalanceInv, ManagerInv, ManagerTypeOK
  <2> QED BY <1>1, <2>1
<1>5. ASSUME NEW th \in Threads PROVE TimeOK(th)'
  <2> SUFFICES ASSUME NEW a, a = ctx[th].act, pc[th] \in {"check", "setStart"},
                      Duration[a] # INFINITY
               PROVE  /\ ctx[th].at <= now'
                      /\ \A m \in Managers : ToRun(m, a)' /\ ~ Over(m, a)' =>
                            \/ th \in Clients /\ isScheduled[a]
                            \/ ctx[m].current < ctx[th].at + Duration[a]
    BY <1>1 DEF TimeOK
  <2>1. TimeOK(th) /\ ctx[th].at \in Nat
    BY ThreadSets DEF BalanceInv, ManagerInv, ManagerTypeOK, Locals
  <2>2. ctx[th].at <= now'
    BY <1>1, <2>1 DEF TimeOK
  <2> QED BY <1>2, <2>1, <2>2 DEF TimeOK
<1>6. \A c \in Clients : RemoveOK(c)'
  BY <1>1 DEF RemoveOK, BalanceInv
<1>7. StrandedBehind' <=> StrandedBehind
  BY <1>1 DEF StrandedBehind
<1>8. ASSUME NEW a \in Activities, Balanced(a) PROVE Balanced(a)'
  <2>1. (\E m \in Managers : Expired(m, a)') <=> \E m \in Managers : Expired(m, a)
    BY <1>2
  <2> QED BY <1>1, <1>8, <2>1 DEF Balanced, One
<1> QED BY <1>3, <1>4, <1>5, <1>6, <1>7, <1>8 DEF BalanceInv

LEMMA StutterBalance ==
  ASSUME BalanceInv, UNCHANGED vars
  PROVE  BalanceInv'
<1>1. /\ pc' = pc /\ ctx' = ctx
      /\ UNCHANGED <<now, startTime, isScheduled, owed, activities, tmp, s_instance>>
  BY DEF vars
<1> USE <1>1 DEF BalanceInv
<1>2. \A m \in Managers : CopyOK(m)'
  BY DEF CopyOK
<1>3. \A th \in Threads : TimeOK(th)'
  BY DEF TimeOK, ToRun, First, Over, StopTime
<1>4. \A c \in Clients : RemoveOK(c)'
  BY DEF RemoveOK
<1>5. StrandedBehind' <=> StrandedBehind
  BY DEF StrandedBehind
<1>6. ASSUME NEW a \in Activities, Balanced(a) PROVE Balanced(a)'
  <2>1. ASSUME NEW m \in Managers PROVE Expired(m, a)' <=> Expired(m, a)
    BY DEF Expired, ToRun, First, Over, StopTime, Current
  <2>2. (\E m \in Managers : Expired(m, a)') <=> \E m \in Managers : Expired(m, a)
    BY <2>1
  <2> QED BY <1>6, <2>2 DEF Balanced, One
<1> QED BY <1>2, <1>3, <1>4, <1>5, <1>6

LEMMA InitBalance ==
  ASSUME Init
  PROVE  BalanceInv
<1>1. /\ \A m \in Managers : tmp[m] = <<>> /\ pc[m] = "new"
      /\ \A th \in Threads : pc[th] \in {"new", "idle"}
      /\ \A a \in Activities : isScheduled[a] = FALSE /\ owed[a] = 0 /\ startTime[a] = 0
      /\ now = 0
  BY ThreadSets DEF Init
<1>2. \A m \in Managers : CopyOK(m)
  BY <1>1 DEF CopyOK, IsInjective
<1>3. \A m \in Managers, a \in Activities : ~ Expired(m, a)
  BY <1>1 DEF Expired, ToRun, First, Scheduling
<1>4. \A a \in Activities : Balanced(a)
  <2> SUFFICES ASSUME NEW a \in Activities PROVE Balanced(a)
    OBVIOUS
  <2>1. ~ \E m \in Managers : Expired(m, a)
    BY <1>3
  <2> QED BY <1>1, <2>1 DEF Balanced, One
<1>5. \A th \in Threads : TimeOK(th)
  BY <1>1 DEF TimeOK
<1>6. \A c \in Clients : RemoveOK(c)
  BY <1>1, ThreadSets DEF RemoveOK
<1> QED BY <1>1, <1>2, <1>4, <1>5, <1>6 DEF BalanceInv

LEMMA NextBalance ==
  ASSUME SoleScheduler, LaterEndless, ManagerInv, SoleInv, BalanceInv, [Next]_vars
  PROVE  BalanceInv'
<1>0. ManagerInv'
  BY NextInv
<1>1. ASSUME NEW th \in Threads, Schedule(th) PROVE BalanceInv'
  BY <1>0, <1>1, CheckScheduledBalance, SetStartTimeBalance, AddBalance, MarkBalance
     DEF Schedule
<1>2. ASSUME NEW c \in Clients, Call(c) PROVE BalanceInv'
  <2>1. CASE Run(c)
    <3>1. PICK a \in Runs : ScheduleAt(c, a, now)
      BY <2>1 DEF Run
    <3>2. a \in Activities \ Followers /\ now \in Times
      BY ScriptAssumption DEF ManagerInv, ManagerTypeOK, SoleScheduler
    <3> QED BY <1>0, <3>1, <3>2, ScheduleAtBalance
  <2>2. CASE RunAt(c)
    <3>1. PICK p \in RunAts : ScheduleAt(c, p[1], p[2])
      BY <2>2 DEF RunAt
    <3>2. p[1] \in Activities \ Followers /\ p[2] \in Times /\ Duration[p[1]] = INFINITY
      BY ScriptAssumption DEF SoleScheduler, LaterEndless
    <3> QED BY <1>0, <3>1, <3>2, ScheduleAtBalance
  <2> QED BY <1>0, <1>2, <2>1, <2>2, ClientBalance DEF Call
<1>3. ASSUME NEW c \in Clients, ClientStep(c) PROVE BalanceInv'
  <2>1. c \in Threads
    BY ThreadSets
  <2>2. CASE DoCancel(c)
    BY <1>0, <2>2, ClientBalance, CancelScheduledBalance, RemoveActivityBalance DEF DoCancel
  <2>3. CASE Stop(c)
    BY <1>0, <2>3, ClientBalance DEF Stop
  <2> QED BY <1>1, <1>3, <2>1, <2>2, <2>3 DEF ClientStep
<1>4. ASSUME NEW m \in Managers, ManagerStep(m) PROVE BalanceInv'
  <2>1. m \in Threads
    BY ThreadSets
  <2>2. CASE Loop(m)
    BY <1>0, <2>2, LoopBalance, CopyOneBalance, FinishBalance, FireFinishedBalance
       DEF Loop, RunActivity
  <2> QED BY <1>1, <1>4, <2>1, <2>2 DEF ManagerStep
<1>5. ASSUME NEW m \in Managers, Throw(m) PROVE BalanceInv'
  BY <1>0, <1>5, LoopBalance
<1> QED BY <1>2, <1>3, <1>4, <1>5, TickBalance, StutterBalance DEF Next, Terminated

\* Where each activity has one thread that schedules it and one that starts
\* later has no end, each activityFinished and each activityCancelled answers
\* an activityScheduled of its own: what was cancelled does not finish, and
\* what finished is not reported cancelled.
THEOREM Answered ==
  ASSUME SoleScheduler, LaterEndless PROVE Spec => []EventsBalance
<1>1. Init => ManagerInv /\ SoleInv /\ BalanceInv
  BY InitInv, InitSole, InitBalance
<1>2. ManagerInv /\ SoleInv /\ BalanceInv /\ [Next]_vars =>
        (ManagerInv /\ SoleInv /\ BalanceInv)'
  BY NextInv, NextSole, NextBalance
<1>3. ManagerInv /\ SoleInv /\ BalanceInv => EventsBalance
  <2> SUFFICES ASSUME ManagerInv, SoleInv, BalanceInv, ~ Stranded, NEW a \in Activities
               PROVE  owed[a] >= 0
    BY DEF EventsBalance
  <2>1. ~ StrandedBehind
    BY DEF StrandedBehind, Stranded, ManagerInv, ListOK
  <2>2. Balanced(a) /\ owed[a] \in Int
    BY <2>1 DEF BalanceInv, ManagerInv, ManagerTypeOK
  <2> QED BY <2>2 DEF Balanced, One
<1> QED BY <1>1, <1>2, <1>3, PTL DEF Spec
=============================================================================

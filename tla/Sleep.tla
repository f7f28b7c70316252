------------------------------- MODULE Sleep -------------------------------
(***************************************************************************)
(* Spin locks, sleep and wakeup, the scheduler, the timer interrupt and    *)
(* sleep locks (spinlock.c, sleeplock.c, proc.c, trap.c), on several       *)
(* processors.                                                             *)
(*                                                                         *)
(* A thread is a process in the kernel or in user mode, or the scheduler   *)
(* of a processor.  What it still has to do is a list of operations; a     *)
(* processor runs the head of the list of its current thread.  An          *)
(* interrupt puts its handler in front.  A process whose list is empty     *)
(* computes in user mode.                                                  *)
(***************************************************************************)
EXTENDS Integers, Sequences, FiniteSets

CONSTANTS
  NCPU,
  NP,           \* processes
  Programs      \* what the processes may do: functions from processes to lists

VARIABLES
  cpu,          \* the thread, the interrupt flag, ncli and intena of each processor
  lock,         \* the processor that holds each spin lock, 0 if none
  state, chan, killed,  \* of each process, under ptable.lock
  todo,         \* what each thread has to do
  intena,       \* what sched saves on the stack of a process
  owner,        \* the process that has the sleep lock, 0 if none
  slept,        \* ticks since sys_sleep read the clock, up to what it waits for
  panic

vars == <<cpu, lock, state, chan, killed, todo, intena, owner, slept, panic>>

Cpu == 1 .. NCPU
Proc == 1 .. NP
scheduler(c) == NP + c
Thread == 1 .. NP + NCPU
Lock == {"ptable", "tickslock", "lk"}
Chan == {"none", "ticks", "lk"}
MaxSleep == 1

\* The scheduler's loop, and a process that runs for the first time in forkret, with
\* ptable.lock still held, and goes to user mode with interrupts on.
SchedulerLoop == <<<<"sti">>, <<"acquire", "ptable">>, <<"scan", 1>>>>
forkret == <<<<"release", "ptable">>, <<"sti">>>>

Init ==
  /\ cpu = [c \in Cpu |-> [cur |-> scheduler(c), if |-> FALSE, ncli |-> 0, intena |-> FALSE]]
  /\ lock = [l \in Lock |-> 0]
  /\ state = [p \in Proc |-> "RUNNABLE"]
  /\ chan = [p \in Proc |-> "none"]
  /\ killed = [p \in Proc |-> FALSE]
  /\ \E g \in Programs : todo = [t \in Thread |-> IF t \in Proc THEN forkret \o g[t] ELSE SchedulerLoop]
  /\ intena = [p \in Proc |-> FALSE]
  /\ owner = 0
  /\ slept = [p \in Proc |-> 0]
  /\ panic = ""

-----------------------------------------------------------------------------
\* One operation of the current thread of processor c.

At(c, op) == panic = "" /\ todo[cpu[c].cur] # <<>> /\ Head(todo[cpu[c].cur])[1] = op
Arg(c) == Head(todo[cpu[c].cur])[2]
Do(c, ops) == todo' = [todo EXCEPT ![cpu[c].cur] = ops \o Tail(@)]
Current(c) == cpu[c].cur

pushcli(r) == [r EXCEPT !.if = FALSE, !.ncli = @ + 1, !.intena = IF r.ncli = 0 THEN r.if ELSE @]
popcli(r) == [r EXCEPT !.ncli = @ - 1, !.if = IF r.ncli = 1 /\ r.intena THEN TRUE ELSE @]

\* acquire turns interrupts off, and then spins until the lock is free.
acquire(c) ==
  /\ At(c, "acquire")
  /\ cpu' = [cpu EXCEPT ![c] = pushcli(@)]
  /\ Do(c, <<<<"xchg", Arg(c)>>>>)
  /\ panic' = IF lock[Arg(c)] = c THEN "acquire" ELSE ""
  /\ UNCHANGED <<lock, state, chan, killed, intena, owner, slept>>

xchg(c) ==
  /\ At(c, "xchg")
  /\ lock[Arg(c)] = 0
  /\ lock' = [lock EXCEPT ![Arg(c)] = c]
  /\ Do(c, <<>>)
  /\ UNCHANGED <<cpu, state, chan, killed, intena, owner, slept, panic>>

release(c) ==
  /\ At(c, "release")
  /\ panic' = IF lock[Arg(c)] # c THEN "release"
              ELSE IF cpu[c].if THEN "popcli - interruptible"
              ELSE IF cpu[c].ncli < 1 THEN "popcli" ELSE ""
  /\ lock' = [lock EXCEPT ![Arg(c)] = 0]
  /\ cpu' = [cpu EXCEPT ![c] = popcli(@)]
  /\ Do(c, <<>>)
  /\ UNCHANGED <<state, chan, killed, intena, owner, slept>>

sti(c) ==
  /\ At(c, "sti")
  /\ cpu' = [cpu EXCEPT ![c].if = TRUE]
  /\ Do(c, <<>>)
  /\ UNCHANGED <<lock, state, chan, killed, intena, owner, slept, panic>>

\* Mutant: the process that is chosen stays RUNNABLE.
scan_runnable(c) ==
  LET runnable == {p \in Proc : p >= Arg(c) /\ state[p] = "RUNNABLE"}
      p == CHOOSE q \in runnable : \A r \in runnable : q <= r
  IN /\ At(c, "scan")
     /\ \/ /\ runnable # {}
           /\ UNCHANGED state
           /\ cpu' = [cpu EXCEPT ![c].cur = p]
           /\ Do(c, <<<<"scan", p + 1>>>>)
        \/ /\ runnable = {}
           /\ Do(c, <<<<"release", "ptable">>>> \o SchedulerLoop)
           /\ UNCHANGED <<state, cpu>>
     /\ UNCHANGED <<lock, chan, killed, intena, owner, slept, panic>>
\* The scheduler runs the next process of the table that can run, in the middle of its
\* call of sched; at the end of the table it begins again.
scan(c) ==
  LET runnable == {p \in Proc : p >= Arg(c) /\ state[p] = "RUNNABLE"}
      p == CHOOSE q \in runnable : \A r \in runnable : q <= r
  IN /\ At(c, "scan")
     /\ \/ /\ runnable # {}
           /\ state' = [state EXCEPT ![p] = "RUNNING"]
           /\ cpu' = [cpu EXCEPT ![c].cur = p]
           /\ Do(c, <<<<"scan", p + 1>>>>)
        \/ /\ runnable = {}
           /\ Do(c, <<<<"release", "ptable">>>> \o SchedulerLoop)
           /\ UNCHANGED <<state, cpu>>
     /\ UNCHANGED <<lock, chan, killed, intena, owner, slept, panic>>

\* The process gives the processor to the scheduler and keeps intena on its stack.
sched(c) ==
  LET p == Current(c)
  IN /\ At(c, "sched")
     /\ panic' = IF lock["ptable"] # c THEN "sched ptable.lock"
                 ELSE IF cpu[c].ncli # 1 THEN "sched locks"
                 ELSE IF state[p] = "RUNNING" THEN "sched running"
                 ELSE IF cpu[c].if THEN "sched interruptible" ELSE ""
     /\ intena' = [intena EXCEPT ![p] = cpu[c].intena]
     /\ cpu' = [cpu EXCEPT ![c].cur = scheduler(c)]
     /\ Do(c, <<<<"resched">>>>)
     /\ UNCHANGED <<lock, state, chan, killed, owner, slept>>
\* Mutant: intena stays with the processor.
resched_cpu(c) ==
  /\ At(c, "resched")
  /\ Do(c, <<>>)
  /\ UNCHANGED <<cpu, lock, state, chan, killed, intena, owner, slept, panic>>
\* sched returns, perhaps on another processor.
resched(c) ==
  /\ At(c, "resched")
  /\ cpu' = [cpu EXCEPT ![c].intena = intena[Current(c)]]
  /\ Do(c, <<>>)
  /\ UNCHANGED <<lock, state, chan, killed, intena, owner, slept, panic>>

-----------------------------------------------------------------------------
\* Sleep and wakeup.

\* Mutant: the caller's lock is released before ptable.lock is taken.
sleep_early(ch) ==
  <<<<"release", ch[2]>>, <<"acquire", "ptable">>, <<"sleeping", ch[1]>>, <<"sched">>, <<"tidy">>,
    <<"release", "ptable">>, <<"acquire", ch[2]>>>>
\* Mutant: the caller's lock is kept.
sleep_keep(ch) ==
  <<<<"acquire", "ptable">>, <<"sleeping", ch[1]>>, <<"sched">>, <<"tidy">>, <<"release", "ptable">>>>
\* sleep(chan, lk), for a lock that is not ptable.lock.
sleep(ch) ==
  <<<<"acquire", "ptable">>, <<"release", ch[2]>>, <<"sleeping", ch[1]>>, <<"sched">>, <<"tidy">>,
    <<"release", "ptable">>, <<"acquire", ch[2]>>>>
wakeup(ch) == <<<<"acquire", "ptable">>, <<"wakeup1", ch>>, <<"release", "ptable">>>>

\* The process sleeps, and when it runs again it clears its channel.
sleeping(c) ==
  /\ At(c, "sleeping")
  /\ chan' = [chan EXCEPT ![Current(c)] = Arg(c)]
  /\ state' = [state EXCEPT ![Current(c)] = "SLEEPING"]
  /\ Do(c, <<>>)
  /\ UNCHANGED <<cpu, lock, killed, intena, owner, slept, panic>>
tidy(c) ==
  /\ At(c, "tidy")
  /\ chan' = [chan EXCEPT ![Current(c)] = "none"]
  /\ Do(c, <<>>)
  /\ UNCHANGED <<cpu, lock, state, killed, intena, owner, slept, panic>>

wakeup1(c) ==
  /\ At(c, "wakeup1")
  /\ state' = [p \in Proc |-> IF state[p] = "SLEEPING" /\ chan[p] = Arg(c) THEN "RUNNABLE" ELSE state[p]]
  /\ Do(c, <<>>)
  /\ UNCHANGED <<cpu, lock, chan, killed, intena, owner, slept, panic>>

\* kill, under ptable.lock.
kill(p) == <<<<"acquire", "ptable">>, <<"kill1", p>>, <<"release", "ptable">>>>
kill1(c) ==
  /\ At(c, "kill1")
  /\ killed' = [killed EXCEPT ![Arg(c)] = TRUE]
  /\ state' = [state EXCEPT ![Arg(c)] = IF @ = "SLEEPING" THEN "RUNNABLE" ELSE @]
  /\ Do(c, <<>>)
  /\ UNCHANGED <<cpu, lock, chan, intena, owner, slept, panic>>

\* yield, which the timer interrupt calls.
yield == <<<<"acquire", "ptable">>, <<"runnable">>, <<"sched">>, <<"release", "ptable">>>>
runnable(c) ==
  /\ At(c, "runnable")
  /\ state' = [state EXCEPT ![Current(c)] = "RUNNABLE"]
  /\ Do(c, <<>>)
  /\ UNCHANGED <<cpu, lock, chan, killed, intena, owner, slept, panic>>

-----------------------------------------------------------------------------
\* Sleep locks.

acquiresleep == <<<<"acquire", "lk">>, <<"locked">>, <<"release", "lk">>, <<"critical">>>>
\* Mutant: a process that was killed does not wait for the lock.
locked_killed(c) ==
  /\ At(c, "locked")
  /\ \/ /\ owner # 0 /\ ~killed[Current(c)]
        /\ Do(c, sleep(<<"lk", "lk">>) \o <<<<"locked">>>>)
        /\ UNCHANGED owner
     \/ /\ owner = 0 \/ killed[Current(c)]
        /\ owner' = Current(c)
        /\ Do(c, <<>>)
  /\ UNCHANGED <<cpu, lock, state, chan, killed, intena, slept, panic>>
\* As long as the lock is taken the process sleeps, whatever wakes it.
locked(c) ==
  /\ At(c, "locked")
  /\ \/ /\ owner # 0
        /\ Do(c, sleep(<<"lk", "lk">>) \o <<<<"locked">>>>)
        /\ UNCHANGED owner
     \/ /\ owner = 0
        /\ owner' = Current(c)
        /\ Do(c, <<>>)
  /\ UNCHANGED <<cpu, lock, state, chan, killed, intena, slept, panic>>

\* What the lock is for; the process may be preempted in it.
critical(c) ==
  /\ At(c, "critical")
  /\ Do(c, <<>>)
  /\ UNCHANGED <<cpu, lock, state, chan, killed, intena, owner, slept, panic>>

releasesleep == <<<<"acquire", "lk">>, <<"unlocked">>>> \o wakeup("lk") \o <<<<"release", "lk">>>>
unlocked(c) ==
  /\ At(c, "unlocked")
  /\ owner' = 0
  /\ Do(c, <<>>)
  /\ UNCHANGED <<cpu, lock, state, chan, killed, intena, slept, panic>>

-----------------------------------------------------------------------------
\* The clock.

\* sys_sleep: tickslock is held while the clock is read and tested.
sys_sleep(n) == <<<<"acquire", "tickslock">>, <<"ticks0">>, <<"elapsed", n>>, <<"release", "tickslock">>>>
ticks0(c) ==
  /\ At(c, "ticks0")
  /\ slept' = [slept EXCEPT ![Current(c)] = 0]
  /\ Do(c, <<>>)
  /\ UNCHANGED <<cpu, lock, state, chan, killed, intena, owner, panic>>
elapsed(c) ==
  /\ At(c, "elapsed")
  /\ Do(c, IF slept[Current(c)] >= Arg(c) \/ killed[Current(c)] THEN <<>>
           ELSE sleep(<<"ticks", "tickslock">>) \o <<<<"elapsed", Arg(c)>>>>)
  /\ UNCHANGED <<cpu, lock, state, chan, killed, intena, owner, slept, panic>>

\* The timer interrupt, whenever interrupts are on: processor 1 counts and wakes the
\* sleepers, and the process that runs, if one does, yields.
timer(c) ==
  /\ panic = "" /\ cpu[c].if
  /\ cpu' = [cpu EXCEPT ![c].if = FALSE]
  /\ todo' = [todo EXCEPT ![cpu[c].cur] =
                (IF c = 1 THEN <<<<"acquire", "tickslock">>, <<"tick">>>> \o wakeup("ticks") \o <<<<"release", "tickslock">>>>
                 ELSE <<>>)
                \o (IF cpu[c].cur \in Proc THEN yield ELSE <<>>) \o <<<<"iret">>>> \o @]
  /\ UNCHANGED <<lock, state, chan, killed, intena, owner, slept, panic>>
tick(c) ==
  /\ At(c, "tick")
  /\ slept' = [p \in Proc |-> IF slept[p] < MaxSleep THEN slept[p] + 1 ELSE slept[p]]
  /\ Do(c, <<>>)
  /\ UNCHANGED <<cpu, lock, state, chan, killed, intena, owner, panic>>
iret(c) ==
  /\ At(c, "iret")
  /\ cpu' = [cpu EXCEPT ![c].if = TRUE]
  /\ Do(c, <<>>)
  /\ UNCHANGED <<lock, state, chan, killed, intena, owner, slept, panic>>

Step(c) ==
  \/ acquire(c) \/ release(c) \/ sti(c) \/ scan(c) \/ sched(c) \/ resched(c) \/ sleeping(c) \/ tidy(c)
  \/ wakeup1(c) \/ kill1(c) \/ runnable(c) \/ locked(c) \/ critical(c) \/ unlocked(c) \/ ticks0(c) \/ elapsed(c)
  \/ tick(c) \/ iret(c)

Next == \E c \in Cpu : Step(c) \/ xchg(c) \/ timer(c)

\* An operation is still to come.
Has(t, op) == \E i \in DOMAIN todo[t] : todo[t][i][1] = op
Spec == Init /\ [][Next]_vars
=============================================================================

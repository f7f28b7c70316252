------------------------------ MODULE MCSleep ------------------------------
(***************************************************************************)
(* Sleep with two processors and three processes that share a sleep lock,  *)
(* wait for the clock and kill one another.                                *)
(***************************************************************************)
EXTENDS Sleep

Section == acquiresleep \o releasesleep
MCPrograms ==
  {<<Section, Section, Section>>, <<Section, Section, kill(1)>>, <<sys_sleep(1), Section, Section \o kill(1)>>}

\* None of the tests of the locks and of sched fails: no lock is taken twice by one
\* processor or released by another, and sched is entered with ptable.lock as the only
\* lock, interrupts off and the state changed.
NoPanic == panic = ""

\* A process is on one processor at most, and is RUNNING exactly when it is on one,
\* whenever ptable.lock is free.
RunsOnce ==
  /\ \A c, d \in Cpu : cpu[c].cur = cpu[d].cur => c = d
  /\ lock["ptable"] = 0 => \A p \in Proc : (state[p] = "RUNNING") = (\E c \in Cpu : cpu[c].cur = p)

\* Interrupts are on only on a processor that holds and wants no lock and is not in a
\* handler, although ncli is of the processor and a process may go on on another one.
InterruptsMasked ==
  \A c \in Cpu :
    /\ cpu[c].ncli = Cardinality({l \in Lock : lock[l] = c}) + (IF At(c, "xchg") THEN 1 ELSE 0)
    /\ cpu[c].if => cpu[c].ncli = 0 /\ ~Has(cpu[c].cur, "iret")

\* Nobody sleeps while what it waits for is there, unless the wakeup is under way: a
\* process that sleeps for the lock has an owner to wait for, one that sleeps for the
\* clock has not slept long enough.
WakeupComing(ch, after) == \E t \in Thread : ~Has(t, after) /\ \E i \in DOMAIN todo[t] : todo[t][i] = <<"wakeup1", ch>>
NoLostWakeup ==
  \A p \in Proc : state[p] = "SLEEPING" =>
    /\ chan[p] = "lk" => owner # 0 \/ WakeupComing("lk", "unlocked")
    /\ chan[p] = "ticks" => slept[p] < MaxSleep \/ WakeupComing("ticks", "tick")

\* Seen from outside, testing the lock and falling asleep is one step, and so is giving
\* the lock back and waking the sleepers: until wakeup1 the lock still counts as taken.
Waking == {p \in Proc : ~Has(p, "unlocked") /\ \E i \in DOMAIN todo[p] : todo[p][i] = <<"wakeup1", "lk">>}
SL == INSTANCE SleepLock WITH
  owner <- IF Waking # {} THEN CHOOSE p \in Waking : TRUE ELSE owner,
  waiting <- {p \in Proc : state[p] = "SLEEPING" /\ chan[p] = "lk"}
SleepLockAtomic == SL!Spec
=============================================================================

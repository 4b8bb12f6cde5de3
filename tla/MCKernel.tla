------------------------------ MODULE MCKernel ------------------------------
(* Programs for the tasks of module Kernel.                                *)
EXTENDS Kernel

\* user/init.c: console output, spawn_at, then an endless loop in ring 3.
InitOps == {"other", "spawn_at"}

With(init, user) == [i \in Slots |-> IF i = 0 THEN init ELSE user]

FutexOps == {"futex_wait", "futex_wake"}

\* Every call in some slot, and those that block, wake or end in several.
ProgAny ==
  [With({}, {"wait", "fault"} \cup FutexOps) EXCEPT
     ![0] = InitOps \cup FutexOps,
     ![1] = {"exit", "wait_any", "send", "kill", "irq_register", "nanosleep", "clone",
             "futex_wait", "shutdown", "panic"}]

\* The repository's init, and programs that use processes and futexes but
\* neither kill nor wait_any nor messages; only the program in slot 1 waits.
ChildOps == {"exit", "clone", "fault", "other", "nanosleep"} \cup FutexOps
ProgOrderly == [With(InitOps, ChildOps) EXCEPT ![1] = ChildOps \cup {"wait"}]

ASSUME ProgOrderlyIsOrderly == Orderly(ProgOrderly)

\* Any mix of scheduling events, without stopping the machine on purpose.
ProgBusy ==
  [With({}, {"exit", "wait", "send", "futex_wait", "other"}) EXCEPT
     ![0] = InitOps \cup {"nanosleep", "futex_wake"},
     ![1] = {"exit", "fault", "kill", "wait", "nanosleep"} \cup FutexOps]
=============================================================================

------------------------------- MODULE WorkQueue -------------------------------
(* kernel_list.c: submitters put work on a list under a spin lock and wake *)
(* the worker thread, which sleeps on a wait queue while the list is empty *)
(* and runs each function without the lock.                                *)
EXTENDS Naturals, Sequences

CONSTANT Works   \* the pieces of work, one submitter each

VARIABLES
  list,    \* mydrv_worklist
  lock,    \* who has mydrv_wq.lock, or "free"
  queued,  \* whether the worker is on the wait queue todo
  state,   \* the worker's state: "running" or "interruptible"
  wpc,     \* the worker: "top", "queue", "test", "sleep", "off", "lock", "list", "func", "dead"
  work,    \* the work whose function the worker runs
  spc,     \* each submitter: "ready", "lock", "wake", "unlock", "done"; "failed" without memory
  ran,     \* history: the work done, in order
  die      \* asked_to_die()

workVars == <<list, lock, queued, state, wpc, work, spc, ran, die>>
NoOne == "free"
Worker == "worker"

WorkInit ==
  /\ list = <<>> /\ lock = NoOne /\ queued = FALSE /\ state = "interruptible" /\ wpc = "top"
  /\ work = NoOne /\ spc = [w \in Works |-> "ready"] /\ ran = <<>> /\ die = FALSE

(* submit_work: the node, the lock, list_add_tail, wake_up, and unlock.    *)
kmalloc(w) ==
  /\ spc[w] = "ready" /\ spc' = [spc EXCEPT ![w] = "lock"]
  /\ UNCHANGED <<list, lock, queued, state, wpc, work, ran, die>>
submit_fails(w) ==
  /\ spc[w] = "ready" /\ spc' = [spc EXCEPT ![w] = "failed"]
  /\ UNCHANGED <<list, lock, queued, state, wpc, work, ran, die>>
list_add_tail(w) ==
  /\ spc[w] = "lock" /\ lock = NoOne
  /\ lock' = w /\ list' = Append(list, w)
  /\ spc' = [spc EXCEPT ![w] = "wake"]
  /\ UNCHANGED <<queued, state, wpc, work, ran, die>>
(* wake_up reaches who is on the queue.                                    *)
wake_up(w) ==
  /\ spc[w] = "wake" /\ spc' = [spc EXCEPT ![w] = "unlock"]
  /\ state' = IF queued THEN "running" ELSE state
  /\ UNCHANGED <<list, lock, queued, wpc, work, ran, die>>
spin_unlock(w) ==
  /\ spc[w] = "unlock" /\ spc' = [spc EXCEPT ![w] = "done"] /\ lock' = NoOne
  /\ UNCHANGED <<list, queued, state, wpc, work, ran, die>>

(* mydrv_worker's loop.                                                    *)
worker_top ==
  /\ wpc = "top"
  /\ IF die THEN wpc' = "dead" /\ state' = "running" /\ UNCHANGED queued
     ELSE wpc' = "test" /\ queued' = TRUE /\ UNCHANGED state
  /\ UNCHANGED <<list, lock, work, spc, ran, die>>
worker_test ==
  /\ wpc = "test"
  /\ IF list = <<>> THEN wpc' = "sleep" /\ UNCHANGED state
     ELSE wpc' = "off" /\ state' = "running"
  /\ UNCHANGED <<list, lock, queued, work, spc, ran, die>>
(* schedule() gives the processor up until the state is running; a signal  *)
(* makes it so too.                                                        *)
worker_schedule ==
  /\ wpc = "sleep" /\ state = "running" /\ wpc' = "off"
  /\ UNCHANGED <<list, lock, queued, state, work, spc, ran, die>>
signalled ==
  /\ wpc = "sleep" /\ state = "interruptible" /\ state' = "running"
  /\ UNCHANGED <<list, lock, queued, wpc, work, spc, ran, die>>
remove_wait_queue ==
  /\ wpc = "off" /\ queued' = FALSE /\ wpc' = "lock"
  /\ UNCHANGED <<list, lock, state, work, spc, ran, die>>
worker_lock ==
  /\ wpc = "lock" /\ lock = NoOne /\ lock' = Worker /\ wpc' = "list"
  /\ UNCHANGED <<list, queued, state, work, spc, ran, die>>
(* The first node is taken off, or the lock is released.                   *)
list_del ==
  /\ wpc = "list" /\ lock' = NoOne
  /\ IF list # <<>>
     THEN list' = Tail(list) /\ work' = Head(list) /\ wpc' = "func" /\ UNCHANGED state
     ELSE wpc' = "top" /\ state' = "interruptible" /\ UNCHANGED <<list, work>>
  /\ UNCHANGED <<queued, spc, ran, die>>
worker_func ==
  /\ wpc = "func" /\ ran' = Append(ran, work) /\ wpc' = "lock"
  /\ UNCHANGED <<list, lock, queued, state, work, spc, die>>

asked_to_die ==
  /\ ~die /\ die' = TRUE
  /\ UNCHANGED <<list, lock, queued, state, wpc, work, spc, ran>>

worker == worker_top \/ worker_test \/ worker_schedule \/ remove_wait_queue \/ worker_lock
          \/ list_del \/ worker_func

(* Seeded bug: the worker is woken before the work is on the list.         *)
submit_wakes_first(w) ==
  \/ kmalloc(w) \/ spin_unlock(w)
  \/ /\ spc[w] = "lock" /\ lock = NoOne /\ lock' = w
     /\ spc' = [spc EXCEPT ![w] = "wake"]
     /\ state' = IF queued THEN "running" ELSE state
     /\ UNCHANGED <<list, queued, wpc, work, ran, die>>
  \/ /\ spc[w] = "wake" /\ spc' = [spc EXCEPT ![w] = "unlock"]
     /\ list' = Append(list, w)
     /\ UNCHANGED <<lock, queued, state, wpc, work, ran, die>>

submit(w) == kmalloc(w) \/ list_add_tail(w) \/ wake_up(w) \/ spin_unlock(w)
WorkNext ==
  \/ \E w \in Works : submit(w) \/ submit_fails(w)
  \/ worker \/ signalled \/ asked_to_die

(* No wake-up is lost: work that was submitted is done, unless the worker  *)
(* is asked to die.                                                        *)
WorkDone == \A w \in Works : spc[w] = "done" ~> die \/ \E i \in DOMAIN ran : ran[i] = w
=============================================================================

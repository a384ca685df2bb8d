----------------------------- MODULE ThreadPool -----------------------------
(***************************************************************************)
(* The class ThreadPool of thread_pool.h with the WorkQueue of             *)
(* work_queue.h: callers that submit tasks, the worker threads, and the    *)
(* thread that calls Shutdown.  Every operation on the queue is one step,  *)
(* because WorkQueue locks its own mutex; conditional_mutex_ is held over  *)
(* several steps and is a variable.                                        *)
(*                                                                         *)
(* A worker keeps the task it has popped in a local variable and goes back *)
(* to the head of its loop; it runs the one it popped last, after it has   *)
(* seen shutdown_.                                                         *)
(***************************************************************************)
EXTENDS Integers, Sequences

CONSTANTS
  Worker, \* the worker threads
  Task,   \* the tasks; each is submitted at most once
  None    \* no task, no thread

ASSUME NoneAssumption == None \notin Worker \cup Task
ASSUME WorkerAssumption == Worker # {}

VARIABLES
  queue,              \* work_queue_
  shutdown_,
  conditional_mutex_, \* the worker that holds it, or None
  pc,                 \* where each worker is, see TypeOK
  function,           \* the local variable of each worker
  pop_queue,          \* the local flag of each worker, or "unset"
  submitted,          \* the tasks that SubmitWork has got
  notify,             \* the tasks whose SubmitWork has still to notify
  main,               \* the thread of Shutdown: "running", "notify", "join"
                      \* or "returned"
  ran,                \* the tasks that have been run
  missed              \* history: a notify_one came while no worker was
                      \* blocked and one was about to block

tasks == << queue, submitted, notify >>
vars == << queue, shutdown_, conditional_mutex_, pc, function, pop_queue,
           submitted, notify, main, ran, missed >>

Init ==
  /\ queue = << >>
  /\ shutdown_ = FALSE
  /\ conditional_mutex_ = None
  /\ pc = [w \in Worker |-> "loop"]
  /\ function = [w \in Worker |-> None]
  /\ pop_queue = [w \in Worker |-> "unset"]
  /\ submitted = {} /\ notify = {}
  /\ main = "running"
  /\ ran = {}
  /\ missed = FALSE

Go(w, to) == pc' = [pc EXCEPT ![w] = to]

Locals == UNCHANGED << function, pop_queue, ran >>

\* An exception that nobody catches has ended the process.
Crashed == \E w \in Worker : pc[w] = "crashed"

-----------------------------------------------------------------------------
(***************************************************************************)
(* SubmitWork, by any thread, and Shutdown.                                *)
(***************************************************************************)

\* Faulty: nobody is notified of the task.
PushSilently(t) ==
  /\ ~Crashed
  /\ t \notin submitted
  /\ queue' = Append(queue, t)
  /\ submitted' = submitted \cup {t}
  /\ UNCHANGED << shutdown_, conditional_mutex_, pc, notify, main, missed >>
  /\ Locals

\* PushQueue; nothing looks at shutdown_.
SubmitWork(t) ==
  /\ ~Crashed
  /\ t \notin submitted
  /\ queue' = Append(queue, t)
  /\ submitted' = submitted \cup {t}
  /\ notify' = notify \cup {t}
  /\ UNCHANGED << shutdown_, conditional_mutex_, pc, main, missed >>
  /\ Locals

Blocked == {w \in Worker : pc[w] = "blocked"}

\* notify_one, without conditional_mutex_: a worker that has found the queue
\* empty but does not block yet does not get it.
NotifyOne(t) ==
  /\ ~Crashed
  /\ t \in notify
  /\ notify' = notify \ {t}
  /\ \/ \E w \in Blocked : Go(w, "lock") /\ UNCHANGED missed
     \/ /\ Blocked = {}
        /\ missed' = (missed \/ \E w \in Worker : pc[w] = "block")
        /\ UNCHANGED pc
  /\ UNCHANGED << queue, submitted, shutdown_, conditional_mutex_, main >>
  /\ Locals

SetShutdown ==
  /\ ~Crashed
  /\ main = "running"
  /\ shutdown_' = TRUE
  /\ main' = "notify"
  /\ UNCHANGED << tasks, conditional_mutex_, pc, missed >>
  /\ Locals

NotifyAll ==
  /\ ~Crashed
  /\ main = "notify"
  /\ pc' = [w \in Worker |-> IF w \in Blocked THEN "lock" ELSE pc[w]]
  /\ main' = "join"
  /\ UNCHANGED << tasks, shutdown_, conditional_mutex_, missed >>
  /\ Locals

\* The joins, in any order, return when every worker is done.
Join ==
  /\ main = "join"
  /\ \A w \in Worker : pc[w] = "done"
  /\ main' = "returned"
  /\ UNCHANGED << tasks, shutdown_, conditional_mutex_, pc, missed >>
  /\ Locals

-----------------------------------------------------------------------------
(***************************************************************************)
(* WorkThread_::operator().                                                *)
(***************************************************************************)

\* Faulty: the loop does not look at shutdown_.
WhileTrue(w) ==
  /\ pc[w] = "loop"
  /\ Go(w, "lock")
  /\ UNCHANGED << tasks, shutdown_, conditional_mutex_, main, missed >>
  /\ Locals

\* The head of the loop.
While(w) ==
  /\ pc[w] = "loop"
  /\ Go(w, IF shutdown_ THEN "exit" ELSE "lock")
  /\ UNCHANGED << tasks, shutdown_, conditional_mutex_, main, missed >>
  /\ Locals

\* Faulty: the lock is not waited for.
Barge(w) ==
  /\ pc[w] = "lock"
  /\ conditional_mutex_' = w
  /\ Go(w, "test")
  /\ UNCHANGED << tasks, shutdown_, main, missed >>
  /\ Locals

\* The lock is taken: at the top of the body, or when wait has been woken.
Lock(w) ==
  /\ pc[w] = "lock"
  /\ conditional_mutex_ = None
  /\ conditional_mutex_' = w
  /\ Go(w, "test")
  /\ UNCHANGED << tasks, shutdown_, main, missed >>
  /\ Locals

\* The predicate of wait: shutdown_ is no part of it.
TestEmpty(w) ==
  /\ pc[w] = "test"
  /\ Go(w, IF queue = << >> THEN "block" ELSE "pop")
  /\ UNCHANGED << tasks, shutdown_, conditional_mutex_, main, missed >>
  /\ Locals

\* wait releases the lock and blocks, in one step.
Block(w) ==
  /\ pc[w] = "block"
  /\ conditional_mutex_' = None
  /\ Go(w, "blocked")
  /\ UNCHANGED << tasks, shutdown_, main, missed >>
  /\ Locals

\* A condition variable may wake up without a notify.
WakeSpuriously(w) ==
  /\ pc[w] = "blocked"
  /\ Go(w, "lock")
  /\ UNCHANGED << tasks, shutdown_, conditional_mutex_, main, missed >>
  /\ Locals

\* Faulty: PopQueue copies the front and does not pop it.
PopCopy(w) ==
  /\ pc[w] = "pop"
  /\ queue # << >>
  /\ function' = [function EXCEPT ![w] = Head(queue)]
  /\ pop_queue' = [pop_queue EXCEPT ![w] = "true"]
  /\ conditional_mutex_' = None
  /\ Go(w, "loop")
  /\ UNCHANGED << tasks, shutdown_, main, missed, ran >>

\* PopQueue, into the variable that still holds the last task; the lock ends
\* with the body.  (On an empty queue PopQueue returns false; PopSucceeds
\* shows that it never finds one.)
PopQueue(w) ==
  /\ pc[w] = "pop"
  /\ queue # << >>
  /\ function' = [function EXCEPT ![w] = Head(queue)]
  /\ pop_queue' = [pop_queue EXCEPT ![w] = "true"]
  /\ queue' = Tail(queue)
  /\ conditional_mutex_' = None
  /\ Go(w, "loop")
  /\ UNCHANGED << submitted, notify, shutdown_, main, missed, ran >>

\* After the loop.  A worker that has never been in the body reads pop_queue
\* without a value: it returns, or calls an empty std::function, which throws.
RunLast(w) ==
  /\ pc[w] = "exit"
  /\ \/ /\ pop_queue[w] = "true"
        /\ ran' = ran \cup {function[w]}
        /\ Go(w, "done")
     \/ /\ pop_queue[w] = "unset"
        /\ UNCHANGED ran
        /\ Go(w, "done") \/ Go(w, "crashed")
  /\ UNCHANGED << tasks, shutdown_, conditional_mutex_, main, missed, function,
                  pop_queue >>

WorkThread(w) ==
  /\ ~Crashed
  /\ While(w) \/ Lock(w) \/ TestEmpty(w) \/ Block(w) \/ PopQueue(w) \/ RunLast(w)

Shutdown == SetShutdown \/ NotifyAll \/ Join

Next ==
  \/ Shutdown
  \/ \E t \in Task : SubmitWork(t) \/ NotifyOne(t)
  \/ \E w \in Worker : WorkThread(w) \/ (~Crashed /\ WakeSpuriously(w))

\* Every thread runs on; spurious wake-ups, SubmitWork and the call of
\* Shutdown need not happen.
Fairness ==
  /\ \A w \in Worker : WF_vars(WorkThread(w))
  /\ \A t \in Task : WF_vars(NotifyOne(t))
  /\ WF_vars(NotifyAll \/ Join)

Spec == Init /\ [][Next]_vars /\ Fairness

-----------------------------------------------------------------------------
(***************************************************************************)
(* Properties.                                                             *)
(***************************************************************************)

\* The types of the pool's members and of the locals of its threads.
TypeOK ==
  /\ queue \in Seq(Task)
  /\ shutdown_ \in BOOLEAN
  /\ conditional_mutex_ \in Worker \cup {None}
  /\ pc \in [Worker -> {"loop", "lock", "test", "block", "blocked", "pop",
                        "exit", "done", "crashed"}]
  /\ function \in [Worker -> Task \cup {None}]
  /\ pop_queue \in [Worker -> {"true", "unset"}]
  /\ notify \subseteq submitted /\ submitted \subseteq Task
  /\ ran \subseteq Task
  /\ main \in {"running", "notify", "join", "returned"}
  /\ missed \in BOOLEAN

\* Between the predicate of wait and PopQueue no other worker empties the
\* queue: conditional_mutex_ is held from the one to the other, so PopQueue
\* finds a task although it locks another mutex than the predicate did.
PopSucceeds == \A w \in Worker : pc[w] = "pop" => queue # << >>

\* No task is in two places, so none is run twice: not twice in the queue,
\* not in the queue and with a worker, not with two workers.
NoTaskTwice ==
  /\ \A i, j \in DOMAIN queue : queue[i] = queue[j] => i = j
  /\ \A w \in Worker : function[w] # None =>
       /\ \A i \in DOMAIN queue : queue[i] # function[w]
       /\ \A v \in Worker : function[v] = function[w] => v = w

\* The one way to lose a wake-up: while the pool is open, a task waits in the
\* queue with every worker blocked and no notify under way only after a
\* notify_one fell between a worker's test of the queue and its blocking.
StrandedOnlyByRace ==
  (queue # << >> /\ ~shutdown_ /\ notify = {} /\ ~missed)
    => \E w \in Worker : pc[w] \notin {"block", "blocked"}

\* The workers that a Shutdown waits for and that do not block or hold the
\* queue's emptiness as their last news.
Awake == {w \in Worker : pc[w] \in {"lock", "test", "pop"}}

\* Shutdown returns if, once it has notified, no worker is blocked or about
\* to be and each one that is still to look at the queue finds a task there:
\* a worker takes one task at most after shutdown_ is set.  With fewer tasks
\* than that it may wait for ever.
ShutdownReturns ==
  (/\ main = "join"
   /\ \A w \in Worker : pc[w] \notin {"block", "blocked"}
   /\ \E f \in [Awake -> DOMAIN queue] : \A v, w \in Awake : f[v] = f[w] => v = w)
     ~> (main = "returned" \/ Crashed)
=============================================================================

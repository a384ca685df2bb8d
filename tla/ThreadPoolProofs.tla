-------------------------- MODULE ThreadPoolProofs --------------------------
(***************************************************************************)
(* Proofs about ThreadPool for any workers and tasks.  What is to be shown *)
(* of the queue rests on two facts about the lock and the locals: exactly  *)
(* the holder of conditional_mutex_ is between Lock and the end of the     *)
(* body, and everything in the queue or with a worker has been submitted.  *)
(***************************************************************************)
EXTENDS ThreadPool, TLAPS

\* The worker that holds the lock, and no other, is in the body.
Holder ==
  \A w \in Worker : pc[w] \in {"test", "block", "pop"} => conditional_mutex_ = w

\* A worker whose flag is set has a task.
Popped == \A w \in Worker : pop_queue[w] = "true" => function[w] \in Task

\* What is in the queue or with a worker has been submitted.
Known ==
  /\ \A i \in DOMAIN queue : queue[i] \in submitted
  /\ \A w \in Worker : function[w] # None => function[w] \in submitted

LEMMA AppendFacts ==
  ASSUME NEW S, NEW q \in Seq(S), NEW x \in S
  PROVE  /\ Append(q, x) \in Seq(S)
         /\ DOMAIN Append(q, x) = DOMAIN q \cup {Len(q) + 1}
         /\ \A i \in DOMAIN q : Append(q, x)[i] = q[i]
         /\ Append(q, x)[Len(q) + 1] = x
         /\ Len(q) + 1 \notin DOMAIN q
         /\ Append(q, x) # << >>
OBVIOUS

LEMMA TailFacts ==
  ASSUME NEW S, NEW q \in Seq(S), q # << >>
  PROVE  /\ Head(q) \in S
         /\ Tail(q) \in Seq(S)
         /\ Head(q) = q[1] /\ 1 \in DOMAIN q
         /\ \A i \in DOMAIN Tail(q) : /\ i + 1 \in DOMAIN q
                                      /\ Tail(q)[i] = q[i + 1]
                                      /\ i + 1 # 1
         /\ \A i, j \in DOMAIN Tail(q) : i + 1 = j + 1 => i = j
OBVIOUS

-----------------------------------------------------------------------------
\* TypeOK of the initial state and along every step; a popped task is one.
LEMMA TypeInit ==
  ASSUME Init
  PROVE  TypeOK /\ Popped
<1>1. queue \in Seq(Task)
  BY DEF Init
<1>2. shutdown_ \in BOOLEAN /\ missed \in BOOLEAN
  BY DEF Init
<1>3. \A w \in Worker : pop_queue[w] = "unset"
  BY DEF Init
<1>4. Popped
  BY <1>3 DEF Popped
<1>5. /\ conditional_mutex_ \in Worker \cup {None}
      /\ pc \in [Worker -> {"loop", "lock", "test", "block", "blocked", "pop",
                            "exit", "done", "crashed"}]
      /\ function \in [Worker -> Task \cup {None}]
      /\ pop_queue \in [Worker -> {"true", "unset"}]
      /\ notify \subseteq submitted /\ submitted \subseteq Task
      /\ ran \subseteq Task
      /\ main \in {"running", "notify", "join", "returned"}
  BY DEF Init
<1> QED
  BY <1>1, <1>2, <1>4, <1>5 DEF TypeOK

LEMMA TypeStep ==
  ASSUME TypeOK, Popped, [Next]_vars
  PROVE  TypeOK' /\ Popped'
<1> USE DEF Locals, tasks, Go, Blocked
<1>1. ASSUME NEW t \in Task, SubmitWork(t) PROVE TypeOK' /\ Popped'
  <2>1. queue' \in Seq(Task)
    BY <1>1, AppendFacts DEF SubmitWork, TypeOK
  <2> QED
    BY <1>1, <2>1 DEF SubmitWork, TypeOK, Popped
<1>2. ASSUME NEW t \in Task, NotifyOne(t) PROVE TypeOK' /\ Popped'
  <2>1. pc' \in [Worker -> {"loop", "lock", "test", "block", "blocked", "pop",
                            "exit", "done", "crashed"}]
    BY <1>2 DEF NotifyOne, TypeOK
  <2>2. missed' \in BOOLEAN
    BY <1>2 DEF NotifyOne, TypeOK
  <2>3. notify' \subseteq submitted
    BY <1>2 DEF NotifyOne, TypeOK
  <2> QED
    BY <1>2, <2>1, <2>2, <2>3 DEF NotifyOne, TypeOK, Popped
<1>3. CASE SetShutdown
  BY <1>3 DEF SetShutdown, TypeOK, Popped
<1>4. CASE NotifyAll
  BY <1>4 DEF NotifyAll, TypeOK, Popped
<1>5. CASE Join
  BY <1>5 DEF Join, TypeOK, Popped
<1>6. ASSUME NEW w \in Worker, While(w) PROVE TypeOK' /\ Popped'
  BY <1>6 DEF While, TypeOK, Popped
<1>7. ASSUME NEW w \in Worker, Lock(w) PROVE TypeOK' /\ Popped'
  BY <1>7 DEF Lock, TypeOK, Popped
<1>8. ASSUME NEW w \in Worker, TestEmpty(w) PROVE TypeOK' /\ Popped'
  BY <1>8 DEF TestEmpty, TypeOK, Popped
<1>9. ASSUME NEW w \in Worker, Block(w) PROVE TypeOK' /\ Popped'
  BY <1>9 DEF Block, TypeOK, Popped
<1>10. ASSUME NEW w \in Worker, WakeSpuriously(w) PROVE TypeOK' /\ Popped'
  BY <1>10 DEF WakeSpuriously, TypeOK, Popped
<1>11. ASSUME NEW w \in Worker, PopQueue(w) PROVE TypeOK' /\ Popped'
  <2>1. queue' \in Seq(Task) /\ Head(queue) \in Task
    BY <1>11, TailFacts DEF PopQueue, TypeOK
  <2> QED
    BY <1>11, <2>1 DEF PopQueue, TypeOK, Popped
<1>12. ASSUME NEW w \in Worker, RunLast(w) PROVE TypeOK' /\ Popped'
  <2>1. ran' \subseteq Task
    BY <1>12 DEF RunLast, TypeOK, Popped
  <2>2. pc' \in [Worker -> {"loop", "lock", "test", "block", "blocked", "pop",
                            "exit", "done", "crashed"}]
    BY <1>12 DEF RunLast, TypeOK
  <2> QED
    BY <1>12, <2>1, <2>2 DEF RunLast, TypeOK, Popped
<1>13. CASE UNCHANGED vars
  BY <1>13 DEF vars, TypeOK, Popped
<1> QED
  BY <1>1, <1>2, <1>3, <1>4, <1>5, <1>6, <1>7, <1>8, <1>9, <1>10, <1>11,
     <1>12, <1>13 DEF Next, Shutdown, WorkThread

\* The pool's members and its threads' locals keep their types.
THEOREM TypeCorrect == Spec => []TypeOK
<1>1. Init => TypeOK /\ Popped
  BY TypeInit
<1>2. TypeOK /\ Popped /\ [Next]_vars => (TypeOK /\ Popped)'
  BY TypeStep
<1> QED
  BY <1>1, <1>2, PTL DEF Spec

-----------------------------------------------------------------------------
\* Only the steps between Lock and the end of the body can disturb Holder,
\* and all of them either need the lock free or are the holder's own.
LEMMA HolderStep ==
  ASSUME TypeOK, Holder, PopSucceeds, [Next]_vars
  PROVE  Holder' /\ PopSucceeds'
<1> USE DEF Locals, tasks, Go, Blocked
<1>0. \A v, w \in Worker :
        /\ pc[v] \in {"test", "block", "pop"}
        /\ pc[w] \in {"test", "block", "pop"}
        => v = w
  BY DEF Holder
<1>00. \A w \in Worker : w # None
  BY NoneAssumption
<1>1. ASSUME NEW t \in Task, SubmitWork(t) PROVE Holder' /\ PopSucceeds'
  <2>1. queue' # << >>
    BY <1>1, AppendFacts DEF SubmitWork, TypeOK
  <2> QED
    BY <1>1, <2>1 DEF SubmitWork, Holder, PopSucceeds
<1>2. ASSUME NEW t \in Task, NotifyOne(t) PROVE Holder' /\ PopSucceeds'
  BY <1>2 DEF NotifyOne, TypeOK, Holder, PopSucceeds
<1>3. CASE SetShutdown
  BY <1>3 DEF SetShutdown, Holder, PopSucceeds
<1>4. CASE NotifyAll
  BY <1>4 DEF NotifyAll, TypeOK, Holder, PopSucceeds
<1>5. CASE Join
  BY <1>5 DEF Join, Holder, PopSucceeds
<1>6. ASSUME NEW w \in Worker, While(w) PROVE Holder' /\ PopSucceeds'
  <2>1. pc' = [pc EXCEPT ![w] = "exit"] \/ pc' = [pc EXCEPT ![w] = "lock"]
    BY <1>6, Zenon DEF While
  <2> QED
    BY <1>6, <2>1 DEF While, TypeOK, Holder, PopSucceeds
<1>7. ASSUME NEW w \in Worker, Lock(w) PROVE Holder' /\ PopSucceeds'
  BY <1>7, <1>00 DEF Lock, TypeOK, Holder, PopSucceeds
<1>8. ASSUME NEW w \in Worker, TestEmpty(w) PROVE Holder' /\ PopSucceeds'
  BY <1>8 DEF TestEmpty, TypeOK, Holder, PopSucceeds
<1>9. ASSUME NEW w \in Worker, Block(w) PROVE Holder' /\ PopSucceeds'
  BY <1>9, <1>0 DEF Block, TypeOK, Holder, PopSucceeds
<1>10. ASSUME NEW w \in Worker, WakeSpuriously(w) PROVE Holder' /\ PopSucceeds'
  BY <1>10 DEF WakeSpuriously, TypeOK, Holder, PopSucceeds
<1>11. ASSUME NEW w \in Worker, PopQueue(w) PROVE Holder' /\ PopSucceeds'
  <2>1. pc' = [pc EXCEPT ![w] = "loop"] /\ pc[w] = "pop"
    BY <1>11 DEF PopQueue
  <2>2. \A v \in Worker : pc'[v] \notin {"test", "block", "pop"}
    BY <2>1, <1>0 DEF TypeOK
  <2> QED
    BY <2>2 DEF Holder, PopSucceeds
<1>12. ASSUME NEW w \in Worker, RunLast(w) PROVE Holder' /\ PopSucceeds'
  BY <1>12 DEF RunLast, TypeOK, Holder, PopSucceeds
<1>13. CASE UNCHANGED vars
  BY <1>13 DEF vars, Holder, PopSucceeds
<1> QED
  BY <1>1, <1>2, <1>3, <1>4, <1>5, <1>6, <1>7, <1>8, <1>9, <1>10, <1>11,
     <1>12, <1>13 DEF Next, Shutdown, WorkThread

\* PopQueue (thread_pool.h line 78) never finds the queue empty, however
\* many workers compete for however many tasks.
THEOREM PopNeverFails == Spec => []PopSucceeds
<1> DEFINE I == TypeOK /\ Popped /\ Holder /\ PopSucceeds
<1>1. Init => I
  BY TypeInit DEF Init, Holder, PopSucceeds
<1>2. I /\ [Next]_vars => I'
  BY TypeStep, HolderStep
<1>3. I => PopSucceeds
  OBVIOUS
<1> QED
  BY <1>1, <1>2, <1>3, PTL DEF Spec

-----------------------------------------------------------------------------
\* A task enters the queue when it is submitted, and PopQueue moves it from
\* the head of the queue into one worker's variable.
LEMMA OnceStep ==
  ASSUME TypeOK, Known, NoTaskTwice, [Next]_vars
  PROVE  Known' /\ NoTaskTwice'
<1> USE DEF Locals, tasks, Go
<1>1. ASSUME NEW t \in Task, SubmitWork(t) PROVE Known' /\ NoTaskTwice'
  <2>1. /\ queue' = Append(queue, t) /\ submitted' = submitted \cup {t}
        /\ function' = function /\ t \notin submitted
    BY <1>1 DEF SubmitWork
  <2>2. /\ DOMAIN queue' = DOMAIN queue \cup {Len(queue) + 1}
        /\ \A i \in DOMAIN queue : queue'[i] = queue[i]
        /\ queue'[Len(queue) + 1] = t
    BY <2>1, AppendFacts DEF TypeOK
  <2>3. \A i \in DOMAIN queue : queue[i] # t
    BY <2>1 DEF Known
  <2>4. \A w \in Worker : function[w] # None => function[w] # t
    BY <2>1 DEF Known
  <2>5. Known'
    BY <2>1, <2>2 DEF Known
  <2>6. \A i, j \in DOMAIN queue' : queue'[i] = queue'[j] => i = j
    BY <2>2, <2>3 DEF NoTaskTwice
  <2> QED
    BY <2>1, <2>2, <2>4, <2>5, <2>6 DEF NoTaskTwice
<1>2. ASSUME NEW w \in Worker, PopQueue(w) PROVE Known' /\ NoTaskTwice'
  <2>1. /\ queue # << >> /\ queue' = Tail(queue) /\ submitted' = submitted
        /\ function' = [function EXCEPT ![w] = Head(queue)]
    BY <1>2 DEF PopQueue
  <2>2. /\ Head(queue) = queue[1] /\ 1 \in DOMAIN queue
        /\ \A i \in DOMAIN queue' : /\ i + 1 \in DOMAIN queue
                                     /\ queue'[i] = queue[i + 1]
                                     /\ i + 1 # 1
        /\ \A i, j \in DOMAIN queue' : i + 1 = j + 1 => i = j
    BY <2>1, TailFacts DEF TypeOK
  <2>3. /\ function'[w] = queue[1]
        /\ \A v \in Worker \ {w} : function'[v] = function[v]
    BY <2>1, <2>2 DEF TypeOK
  <2>4. Known'
    BY <2>1, <2>2, <2>3 DEF Known
  <2>5. \A i, j \in DOMAIN queue' : queue'[i] = queue'[j] => i = j
    BY <2>2 DEF NoTaskTwice
  <2>6. \A i \in DOMAIN queue' : queue'[i] # queue[1]
    BY <2>2 DEF NoTaskTwice
  <2>7. \A v \in Worker \ {w} : function[v] # None =>
          /\ function[v] # queue[1]
          /\ \A i \in DOMAIN queue' : queue'[i] # function[v]
    BY <2>2 DEF NoTaskTwice
  <2>8. ASSUME NEW u \in Worker, function'[u] # None
        PROVE  \A v \in Worker : function'[v] = function'[u] => v = u
    BY <2>3, <2>7, <2>8 DEF NoTaskTwice
  <2>9. ASSUME NEW u \in Worker, function'[u] # None
        PROVE  \A i \in DOMAIN queue' : queue'[i] # function'[u]
    BY <2>3, <2>6, <2>7, <2>9
  <2> QED
    BY <2>4, <2>5, <2>8, <2>9 DEF NoTaskTwice
<1>3. CASE UNCHANGED << queue, submitted, function >>
  BY <1>3 DEF Known, NoTaskTwice
<1> QED
  BY <1>1, <1>2, <1>3 DEF Next, Shutdown, WorkThread, NotifyOne, SetShutdown,
     NotifyAll, Join, While, Lock, TestEmpty, Block, WakeSpuriously, RunLast, vars

\* A task is never in the queue twice, never with two workers and never in
\* both places (work_queue.h lines 44-59), so it is run once at most.
THEOREM EachTaskOnce == Spec => []NoTaskTwice
<1> DEFINE I == TypeOK /\ Popped /\ Known /\ NoTaskTwice
<1>1. Init => I
  <2> SUFFICES ASSUME Init PROVE I
    OBVIOUS
  <2>1. DOMAIN queue = {} /\ \A w \in Worker : function[w] = None
    BY DEF Init
  <2> QED
    BY <2>1, TypeInit DEF Known, NoTaskTwice
<1>2. I /\ [Next]_vars => I'
  BY TypeStep, OnceStep
<1>3. I => NoTaskTwice
  OBVIOUS
<1> QED
  BY <1>1, <1>2, <1>3, PTL DEF Spec

-----------------------------------------------------------------------------
\* A worker that is neither blocked nor about to block.
Attentive == \E w \in Worker : pc[w] \notin {"block", "blocked"}

\* A step that leaves the queue as it is can only spoil the property by
\* using up the last notify or by sending the last attentive worker to
\* block, and a worker goes to block only from an empty queue.
LEMMA StrandStep ==
  ASSUME TypeOK, StrandedOnlyByRace, [Next]_vars
  PROVE  StrandedOnlyByRace'
<1> USE DEF Locals, tasks, Go
<1> SUFFICES ASSUME queue' # << >>, ~shutdown_', notify' = {}, ~missed'
             PROVE  Attentive'
  BY DEF StrandedOnlyByRace, Attentive
<1>1. ASSUME NEW t \in Task, SubmitWork(t) PROVE Attentive'
  BY <1>1 DEF SubmitWork
<1>2. ASSUME NEW t \in Task, NotifyOne(t) PROVE Attentive'
  <2>1. CASE \E w \in Blocked : Go(w, "lock")
    BY <2>1 DEF TypeOK, Attentive, Blocked
  <2>2. CASE Blocked = {} /\ missed' = (missed \/ \E w \in Worker : pc[w] = "block")
             /\ UNCHANGED pc
    <3>1. \A w \in Worker : pc[w] # "block" /\ pc[w] # "blocked"
      BY <2>2 DEF Blocked
    <3> QED
      BY <2>2, <3>1, WorkerAssumption DEF Attentive
  <2> QED
    BY <1>2, <2>1, <2>2 DEF NotifyOne
<1>3. CASE SetShutdown
  BY <1>3 DEF SetShutdown
<1>4. ASSUME queue' = queue, notify' = notify, shutdown_' = shutdown_, missed' = missed
      PROVE  Attentive
  BY <1>4 DEF StrandedOnlyByRace, Attentive
<1>5. CASE NotifyAll
  <2>1. Attentive
    BY <1>4, <1>5 DEF NotifyAll
  <2> QED
    BY <1>5, <2>1 DEF NotifyAll, Attentive, Blocked
<1>6. CASE Join
  BY <1>4, <1>6 DEF Join, Attentive
<1>7. ASSUME NEW w \in Worker, While(w) PROVE Attentive'
  <2>1. pc'[w] = "exit" \/ pc'[w] = "lock"
    BY <1>7 DEF While, TypeOK
  <2> QED
    BY <2>1 DEF Attentive
<1>8. ASSUME NEW w \in Worker, Lock(w) PROVE Attentive'
  <2>1. pc'[w] = "test"
    BY <1>8 DEF Lock, TypeOK
  <2> QED
    BY <2>1 DEF Attentive
<1>9. ASSUME NEW w \in Worker, TestEmpty(w) PROVE Attentive'
  <2>1. pc'[w] = "pop"
    BY <1>9 DEF TestEmpty, TypeOK
  <2> QED
    BY <2>1 DEF Attentive
<1>10. ASSUME NEW w \in Worker, Block(w) PROVE Attentive'
  <2>1. PICK v \in Worker : pc[v] \notin {"block", "blocked"}
    BY <1>4, <1>10 DEF Block, Attentive
  <2>2. pc'[v] = pc[v]
    BY <1>10, <2>1 DEF Block, TypeOK
  <2> QED
    BY <2>1, <2>2 DEF Attentive
<1>11. ASSUME NEW w \in Worker, WakeSpuriously(w) PROVE Attentive'
  <2>1. pc'[w] = "lock"
    BY <1>11 DEF WakeSpuriously, TypeOK
  <2> QED
    BY <2>1 DEF Attentive
<1>12. ASSUME NEW w \in Worker, PopQueue(w) PROVE Attentive'
  <2>1. pc'[w] = "loop"
    BY <1>12 DEF PopQueue, TypeOK
  <2> QED
    BY <2>1 DEF Attentive
<1>13. ASSUME NEW w \in Worker, RunLast(w) PROVE Attentive'
  <2>1. pc'[w] \in {"done", "crashed"}
    BY <1>13 DEF RunLast, TypeOK
  <2> QED
    BY <2>1 DEF Attentive
<1>14. CASE UNCHANGED vars
  BY <1>4, <1>14 DEF vars, Attentive
<1> QED
  BY <1>1, <1>2, <1>3, <1>5, <1>6, <1>7, <1>8, <1>9, <1>10, <1>11, <1>12,
     <1>13, <1>14 DEF Next, Shutdown, WorkThread

\* In an open pool a task waits before blocked workers only after a
\* notify_one (thread_pool.h line 59) has fallen between a worker's test of
\* the queue and its blocking (line 74), which no lock prevents.
THEOREM WakeupsLostOnlyByRace == Spec => []StrandedOnlyByRace
<1> DEFINE I == TypeOK /\ Popped /\ StrandedOnlyByRace
<1>1. Init => I
  BY TypeInit DEF Init, StrandedOnlyByRace
<1>2. I /\ [Next]_vars => I'
  BY TypeStep, StrandStep
<1>3. I => StrandedOnlyByRace
  OBVIOUS
<1> QED
  BY <1>1, <1>2, <1>3, PTL DEF Spec
=============================================================================

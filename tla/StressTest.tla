----------------------------- MODULE StressTest -----------------------------
(***************************************************************************)
(* stress_test.cpp: one SkipList used by several threads.  main starts     *)
(* num_threads threads that insert, joins them and, in mode GET, starts as *)
(* many that search.  InsertElement holds mtx from its first line to its   *)
(* return; SearchElement takes no lock and calls lru_cache_.get, which may *)
(* splice the list.  A call is therefore not one step here: a thread is    *)
(* seen inside InsertElement, inside the look-up of SearchElement and      *)
(* inside get, and NoRace asks who else is in the same data then.          *)
(***************************************************************************)
EXTENDS ZSet

CONSTANTS
  NumThreads, \* argv[3]
  TestCounts, \* the numbers argv[2] may be
  None        \* no thread

ASSUME NumThreadsAssumption == NumThreads \in Nat \ {0}
ASSUME TestCountsAssumption == TestCounts \subseteq Nat
ASSUME NoneAssumption == None \notin Nat

\* "a" is a member, and rand() % test_count a score.
ASSUME EleAssumption == "a" \in Key
ASSUME RandAssumption == \A n \in TestCounts : 0..n - 1 \subseteq Value

Thread == 0..NumThreads - 1

VARIABLES
  mode, test_count, \* the arguments
  phase,   \* of main: "insert", "get" or "returned"
  started, \* the threads main has started in this phase
  joined,  \* and joined
  role,    \* the function each thread runs
  pc,      \* "none", "loop", "lock", "insert", "search", "get" or "ended"
  count,   \* the rounds each thread has begun
  mtx,     \* the thread that holds it, or None
  z        \* kSkipList

args == << mode, test_count >>
main == << phase, started, joined >>
vars == << mode, test_count, phase, started, joined, role, pc, count, mtx, z >>

\* Faulty: the threads do not all use the same member.
EleOfThread(t) == IF t = 0 THEN "b" ELSE "a"

\* The member every thread inserts and searches.
Ele(t) == "a"

Init ==
  /\ mode \in {"INSERT", "GET"}
  /\ test_count \in TestCounts
  /\ phase = "insert" /\ started = 0 /\ joined = 0
  /\ role = [t \in Thread |-> "none"]
  /\ pc = [t \in Thread |-> "none"]
  /\ count = [t \in Thread |-> 0]
  /\ mtx = None
  /\ z = NewZSet(0)

-----------------------------------------------------------------------------
(***************************************************************************)
(* main.                                                                   *)
(***************************************************************************)
StartThread ==
  /\ phase # "returned"
  /\ started < NumThreads
  /\ started' = started + 1
  /\ role' = [role EXCEPT ![started] = phase]
  /\ pc' = [pc EXCEPT ![started] = "loop"]
  /\ count' = [count EXCEPT ![started] = 0]
  /\ UNCHANGED << args, phase, joined, mtx, z >>

\* The joins in the order of the vector.
JoinThread ==
  /\ started = NumThreads
  /\ joined < NumThreads
  /\ pc[joined] = "ended"
  /\ joined' = joined + 1
  /\ UNCHANGED << args, phase, started, role, pc, count, mtx, z >>

EndPhase ==
  /\ phase # "returned"
  /\ joined = NumThreads
  /\ phase' = IF phase = "insert" /\ mode = "GET" THEN "get" ELSE "returned"
  /\ started' = 0 /\ joined' = 0
  /\ UNCHANGED << args, role, pc, count, mtx, z >>

-----------------------------------------------------------------------------
(***************************************************************************)
(* The threads: InsertElement or GetElement of stress_test.cpp.            *)
(***************************************************************************)
Go(t, to) == pc' = [pc EXCEPT ![t] = to]

\* Faulty: the loop of the inserting threads counts from 1.
IterateFromOne(t) ==
  /\ pc[t] = "loop"
  /\ LET rounds == test_count \div NumThreads - (IF role[t] = "insert" THEN 1 ELSE 0)
     IN  \/ /\ count[t] < rounds
            /\ count' = [count EXCEPT ![t] = @ + 1]
            /\ Go(t, IF role[t] = "insert" THEN "lock" ELSE "search")
         \/ /\ count[t] >= rounds
            /\ Go(t, "ended")
            /\ UNCHANGED count
  /\ UNCHANGED << args, main, role, mtx, z >>

\* The head of the for loop; what test_count / num_threads leaves over is
\* nobody's.
Iterate(t) ==
  /\ pc[t] = "loop"
  /\ \/ /\ count[t] < test_count \div NumThreads
        /\ count' = [count EXCEPT ![t] = @ + 1]
        /\ Go(t, IF role[t] = "insert" THEN "lock" ELSE "search")
     \/ /\ count[t] >= test_count \div NumThreads
        /\ Go(t, "ended")
        /\ UNCHANGED count
  /\ UNCHANGED << args, main, role, mtx, z >>

\* Faulty: the mutex is not waited for.
LockAnyway(t) ==
  /\ pc[t] = "lock"
  /\ mtx' = t
  /\ Go(t, "insert")
  /\ UNCHANGED << args, main, role, count, z >>

\* mtx.lock() at the head of InsertElement.
Lock(t) ==
  /\ pc[t] = "lock"
  /\ mtx = None
  /\ mtx' = t
  /\ Go(t, "insert")
  /\ UNCHANGED << args, main, role, count, z >>

\* Faulty: the return for an unchanged score leaves the mutex locked.
InsertNoUnlock(t) ==
  /\ pc[t] = "insert"
  /\ \E s \in 0..test_count - 1 :
       /\ z' \in Insert(z, Ele(t), s)
       /\ mtx' = IF z.score[Ele(t)] = s THEN mtx ELSE None
  /\ Go(t, "loop")
  /\ UNCHANGED << args, main, role, count >>

\* InsertElement("a", rand() % test_count) under the mutex.
InsertElement(t) ==
  /\ pc[t] = "insert"
  /\ \E s \in 0..test_count - 1 : z' \in Insert(z, Ele(t), s)
  /\ mtx' = None
  /\ Go(t, "loop")
  /\ UNCHANGED << args, main, role, count >>

\* SearchElement: the look-up in node_map_ ...
Find(t) ==
  /\ pc[t] = "search"
  /\ Go(t, IF Ele(t) \in Present(z) THEN "get" ELSE "loop")
  /\ UNCHANGED << args, main, role, count, mtx, z >>

\* ... and lru_cache_.get.
Get(t) ==
  /\ pc[t] = "get"
  /\ z' = Search(z, Ele(t))
  /\ Go(t, "loop")
  /\ UNCHANGED << args, main, role, count, mtx >>

Main == StartThread \/ JoinThread \/ EndPhase
Run(t) == Iterate(t) \/ Lock(t) \/ InsertElement(t) \/ Find(t) \/ Get(t)

Next == Main \/ \E t \in Thread : Run(t)

\* Every thread runs on.
Fairness == WF_vars(Main) /\ \A t \in Thread : WF_vars(Run(t))

Spec == Init /\ [][Next]_vars /\ Fairness

-----------------------------------------------------------------------------
(***************************************************************************)
(* Properties.                                                             *)
(***************************************************************************)

\* The types of main's and the threads' variables; mtx is held by exactly
\* the thread inside InsertElement.
TypeOK ==
  /\ mode \in {"INSERT", "GET"} /\ test_count \in TestCounts
  /\ phase \in {"insert", "get", "returned"}
  /\ started \in 0..NumThreads /\ joined \in 0..started
  /\ role \in [Thread -> {"none", "insert", "get"}]
  /\ pc \in [Thread -> {"none", "loop", "lock", "insert", "search", "get", "ended"}]
  /\ count \in [Thread -> Nat]
  /\ mtx \in Thread \cup {None}
  /\ \A t \in Thread : pc[t] = "insert" <=> mtx = t
  /\ z \in [score : [Member -> Score \cup {Absent}], lru : Cache]

\* Who changes and who reads the skip list at this moment.  std::list::splice
\* of the first element to the front writes nothing.
Writing(t) ==
  \/ pc[t] = "insert"
  \/ pc[t] = "get" /\ z.lru.lru[1].key # Ele(t)
Reading(t) == pc[t] \in {"search", "get"}

\* No data race, although SearchElement takes no lock: the joins keep the
\* searches apart from the insertions, and the searches themselves never
\* move an entry because the list has one.
NoRace ==
  \A t \in Thread : Writing(t) =>
    \A u \in Thread \ {t} : ~Writing(u) /\ ~Reading(u)

\* A search finds its member: main has joined every inserting thread before.
SearchFinds == \A t \in Thread : pc[t] = "search" => Ele(t) \in Present(z)

\* main joins all threads and returns: no path leaves mtx locked.
MainReturns == <>(phase = "returned")
=============================================================================

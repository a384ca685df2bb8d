------------------------------- MODULE Timer --------------------------------
(***************************************************************************)
(* The class template Timer<K, V> of timer.h, as operators on the value of *)
(* one timer list: the sequence of UtilTimer objects from head_ptr_ to     *)
(* tail_ptr_.  In place of the absolute time expire_ a timer keeps left,   *)
(* the seconds until then; Elapse lets one second pass.  The condition     *)
(* cur_time < expire_ is left > 0, and no method tells apart two times in  *)
(* the past, so left stops at 0.                                           *)
(***************************************************************************)
EXTENDS Integers, Sequences, SequencesExt

UtilTimer(k, seconds) ==
  [key_ |-> k, left |-> IF seconds > 0 THEN seconds ELSE 0]

NoTimers == << >>

TimerKeys(t) == {t[i].key_ : i \in DOMAIN t}

\* One second of the clock behind time(nullptr).
Elapse(t) == [i \in DOMAIN t |-> [t[i] EXCEPT !.left = IF @ > 0 THEN @ - 1 ELSE 0]]

\* The new timer goes behind tail_ptr_, whatever its expire_; an earlier
\* timer of the same key stays.
Push(t, k, seconds) == Append(t, UtilTimer(k, seconds))

\* The first timer of the key goes.  The caller, Tick, passes the key of the
\* head, so the search always stops at the head.
Pop(t, k) == RemoveAt(t, CHOOSE i \in DOMAIN t :
                           t[i].key_ = k /\ \A j \in 1..i - 1 : t[j].key_ # k)

\* Faulty: Tick takes a timer as due a second too early.
DueEarly(t) ==
  CHOOSE n \in 0..Len(t) :
    /\ \A i \in 1..n : t[i].left <= 1
    /\ n < Len(t) => t[n + 1].left > 1

\* Faulty: the loop stops at the tail, which is never popped.
DueButTail(t) ==
  CHOOSE n \in 0..Len(t) :
    /\ \A i \in 1..n : t[i].left = 0 /\ i < Len(t)
    /\ n + 1 < Len(t) => t[n + 1].left > 0

\* The number of timers Tick pops: it stops at the first, from the head,
\* that has time left.
Due(t) ==
  CHOOSE n \in 0..Len(t) :
    /\ \A i \in 1..n : t[i].left = 0
    /\ n < Len(t) => t[n + 1].left > 0

\* The list after Tick; each round of its loop pops the head.
AfterTick(t) ==
  LET after[n \in 0..Due(t)] == IF n = 0 THEN t ELSE Pop(after[n - 1], t[n].key_)
  IN  after[Due(t)]

\* timeout_fds: the keys of the popped timers in order.
Fired(t) == [i \in 1..Due(t) |-> t[i].key_]
=============================================================================

----------------------------- MODULE SumTableProof -----------------------------
(* Proofs about the schedule of the summary tables, for any number of flushes *)
(* and any delay of the threads.                                              *)
EXTENDS SumTable, TLAPS

Caller == i \in Levels

(* What a thread record is.                                                   *)
Thread == (1 .. interval) \X {casy[l] : l \in Levels}

HeapInv ==
    /\ interval \in Nat
    /\ i \in 0 .. 5
    /\ DOMAIN heap \subseteq 1 .. interval
    /\ pending \subseteq Thread

(* Until a level of the current call is due, the call's int is allocated and  *)
(* no thread knows it.                                                        *)
FreshInt ==
    (Caller /\ \A l \in Levels : l < i => ~Fires(interval, l)) =>
        /\ interval \in DOMAIN heap
        /\ \A th \in pending : th[1] # interval

IntInv == HeapInv /\ LevelIsIntact /\ FreshInt

-----------------------------------------------------------------------------
(* At most one level is due at any call: this is all that makes it safe to    *)
(* share one int between the threads of a call.                               *)
THEOREM AtMostOneLevel ==
    ASSUME NEW n \in Nat, NEW k \in Levels, NEW l \in Levels,
           Fires(n, k), Fires(n, l)
    PROVE  k = l
<1>1. /\ modu[1] = 5 /\ modu[2] = 30 /\ modu[3] = 120 /\ modu[4] = 1440
      /\ rozd[1] = 1 /\ rozd[2] = 5 /\ rozd[3] = 30 /\ rozd[4] = 120
  BY DEF modu, rozd
<1>2. k \in {1, 2, 3, 4} /\ l \in {1, 2, 3, 4}
  BY DEF Levels
<1>3. ~(n % 5 = 1 /\ n % 30 = 5) /\ ~(n % 5 = 1 /\ n % 120 = 30)
  OBVIOUS
<1>4. ~(n % 5 = 1 /\ n % 1440 = 120) /\ ~(n % 30 = 5 /\ n % 120 = 30)
  OBVIOUS
<1>5. ~(n % 30 = 5 /\ n % 1440 = 120) /\ ~(n % 120 = 30 /\ n % 1440 = 120)
  OBVIOUS
<1> QED
  BY <1>1, <1>2, <1>3, <1>4, <1>5 DEF Fires

(* A thread record is determined by its parts.                                *)
LEMMA ThreadParts ==
    ASSUME NEW th \in Thread, NEW other \in Thread,
           th[1] = other[1], th[2] = other[2]
    PROVE  th = other
  BY DEF Thread

(* A thread of an earlier call is still one when more calls are counted.     *)
LEMMA ThreadGrows ==
    ASSUME interval \in Nat, interval' \in Nat, interval' >= interval
    PROVE  Thread \subseteq Thread'
  BY DEF Thread

(* No int is allocated and no thread waits when the program starts.          *)
LEMMA IntInit == Init => IntInv
  BY SumTableAssumption
  DEF Init, IntInv, HeapInv, LevelIsIntact, FreshInt, Caller, Levels, Thread

(* Every step keeps each waiting thread's int allocated and unchanged.       *)
LEMMA IntNext == IntInv /\ [Next]_vars => IntInv'
<1> SUFFICES ASSUME IntInv, [Next]_vars PROVE IntInv'
  OBVIOUS
<1>0. /\ interval \in Nat /\ i \in 0 .. 5
      /\ DOMAIN heap \subseteq 1 .. interval
      /\ pending \subseteq Thread
      /\ \A th \in pending : th[1] \in 1 .. interval
  BY DEF IntInv, HeapInv, Thread
<1>1. CASE Call
  <2>1. interval' = interval + 1 /\ i' = 1 /\ pending' = pending
    BY <1>1 DEF Call, Counted
  <2>2. DOMAIN heap' = DOMAIN heap \cup {interval + 1}
    BY <1>1 DEF Call, Counted
  <2>3. \A c \in DOMAIN heap : heap'[c] = heap[c]
    <3>1. \A c \in DOMAIN heap : c # interval + 1
      BY <1>0
    <3> QED
      BY <1>1, <3>1 DEF Call, Counted
  <2>4. HeapInv'
    <3>1. pending' \subseteq Thread'
      BY <1>0, <2>1, ThreadGrows
    <3> QED
      BY <1>0, <2>1, <2>2, <3>1 DEF HeapInv
  <2>5. LevelIsIntact'
    BY <2>1, <2>2, <2>3 DEF IntInv, LevelIsIntact
  <2>6. FreshInt'
    <3>1. \A th \in pending : th[1] # interval + 1
      BY <1>0
    <3> QED
      BY <2>1, <2>2, <3>1 DEF FreshInt
  <2> QED
    BY <2>4, <2>5, <2>6 DEF IntInv
<1>2. CASE NotDue
  <2>1. i' = i + 1 /\ i \in Levels /\ UNCHANGED <<interval, heap, pending>>
    BY <1>2 DEF NotDue
  <2>2. HeapInv'
    BY <1>0, <2>1 DEF HeapInv, Thread, Levels
  <2>3. LevelIsIntact'
    BY <2>1 DEF IntInv, LevelIsIntact
  <2>4. FreshInt'
    <3> SUFFICES ASSUME \A l \in Levels : l < i + 1 => ~Fires(interval, l)
                 PROVE  /\ interval \in DOMAIN heap
                        /\ \A th \in pending : th[1] # interval
      BY <2>1 DEF FreshInt, Fires
    <3>1. \A l \in Levels : l < i => ~Fires(interval, l)
      BY <1>0 DEF Levels
    <3> QED
      BY <2>1, <3>1 DEF IntInv, FreshInt, Caller
  <2> QED
    BY <2>2, <2>3, <2>4 DEF IntInv
<1>3. ASSUME i \in Levels, Fires(interval, i)
      PROVE  /\ interval \in DOMAIN heap
             /\ \A th \in pending : th[1] # interval
  <2>1. \A l \in Levels : l < i => ~Fires(interval, l)
    <3> SUFFICES ASSUME NEW l \in Levels, l < i, Fires(interval, l) PROVE FALSE
      OBVIOUS
    <3>1. l = i
      BY <1>0, <1>3, AtMostOneLevel
    <3> QED
      BY <1>0, <3>1
  <2> QED
    BY <1>3, <2>1 DEF IntInv, FreshInt, Caller
<1>4. ASSUME i \in Levels, Fires(interval, i), heap' = Store(i),
             i' = i + 1, interval' = interval
      PROVE  /\ DOMAIN heap' = DOMAIN heap
             /\ heap'[interval] = casy[i]
             /\ \A c \in DOMAIN heap : c # interval => heap'[c] = heap[c]
             /\ FreshInt'
             /\ i' \in 0 .. 5
  <2>1. /\ DOMAIN heap' = DOMAIN heap
        /\ heap'[interval] = casy[i]
        /\ \A c \in DOMAIN heap : c # interval => heap'[c] = heap[c]
    BY <1>3, <1>4 DEF Store
  <2>2. FreshInt'
    <3>1. i < i' /\ Fires(interval', i)
      BY <1>0, <1>4
    <3>2. ~(\A l \in Levels : l < i' => ~Fires(interval', l))
      BY <1>4, <3>1
    <3> QED
      BY <3>2 DEF FreshInt, Fires
  <2>3. i' \in 0 .. 5
    BY <1>4 DEF Levels
  <2> QED
    BY <2>1, <2>2, <2>3
<1>5. CASE Create
  <2>1. /\ i \in Levels /\ Fires(interval, i) /\ heap' = Store(i)
        /\ i' = i + 1 /\ interval' = interval
        /\ pending' = pending \cup {<<interval, casy[i]>>}
    BY <1>5 DEF Create
  <2>2. interval \in DOMAIN heap /\ \A th \in pending : th[1] # interval
    BY <1>3, <2>1
  <2>3. /\ DOMAIN heap' = DOMAIN heap
        /\ heap'[interval] = casy[i]
        /\ \A c \in DOMAIN heap : c # interval => heap'[c] = heap[c]
        /\ FreshInt' /\ i' \in 0 .. 5
    BY <1>4, <2>1
  <2>4. HeapInv'
    <3>1. interval \in 1 .. interval
      BY <1>0, <2>2
    <3>2. <<interval, casy[i]>> \in Thread
      BY <2>1, <3>1 DEF Thread
    <3>3. pending' \subseteq Thread'
      BY <1>0, <2>1, <3>2 DEF Thread
    <3> QED
      BY <1>0, <2>1, <2>3, <3>3 DEF HeapInv
  <2>5. LevelIsIntact'
    <3> SUFFICES ASSUME NEW th \in pending'
                 PROVE  th[1] \in DOMAIN heap' /\ heap'[th[1]] = th[2]
      BY DEF LevelIsIntact
    <3>1. CASE th = <<interval, casy[i]>>
      BY <2>2, <2>3, <3>1
    <3>2. CASE th \in pending
      BY <2>2, <2>3, <3>2 DEF IntInv, LevelIsIntact
    <3> QED
      BY <2>1, <3>1, <3>2
  <2> QED
    BY <2>3, <2>4, <2>5 DEF IntInv
<1>6. CASE CreateFails
  <2>1. /\ i \in Levels /\ Fires(interval, i) /\ heap' = Store(i)
        /\ i' = i + 1 /\ interval' = interval /\ pending' = pending
    BY <1>6 DEF CreateFails
  <2>2. interval \in DOMAIN heap /\ \A th \in pending : th[1] # interval
    BY <1>3, <2>1
  <2>3. /\ DOMAIN heap' = DOMAIN heap
        /\ \A c \in DOMAIN heap : c # interval => heap'[c] = heap[c]
        /\ FreshInt' /\ i' \in 0 .. 5
    BY <1>4, <2>1
  <2>4. HeapInv'
    <3>1. pending' \subseteq Thread'
      BY <1>0, <2>1 DEF Thread
    <3> QED
      BY <1>0, <2>1, <2>3, <3>1 DEF HeapInv
  <2>5. LevelIsIntact'
    BY <2>1, <2>2, <2>3 DEF IntInv, LevelIsIntact
  <2> QED
    BY <2>3, <2>4, <2>5 DEF IntInv
<1>7. CASE Return
  <2>1. i' = 0 /\ UNCHANGED <<interval, pending>>
        /\ heap' = Only({th[1] : th \in pending})
    BY <1>7 DEF Return
  <2>2. DOMAIN heap' = DOMAIN heap \cap {th[1] : th \in pending}
        /\ \A c \in DOMAIN heap' : heap'[c] = heap[c]
    BY <2>1 DEF Only
  <2>3. HeapInv'
    <3>1. pending' \subseteq Thread'
      BY <1>0, <2>1 DEF Thread
    <3>2. DOMAIN heap' \subseteq 1 .. interval'
      BY <1>0, <2>1, <2>2
    <3> QED
      BY <1>0, <2>1, <3>1, <3>2 DEF HeapInv
  <2>4. LevelIsIntact'
    BY <2>1, <2>2 DEF IntInv, LevelIsIntact
  <2>5. FreshInt'
    BY <2>1 DEF FreshInt, Caller, Levels
  <2> QED
    BY <2>3, <2>4, <2>5 DEF IntInv
<1>8. ASSUME NEW th \in pending, CronStart(th) PROVE IntInv'
  <2>1. pending' = pending \ {th} /\ UNCHANGED <<interval, i>>
        /\ heap' = Only(DOMAIN heap \ {th[1]})
    BY <1>8 DEF CronStart
  <2>2. DOMAIN heap' = DOMAIN heap \ {th[1]}
        /\ \A c \in DOMAIN heap' : heap'[c] = heap[c]
    BY <2>1 DEF Only
  <2>3. \A other \in pending' : other[1] # th[1]
    <3> SUFFICES ASSUME NEW other \in pending', other[1] = th[1] PROVE FALSE
      OBVIOUS
    <3>1. other \in pending /\ other # th /\ other \in Thread /\ th \in Thread
      BY <1>0, <2>1
    <3>2. other[2] = th[2]
      BY <3>1 DEF IntInv, LevelIsIntact
    <3> QED
      BY <3>1, <3>2, ThreadParts
  <2>4. HeapInv'
    BY <1>0, <2>1, <2>2 DEF HeapInv, Thread
  <2>5. LevelIsIntact'
    BY <2>1, <2>2, <2>3 DEF IntInv, LevelIsIntact
  <2>6. FreshInt'
    BY <2>1, <2>2 DEF IntInv, FreshInt, Caller, Fires
  <2> QED
    BY <2>4, <2>5, <2>6 DEF IntInv
<1>9. CASE Restart
  <2>1. interval' = 0 /\ i' = 0 /\ pending' = {} /\ DOMAIN heap' = {}
    BY <1>9 DEF Restart
  <2> QED
    BY <2>1 DEF IntInv, HeapInv, LevelIsIntact, FreshInt, Caller, Levels
<1>10. CASE UNCHANGED vars
  BY <1>10 DEF vars, IntInv, HeapInv, LevelIsIntact, FreshInt, Caller, Thread, Fires
<1> QED
  BY <1>1, <1>2, <1>5, <1>6, <1>7, <1>8, <1>9, <1>10 DEF Next

(* No thread ever works on a level other than the one it was created for, nor *)
(* reads or frees an int that has been freed.                                 *)
THEOREM ThreadsReadTheirLevel == Spec => []LevelIsIntact
<1>1. IntInv => LevelIsIntact
  BY DEF IntInv
<1> QED
  BY <1>1, IntInit, IntNext, PTL DEF Spec

-----------------------------------------------------------------------------
(* The calls whose test for level l is over.                                  *)
Seen(l) == IF Caller /\ l >= i THEN interval - 1 ELSE interval

(* requested[l] is the number of calls up to Seen(l) at which l was due: the  *)
(* last of them is call requested[l] * modu[l] + rozd[l].                     *)
CountInv ==
    /\ interval \in Nat
    /\ i \in 0 .. 5
    /\ Caller => interval >= 1
    /\ requested \in [Levels -> Nat]
    /\ \A l \in Levels :
           /\ requested[l] = 0 \/ requested[l] * modu[l] + rozd[l] <= Seen(l)
           /\ Seen(l) < (requested[l] + 1) * modu[l] + rozd[l]

(* The arrays of sum_table, element by element.                              *)
LEMMA Constants ==
    /\ Levels = {1, 2, 3, 4}
    /\ modu[1] = 5 /\ modu[2] = 30 /\ modu[3] = 120 /\ modu[4] = 1440
    /\ rozd[1] = 1 /\ rozd[2] = 5 /\ rozd[3] = 30 /\ rozd[4] = 120
    /\ Below[1] = 5 /\ Below[2] = 6 /\ Below[3] = 4 /\ Below[4] = 12
  BY DEF Levels, modu, rozd, Below

(* The call at which a level is due is the one that completes its next row.   *)
LEMMA DueIsNextRow ==
    ASSUME NEW n \in Nat, NEW l \in Levels, NEW r \in Nat, n >= 1,
           r = 0 \/ r * modu[l] + rozd[l] <= n - 1,
           n - 1 < (r + 1) * modu[l] + rozd[l]
    PROVE  /\ Fires(n, l) => n = (r + 1) * modu[l] + rozd[l]
           /\ ~Fires(n, l) => n < (r + 1) * modu[l] + rozd[l]
<1>1. CASE l = 1
  BY <1>1, Constants DEF Fires
<1>2. CASE l = 2
  BY <1>2, Constants DEF Fires
<1>3. CASE l = 3
  BY <1>3, Constants DEF Fires
<1>4. CASE l = 4
  BY <1>4, Constants DEF Fires
<1> QED
  BY <1>1, <1>2, <1>3, <1>4, Constants

(* What is due at the call that completes row r of a level above the first    *)
(* has Below rows of the level under it.                                      *)
LEMMA RowsAreComplete ==
    ASSUME CountInv, NEW l \in Levels, i = l, Fires(interval, l)
    PROVE  RowsBelow(l) = Below[l] * (requested[l] + 1)
<1>1. interval = (requested[l] + 1) * modu[l] + rozd[l]
  <2>1. Caller /\ Seen(l) = interval - 1
    BY Constants DEF Caller, Seen
  <2> QED
    BY <2>1, DueIsNextRow DEF CountInv
<1>2. requested[l] \in Nat /\ interval \in Nat
  BY DEF CountInv
<1>3. CASE l = 1
  BY <1>1, <1>2, <1>3, Constants DEF RowsBelow
<1>4. ASSUME l # 1
      PROVE  /\ requested[l - 1] \in Nat
             /\ requested[l - 1] = 0
                    \/ requested[l - 1] * modu[l - 1] + rozd[l - 1] <= interval
             /\ interval < (requested[l - 1] + 1) * modu[l - 1] + rozd[l - 1]
  <2>1. l - 1 \in Levels /\ ~(l - 1 >= i)
    BY <1>4, Constants
  <2>2. Seen(l - 1) = interval
    BY <2>1 DEF Seen
  <2> QED
    BY <2>1, <2>2 DEF CountInv
<1>5. CASE l = 2
  BY <1>1, <1>2, <1>4, <1>5, Constants DEF RowsBelow
<1>6. CASE l = 3
  BY <1>1, <1>2, <1>4, <1>6, Constants DEF RowsBelow
<1>7. CASE l = 4
  BY <1>1, <1>2, <1>4, <1>7, Constants DEF RowsBelow
<1> QED
  BY <1>3, <1>5, <1>6, <1>7, Constants

(* No level was due before the first call.                                   *)
LEMMA CountInit == Init => CountInv
<1> SUFFICES ASSUME Init PROVE CountInv
  OBVIOUS
<1>1. ~Caller /\ \A l \in Levels : Seen(l) = 0
  BY Constants DEF Init, Caller, Seen
<1>2. requested \in [Levels -> Nat] /\ \A l \in Levels : requested[l] = 0
  BY DEF Init
<1> QED
  BY <1>1, <1>2, Constants DEF Init, CountInv

(* A number with remainder zero between two multiples is the greater one.    *)
LEMMA NextMultiple ==
    ASSUME NEW r \in Nat, NEW m \in {5, 30, 120, 1440}
    PROVE  r * m < (r + 1) * m
  OBVIOUS

(* The test of one level moves that level's count past the current call and   *)
(* leaves the other levels alone.                                             *)
LEMMA CountTest ==
    ASSUME CountInv, i \in Levels, i' = i + 1, interval' = interval,
           requested' = IF Fires(interval, i)
                        THEN [requested EXCEPT ![i] = @ + 1] ELSE requested
    PROVE  CountInv'
<1>1. /\ interval \in Nat /\ interval >= 1 /\ requested \in [Levels -> Nat]
      /\ i' \in 0 .. 5 /\ Caller
  BY Constants DEF CountInv, Caller
<1>2. requested' \in [Levels -> Nat]
  BY <1>1
<1>3. ASSUME NEW l \in Levels
      PROVE  /\ requested'[l] = 0 \/ requested'[l] * modu[l] + rozd[l] <= Seen(l)'
             /\ Seen(l)' < (requested'[l] + 1) * modu[l] + rozd[l]
  <2>0. modu[l] \in Nat /\ rozd[l] \in Nat /\ requested[l] \in Nat
    BY <1>1, Constants
  <2>1. CASE l = i
    <3>1. Seen(l) = interval - 1 /\ Seen(l)' = interval
      <4>1. Seen(l) = interval - 1
        BY <1>1, <2>1, Constants DEF Seen
      <4>2. ~(l >= i')
        BY <2>1, Constants
      <4> QED
        BY <4>1, <4>2 DEF Seen
    <3>4. /\ interval \in Nat /\ interval >= 1
          /\ requested[l] = 0 \/ requested[l] * modu[l] + rozd[l] <= interval - 1
          /\ interval - 1 < (requested[l] + 1) * modu[l] + rozd[l]
      BY <1>1, <2>1, <3>1 DEF CountInv
    <3>2. CASE Fires(interval, i)
      <4>1. requested'[l] = requested[l] + 1
        BY <1>1, <2>1, <3>2
      <4>2. interval = (requested[l] + 1) * modu[l] + rozd[l]
        BY <2>0, <2>1, <3>4, <3>2, DueIsNextRow
      <4>3. (requested[l] + 1) * modu[l] < ((requested[l] + 1) + 1) * modu[l]
        BY <2>0, NextMultiple, Constants
      <4>4. /\ (requested[l] + 1) * modu[l] \in Nat
            /\ ((requested[l] + 1) + 1) * modu[l] \in Nat
        BY <2>0
      <4> QED
        BY <2>0, <3>1, <4>1, <4>2, <4>3, <4>4
    <3>3. CASE ~Fires(interval, i)
      <4>1. requested'[l] = requested[l]
        BY <3>3
      <4>2. interval < (requested[l] + 1) * modu[l] + rozd[l]
        BY <2>0, <2>1, <3>4, <3>3, DueIsNextRow
      <4>3. requested[l] = 0 \/ requested[l] * modu[l] + rozd[l] <= interval - 1
        BY <2>1, <3>1 DEF CountInv
      <4> QED
        BY <1>1, <2>0, <3>1, <4>1, <4>2, <4>3, Constants
    <3> QED
      BY <3>2, <3>3
  <2>2. CASE l # i
    <3>1. requested'[l] = requested[l]
      BY <1>1, <2>2
    <3>2. Seen(l)' = Seen(l)
      <4>1. (l >= i') = (l >= i)
        BY <2>2, Constants
      <4>2. Caller' <=> i' \in Levels
        BY DEF Caller
      <4>3. CASE l >= i
        <5>1. i' \in Levels
          BY <2>2, <4>3, Constants
        <5> QED
          BY <1>1, <4>1, <4>2, <4>3, <5>1 DEF Seen
      <4>4. CASE ~(l >= i)
        BY <1>1, <4>1, <4>4 DEF Seen
      <4> QED
        BY <4>3, <4>4
    <3> QED
      BY <3>1, <3>2 DEF CountInv
  <2> QED
    BY <2>1, <2>2
<1> QED
  BY <1>1, <1>2, <1>3 DEF CountInv

(* Every step keeps the count of each level in step with the calls.          *)
LEMMA CountNext == CountInv /\ [Next]_vars => CountInv'
<1> SUFFICES ASSUME CountInv, [Next]_vars PROVE CountInv'
  OBVIOUS
<1>0. interval \in Nat /\ i \in 0 .. 5
  BY DEF CountInv
<1>1. CASE Call
  <2>1. i = 0 /\ i' = 1 /\ interval' = interval + 1 /\ requested' = requested
    BY <1>1 DEF Call, Counted
  <2>2. \A l \in Levels : Seen(l)' = Seen(l)
    BY <1>0, <2>1, Constants DEF Seen, Caller
  <2> QED
    BY <1>0, <2>1, <2>2 DEF CountInv
<1>2. CASE NotDue
  BY <1>2, CountTest DEF NotDue
<1>3. CASE Create
  BY <1>3, CountTest DEF Create
<1>4. CASE CreateFails
  BY <1>4, CountTest DEF CreateFails
<1>5. CASE Return
  <2>1. i = 5 /\ i' = 0 /\ interval' = interval /\ requested' = requested
    BY <1>5 DEF Return
  <2>2. \A l \in Levels : Seen(l)' = Seen(l)
    BY <2>1, Constants DEF Seen, Caller
  <2>3. ~Caller'
    BY <2>1, Constants DEF Caller
  <2> QED
    BY <2>1, <2>2, <2>3 DEF CountInv
<1>6. ASSUME NEW th \in pending, CronStart(th) PROVE CountInv'
  BY <1>6 DEF CronStart, CountInv, Seen, Caller
<1>7. CASE Restart
  <2>1. interval' = 0 /\ i' = 0 /\ requested' = [l \in Levels |-> 0]
    BY <1>7 DEF Restart
  <2>2. ~Caller' /\ \A l \in Levels : Seen(l)' = 0
    BY <2>1, Constants DEF Caller, Seen
  <2>3. requested' \in [Levels -> Nat] /\ \A l \in Levels : requested'[l] = 0
    BY <2>1
  <2> QED
    BY <2>1, <2>2, <2>3, Constants DEF CountInv
<1>8. CASE UNCHANGED vars
  BY <1>8 DEF vars, CountInv, Seen, Caller
<1> QED
  BY <1>1, <1>2, <1>3, <1>4, <1>5, <1>6, <1>7, <1>8 DEF Next

(* Each row of a summary table is asked for when, and only when, all the rows *)
(* it sums have been asked for: five flushes, six times five minutes, four    *)
(* half hours, twelve times two hours.                                        *)
THEOREM SummariesFollowTheirRows == Spec => SummedAfterBelow
<1>1. CountInv /\ [Next]_vars =>
        [\A l \in Levels : requested'[l] > requested[l] =>
             RowsBelow(l) = Below[l] * requested'[l]]_vars
  <2> SUFFICES ASSUME CountInv, Next, NEW l \in Levels, requested'[l] > requested[l]
               PROVE  RowsBelow(l) = Below[l] * requested'[l]
    OBVIOUS
  <2>1. requested[l] \in Nat
    BY DEF CountInv
  <2>2. Create \/ CreateFails
    <3>1. ~Call /\ ~NotDue /\ ~Return
      BY <2>1 DEF Call, NotDue, Return
    <3>2. \A th \in pending : ~CronStart(th)
      BY <2>1 DEF CronStart
    <3>3. ~Restart
      BY <2>1 DEF Restart
    <3> QED
      BY <3>1, <3>2, <3>3 DEF Next
  <2>3. /\ i \in Levels /\ Fires(interval, i)
        /\ requested' = [requested EXCEPT ![i] = @ + 1]
    BY <2>2 DEF Create, CreateFails
  <2>4. l = i /\ requested'[l] = requested[l] + 1
    BY <2>1, <2>3 DEF CountInv
  <2> QED
    BY <2>3, <2>4, RowsAreComplete
<1> QED
  BY <1>1, CountInit, CountNext, PTL DEF Spec, SummedAfterBelow

-----------------------------------------------------------------------------
(* The bound of the model is kept: only a call counts, and it has the guard.  *)
LEMMA BoundInit == Init => interval <= MaxInterval
  BY SumTableAssumption DEF Init, SumTableAssumption

(* A step other than a call leaves the count of intervals alone.             *)
LEMMA BoundNext ==
    ASSUME interval \in Nat, interval <= MaxInterval, [Next]_vars
    PROVE  interval' <= MaxInterval
<1>1. MaxInterval \in Nat
  BY SumTableAssumption DEF SumTableAssumption
<1>2. CASE Call
  BY <1>1, <1>2 DEF Call, Counted
<1>3. CASE NotDue \/ Create \/ CreateFails \/ Return \/ Restart \/ UNCHANGED vars
  BY <1>1, <1>3 DEF NotDue, Create, CreateFails, Return, Restart, vars
<1>4. ASSUME NEW th \in pending, CronStart(th) PROVE interval' <= MaxInterval
  BY <1>4 DEF CronStart
<1> QED
  BY <1>2, <1>3, <1>4 DEF Next

(* The types of the schedule: indices in range, threads only for levels that  *)
(* exist, and never more summaries of a level than calls.                     *)
THEOREM ScheduleTypes == Spec => []TypeOK
<1> DEFINE Bound == interval <= MaxInterval
<1>1. IntInv /\ CountInv /\ Bound => TypeOK
  <2> SUFFICES ASSUME IntInv, CountInv, Bound PROVE TypeOK
    OBVIOUS
  <2>1. interval \in 0 .. MaxInterval
    BY SumTableAssumption DEF CountInv, SumTableAssumption
  <2>2. ASSUME NEW l \in Levels PROVE requested[l] \in 0 .. interval
    <3>1. /\ requested[l] \in Nat /\ interval \in Nat
          /\ requested[l] = 0 \/ requested[l] * modu[l] + rozd[l] <= interval
      BY DEF CountInv, Seen, Caller, Levels, modu, rozd
    <3>2. requested[l] <= requested[l] * modu[l] + rozd[l]
      <4>1. l = 1 \/ l = 2 \/ l = 3 \/ l = 4
        BY Constants
      <4> QED
        BY <3>1, <4>1, Constants
    <3>3. requested[l] * modu[l] + rozd[l] \in Nat
      <4>1. l = 1 \/ l = 2 \/ l = 3 \/ l = 4
        BY Constants
      <4> QED
        BY <3>1, <4>1, Constants
    <3> QED
      BY <3>1, <3>2, <3>3
  <2>3. requested \in [Levels -> 0 .. interval]
    BY <2>2 DEF CountInv
  <2> QED
    BY <2>1, <2>3 DEF TypeOK, IntInv, HeapInv, Thread
<1>2. CountInv /\ Bound /\ [Next]_vars => Bound'
  BY BoundNext DEF CountInv
<1>3. Init => Bound
  BY BoundInit
<1> QED
  BY <1>1, <1>2, <1>3, IntInit, IntNext, CountInit, CountNext, PTL DEF Spec
=============================================================================

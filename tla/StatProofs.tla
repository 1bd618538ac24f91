----------------------------- MODULE StatProofs -----------------------------
(***************************************************************************)
(* The statistics, for any syscalls, any length of the ring, any delays    *)
(* and any number of events and epochs: types, totals, the ring of         *)
(* epochs, the columns of a row and the traversal of /proc/SYSTHROT.       *)
(*                                                                         *)
(* What a column computed by a loop is worth rests on induction over the   *)
(* number of its rounds, which is taken in the form of sets: a set that    *)
(* has 0 and is closed under +1 has all of Nat.                            *)
(***************************************************************************)
EXTENDS StatMonitor, WellFoundedInduction, TLAPS

-----------------------------------------------------------------------------
\* Induction, for the members of a set.
LEMMA SetInduction ==
    ASSUME NEW S, 0 \in S, \A n \in Nat : n \in S => n + 1 \in S
    PROVE  \A n \in Nat : n \in S
<1>. DEFINE R == OpToRel(<, Nat)
            T == {n \in Nat : n \notin S}
<1>. SUFFICES ASSUME T # {} PROVE FALSE OBVIOUS
<1>1. IsWellFoundedOn(R, Nat) BY Zenon, NatLessThanWellFounded DEF OpToRel
<1>2. \A x, y \in Nat : y < x => <<y, x>> \in R BY DEF OpToRel
<1>. HIDE DEF R
<1>3. PICK x \in T : \A y \in T : ~ (<<y, x>> \in R)
  <2>1. T \subseteq Nat OBVIOUS
  <2>. HIDE DEF T
  <2>. QED BY Zenon, <1>1, <2>1, WFMin
<1>4. x \in Nat /\ x # 0 OBVIOUS
<1>5. x - 1 \in Nat /\ x - 1 < x /\ (x - 1) + 1 = x BY <1>4
<1>6. x - 1 \notin T BY Zenon, <1>2, <1>3, <1>4, <1>5
<1>. QED BY <1>5, <1>6

\* Products, quotients and remainders.
LEMMA ProductMonotone ==
    ASSUME NEW b \in Nat, NEW p \in Nat, NEW q \in Nat, p <= q
    PROVE  b * p <= b * q /\ b * p \in Nat
OBVIOUS

LEMMA QuotientBound ==
    ASSUME NEW a \in Nat, NEW b \in Nat \ {0}, NEW p \in Nat, a <= b * p
    PROVE  a \div b <= p
OBVIOUS

LEMMA Remainder ==
    ASSUME NEW m \in Nat \ {0}, NEW x \in 0..2 * m - 1
    PROVE  x % m = IF x < m THEN x ELSE x - m
OBVIOUS

LEMMA RemainderSmall ==
    ASSUME NEW m \in Nat \ {0}, NEW x \in 0..m - 1
    PROVE  x % m = x
OBVIOUS

\* The larger and the smaller of two numbers.
LEMMA MaxOfTwo ==
    ASSUME NEW a \in Nat, NEW b \in Nat
    PROVE  Max({a, b}) \in Nat /\ a <= Max({a, b}) /\ b <= Max({a, b})
BY DEF Max

LEMMA MinOfTwo ==
    ASSUME NEW a \in Nat, NEW b \in Nat
    PROVE  Min({a, b}) = IF a <= b THEN a ELSE b
BY DEF Min

-----------------------------------------------------------------------------
\* g holds the partial sums of f's first n values.
IsSum(g, f, n) == g = [i \in 0..n |-> IF i = 0 THEN 0 ELSE g[i - 1] + f[i - 1]]

\* There are such sums.
LEMMA SumExists ==
    ASSUME NEW f PROVE \A n \in Nat : \E g : IsSum(g, f, n)
<1>. DEFINE S == {n \in Nat : \E g : IsSum(g, f, n)}
<1>1. 0 \in S
  <2>. DEFINE g == [i \in 0..0 |-> 0]
  <2>1. IsSum(g, f, 0) BY DEF IsSum
  <2>. QED BY Zenon, <2>1
<1>2. ASSUME NEW n \in Nat, n \in S PROVE n + 1 \in S
  <2>1. PICK g : IsSum(g, f, n) BY <1>2
  <2>. DEFINE h == [i \in 0..n + 1 |-> IF i = n + 1 THEN g[n] + f[n] ELSE g[i]]
  <2>2. \A i \in 0..n : g[i] = IF i = 0 THEN 0 ELSE g[i - 1] + f[i - 1] BY <2>1 DEF IsSum
  <2>3. \A i \in 0..n : h[i] = g[i] OBVIOUS
  <2>4. h[n + 1] = h[(n + 1) - 1] + f[(n + 1) - 1] OBVIOUS
  <2>5. ASSUME NEW i \in 0..n + 1 PROVE h[i] = IF i = 0 THEN 0 ELSE h[i - 1] + f[i - 1]
    <3>1. CASE i = n + 1 BY <2>4, <3>1
    <3>2. CASE i # n + 1 /\ i # 0
      <4>1. i \in 0..n /\ i - 1 \in 0..n BY <3>2
      <4>. QED BY <2>2, <2>3, <3>2, <4>1
    <3>3. CASE i = 0 BY <2>2, <2>3, <3>3
    <3>. QED BY <3>1, <3>2, <3>3
  <2>6. IsSum(h, f, n + 1)
    <3>1. h = [i \in 0..n + 1 |-> h[i]] BY Zenon
    <3>. HIDE DEF h
    <3>2. [i \in 0..n + 1 |-> h[i]]
             = [i \in 0..n + 1 |-> IF i = 0 THEN 0 ELSE h[i - 1] + f[i - 1]]
      BY Zenon, <2>5
    <3>. QED BY Zenon, <3>1, <3>2 DEF IsSum
  <2>. HIDE DEF h
  <2>. QED BY <2>6
<1>3. \A n \in Nat : n \in S
  <2>. HIDE DEF S
  <2>. QED BY <1>1, <1>2, SetInduction
<1>. QED BY <1>3

\* Two of them agree as far as both go.
LEMMA SumUnique ==
    ASSUME NEW f, NEW g, NEW h, NEW n \in Nat, NEW m \in Nat, n <= m,
           IsSum(g, f, n), IsSum(h, f, m)
    PROVE  \A i \in 0..n : g[i] = h[i]
<1>. DEFINE S == {i \in Nat : i <= n => g[i] = h[i]}
<1>1. \A i \in 0..n : g[i] = IF i = 0 THEN 0 ELSE g[i - 1] + f[i - 1] BY DEF IsSum
<1>2. \A i \in 0..m : h[i] = IF i = 0 THEN 0 ELSE h[i - 1] + f[i - 1] BY DEF IsSum
<1>3. 0 \in S BY <1>1, <1>2
<1>4. ASSUME NEW i \in Nat, i \in S PROVE i + 1 \in S
  <2>. SUFFICES ASSUME i + 1 <= n PROVE g[i + 1] = h[i + 1] OBVIOUS
  <2>1. i + 1 \in 0..n /\ i + 1 \in 0..m /\ i + 1 # 0 /\ (i + 1) - 1 = i OBVIOUS
  <2>2. g[i] = h[i] BY <1>4
  <2>3. g[i + 1] = g[i] + f[i] BY <1>1, <2>1
  <2>4. h[i + 1] = h[i] + f[i] BY <1>2, <2>1
  <2>. QED BY <2>2, <2>3, <2>4
<1>5. \A i \in Nat : i \in S
  <2>. HIDE DEF S
  <2>. QED BY <1>3, <1>4, SetInduction
<1>. QED BY <1>5

\* The rounds of the loop of my_seq_show().
LEMMA SumRounds ==
    ASSUME NEW f
    PROVE  /\ SumTo(f, 0) = 0
           /\ \A n \in Nat : SumTo(f, n + 1) = SumTo(f, n) + f[n]
<1>1. \A n : SumTo(f, n) = (CHOOSE g : IsSum(g, f, n))[n] BY Zenon DEF SumTo, IsSum
<1>2. \A n \in Nat : IsSum(CHOOSE g : IsSum(g, f, n), f, n)
  BY Zenon, SumExists
<1>3. SumTo(f, 0) = 0
  <2>. DEFINE g == CHOOSE g : IsSum(g, f, 0)
  <2>1. IsSum(g, f, 0) BY <1>2
  <2>2. SumTo(f, 0) = g[0] BY <1>1
  <2>. HIDE DEF g
  <2>. QED BY <2>1, <2>2 DEF IsSum
<1>4. ASSUME NEW n \in Nat PROVE SumTo(f, n + 1) = SumTo(f, n) + f[n]
  <2>. DEFINE g == CHOOSE g : IsSum(g, f, n)
              h == CHOOSE h : IsSum(h, f, n + 1)
  <2>1. IsSum(g, f, n) BY <1>2
  <2>2. IsSum(h, f, n + 1) BY <1>2
  <2>3. SumTo(f, n) = g[n] /\ SumTo(f, n + 1) = h[n + 1] BY <1>1
  <2>. HIDE DEF g, h
  <2>4. h[n + 1] = h[n] + f[n] BY <2>2 DEF IsSum
  <2>5. g[n] = h[n] BY <2>1, <2>2, SumUnique
  <2>. QED BY <2>3, <2>4, <2>5
<1>. QED BY <1>3, <1>4

\* Sums of numbers are numbers, and equal values have equal sums.
LEMMA SumType ==
    ASSUME NEW f, NEW n \in Nat, \A i \in 0..n - 1 : f[i] \in Nat
    PROVE  SumTo(f, n) \in Nat
<1>. DEFINE S == {k \in Nat : k <= n => SumTo(f, k) \in Nat}
<1>1. 0 \in S BY SumRounds
<1>2. ASSUME NEW k \in Nat, k \in S PROVE k + 1 \in S
  <2>. SUFFICES ASSUME k + 1 <= n PROVE SumTo(f, k + 1) \in Nat OBVIOUS
  <2>1. SumTo(f, k) \in Nat /\ f[k] \in Nat BY <1>2
  <2>2. SumTo(f, k + 1) = SumTo(f, k) + f[k] BY SumRounds
  <2>. QED BY <2>1, <2>2
<1>3. \A k \in Nat : k \in S
  <2>. HIDE DEF S
  <2>. QED BY <1>1, <1>2, SetInduction
<1>. QED BY <1>3

LEMMA SumSame ==
    ASSUME NEW f, NEW g, NEW n \in Nat, \A i \in 0..n - 1 : f[i] = g[i]
    PROVE  SumTo(f, n) = SumTo(g, n)
<1>. DEFINE S == {k \in Nat : k <= n => SumTo(f, k) = SumTo(g, k)}
<1>1. 0 \in S BY SumRounds
<1>2. ASSUME NEW k \in Nat, k \in S PROVE k + 1 \in S
  <2>. SUFFICES ASSUME k + 1 <= n PROVE SumTo(f, k + 1) = SumTo(g, k + 1) OBVIOUS
  <2>1. SumTo(f, k) = SumTo(g, k) /\ f[k] = g[k] BY <1>2
  <2>2. SumTo(f, k + 1) = SumTo(f, k) + f[k] BY SumRounds
  <2>3. SumTo(g, k + 1) = SumTo(g, k) + g[k] BY SumRounds
  <2>. QED BY <2>1, <2>2, <2>3
<1>3. \A k \in Nat : k \in S
  <2>. HIDE DEF S
  <2>. QED BY <1>1, <1>2, SetInduction
<1>. QED BY <1>3

\* Leaving out the first value.
LEMMA SumShift ==
    ASSUME NEW f, NEW g, NEW n \in Nat, \A i \in 0..n : g[i] \in Nat,
           \A i \in 0..n - 1 : f[i] = g[i + 1]
    PROVE  SumTo(g, n + 1) = g[0] + SumTo(f, n)
<1>. DEFINE S == {k \in Nat : k <= n => /\ SumTo(f, k) \in Nat
                                        /\ SumTo(g, k + 1) = g[0] + SumTo(f, k)}
<1>1. 0 \in S
  <2>1. SumTo(f, 0) = 0 /\ SumTo(g, 0) = 0 /\ g[0] \in Nat BY SumRounds
  <2>2. SumTo(g, 0 + 1) = SumTo(g, 0) + g[0] BY SumRounds
  <2>. QED BY <2>1, <2>2
<1>2. ASSUME NEW k \in Nat, k \in S PROVE k + 1 \in S
  <2>. SUFFICES ASSUME k + 1 <= n
                PROVE  /\ SumTo(f, k + 1) \in Nat
                       /\ SumTo(g, (k + 1) + 1) = g[0] + SumTo(f, k + 1)
    OBVIOUS
  <2>1. /\ SumTo(f, k) \in Nat /\ SumTo(g, k + 1) = g[0] + SumTo(f, k)
        /\ f[k] = g[k + 1] /\ f[k] \in Nat /\ g[0] \in Nat
    BY <1>2
  <2>2. SumTo(f, k + 1) = SumTo(f, k) + f[k] BY SumRounds
  <2>3. SumTo(g, (k + 1) + 1) = SumTo(g, k + 1) + g[k + 1] BY SumRounds
  <2>. QED BY <2>1, <2>2, <2>3
<1>3. \A k \in Nat : k \in S
  <2>. HIDE DEF S
  <2>. QED BY <1>1, <1>2, SetInduction
<1>. QED BY <1>3

\* If every value of t is at most p times the one of b, so is the sum.
LEMMA SumBound ==
    ASSUME NEW t, NEW b, NEW p \in Nat, NEW n \in Nat,
           \A i \in 0..n - 1 : t[i] \in Nat /\ b[i] \in Nat /\ t[i] <= b[i] * p
    PROVE  SumTo(t, n) <= SumTo(b, n) * p
<1>. DEFINE S == {k \in Nat : k <= n => /\ SumTo(t, k) \in Nat /\ SumTo(b, k) \in Nat
                                        /\ SumTo(t, k) <= SumTo(b, k) * p}
<1>1. 0 \in S BY SumRounds
<1>2. ASSUME NEW k \in Nat, k \in S PROVE k + 1 \in S
  <2>. SUFFICES ASSUME k + 1 <= n
                PROVE  /\ SumTo(t, k + 1) \in Nat /\ SumTo(b, k + 1) \in Nat
                       /\ SumTo(t, k + 1) <= SumTo(b, k + 1) * p
    OBVIOUS
  <2>1. /\ SumTo(t, k) \in Nat /\ SumTo(b, k) \in Nat /\ SumTo(t, k) <= SumTo(b, k) * p
        /\ t[k] \in Nat /\ b[k] \in Nat /\ t[k] <= b[k] * p
    BY <1>2
  <2>2. SumTo(t, k + 1) = SumTo(t, k) + t[k] BY SumRounds
  <2>3. SumTo(b, k + 1) = SumTo(b, k) + b[k] BY SumRounds
  <2>4. \A x, y \in Nat : (x + y) * p = x * p + y * p /\ x * p \in Nat OBVIOUS
  <2>. QED BY <2>1, <2>2, <2>3, <2>4
<1>3. \A k \in Nat : k \in S
  <2>. HIDE DEF S
  <2>. QED BY <1>1, <1>2, SetInduction
<1>. QED BY <1>3

-----------------------------------------------------------------------------
\* The type of an entry.
Entry ==
    [current_blocked : Nat, total_blocked : Nat, last_epoch_blocked : Nat,
     current_time : Nat, peak_delay : Nat,
     current_ctx : Nat, sum_ctx : Nat, peak_ctx : Nat, total_aborted : Nat,
     epoch_history : [Slot -> Nat], epoch_time_history : [Slot -> Nat],
     history_head : Slot, history_count : 0..HISTORY_LEN]

\* What the end of an epoch does to the fields of an entry.
LEMMA FoldFields ==
    ASSUME NEW e \in Entry
    PROVE  /\ Fold(e) \in Entry
           /\ Fold(e).total_blocked = e.total_blocked + e.current_blocked
           /\ Fold(e).current_blocked = 0 /\ Fold(e).current_time = 0
           /\ Fold(e).peak_delay = e.peak_delay
           /\ Fold(e).current_ctx = 0 /\ Fold(e).sum_ctx = e.sum_ctx + e.current_ctx
           /\ Fold(e).peak_ctx = Max({e.peak_ctx, e.current_ctx})
           /\ Fold(e).epoch_history
                 = [e.epoch_history EXCEPT ![e.history_head] = e.current_blocked]
           /\ Fold(e).epoch_time_history
                 = [e.epoch_time_history EXCEPT ![e.history_head] = e.current_time]
           /\ Fold(e).history_head
                 = IF e.history_head + 1 = HISTORY_LEN THEN 0 ELSE e.history_head + 1
           /\ Fold(e).history_count
                 = IF e.history_count < HISTORY_LEN THEN e.history_count + 1 ELSE HISTORY_LEN
<1>0. HISTORY_LEN \in Nat \ {0} BY StatAssumption
<1>1. /\ e.history_head \in Slot /\ e.history_count \in 0..HISTORY_LEN
      /\ e.peak_ctx \in Nat /\ e.current_ctx \in Nat
  BY DEF Entry
<1>2. /\ (e.history_head + 1) % HISTORY_LEN
            = IF e.history_head + 1 = HISTORY_LEN THEN 0 ELSE e.history_head + 1
      /\ (e.history_head + 1) % HISTORY_LEN \in Slot
  <2>. DEFINE x == e.history_head + 1
  <2>1. x \in 0..2 * HISTORY_LEN - 1 /\ x <= HISTORY_LEN BY <1>0, <1>1 DEF Slot
  <2>. HIDE DEF x
  <2>2. x % HISTORY_LEN = IF x < HISTORY_LEN THEN x ELSE x - HISTORY_LEN
    BY Zenon, <1>0, <2>1, Remainder
  <2>3. x % HISTORY_LEN = IF x = HISTORY_LEN THEN 0 ELSE x BY <1>0, <2>1, <2>2
  <2>4. x % HISTORY_LEN \in Slot BY <1>0, <2>1, <2>3 DEF Slot
  <2>. QED BY Zenon, <2>3, <2>4 DEF x
<1>3. count(e) = (IF e.history_count < HISTORY_LEN THEN e.history_count + 1 ELSE HISTORY_LEN)
      /\ count(e) \in 0..HISTORY_LEN
  BY <1>0, <1>1 DEF count
<1>4. peak(e) = Max({e.peak_ctx, e.current_ctx}) /\ peak(e) \in Nat BY <1>1, MaxOfTwo DEF peak
<1>5. e.sum_ctx + e.current_ctx \in Nat /\ total(e) \in Nat BY DEF Entry, total
<1>6. Fold(e) \in Entry BY ZenonT(30), <1>2, <1>3, <1>4, <1>5 DEF Fold, Entry
<1>7. /\ Fold(e).total_blocked = total(e)
      /\ Fold(e).current_blocked = 0 /\ Fold(e).current_time = 0
      /\ Fold(e).peak_delay = e.peak_delay
      /\ Fold(e).current_ctx = 0 /\ Fold(e).sum_ctx = e.sum_ctx + e.current_ctx
      /\ Fold(e).peak_ctx = peak(e)
  BY DEF Fold, Entry
<1>8. /\ Fold(e).epoch_history
            = [e.epoch_history EXCEPT ![e.history_head] = e.current_blocked]
      /\ Fold(e).epoch_time_history
            = [e.epoch_time_history EXCEPT ![e.history_head] = e.current_time]
      /\ Fold(e).history_head = (e.history_head + 1) % HISTORY_LEN
      /\ Fold(e).history_count = count(e)
  BY DEF Fold, Entry
<1>. QED BY Zenon, <1>2, <1>3, <1>4, <1>6, <1>7, <1>8 DEF total

-----------------------------------------------------------------------------
\* The slot of the i-th oldest epoch: the unsigned arithmetic never wraps.
LEMMA SlotOf ==
    ASSUME NEW e \in Entry, NEW i \in 0..e.history_count - 1
    PROVE  /\ history_slot(e, i) \in Slot
           /\ history_slot(e, i) = IF e.history_head + i >= e.history_count
                                   THEN e.history_head + i - e.history_count
                                   ELSE e.history_head + i - e.history_count + HISTORY_LEN
<1>0. HISTORY_LEN \in Nat \ {0} /\ UINT \in Nat \ {0} /\ UINT > 2 * HISTORY_LEN BY StatAssumption
<1>1. e.history_head \in 0..HISTORY_LEN - 1 /\ e.history_count \in 0..HISTORY_LEN BY DEF Entry, Slot
<1>. DEFINE x == e.history_head - e.history_count + i + HISTORY_LEN
<1>2. x \in 0..2 * HISTORY_LEN - 1 /\ x \in 0..UINT - 1 BY <1>0, <1>1
<1>3. history_slot(e, i) = (x % UINT) % HISTORY_LEN BY DEF history_slot
<1>4. /\ x < HISTORY_LEN <=> e.history_head + i < e.history_count
      /\ x - HISTORY_LEN = e.history_head + i - e.history_count
      /\ x = e.history_head + i - e.history_count + HISTORY_LEN
  BY <1>0, <1>1
<1>. HIDE DEF x
<1>5. x % UINT = x BY Zenon, <1>0, <1>2, RemainderSmall
<1>6. x % HISTORY_LEN = IF x < HISTORY_LEN THEN x ELSE x - HISTORY_LEN
  BY Zenon, <1>0, <1>2, Remainder
<1>7. history_slot(e, i) = IF x < HISTORY_LEN THEN x ELSE x - HISTORY_LEN
  BY Zenon, <1>3, <1>5, <1>6
<1>. QED BY <1>0, <1>1, <1>2, <1>4, <1>7 DEF Slot

\* The end of an epoch adds its slot to the window, at the end, and once the
\* ring is full drops the oldest one.
LEMMA SlotsShift ==
    ASSUME NEW e \in Entry
    PROVE  /\ e.history_count < HISTORY_LEN =>
                 \A i \in 0..e.history_count - 1 :
                    /\ history_slot(Fold(e), i) = history_slot(e, i)
                    /\ history_slot(e, i) # e.history_head
           /\ e.history_count = HISTORY_LEN =>
                 \A i \in 0..HISTORY_LEN - 2 :
                    /\ history_slot(Fold(e), i) = history_slot(e, i + 1)
                    /\ history_slot(e, i + 1) # e.history_head
           /\ history_slot(Fold(e), Fold(e).history_count - 1) = e.history_head
<1>. DEFINE h == e.history_head
            n == e.history_count
            e2 == Fold(e)
            H == HISTORY_LEN
<1>0. H \in Nat \ {0} /\ h \in 0..H - 1 /\ n \in 0..H BY StatAssumption DEF Entry, Slot
<1>1. /\ e2 \in Entry
      /\ e2.history_head = IF h + 1 = H THEN 0 ELSE h + 1
      /\ e2.history_count = IF n < H THEN n + 1 ELSE H
  BY Zenon, FoldFields
<1>2. \A i \in 0..n - 1 : history_slot(e, i) = IF h + i >= n THEN h + i - n ELSE h + i - n + H
  BY SlotOf
<1>. HIDE DEF e2
<1>3. \A i \in 0..e2.history_count - 1 :
         history_slot(e2, i) = IF e2.history_head + i >= e2.history_count
                               THEN e2.history_head + i - e2.history_count
                               ELSE e2.history_head + i - e2.history_count + H
  BY <1>1, SlotOf
<1>4. ASSUME n < H, NEW i \in 0..n - 1
      PROVE  history_slot(e2, i) = history_slot(e, i) /\ history_slot(e, i) # h
  <2>1. i \in 0..e2.history_count - 1 BY <1>0, <1>1, <1>4
  <2>. QED BY <1>0, <1>1, <1>2, <1>3, <1>4, <2>1
<1>5. ASSUME n = H, NEW i \in 0..H - 2
      PROVE  history_slot(e2, i) = history_slot(e, i + 1) /\ history_slot(e, i + 1) # h
  <2>1. i \in 0..e2.history_count - 1 /\ i + 1 \in 0..n - 1 BY <1>0, <1>1, <1>5
  <2>2. history_slot(e, i + 1) = IF h + (i + 1) >= n THEN h + (i + 1) - n ELSE h + (i + 1) - n + H
    BY Zenon, <1>2, <2>1
  <2>3. e2.history_count = H BY <1>0, <1>1, <1>5
  <2>4. history_slot(e2, i) = IF e2.history_head + i >= H THEN e2.history_head + i - H
                                                          ELSE e2.history_head + i - H + H
    BY Zenon, <1>3, <2>1, <2>3
  <2>5. history_slot(e, i + 1) = IF h + i + 1 >= H THEN h + i + 1 - H ELSE h + i + 1
    BY <1>0, <1>5, <2>2
  <2>6. history_slot(e2, i) = IF h + i + 1 >= H THEN h + i + 1 - H ELSE h + i + 1
    BY <1>0, <1>1, <2>4
  <2>. QED BY <1>0, <2>5, <2>6
<1>6. history_slot(e2, e2.history_count - 1) = h
  <2>1. e2.history_count - 1 \in 0..e2.history_count - 1 BY <1>0, <1>1
  <2>. QED BY <1>0, <1>1, <1>3, <2>1
<1>. QED BY <1>4, <1>5, <1>6 DEF e2

\* The same for the calls the slots hold.
LEMMA WindowShifts ==
    ASSUME NEW e \in Entry
    PROVE  /\ e.history_count < HISTORY_LEN =>
                 \A i \in 0..e.history_count - 1 :
                    history_blocked_at(Fold(e), i) = history_blocked_at(e, i)
           /\ e.history_count = HISTORY_LEN =>
                 \A i \in 0..HISTORY_LEN - 2 :
                    history_blocked_at(Fold(e), i) = history_blocked_at(e, i + 1)
           /\ history_blocked_at(Fold(e), Fold(e).history_count - 1) = e.current_blocked
<1>0. HISTORY_LEN \in Nat \ {0} BY StatAssumption
<1>1. /\ Fold(e).epoch_history = [e.epoch_history EXCEPT ![e.history_head] = e.current_blocked]
      /\ e.epoch_history \in [Slot -> Nat] /\ e.history_head \in Slot
  <2>1. e.epoch_history \in [Slot -> Nat] /\ e.history_head \in Slot BY DEF Entry
  <2>. QED BY Zenon, <2>1, FoldFields
<1>2. ASSUME e.history_count < HISTORY_LEN, NEW i \in 0..e.history_count - 1
      PROVE  history_blocked_at(Fold(e), i) = history_blocked_at(e, i)
  <2>1. history_slot(Fold(e), i) = history_slot(e, i) /\ history_slot(e, i) # e.history_head
    BY Zenon, <1>2, SlotsShift
  <2>2. history_slot(e, i) \in Slot BY Zenon, <1>2, SlotOf
  <2>. QED BY <1>1, <2>1, <2>2 DEF history_blocked_at
<1>3. ASSUME e.history_count = HISTORY_LEN, NEW i \in 0..HISTORY_LEN - 2
      PROVE  history_blocked_at(Fold(e), i) = history_blocked_at(e, i + 1)
  <2>1. history_slot(Fold(e), i) = history_slot(e, i + 1) /\ history_slot(e, i + 1) # e.history_head
    BY Zenon, <1>3, SlotsShift
  <2>2. i + 1 \in 0..e.history_count - 1 BY <1>0, <1>3
  <2>3. history_slot(e, i + 1) \in Slot BY Zenon, <2>2, SlotOf
  <2>. QED BY <1>1, <2>1, <2>3 DEF history_blocked_at
<1>4. history_blocked_at(Fold(e), Fold(e).history_count - 1) = e.current_blocked
  <2>1. history_slot(Fold(e), Fold(e).history_count - 1) = e.history_head BY Zenon, SlotsShift
  <2>. QED BY <1>1, <2>1 DEF history_blocked_at
<1>. QED BY Zenon, <1>2, <1>3, <1>4

-----------------------------------------------------------------------------
\* The window of e holds the last epochs of past, oldest first.
Exact(e, past) ==
    LET n == e.history_count
        m == Len(past)
    IN  /\ n = Min({m, HISTORY_LEN})
        /\ \A i \in 0..n - 1 : history_blocked_at(e, i) = past[m - n + 1 + i]

\* What holds of an entry when epochs have ended, calls of its syscall have been
\* recorded, and past lists them by epoch.
Sound(e, epochs, calls, past) ==
    /\ e \in Entry
    /\ past \in Seq(Nat)
    /\ e.total_blocked + e.current_blocked = calls
    /\ Exact(e, past)
    /\ e.current_time <= e.current_blocked * e.peak_delay
    /\ \A i \in Slot : e.epoch_time_history[i] <= e.epoch_history[i] * e.peak_delay
    /\ e.sum_ctx <= epochs * e.peak_ctx
    /\ window_sum(e) <= e.total_blocked

\* The inductive invariant.
StatInv ==
    /\ list \in Seq(Sid)
    /\ DOMAIN entry = Sid /\ DOMAIN events = Sid /\ DOMAIN log = Sid
    /\ epoch_count \in Nat
    /\ timer \in {"idle", "spin"}
    /\ reader \in {"idle", "held"}
    /\ pos \in Nat
    /\ \A s \in Sid : Sound(entry[s], epoch_count, events[s], log[s])
    /\ ~ended => pos <= Len(list) /\ shown = SubSeq(list, 1, pos)

\* The calls and the times that the window holds are numbers.
LEMMA WindowValues ==
    ASSUME NEW e \in Entry, NEW i \in 0..e.history_count - 1
    PROVE  /\ history_blocked_at(e, i) \in Nat /\ history_time_at(e, i) \in Nat
           /\ \E k \in Slot : /\ history_blocked_at(e, i) = e.epoch_history[k]
                              /\ history_time_at(e, i) = e.epoch_time_history[k]
<1>1. history_slot(e, i) \in Slot BY Zenon, SlotOf
<1>2. /\ history_blocked_at(e, i) = e.epoch_history[history_slot(e, i)]
      /\ history_time_at(e, i) = e.epoch_time_history[history_slot(e, i)]
  BY Zenon DEF history_blocked_at, history_time_at
<1>3. e.epoch_history \in [Slot -> Nat] /\ e.epoch_time_history \in [Slot -> Nat] BY DEF Entry
<1>. QED BY Zenon, <1>1, <1>2, <1>3

LEMMA WindowSumType == ASSUME NEW e \in Entry PROVE window_sum(e) \in Nat
<1>. DEFINE f == [i \in Window(e) |-> history_blocked_at(e, i)]
            n == e.history_count
<1>1. n \in Nat BY StatAssumption DEF Entry
<1>2. \A i \in 0..n - 1 : f[i] \in Nat BY Zenon, WindowValues DEF Window
<1>. HIDE DEF f, n
<1>3. SumTo(f, n) \in Nat BY Zenon, <1>1, <1>2, SumType
<1>. QED BY Zenon, <1>3 DEF window_sum, f, n

\* A step that leaves the ring and the total alone, and lowers no peak.
LEMMA SoundKept ==
    ASSUME NEW e, NEW epochs, NEW calls, NEW past, Sound(e, epochs, calls, past),
           NEW f \in Entry,
           f.epoch_history = e.epoch_history, f.epoch_time_history = e.epoch_time_history,
           f.history_head = e.history_head, f.history_count = e.history_count,
           f.total_blocked = e.total_blocked,
           f.sum_ctx = e.sum_ctx, f.peak_ctx = e.peak_ctx, e.peak_delay <= f.peak_delay,
           f.current_time <= f.current_blocked * f.peak_delay
    PROVE  Sound(f, epochs, f.total_blocked + f.current_blocked, past)
<1>1. \A i : history_blocked_at(f, i) = history_blocked_at(e, i)
  BY DEF history_blocked_at, history_slot
<1>2. Exact(f, past) BY Zenon, <1>1 DEF Exact, Sound
<1>3. window_sum(f) = window_sum(e)
  <2>1. Window(f) = Window(e) BY Zenon DEF Window
  <2>2. [i \in Window(f) |-> history_blocked_at(f, i)] = [i \in Window(e) |-> history_blocked_at(e, i)]
    BY Zenon, <1>1, <2>1
  <2>. QED BY Zenon, <2>2 DEF window_sum
<1>4. ASSUME NEW i \in Slot PROVE f.epoch_time_history[i] <= f.epoch_history[i] * f.peak_delay
  <2>. DEFINE t == e.epoch_time_history[i]
              b == e.epoch_history[i]
  <2>1. t \in Nat /\ b \in Nat /\ e.peak_delay \in Nat /\ f.peak_delay \in Nat BY DEF Sound, Entry
  <2>2. t <= b * e.peak_delay BY DEF Sound
  <2>. HIDE DEF t, b
  <2>3. b * e.peak_delay <= b * f.peak_delay /\ b * f.peak_delay \in Nat /\ b * e.peak_delay \in Nat
    BY <2>1, ProductMonotone
  <2>4. t <= b * f.peak_delay BY <2>1, <2>2, <2>3
  <2>. QED BY Zenon, <2>4 DEF t, b
<1>. QED BY Zenon, <1>2, <1>3, <1>4 DEF Sound

\* The next epoch ends without an entry of its own.
LEMMA SoundLater ==
    ASSUME NEW e, NEW epochs \in Nat, NEW calls, NEW past, Sound(e, epochs, calls, past)
    PROVE  Sound(e, epochs + 1, calls, past)
<1>1. e.sum_ctx \in Nat /\ e.peak_ctx \in Nat /\ e.sum_ctx <= epochs * e.peak_ctx BY DEF Sound,
  Entry
<1>2. e.sum_ctx <= (epochs + 1) * e.peak_ctx
  <2>. DEFINE p == e.peak_ctx
  <2>1. (epochs + 1) * p = epochs * p + p /\ epochs * p \in Nat BY <1>1
  <2>. QED BY <1>1, <2>1
<1>. QED BY Zenon, <1>2 DEF Sound

\* A fresh entry.
LEMMA SoundNew == Sound(NewEntry, 0, 0, <<>>)
<1>0. HISTORY_LEN \in Nat \ {0} BY StatAssumption
<1>1. NewEntry \in Entry
  <2>1. 0 \in Slot /\ 0 \in 0..HISTORY_LEN BY <1>0 DEF Slot
  <2>. QED BY Zenon, <2>1 DEF NewEntry, Entry
<1>2. /\ NewEntry.total_blocked = 0 /\ NewEntry.current_blocked = 0
      /\ NewEntry.current_time = 0 /\ NewEntry.peak_delay = 0
      /\ NewEntry.sum_ctx = 0 /\ NewEntry.peak_ctx = 0 /\ NewEntry.history_count = 0
      /\ \A i \in Slot : NewEntry.epoch_time_history[i] = 0 /\ NewEntry.epoch_history[i] = 0
  BY DEF NewEntry
<1>3. Exact(NewEntry, <<>>)
  <2>1. Len(<<>>) = 0 OBVIOUS
  <2>2. Min({0, HISTORY_LEN}) = 0 BY <1>0, MinOfTwo
  <2>. QED BY <1>2, <2>1, <2>2 DEF Exact
<1>4. window_sum(NewEntry) = 0 BY <1>2, SumRounds DEF window_sum
<1>. QED BY <1>1, <1>2, <1>3, <1>4 DEF Sound

\* The window's sum grows by the calls of the epoch that ends, at most.
LEMMA WindowSumGrows ==
    ASSUME NEW e \in Entry
    PROVE  window_sum(Fold(e)) <= window_sum(e) + e.current_blocked
<1>. DEFINE g == [i \in Window(e) |-> history_blocked_at(e, i)]
            f == [i \in Window(Fold(e)) |-> history_blocked_at(Fold(e), i)]
            n == e.history_count
            H == HISTORY_LEN
            c == e.current_blocked
<1>0. H \in Nat \ {0} /\ n \in 0..H /\ c \in Nat BY StatAssumption DEF Entry
<1>1. Fold(e) \in Entry /\ Fold(e).history_count = IF n < H THEN n + 1 ELSE H BY Zenon, FoldFields
<1>2. \A i \in 0..n - 1 : g[i] = history_blocked_at(e, i) /\ g[i] \in Nat
  BY Zenon, WindowValues DEF Window
<1>3. \A i \in 0..Fold(e).history_count - 1 : f[i] = history_blocked_at(Fold(e), i)
  BY Zenon DEF Window
<1>4. window_sum(e) = SumTo(g, n) /\ window_sum(Fold(e)) = SumTo(f, Fold(e).history_count)
  BY Zenon DEF window_sum
<1>5. window_sum(e) \in Nat BY Zenon, WindowSumType
<1>. HIDE DEF f, g
<1>6. CASE n < H
  <2>1. Fold(e).history_count = n + 1 BY <1>0, <1>1, <1>6
  <2>2. \A i \in 0..n - 1 : i \in 0..Fold(e).history_count - 1 BY <1>0, <2>1
  <2>3. \A i \in 0..n - 1 : f[i] = g[i] BY Zenon, <1>2, <1>3, <1>6, <2>2, WindowShifts
  <2>4. n \in Nat BY <1>0
  <2>5. SumTo(f, n) = SumTo(g, n) BY Zenon, <2>3, <2>4, SumSame
  <2>6. SumTo(f, n + 1) = SumTo(f, n) + f[n] BY Zenon, <2>4, SumRounds
  <2>7. f[n] = c
    <3>1. Fold(e).history_count - 1 = n /\ n \in 0..Fold(e).history_count - 1 BY <1>0, <2>1
    <3>2. f[n] = history_blocked_at(Fold(e), n) BY Zenon, <1>3, <3>1
    <3>3. history_blocked_at(Fold(e), Fold(e).history_count - 1) = c BY Zenon, WindowShifts
    <3>. QED BY Zenon, <3>1, <3>2, <3>3
  <2>. QED BY <1>0, <1>4, <1>5, <2>1, <2>5, <2>6, <2>7
<1>7. CASE n = H
  <2>. DEFINE k == H - 1
  <2>1. k \in Nat /\ k + 1 = H /\ k + 1 = n /\ Fold(e).history_count = k + 1 /\ H - 2 = k - 1
    BY <1>0, <1>1, <1>7
  <2>2. /\ \A i \in 0..k - 1 : i \in 0..Fold(e).history_count - 1 /\ i + 1 \in 0..n - 1
        /\ \A i \in 0..k : i \in 0..n - 1
        /\ k \in 0..Fold(e).history_count - 1 /\ Fold(e).history_count - 1 = k
        /\ 0 \in 0..n - 1
    BY <2>1
  <2>. HIDE DEF k
  <2>3. \A i \in 0..k - 1 : f[i] = g[i + 1]
    <3>. TAKE i \in 0..k - 1
    <3>1. f[i] = history_blocked_at(Fold(e), i) BY Zenon, <1>3, <2>2
    <3>2. g[i + 1] = history_blocked_at(e, i + 1) BY Zenon, <1>2, <2>2
    <3>3. i \in 0..H - 2 BY Zenon, <2>1
    <3>4. history_blocked_at(Fold(e), i) = history_blocked_at(e, i + 1)
      BY Zenon, <1>7, <3>3, WindowShifts
    <3>. QED BY Zenon, <3>1, <3>2, <3>4
  <2>4. \A i \in 0..k : g[i] \in Nat BY Zenon, <1>2, <2>2
  <2>5. SumTo(g, k + 1) = g[0] + SumTo(f, k) BY Zenon, <2>1, <2>3, <2>4, SumShift
  <2>6. SumTo(f, k + 1) = SumTo(f, k) + f[k] BY Zenon, <2>1, SumRounds
  <2>7. f[k] = c
    <3>1. f[k] = history_blocked_at(Fold(e), k) BY Zenon, <1>3, <2>2
    <3>2. history_blocked_at(Fold(e), Fold(e).history_count - 1) = c BY Zenon, WindowShifts
    <3>. QED BY Zenon, <2>2, <3>1, <3>2
  <2>8. SumTo(f, k) \in Nat
    <3>1. \A i \in 0..k - 1 : f[i] \in Nat BY Zenon, <1>2, <2>2, <2>3
    <3>. QED BY Zenon, <2>1, <3>1, SumType
  <2>9. g[0] \in Nat BY Zenon, <1>2, <2>2
  <2>. QED BY <1>0, <1>4, <1>5, <2>1, <2>5, <2>6, <2>7, <2>8, <2>9
<1>. QED BY <1>0, <1>6, <1>7

\* The end of an epoch keeps the window exact.
LEMMA ExactFold ==
    ASSUME NEW e \in Entry, NEW past \in Seq(Nat), Exact(e, past)
    PROVE  Exact(Fold(e), Append(past, e.current_blocked))
<1>. DEFINE n == e.history_count
            m == Len(past)
            H == HISTORY_LEN
            c == e.current_blocked
            e2 == Fold(e)
            past2 == Append(past, c)
            n2 == Fold(e).history_count
<1>0. H \in Nat \ {0} /\ n \in 0..H /\ c \in Nat /\ m \in Nat BY StatAssumption DEF Entry
<1>1. n2 = IF n < H THEN n + 1 ELSE H BY Zenon, FoldFields
<1>2. /\ Len(past2) = m + 1
      /\ past2[m + 1] = c
      /\ \A j \in 1..m : past2[j] = past[j]
  BY <1>0
<1>3. n = IF m <= H THEN m ELSE H
  <2>1. n = Min({m, H}) BY Zenon DEF Exact
  <2>2. Min({m, H}) = IF m <= H THEN m ELSE H BY Zenon, <1>0, MinOfTwo
  <2>. QED BY Zenon, <2>1, <2>2
<1>4. \A i \in 0..n - 1 : history_blocked_at(e, i) = past[m - n + 1 + i] BY Zenon DEF Exact
<1>5. n2 = Min({m + 1, H})
  <2>1. m + 1 \in Nat BY <1>0
  <2>2. Min({m + 1, H}) = IF m + 1 <= H THEN m + 1 ELSE H BY Zenon, <1>0, <2>1, MinOfTwo
  <2>. QED BY <1>0, <1>1, <1>3, <2>2
<1>6. history_blocked_at(e2, n2 - 1) = c BY Zenon, WindowShifts
<1>. HIDE DEF e2, past2, n2
<1>7. ASSUME NEW i \in 0..n2 - 1
      PROVE  history_blocked_at(e2, i) = past2[(m + 1) - n2 + 1 + i]
  <2>1. CASE i = n2 - 1
    <3>1. (m + 1) - n2 + 1 + i = m + 1 BY <1>0, <1>1, <2>1
    <3>. QED BY Zenon, <1>2, <1>6, <2>1, <3>1
  <2>2. CASE i # n2 - 1 /\ n < H
    <3>0. n2 = n + 1 /\ m = n BY <1>0, <1>1, <1>3, <2>2
    <3>1. i \in 0..n - 1 /\ (m + 1) - n2 + 1 + i = m - n + 1 + i /\ m - n + 1 + i \in 1..m
      <4>1. n \in Nat /\ i \in 0..n /\ i # n BY <1>0, <2>2, <3>0
      <4>2. i \in 0..n - 1 BY <4>1
      <4>3. (m + 1) - n2 + 1 + i = m - n + 1 + i BY <1>0, <3>0, <4>1
      <4>4. n - n + 1 + i \in 1..n BY <4>1
      <4>5. m - n + 1 + i \in 1..m BY Zenon, <3>0, <4>4
      <4>. QED BY Zenon, <4>2, <4>3, <4>5
    <3>2. history_blocked_at(e2, i) = history_blocked_at(e, i)
      BY Zenon, <2>2, <3>1, WindowShifts DEF e2
    <3>3. history_blocked_at(e, i) = past[m - n + 1 + i] BY Zenon, <1>4, <3>1
    <3>4. past2[m - n + 1 + i] = past[m - n + 1 + i] BY Zenon, <1>2, <3>1
    <3>5. past2[(m + 1) - n2 + 1 + i] = past2[m - n + 1 + i] BY Zenon, <3>1
    <3>. QED BY Zenon, <3>2, <3>3, <3>4, <3>5
  <2>3. CASE i # n2 - 1 /\ n = H
    <3>0. n2 = H /\ m >= H BY <1>0, <1>1, <1>3, <2>3
    <3>1. i \in 0..H - 2 /\ i + 1 \in 0..n - 1 /\ (m + 1) - n2 + 1 + i = m - n + 1 + (i + 1)
          /\ m - n + 1 + (i + 1) \in 1..m
      BY <1>0, <2>3, <3>0
    <3>2. history_blocked_at(e2, i) = history_blocked_at(e, i + 1)
      BY Zenon, <2>3, <3>1, WindowShifts DEF e2
    <3>3. history_blocked_at(e, i + 1) = past[m - n + 1 + (i + 1)] BY Zenon, <1>4, <3>1
    <3>4. past2[m - n + 1 + (i + 1)] = past[m - n + 1 + (i + 1)] BY Zenon, <1>2, <3>1
    <3>5. past2[(m + 1) - n2 + 1 + i] = past2[m - n + 1 + (i + 1)] BY Zenon, <3>1
    <3>. QED BY Zenon, <3>2, <3>3, <3>4, <3>5
  <2>. QED BY <1>0, <2>1, <2>2, <2>3
<1>. QED BY Zenon, <1>2, <1>5, <1>7 DEF Exact, e2, past2, n2

\* An epoch ends.
LEMMA SoundFold ==
    ASSUME NEW e, NEW epochs \in Nat, NEW calls, NEW past, Sound(e, epochs, calls, past)
    PROVE  Sound(Fold(e), epochs + 1, calls, Append(past, e.current_blocked))
<1>0. e \in Entry /\ past \in Seq(Nat) BY Zenon DEF Sound
<1>1. /\ e.current_blocked \in Nat /\ e.total_blocked \in Nat /\ e.current_time \in Nat
      /\ e.peak_delay \in Nat /\ e.sum_ctx \in Nat /\ e.current_ctx \in Nat /\ e.peak_ctx \in Nat
      /\ e.epoch_history \in [Slot -> Nat] /\ e.epoch_time_history \in [Slot -> Nat]
      /\ e.history_head \in Slot
  BY <1>0 DEF Entry
<1>2. Fold(e) \in Entry BY Zenon, <1>0, FoldFields
<1>3. Append(past, e.current_blocked) \in Seq(Nat) BY <1>0, <1>1
<1>4. Fold(e).total_blocked + Fold(e).current_blocked = calls
  <2>1. Fold(e).total_blocked = e.total_blocked + e.current_blocked /\ Fold(e).current_blocked = 0
    BY Zenon, <1>0, FoldFields
  <2>2. e.total_blocked + e.current_blocked = calls BY Zenon DEF Sound
  <2>. QED BY <1>1, <2>1, <2>2
<1>5. Exact(Fold(e), Append(past, e.current_blocked))
  <2>1. Exact(e, past) BY Zenon DEF Sound
  <2>. QED BY Zenon, <1>0, <2>1, ExactFold
<1>6. Fold(e).current_time <= Fold(e).current_blocked * Fold(e).peak_delay
  <2>1. Fold(e).current_time = 0 /\ Fold(e).current_blocked = 0 /\ Fold(e).peak_delay = e.peak_delay
    BY Zenon, <1>0, FoldFields
  <2>. QED BY <1>1, <2>1
<1>7. ASSUME NEW i \in Slot
      PROVE  Fold(e).epoch_time_history[i] <= Fold(e).epoch_history[i] * Fold(e).peak_delay
  <2>1. /\ Fold(e).epoch_history = [e.epoch_history EXCEPT ![e.history_head] = e.current_blocked]
        /\ Fold(e).epoch_time_history
              = [e.epoch_time_history EXCEPT ![e.history_head] = e.current_time]
        /\ Fold(e).peak_delay = e.peak_delay
    BY Zenon, <1>0, FoldFields
  <2>2. /\ e.epoch_time_history[i] <= e.epoch_history[i] * e.peak_delay
        /\ e.current_time <= e.current_blocked * e.peak_delay
    BY Zenon DEF Sound
  <2>3. CASE i = e.history_head
    <3>1. /\ Fold(e).epoch_history[i] = e.current_blocked
          /\ Fold(e).epoch_time_history[i] = e.current_time
      BY Zenon, <1>1, <2>1, <2>3
    <3>. QED BY Zenon, <2>1, <2>2, <3>1
  <2>4. CASE i # e.history_head
    <3>1. /\ Fold(e).epoch_history[i] = e.epoch_history[i]
          /\ Fold(e).epoch_time_history[i] = e.epoch_time_history[i]
      BY Zenon, <1>1, <2>1, <2>4
    <3>. QED BY Zenon, <2>1, <2>2, <3>1
  <2>. QED BY Zenon, <2>3, <2>4
<1>8. Fold(e).sum_ctx <= (epochs + 1) * Fold(e).peak_ctx
  <2>. DEFINE p == e.peak_ctx
              q == Fold(e).peak_ctx
  <2>1. Fold(e).sum_ctx = e.sum_ctx + e.current_ctx /\ q = Max({p, e.current_ctx})
    BY Zenon, <1>0, FoldFields
  <2>2. q \in Nat /\ p <= q /\ e.current_ctx <= q BY Zenon, <1>1, <2>1, MaxOfTwo
  <2>3. e.sum_ctx <= epochs * p BY Zenon DEF Sound
  <2>. HIDE DEF q
  <2>4. epochs * p <= epochs * q /\ epochs * p \in Nat /\ epochs * q \in Nat
    BY <1>1, <2>2, ProductMonotone
  <2>5. (epochs + 1) * q = epochs * q + q BY <2>2
  <2>6. e.sum_ctx + e.current_ctx <= (epochs + 1) * q BY <1>1, <2>2, <2>3, <2>4, <2>5
  <2>. QED BY Zenon, <2>1, <2>6 DEF q
<1>9. window_sum(Fold(e)) <= Fold(e).total_blocked
  <2>1. window_sum(Fold(e)) <= window_sum(e) + e.current_blocked BY Zenon, <1>0, WindowSumGrows
  <2>2. window_sum(e) \in Nat /\ window_sum(Fold(e)) \in Nat BY Zenon, <1>0, <1>2, WindowSumType
  <2>3. window_sum(e) <= e.total_blocked BY Zenon DEF Sound
  <2>4. Fold(e).total_blocked = e.total_blocked + e.current_blocked BY Zenon, <1>0, FoldFields
  <2>. QED BY <1>1, <2>1, <2>2, <2>3, <2>4
<1>. QED BY Zenon, <1>2, <1>3, <1>4, <1>5, <1>6, <1>7, <1>8, <1>9 DEF Sound

-----------------------------------------------------------------------------
\* What the reader has seen of a list, when the list or its position grows.
LEMMA PrefixKept ==
    ASSUME NEW S, NEW l \in Seq(S), NEW x \in S, NEW p \in 0..Len(l)
    PROVE  SubSeq(Append(l, x), 1, p) = SubSeq(l, 1, p)
<1>. DEFINE a == SubSeq(Append(l, x), 1, p)
            b == SubSeq(l, 1, p)
<1>1. Len(l) \in Nat /\ Append(l, x) \in Seq(S) /\ Len(Append(l, x)) = Len(l) + 1 OBVIOUS
<1>2. \A i \in 1..p : Append(l, x)[i] = l[i] BY <1>1
<1>3. a = [i \in 1..p |-> Append(l, x)[i]] BY <1>1
<1>4. b = [i \in 1..p |-> l[i]] BY <1>1
<1>. QED BY Zenon, <1>2, <1>3, <1>4

LEMMA PrefixNext ==
    ASSUME NEW S, NEW l \in Seq(S), NEW p \in 0..Len(l) - 1
    PROVE  SubSeq(l, 1, p + 1) = Append(SubSeq(l, 1, p), l[p + 1])
OBVIOUS

\* Recording an event adds its syscall to the list, at the end.
LEMMA ListGrows ==
    ASSUME StatInv, NEW s \in Sid, find_or_create(s), UNCHANGED readerVars
    PROVE  /\ list' \in Seq(Sid)
           /\ ~ended' => pos' <= Len(list') /\ shown' = SubSeq(list', 1, pos')
           /\ pos' \in Nat /\ reader' \in {"idle", "held"}
<1>0. /\ list \in Seq(Sid) /\ pos \in Nat /\ reader \in {"idle", "held"}
      /\ ~ended => pos <= Len(list) /\ shown = SubSeq(list, 1, pos)
  BY Zenon DEF StatInv
<1>1. pos' = pos /\ shown' = shown /\ ended' = ended /\ reader' = reader BY Zenon DEF readerVars
<1>2. CASE list' = list BY Zenon, <1>0, <1>1, <1>2
<1>3. CASE list' = Append(list, s)
  <2>1. list' \in Seq(Sid) /\ Len(list') = Len(list) + 1 BY <1>0, <1>3
  <2>2. ASSUME ~ended PROVE pos <= Len(list') /\ shown = SubSeq(list', 1, pos)
    <3>1. pos \in 0..Len(list) BY <1>0, <2>2
    <3>2. SubSeq(Append(list, s), 1, pos) = SubSeq(list, 1, pos) BY Zenon, <1>0, <3>1, PrefixKept
    <3>3. pos <= Len(list') BY <1>0, <2>1, <3>1
    <3>. QED BY Zenon, <1>0, <1>3, <2>2, <3>2, <3>3
  <2>. QED BY Zenon, <1>0, <1>1, <2>1, <2>2
<1>. QED BY Zenon, <1>2, <1>3 DEF find_or_create

\* A blocked call is recorded.
LEMMA BlockedStep ==
    ASSUME StatInv, NEW s \in Sid, NEW d \in Delay, add_blocked(s, d)
    PROVE  StatInv'
<1>. DEFINE e == entry[s]
            f == entry'[s]
<1>0. DOMAIN entry = Sid /\ DOMAIN events = Sid /\ Sound(e, epoch_count, events[s], log[s])
  BY Zenon DEF StatInv
<1>1. e \in Entry BY Zenon, <1>0 DEF Sound
<1>2. d \in Nat BY StatAssumption
<1>3. f = [e EXCEPT !.current_blocked = @ + 1, !.current_time = @ + d,
                    !.peak_delay = peak_delay(e, d)]
  BY <1>0, <1>1 DEF add_blocked, Entry
<1>4. /\ e.current_blocked \in Nat /\ e.current_time \in Nat /\ e.peak_delay \in Nat
      /\ e.total_blocked \in Nat
  BY <1>1 DEF Entry
<1>5. peak_delay(e, d) \in Nat /\ e.peak_delay <= peak_delay(e, d) /\ d <= peak_delay(e, d)
  BY <1>2, <1>4, MaxOfTwo DEF peak_delay
<1>. HIDE DEF e, f
<1>6. f \in Entry
  <2>1. e.current_blocked + 1 \in Nat /\ e.current_time + d \in Nat BY <1>2, <1>4
  <2>. QED BY ZenonT(30), <1>1, <1>3, <1>5, <2>1 DEF Entry
<1>7. /\ f.epoch_history = e.epoch_history /\ f.epoch_time_history = e.epoch_time_history
      /\ f.history_head = e.history_head /\ f.history_count = e.history_count
      /\ f.total_blocked = e.total_blocked
      /\ f.sum_ctx = e.sum_ctx /\ f.peak_ctx = e.peak_ctx
  BY <1>1, <1>3 DEF Entry
<1>8. /\ f.current_blocked = e.current_blocked + 1 /\ f.current_time = e.current_time + d
      /\ f.peak_delay = peak_delay(e, d)
  BY <1>1, <1>3 DEF Entry
<1>9. f.current_time <= f.current_blocked * f.peak_delay
  <2>. DEFINE b == e.current_blocked
              p == e.peak_delay
              q == f.peak_delay
  <2>1. q \in Nat /\ p <= q /\ d <= q BY Zenon, <1>5, <1>8
  <2>2. e.current_time <= b * p BY Zenon, <1>0 DEF Sound
  <2>. HIDE DEF q
  <2>3. b * p <= b * q /\ b * p \in Nat /\ b * q \in Nat BY <1>4, <2>1, ProductMonotone
  <2>4. (b + 1) * q = b * q + q BY <1>4, <2>1
  <2>5. e.current_time + d <= (b + 1) * q BY <1>2, <1>4, <2>1, <2>2, <2>3, <2>4
  <2>. QED BY Zenon, <1>8, <2>5 DEF q
<1>10. Sound(f, epoch_count, f.total_blocked + f.current_blocked, log[s])
  <2>1. e.peak_delay <= f.peak_delay BY Zenon, <1>5, <1>8
  <2>. QED BY Zenon, <1>0, <1>6, <1>7, <1>9, <2>1, SoundKept
<1>11. f.total_blocked + f.current_blocked = events[s] + 1
  <2>1. e.total_blocked + e.current_blocked = events[s] BY Zenon, <1>0 DEF Sound
  <2>. QED BY <1>4, <1>7, <1>8, <2>1
<1>12. ASSUME NEW t \in Sid PROVE Sound(entry'[t], epoch_count', events'[t], log'[t])
  <2>1. epoch_count' = epoch_count /\ log' = log BY DEF add_blocked
  <2>2. CASE t = s
    <3>1. events'[s] = events[s] + 1 BY <1>0 DEF add_blocked
    <3>. QED BY Zenon, <1>10, <1>11, <2>1, <2>2, <3>1 DEF f
  <2>3. CASE t # s
    <3>1. entry'[t] = entry[t] /\ events'[t] = events[t] BY <1>0, <2>3 DEF add_blocked
    <3>2. Sound(entry[t], epoch_count, events[t], log[t]) BY Zenon DEF StatInv
    <3>. QED BY Zenon, <2>1, <3>1, <3>2
  <2>. QED BY Zenon, <2>2, <2>3
<1>13. /\ DOMAIN entry' = Sid /\ DOMAIN events' = Sid /\ DOMAIN log' = Sid
       /\ epoch_count' \in Nat /\ timer' \in {"idle", "spin"}
  BY DEF StatInv, add_blocked
<1>14. find_or_create(s) /\ UNCHANGED readerVars BY DEF add_blocked
<1>. QED BY Zenon, <1>12, <1>13, <1>14, ListGrows DEF StatInv

\* A step that counts in a field no column but its own depends on.
LEMMA CountStep ==
    ASSUME StatInv, NEW s \in Sid, find_or_create(s),
           \/ entry' = [entry EXCEPT ![s].current_ctx = @ + 1]
           \/ entry' = [entry EXCEPT ![s].total_aborted = @ + 1],
           UNCHANGED <<epoch_count, timer, readerVars, events, log>>
    PROVE  StatInv'
<1>. DEFINE e == entry[s]
            f == entry'[s]
<1>0. DOMAIN entry = Sid /\ Sound(e, epoch_count, events[s], log[s]) BY Zenon DEF StatInv
<1>1. e \in Entry BY Zenon, <1>0 DEF Sound
<1>2. \/ f = [e EXCEPT !.current_ctx = @ + 1]
      \/ f = [e EXCEPT !.total_aborted = @ + 1]
  BY <1>0, <1>1 DEF Entry
<1>. HIDE DEF e, f
<1>3. f \in Entry
  <2>1. e.current_ctx + 1 \in Nat /\ e.total_aborted + 1 \in Nat BY <1>1 DEF Entry
  <2>. QED BY ZenonT(30), <1>1, <1>2, <2>1 DEF Entry
<1>4. /\ f.epoch_history = e.epoch_history /\ f.epoch_time_history = e.epoch_time_history
      /\ f.history_head = e.history_head /\ f.history_count = e.history_count
      /\ f.total_blocked = e.total_blocked
      /\ f.sum_ctx = e.sum_ctx /\ f.peak_ctx = e.peak_ctx /\ f.peak_delay = e.peak_delay
      /\ f.current_blocked = e.current_blocked /\ f.current_time = e.current_time
  BY <1>1, <1>2 DEF Entry
<1>5. Sound(f, epoch_count, f.total_blocked + f.current_blocked, log[s])
  <2>1. e.peak_delay <= f.peak_delay BY <1>1, <1>4 DEF Entry
  <2>2. f.current_time <= f.current_blocked * f.peak_delay BY Zenon, <1>0, <1>4 DEF Sound
  <2>. QED BY Zenon, <1>0, <1>3, <1>4, <2>1, <2>2, SoundKept
<1>6. f.total_blocked + f.current_blocked = events[s] BY Zenon, <1>0, <1>4 DEF Sound
<1>7. ASSUME NEW t \in Sid PROVE Sound(entry'[t], epoch_count', events'[t], log'[t])
  <2>1. CASE t = s BY Zenon, <1>5, <1>6, <2>1 DEF f
  <2>2. CASE t # s
    <3>1. entry'[t] = entry[t] BY <1>0, <2>2
    <3>2. Sound(entry[t], epoch_count, events[t], log[t]) BY Zenon DEF StatInv
    <3>. QED BY Zenon, <3>1, <3>2
  <2>. QED BY Zenon, <2>1, <2>2
<1>8. /\ DOMAIN entry' = Sid /\ DOMAIN events' = Sid /\ DOMAIN log' = Sid
      /\ epoch_count' \in Nat /\ timer' \in {"idle", "spin"}
  BY DEF StatInv
<1>. QED BY Zenon, <1>7, <1>8, ListGrows DEF StatInv

\* An epoch ends for every entry of the list.
LEMMA EpochStep ==
    ASSUME StatInv, update_epoch_stats
    PROVE  StatInv'
<1>0. /\ epoch_count \in Nat /\ DOMAIN log = Sid /\ DOMAIN events = Sid
      /\ \A s \in Sid : Sound(entry[s], epoch_count, events[s], log[s])
  BY Zenon DEF StatInv
<1>1. /\ timer' = "idle" /\ epoch_count' = epoch_count + 1
      /\ entry' = [s \in Sid |-> IF Contains(list, s) THEN Fold(entry[s]) ELSE entry[s]]
      /\ log' = [s \in Sid |-> IF Contains(list, s)
                               THEN Append(log[s], entry[s].current_blocked)
                               ELSE log[s]]
      /\ list' = list /\ events' = events
      /\ reader' = reader /\ pos' = pos /\ shown' = shown /\ ended' = ended
  BY Zenon DEF update_epoch_stats, readerVars
<1>2. ASSUME NEW s \in Sid PROVE Sound(entry'[s], epoch_count', events'[s], log'[s])
  <2>1. CASE Contains(list, s)
    <3>1. entry'[s] = Fold(entry[s]) /\ log'[s] = Append(log[s], entry[s].current_blocked)
      BY Zenon, <1>1, <2>1
    <3>2. Sound(Fold(entry[s]), epoch_count + 1, events[s], Append(log[s], entry[s].current_blocked))
      BY Zenon, <1>0, SoundFold
    <3>. QED BY Zenon, <1>1, <3>1, <3>2
  <2>2. CASE ~Contains(list, s)
    <3>1. entry'[s] = entry[s] /\ log'[s] = log[s] BY Zenon, <1>1, <2>2
    <3>2. Sound(entry[s], epoch_count + 1, events[s], log[s]) BY Zenon, <1>0, SoundLater
    <3>. QED BY Zenon, <1>1, <3>1, <3>2
  <2>. QED BY Zenon, <2>1, <2>2
<1>3. DOMAIN entry' = Sid /\ DOMAIN log' = Sid BY Zenon, <1>1
<1>4. epoch_count' \in Nat BY <1>0, <1>1
<1>5. timer' \in {"idle", "spin"} BY Zenon, <1>1
<1>6. ~ended' => pos' <= Len(list') /\ shown' = SubSeq(list', 1, pos') BY Zenon, <1>1 DEF StatInv
<1>. QED BY Zenon, <1>1, <1>2, <1>3, <1>4, <1>5, <1>6 DEF StatInv

\* The iterator shows the next entry, or meets the end of the list.
LEMMA ShowStep ==
    ASSUME StatInv, seq_show_next
    PROVE  StatInv'
<1>0. /\ list \in Seq(Sid) /\ pos \in Nat /\ Len(list) \in Nat
      /\ ~ended => pos <= Len(list) /\ shown = SubSeq(list, 1, pos)
  BY DEF StatInv
<1>1. pos' = pos + 1 /\ pos <= Len(list) BY DEF seq_show_next, next_pos
<1>2. /\ list' = list /\ entry' = entry /\ epoch_count' = epoch_count /\ timer' = timer
      /\ reader' = reader /\ events' = events /\ log' = log
  BY DEF seq_show_next
<1>3. pos' \in Nat BY <1>0, <1>1
<1>4. CASE pos = Len(list)
  <2>1. ended' BY <1>4 DEF seq_show_next
  <2>. QED BY Zenon, <1>2, <1>3, <2>1 DEF StatInv
<1>5. CASE pos # Len(list)
  <2>1. shown' = Append(shown, list[pos + 1]) /\ ended' = ended BY <1>5 DEF seq_show_next
  <2>2. pos \in 0..Len(list) - 1 BY <1>0, <1>1, <1>5
  <2>3. SubSeq(list, 1, pos + 1) = Append(SubSeq(list, 1, pos), list[pos + 1])
    BY Zenon, <1>0, <2>2, PrefixNext
  <2>4. pos + 1 <= Len(list) BY <1>0, <2>2
  <2>5. ~ended' => pos' <= Len(list') /\ shown' = SubSeq(list', 1, pos')
    BY Zenon, <1>0, <1>1, <1>2, <2>1, <2>3, <2>4
  <2>. QED BY Zenon, <1>2, <1>3, <2>5 DEF StatInv
<1>. QED BY Zenon, <1>4, <1>5

\* A monitor that starts empty, when the module is loaded and when it is again.
Empty ==
    /\ list = <<>> /\ entry = [s \in Sid |-> NewEntry] /\ epoch_count = 0
    /\ timer = "idle" /\ reader = "idle" /\ pos = 0 /\ shown = <<>>
    /\ events = [s \in Sid |-> 0] /\ log = [s \in Sid |-> <<>>]

LEMMA EmptyMonitor == Empty => StatInv
<1>. SUFFICES ASSUME Empty PROVE StatInv OBVIOUS
<1>1. \A s \in Sid : Sound(entry[s], epoch_count, events[s], log[s]) BY Zenon, SoundNew DEF Empty
<1>2. list \in Seq(Sid) /\ pos <= Len(list) /\ shown = SubSeq(list, 1, pos) /\ pos \in Nat
  BY DEF Empty
<1>3. DOMAIN entry = Sid /\ DOMAIN events = Sid /\ DOMAIN log = Sid BY Zenon DEF Empty
<1>4. epoch_count \in Nat BY DEF Empty
<1>5. timer \in {"idle", "spin"} /\ reader \in {"idle", "held"} BY Zenon DEF Empty
<1>. QED BY Zenon, <1>1, <1>2, <1>3, <1>4, <1>5 DEF StatInv

LEMMA ReloadStep == Reload => StatInv'
<1>1. Reload => Empty' BY Zenon DEF Reload, Empty
<1>2. (Empty => StatInv)' BY EmptyMonitor, PTL
<1>. QED BY Zenon, <1>1, <1>2

\* The steps that leave the entries and the list alone.
LEMMA QuietStep ==
    ASSUME StatInv, \/ TimerFires \/ seq_start \/ seq_stop \/ seq_open \/ UNCHANGED vars
    PROVE  StatInv'
<1>1. UNCHANGED <<list, entry, epoch_count, events, log>>
  BY Zenon DEF TimerFires, seq_start, seq_stop, seq_open, vars
<1>2. timer' \in {"idle", "spin"} /\ reader' \in {"idle", "held"}
  BY Zenon DEF StatInv, TimerFires, seq_start, seq_stop, seq_open, vars, readerVars
<1>3. \/ pos' = pos /\ shown' = shown /\ ended' = ended
      \/ pos' = 0 /\ shown' = <<>>
  BY Zenon DEF TimerFires, seq_start, seq_stop, seq_open, vars, readerVars
<1>4. list \in Seq(Sid) => 0 \in Nat /\ 0 <= Len(list) /\ <<>> = SubSeq(list, 1, 0) OBVIOUS
<1>5. pos' \in Nat /\ (~ended' => pos' <= Len(list) /\ shown' = SubSeq(list, 1, pos'))
  BY Zenon, <1>3, <1>4 DEF StatInv
<1>. QED BY Zenon, <1>1, <1>2, <1>5 DEF StatInv

LEMMA StatInvariant == Spec => []StatInv
<1>1. Init => StatInv
  <2>1. Init => Empty BY Zenon DEF Init, Empty
  <2>. QED BY Zenon, <2>1, EmptyMonitor
<1>2. StatInv /\ [Next]_vars => StatInv'
  <2>. SUFFICES ASSUME StatInv, [Next]_vars PROVE StatInv' OBVIOUS
  <2>1. ASSUME NEW s \in Sid, NEW d \in Delay, add_blocked(s, d) PROVE StatInv'
    BY Zenon, <2>1, BlockedStep
  <2>2. ASSUME NEW s \in Sid, add_ctx_switch(s) PROVE StatInv'
    BY Zenon, <2>2, CountStep DEF add_ctx_switch
  <2>3. ASSUME NEW s \in Sid, add_aborted(s) PROVE StatInv'
    BY Zenon, <2>3, CountStep DEF add_aborted
  <2>4. CASE \/ TimerFires \/ seq_start \/ seq_stop \/ seq_open \/ UNCHANGED vars
    BY Zenon, <2>4, QuietStep
  <2>5. CASE update_epoch_stats BY Zenon, <2>5, EpochStep
  <2>6. CASE seq_show_next BY Zenon, <2>6, ShowStep
  <2>7. CASE Reload BY Zenon, <2>7, ReloadStep
  <2>. QED BY Zenon, <2>1, <2>2, <2>3, <2>4, <2>5, <2>6, <2>7 DEF Next
<1>. QED BY <1>1, <1>2, PTL DEF Spec

-----------------------------------------------------------------------------
\* The time the window holds is at most its calls at the peak delay each.
LEMMA WindowTime ==
    ASSUME NEW e, NEW epochs, NEW calls, NEW past, Sound(e, epochs, calls, past)
    PROVE  window_time(e) \in Nat /\ window_time(e) <= window_sum(e) * e.peak_delay
<1>. DEFINE b == [i \in Window(e) |-> history_blocked_at(e, i)]
            t == [i \in Window(e) |-> history_time_at(e, i)]
            n == e.history_count
            p == e.peak_delay
<1>0. e \in Entry /\ \A k \in Slot : e.epoch_time_history[k] <= e.epoch_history[k] * p
  BY Zenon DEF Sound
<1>1. n \in Nat /\ p \in Nat BY <1>0, StatAssumption DEF Entry
<1>2. \A i \in 0..n - 1 : t[i] \in Nat /\ b[i] \in Nat /\ t[i] <= b[i] * p
  <2>. TAKE i \in 0..n - 1
  <2>1. t[i] = history_time_at(e, i) /\ b[i] = history_blocked_at(e, i) BY Zenon DEF Window
  <2>2. PICK k \in Slot : /\ history_blocked_at(e, i) = e.epoch_history[k]
                          /\ history_time_at(e, i) = e.epoch_time_history[k]
    BY Zenon, <1>0, WindowValues
  <2>3. t[i] \in Nat /\ b[i] \in Nat BY Zenon, <1>0, <2>1, WindowValues
  <2>. QED BY Zenon, <1>0, <2>1, <2>2, <2>3
<1>3. window_time(e) = SumTo(t, n) /\ window_sum(e) = SumTo(b, n)
  BY Zenon DEF window_time, window_sum
<1>. HIDE DEF b, t, n, p
<1>4. SumTo(t, n) <= SumTo(b, n) * p BY Zenon, <1>1, <1>2, SumBound
<1>5. SumTo(t, n) \in Nat BY Zenon, <1>1, <1>2, SumType
<1>. QED BY Zenon, <1>3, <1>4, <1>5 DEF p

\* The columns of a row agree when its entry is sound.
LEMMA RowAgrees ==
    ASSUME NEW e, NEW calls, NEW past, epoch_count \in Nat, Sound(e, epoch_count, calls, past)
    PROVE  /\ avg_delay(e) <= e.peak_delay
           /\ avg_ctx(e) <= e.peak_ctx
           /\ window_sum(e) <= e.total_blocked
<1>0. e \in Entry /\ e.sum_ctx <= epoch_count * e.peak_ctx /\ window_sum(e) <= e.total_blocked
  BY Zenon DEF Sound
<1>1. e.peak_delay \in Nat /\ e.peak_ctx \in Nat /\ e.sum_ctx \in Nat BY <1>0 DEF Entry
<1>2. window_sum(e) \in Nat BY Zenon, <1>0, WindowSumType
<1>3. window_time(e) \in Nat /\ window_time(e) <= window_sum(e) * e.peak_delay BY Zenon, WindowTime
<1>4. avg_delay(e) <= e.peak_delay
  <2>1. CASE window_sum(e) = 0 BY <1>1, <2>1 DEF avg_delay
  <2>2. CASE window_sum(e) # 0
    <3>1. window_sum(e) \in Nat \ {0} BY <1>2, <2>2
    <3>2. window_time(e) \div window_sum(e) <= e.peak_delay BY Zenon, <1>1, <1>3, <3>1,
      QuotientBound
    <3>. QED BY Zenon, <2>2, <3>2 DEF avg_delay
  <2>. QED BY Zenon, <2>1, <2>2
<1>5. avg_ctx(e) <= e.peak_ctx
  <2>1. CASE epoch_count = 0 BY <1>1, <2>1 DEF avg_ctx
  <2>2. CASE epoch_count # 0
    <3>1. epoch_count \in Nat \ {0} BY <2>2
    <3>2. e.sum_ctx \div epoch_count <= e.peak_ctx BY Zenon, <1>0, <1>1, <3>1, QuotientBound
    <3>. QED BY Zenon, <2>2, <3>2 DEF avg_ctx
  <2>. QED BY Zenon, <2>1, <2>2
<1>. QED BY Zenon, <1>0, <1>4, <1>5

\* Types, for any number of syscalls, ring length, delays and bounds: head and
\* count never leave the ring.
THEOREM StatTypes == Spec => []TypeOK
<1>1. StatInv => TypeOK
  <2>. SUFFICES ASSUME StatInv, NEW s \in Sid
                PROVE  /\ entry[s].history_head \in Slot
                       /\ entry[s].history_count \in 0..HISTORY_LEN
                       /\ entry[s].epoch_history \in [Slot -> Nat]
                       /\ entry[s].epoch_time_history \in [Slot -> Nat]
                       /\ \A f \in {"current_blocked", "total_blocked", "last_epoch_blocked",
                                    "current_time", "peak_delay", "current_ctx", "sum_ctx",
                                    "peak_ctx", "total_aborted"} : entry[s][f] \in Nat
    BY Zenon DEF StatInv, TypeOK
  <2>1. entry[s] \in Entry BY Zenon DEF StatInv, Sound
  <2>. QED BY <2>1 DEF Entry
<1>. QED BY <1>1, StatInvariant, PTL

\* TOTAL and the running epoch count every call add_blocked() recorded once, over
\* any number of epochs.
THEOREM StatTotalExact == Spec => []TotalExact
<1>1. StatInv => TotalExact BY Zenon DEF StatInv, Sound, TotalExact
<1>. QED BY <1>1, StatInvariant, PTL

\* The unsigned arithmetic of history_slot() addresses the last epochs in order,
\* before the ring wraps and ever after.
THEOREM StatWindowExact == Spec => []WindowExact
<1>1. StatInv => WindowExact BY Zenon DEF StatInv, Sound, Exact, WindowExact
<1>. QED BY <1>1, StatInvariant, PTL

\* MEAN is at most PEAK, CTX/EPOCH at most CTX PEAK, and the window holds no more
\* than TOTAL, in every row my_seq_show() prints.
THEOREM StatRowConsistent == Spec => []RowConsistent
<1>1. StatInv => RowConsistent
  <2>. SUFFICES ASSUME StatInv, NEW s \in Sid
                PROVE  /\ avg_delay(entry[s]) <= entry[s].peak_delay
                       /\ avg_ctx(entry[s]) <= entry[s].peak_ctx
                       /\ window_sum(entry[s]) <= entry[s].total_blocked
    BY Zenon DEF RowConsistent
  <2>1. epoch_count \in Nat /\ Sound(entry[s], epoch_count, events[s], log[s]) BY Zenon DEF StatInv
  <2>. QED BY Zenon, <2>1, RowAgrees
<1>. QED BY <1>1, StatInvariant, PTL

\* A traversal by any number of reads, between which entries are added and epochs
\* end, has shown exactly the first pos entries until it meets the end.
THEOREM StatTraversalExact == Spec => []TraversalExact
<1>1. StatInv => TraversalExact BY Zenon DEF StatInv, TraversalExact
<1>. QED BY <1>1, StatInvariant, PTL

=============================================================================

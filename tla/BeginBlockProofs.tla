-------------------------- MODULE BeginBlockProofs --------------------------
(***************************************************************************)
(* Proofs about the BeginBlockers: VolunteerValidatorCommissionProcess,    *)
(* for every order of the map it ranges over, every withdraw address and   *)
(* any number of volunteers, and the pruning of historical entries.        *)
(***************************************************************************)
EXTENDS BeginBlock, SetLemmas

-----------------------------------------------------------------------------
(* The commission of the volunteers.                                       *)

\* f gives what the first k iterations leave, from the start s.
IsLoop(f, order, s, n) ==
  f = [k \in 0..n |-> IF k = 0 THEN s ELSE Process(f[k - 1], order[k])]

\* Such a function exists, however many iterations.
LEMMA LoopExists ==
  ASSUME NEW order, NEW s, NEW n \in Nat
  PROVE  \E f : IsLoop(f, order, s, n)
<1> DEFINE P == {m \in 0..n : \E f : IsLoop(f, order, s, m)}
<1>1. 0 \in P
  <2> DEFINE f == [k \in 0..0 |-> s]
  <2>1. IsLoop(f, order, s, 0)
    BY DEF IsLoop
  <2> QED
    BY <2>1
<1>2. ASSUME NEW m \in 0..n, m # n, m \in P
      PROVE  m + 1 \in P
  <2>1. PICK f : IsLoop(f, order, s, m)
    BY <1>2
  <2> DEFINE g == [k \in 0..(m + 1) |->
                     IF k = m + 1 THEN Process(f[m], order[m + 1]) ELSE f[k]]
  <2>2. \A k \in 0..m : f[k] = IF k = 0 THEN s ELSE Process(f[k - 1], order[k])
    BY <2>1, Zenon DEF IsLoop
  <2>3. \A k \in 0..(m + 1) : k # m + 1 => k \in 0..m /\ (k # 0 => k - 1 \in 0..m)
    OBVIOUS
  <2>4. \A k \in 0..m : g[k] = f[k]
    BY <1>2
  <2>5. g[m + 1] = Process(f[m], order[m + 1]) /\ m + 1 # 0 /\ (m + 1) - 1 = m /\ m \in 0..m
    OBVIOUS
  <2> DEFINE h == [k \in 0..(m + 1) |-> IF k = 0 THEN s ELSE Process(g[k - 1], order[k])]
  <2>6. ASSUME NEW k \in 0..(m + 1) PROVE g[k] = h[k]
    <3>1. CASE k = m + 1
      <4>1. g[k - 1] = f[m]
        BY <2>4, <2>5, <3>1
      <4> HIDE DEF g
      <4> QED
        BY <2>5, <3>1, <4>1
    <3>2. CASE k # m + 1
      <4>1. k \in 0..m /\ (k # 0 => g[k - 1] = f[k - 1]) /\ g[k] = f[k]
        BY <2>3, <2>4, <3>2
      <4> HIDE DEF g
      <4> QED
        BY <2>2, <4>1
    <3> QED
      BY <3>1, <3>2
  <2>7. g = h
    BY <2>6
  <2> HIDE DEF g
  <2>8. IsLoop(g, order, s, m + 1)
    BY <2>7 DEF IsLoop
  <2> QED
    BY <1>2, <2>8
<1> HIDE DEF P
<1>3. 0..n \subseteq P
  BY <1>1, <1>2, IntervalInduction, Zenon
<1>4. n \in P
  BY <1>3
<1> QED
  BY <1>4 DEF P

\* The state the loop starts from.
Start(accumulated) ==
  [commission |-> accumulated, balance |-> balance,
   communityPool |-> communityPool, failed |-> FALSE]

\* VolunteerValidatorCommissionProcess is the last value of such a function.
LEMMA LoopIs ==
  ASSUME NEW order, Len(order) \in Nat, NEW accumulated
  PROVE  \E f : /\ IsLoop(f, order, Start(accumulated), Len(order))
                /\ VolunteerValidatorCommissionProcess(order, accumulated) = f[Len(order)]
<1> DEFINE f == CHOOSE g : IsLoop(g, order, Start(accumulated), Len(order))
<1>1. IsLoop(f, order, Start(accumulated), Len(order))
  BY LoopExists
<1>2. VolunteerValidatorCommissionProcess(order, accumulated) = f[Len(order)]
  BY DEF VolunteerValidatorCommissionProcess, IsLoop, Start
<1> QED
  BY <1>1, <1>2, Zenon

CommissionTypeOK ==
  /\ members \in SUBSET Operators
  /\ commission \in [Operators -> Nat]
  /\ withdrawTo \in [Operators -> Accounts]
  /\ balance \in [Accounts -> Nat]
  /\ communityPool \in Nat /\ allocated \in Nat
  /\ halted \in BOOLEAN

\* States of the loop.
LoopStates ==
  [commission : [Operators -> Nat], balance : [Accounts -> Nat],
   communityPool : Nat, failed : BOOLEAN]

\* Whole coins and the rest.
LEMMA WholeCoins ==
  ASSUME NEW c \in Nat
  PROVE  /\ c \div Unit \in Nat /\ c % Unit \in Nat /\ c % Unit < Unit
         /\ c = (c \div Unit) * Unit + (c % Unit)
BY CommissionAssumption

\* A record and the records EXCEPT makes of it.
LEMMA Fields ==
  ASSUME NEW st \in LoopStates
  PROVE  /\ \A x \in [Operators -> Nat] :
              [st EXCEPT !.commission = x]
                = [commission |-> x, balance |-> st.balance,
                   communityPool |-> st.communityPool, failed |-> st.failed]
         /\ \A x \in [Accounts -> Nat] :
              [st EXCEPT !.balance = x]
                = [commission |-> st.commission, balance |-> x,
                   communityPool |-> st.communityPool, failed |-> st.failed]
         /\ \A x \in Nat :
              [st EXCEPT !.communityPool = x]
                = [commission |-> st.commission, balance |-> st.balance,
                   communityPool |-> x, failed |-> st.failed]
         /\ [st EXCEPT !.failed = TRUE]
              = [commission |-> st.commission, balance |-> st.balance,
                 communityPool |-> st.communityPool, failed |-> TRUE]
<1>1. ASSUME NEW x \in [Operators -> Nat]
      PROVE  [st EXCEPT !.commission = x]
                = [commission |-> x, balance |-> st.balance,
                   communityPool |-> st.communityPool, failed |-> st.failed]
  BY DEF LoopStates
<1>2. ASSUME NEW x \in [Accounts -> Nat]
      PROVE  [st EXCEPT !.balance = x]
                = [commission |-> st.commission, balance |-> x,
                   communityPool |-> st.communityPool, failed |-> st.failed]
  BY DEF LoopStates
<1>3. ASSUME NEW x \in Nat
      PROVE  [st EXCEPT !.communityPool = x]
                = [commission |-> st.commission, balance |-> st.balance,
                   communityPool |-> x, failed |-> st.failed]
  BY DEF LoopStates
<1>4. [st EXCEPT !.failed = TRUE]
        = [commission |-> st.commission, balance |-> st.balance,
           communityPool |-> st.communityPool, failed |-> TRUE]
  <2>1. ASSUME NEW x \in BOOLEAN
        PROVE  [st EXCEPT !.failed = x]
                 = [commission |-> st.commission, balance |-> st.balance,
                    communityPool |-> st.communityPool, failed |-> x]
    BY DEF LoopStates
  <2> QED
    BY <2>1, Zenon
<1> QED
  BY <1>1, <1>2, <1>3, <1>4

\* The whole coins c of volunteer v, the commissions without them, the balances
\* once they are with the withdraw address and once they have left the
\* operator's account, and the state after the iteration.
Iteration(st, v, c, rest, paid, left, s) ==
  /\ c = st.commission[v] \div Unit
  /\ rest = [st.commission EXCEPT ![v] = @ % Unit]
  /\ paid = [st.balance EXCEPT ![withdrawTo[v]] = @ + c]
  /\ left = [paid EXCEPT ![v] = @ - c]
  /\ s = Process(st, v)

\* What one iteration does: nothing for a volunteer without commission;
\* otherwise the whole coins go to the withdraw address and, when the operator's
\* account then holds as much, on from there to the community pool.
Effect(st, v, c, rest, paid, left, s) ==
  /\ c \in Nat /\ paid \in [Accounts -> Nat] /\ s \in LoopStates
  /\ st.failed \/ st.commission[v] = 0 => s = st
  /\ ~st.failed /\ st.commission[v] # 0 =>
       /\ s.commission = rest
       /\ paid[v] < c => s.failed
       /\ paid[v] >= c =>
            /\ ~s.failed /\ s.balance = left
            /\ s.communityPool = st.communityPool + c

LEMMA ProcessIs ==
  ASSUME CommissionTypeOK, NEW st \in LoopStates, NEW v \in Operators,
         NEW c, NEW rest, NEW paid, NEW left, NEW s,
         Iteration(st, v, c, rest, paid, left, s)
  PROVE  Effect(st, v, c, rest, paid, left, s)
<1> USE DEF Iteration
<1>1. /\ st.commission \in [Operators -> Nat] /\ st.balance \in [Accounts -> Nat]
      /\ st.communityPool \in Nat /\ st.failed \in BOOLEAN
      /\ st = [commission |-> st.commission, balance |-> st.balance,
               communityPool |-> st.communityPool, failed |-> st.failed]
  BY DEF LoopStates
<1>2. withdrawTo[v] \in Accounts /\ v \in Accounts /\ st.commission[v] \in Nat
  BY <1>1 DEF CommissionTypeOK, Accounts
<1>3. c \in Nat /\ st.commission[v] % Unit \in Nat
  BY <1>2, WholeCoins
<1>4. paid \in [Accounts -> Nat] /\ paid[v] \in Nat
  BY <1>1, <1>2, <1>3
<1> DEFINE w == WithdrawValidatorCommission(st, v)
<1>5. rest \in [Operators -> Nat]
  BY <1>1, <1>3
<1>6. w = [commission |-> rest, balance |-> paid,
           communityPool |-> st.communityPool, failed |-> st.failed]
  <2> DEFINE s1 == [st EXCEPT !.commission = rest]
             s2 == [s1 EXCEPT !.balance = paid]
  <2>1. w = s2
    BY DEF WithdrawValidatorCommission
  <2> HIDE DEF w
  <2>2. s1 = [commission |-> rest, balance |-> st.balance,
              communityPool |-> st.communityPool, failed |-> st.failed]
    BY <1>5, Fields, Zenon
  <2> HIDE DEF s1
  <2>3. s1 \in LoopStates
    BY <1>1, <1>5, <2>2 DEF LoopStates
  <2>4. s2 = [commission |-> s1.commission, balance |-> paid,
              communityPool |-> s1.communityPool, failed |-> s1.failed]
    BY <1>4, <2>3, Fields, Zenon
  <2> QED
    BY <2>1, <2>2, <2>4
<1> HIDE DEF w
<1>7. /\ w \in LoopStates /\ w.commission = rest /\ w.balance = paid
      /\ w.communityPool = st.communityPool /\ w.failed = st.failed
  BY <1>1, <1>4, <1>5, <1>6, SMTT(30) DEF LoopStates
<1>8. /\ paid[v] < c => FundCommunityPool(w, v, c) =
           [commission |-> rest, balance |-> paid,
            communityPool |-> st.communityPool, failed |-> TRUE]
      /\ paid[v] >= c => FundCommunityPool(w, v, c) =
           [commission |-> rest, balance |-> left,
            communityPool |-> st.communityPool + c, failed |-> st.failed]
  <2>1. CASE paid[v] < c
    <3>1. FundCommunityPool(w, v, c) = [w EXCEPT !.failed = TRUE]
      BY <1>7, <2>1 DEF FundCommunityPool
    <3>2. ~(paid[v] >= c)
      BY <1>3, <1>4, <2>1
    <3> QED
      BY <1>7, <3>1, <3>2, Fields
  <2>2. CASE paid[v] >= c
    <3> DEFINE s1 == [w EXCEPT !.balance = left]
               s2 == [s1 EXCEPT !.communityPool = w.communityPool + c]
    <3>1. FundCommunityPool(w, v, c) = s2 /\ ~(paid[v] < c)
      BY <1>3, <1>4, <1>7, <2>2 DEF FundCommunityPool
    <3>2. left \in [Accounts -> Nat]
      BY <1>2, <1>3, <1>4, <2>2
    <3>3. s1 = [commission |-> w.commission, balance |-> left,
                communityPool |-> w.communityPool, failed |-> w.failed]
      BY <1>7, <3>2, Fields, Zenon
    <3> HIDE DEF s1
    <3>4. s1 \in LoopStates
      BY <1>7, <3>2, <3>3 DEF LoopStates
    <3>5. w.communityPool + c \in Nat
      BY <1>1, <1>3, <1>7
    <3>6. s2 = [commission |-> s1.commission, balance |-> s1.balance,
                communityPool |-> w.communityPool + c, failed |-> s1.failed]
      BY <3>4, <3>5, Fields, Zenon
    <3>7. s2 = [commission |-> rest, balance |-> left,
                communityPool |-> st.communityPool + c, failed |-> st.failed]
      BY <1>7, <3>3, <3>6
    <3> QED
      BY <3>1, <3>7
  <2> QED
    BY <1>3, <1>4, <2>1, <2>2
<1>9. /\ st.failed \/ st.commission[v] = 0 => Process(st, v) = st
      /\ ~(st.failed \/ st.commission[v] = 0) =>
           Process(st, v) = FundCommunityPool(w, v, c)
  BY DEF Process, w
<1>10. paid[v] >= c => left \in [Accounts -> Nat]
  BY <1>2, <1>3, <1>4
<1>11. paid[v] < c \/ paid[v] >= c
  BY <1>3, <1>4
<1>12. Process(st, v) \in LoopStates
  <2>1. CASE st.failed \/ st.commission[v] = 0
    BY <1>9, <2>1
  <2>2. CASE ~(st.failed \/ st.commission[v] = 0) /\ paid[v] < c
    <3>1. Process(st, v) = [commission |-> rest, balance |-> paid,
                            communityPool |-> st.communityPool, failed |-> TRUE]
      BY <1>8, <1>9, <2>2, Zenon
    <3> QED
      BY <1>1, <1>4, <1>5, <3>1 DEF LoopStates
  <2>3. CASE ~(st.failed \/ st.commission[v] = 0) /\ paid[v] >= c
    BY <1>1, <1>3, <1>5, <1>8, <1>9, <1>10, <2>3, SMTT(30) DEF LoopStates
  <2> QED
    BY <1>11, <2>1, <2>2, <2>3
<1>13. ASSUME ~st.failed, st.commission[v] # 0
       PROVE  /\ s.commission = rest
              /\ paid[v] < c => s.failed
              /\ paid[v] >= c =>
                   /\ ~s.failed /\ s.balance = left
                   /\ s.communityPool = st.communityPool + c
  <2>1. CASE paid[v] < c
    BY <1>8, <1>9, <1>3, <1>4, <1>13, <2>1, SMTT(30)
  <2>2. CASE paid[v] >= c
    BY <1>8, <1>9, <1>3, <1>4, <1>13, <2>2
  <2> QED
    BY <1>11, <2>1, <2>2, SMTT(30)
<1> QED
  BY <1>3, <1>4, <1>9, <1>12, <1>13 DEF Effect

LEMMA FiniteAccounts == IsFiniteSet(Accounts) /\ Operators \subseteq Accounts
BY CommissionAssumption, FS_AddElement DEF Accounts

\* What holds after k iterations, if none has failed: the volunteers seen have
\* less than a coin left; what left the commissions is in the community pool; the
\* accounts together hold what they held; and an operator that withdraws to
\* itself has paid nothing of its own.
PaidOn(st, order, acc, k) ==
  /\ st \in LoopStates
  /\ ~st.failed =>
       /\ \A j \in 1..k : st.commission[order[j]] < Unit
       /\ SumFunctionOnSet(st.balance, Accounts) = SumFunctionOnSet(balance, Accounts)
       /\ (st.communityPool - communityPool) * Unit
             + SumFunctionOnSet(st.commission, Operators)
            = SumFunctionOnSet(acc, Operators)
       /\ \A u \in members : withdrawTo[u] = u => st.balance[u] >= balance[u]

LEMMA PaidStart ==
  ASSUME CommissionTypeOK, NEW acc \in [Operators -> Nat], NEW order
  PROVE  PaidOn(Start(acc), order, acc, 0)
<1>1. Start(acc) \in LoopStates
  BY DEF Start, LoopStates, CommissionTypeOK
<1>2. /\ Start(acc).commission = acc /\ Start(acc).balance = balance
      /\ Start(acc).communityPool = communityPool
  BY DEF Start
<1>3. SumFunctionOnSet(acc, Operators) \in Int
  BY SumInt, CommissionAssumption
<1>4. (communityPool - communityPool) * Unit = 0
  BY CommissionAssumption DEF CommissionTypeOK
<1>5. \A u \in members : balance[u] >= balance[u]
  BY FiniteAccounts DEF CommissionTypeOK
<1> QED
  BY <1>1, <1>2, <1>3, <1>4, <1>5 DEF PaidOn

LEMMA Distribute ==
  ASSUME NEW a \in Int, NEW b \in Int, NEW c \in Int, NEW u \in Int
  PROVE  /\ ((a + c) - b) * u = (a - b) * u + c * u
         /\ (a - b) * u \in Int /\ c * u \in Int
OBVIOUS

LEMMA PaidStep ==
  ASSUME CommissionTypeOK, NEW acc \in [Operators -> Nat], NEW n \in Nat,
         NEW order \in [1..n -> members], NEW k \in 0..n, k # n,
         NEW st, PaidOn(st, order, acc, k), NEW v, v = order[k + 1]
  PROVE  PaidOn(Process(st, v), order, acc, k + 1)
<1> DEFINE c == st.commission[v] \div Unit
           to == withdrawTo[v]
           paid == [st.balance EXCEPT ![to] = @ + c]
           rest == [st.commission EXCEPT ![v] = @ % Unit]
           left == [paid EXCEPT ![v] = @ - c]
           s == Process(st, v)
<1>1. k + 1 \in 1..n /\ v \in members /\ v \in Operators /\ to \in Accounts /\ v \in Accounts
  BY FiniteAccounts DEF CommissionTypeOK
<1>2. st \in LoopStates /\ st.commission \in [Operators -> Nat]
      /\ st.balance \in [Accounts -> Nat] /\ st.communityPool \in Nat
      /\ st.failed \in BOOLEAN
  BY DEF PaidOn, LoopStates
<1>3. /\ c \in Nat /\ paid \in [Accounts -> Nat] /\ s \in LoopStates
      /\ st.failed \/ st.commission[v] = 0 => s = st
      /\ ~st.failed /\ st.commission[v] # 0 =>
           /\ s.commission = rest
           /\ paid[v] < c => s.failed
           /\ paid[v] >= c =>
                /\ ~s.failed /\ s.balance = left
                /\ s.communityPool = st.communityPool + c
  <2>1. Iteration(st, v, c, rest, paid, left, s)
    BY DEF Iteration
  <2> HIDE DEF c, paid, rest, left, s
  <2>2. Effect(st, v, c, rest, paid, left, s)
    BY <1>1, <1>2, <2>1, ProcessIs, ZenonT(30)
  <2> QED
    BY <2>2, Zenon DEF Effect
<1>4. SUFFICES ASSUME ~s.failed
               PROVE  /\ \A j \in 1..(k + 1) : s.commission[order[j]] < Unit
                      /\ SumFunctionOnSet(s.balance, Accounts)
                           = SumFunctionOnSet(balance, Accounts)
                      /\ (s.communityPool - communityPool) * Unit
                            + SumFunctionOnSet(s.commission, Operators)
                           = SumFunctionOnSet(acc, Operators)
                      /\ \A u \in members : withdrawTo[u] = u => s.balance[u] >= balance[u]
  BY <1>3, ZenonT(30) DEF PaidOn
<1>5. ~st.failed
  BY <1>3, <1>4, Zenon
<1>6. \A j \in 1..(k + 1) : j # k + 1 => j \in 1..k
  OBVIOUS
<1>7. CASE st.commission[v] = 0
  <2>1. s = st
    BY <1>3, <1>7
  <2>2. st.commission[v] < Unit
    BY <1>7, CommissionAssumption
  <2> HIDE DEF s
  <2> QED
    BY <1>5, <1>6, <2>1, <2>2 DEF PaidOn
<1>8. CASE st.commission[v] # 0
  <2> HIDE DEF s
  <2>1. paid[v] >= c
    <3>1. paid[v] \in Nat /\ c \in Nat
      BY <1>1, <1>3, SMTT(30)
    <3> HIDE DEF paid, c
    <3> QED
      BY <1>3, <1>4, <1>5, <1>8, <3>1, SMTT(30)
  <2>2. /\ s.commission = rest /\ s.balance = left
        /\ s.communityPool = st.communityPool + c
    BY <1>3, <1>5, <1>8, <2>1, Zenon
  <2>3. /\ c \in Nat /\ st.commission[v] % Unit \in Nat /\ st.commission[v] % Unit < Unit
        /\ st.commission[v] = c * Unit + (st.commission[v] % Unit)
    BY <1>1, <1>2, WholeCoins, Zenon
  <2>4. /\ rest \in [Operators -> Nat] /\ rest[v] = st.commission[v] % Unit
        /\ \A u \in Operators \ {v} : rest[u] = st.commission[u]
    BY <1>1, <1>2, <2>3
  <2>5. /\ paid[to] = st.balance[to] + c
        /\ \A a \in Accounts \ {to} : paid[a] = st.balance[a]
    BY <1>1, <1>2
  <2>6. /\ left \in [Accounts -> Nat] /\ left[v] = paid[v] - c
        /\ \A a \in Accounts \ {v} : left[a] = paid[a]
    <3> HIDE DEF paid, c
    <3> QED
      BY <1>1, <1>3, <2>1
  <2> HIDE DEF paid, left, rest
  <2>7. \A j \in 1..(k + 1) : s.commission[order[j]] < Unit
    <3> SUFFICES ASSUME NEW j \in 1..(k + 1) PROVE rest[order[j]] < Unit
      BY <2>2
    <3>1. CASE order[j] = v
      BY <2>3, <2>4, <3>1
    <3>2. CASE order[j] # v
      <4>1. j \in 1..k /\ j \in 1..n
        BY <1>6, <3>2
      <4>2. order[j] \in Operators \ {v}
        BY <3>2, <4>1 DEF CommissionTypeOK
      <4>3. st.commission[order[j]] < Unit
        BY <1>5, <4>1 DEF PaidOn
      <4> QED
        BY <2>4, <4>2, <4>3
    <3> QED
      BY <3>1, <3>2
  <2>8. SumFunctionOnSet(s.balance, Accounts) = SumFunctionOnSet(balance, Accounts)
    <3> HIDE DEF c, to
    <3> DEFINE b == st.balance
    <3>1. \A a \in Accounts : b[a] \in Int /\ paid[a] \in Int
      BY <1>2, <1>3
    <3>2. \A a \in Accounts : paid[a] \in Int /\ left[a] \in Int
      BY <1>3, <2>6
    <3>3. /\ \A a \in Accounts \ {to} : paid[a] = b[a]
          /\ \A a \in Accounts \ {v} : left[a] = paid[a]
      BY <2>5, <2>6
    <3>4. SumFunctionOnSet(paid, Accounts)
            = SumFunctionOnSet(b, Accounts) - b[to] + paid[to]
      <4> HIDE DEF b
      <4> QED
        BY <1>1, <3>1, <3>3, FiniteAccounts, SumChange, SMTT(30)
    <3>5. SumFunctionOnSet(left, Accounts)
            = SumFunctionOnSet(paid, Accounts) - paid[v] + left[v]
      <4> HIDE DEF b
      <4> QED
        BY <1>1, <3>2, <3>3, FiniteAccounts, SumChange, SMTT(30)
    <3>6. SumFunctionOnSet(st.balance, Accounts) \in Int /\ st.balance[to] \in Int
          /\ paid[v] \in Int
      BY <1>1, <3>1, FiniteAccounts, SumInt, SMTT(30)
    <3>7. SumFunctionOnSet(left, Accounts) = SumFunctionOnSet(st.balance, Accounts)
      BY <1>3, <2>5, <2>6, <3>4, <3>5, <3>6, SMTT(30)
    <3> QED
      BY <1>5, <2>2, <3>7 DEF PaidOn
  <2>9. (s.communityPool - communityPool) * Unit
           + SumFunctionOnSet(s.commission, Operators)
          = SumFunctionOnSet(acc, Operators)
    <3>1. SumFunctionOnSet(rest, Operators)
            = SumFunctionOnSet(st.commission, Operators) - st.commission[v] + rest[v]
      <4> DEFINE a == st.commission
      <4>1. /\ \A u \in Operators : a[u] \in Int /\ rest[u] \in Int
            /\ \A u \in Operators \ {v} : rest[u] = a[u]
        BY <1>2, <2>4
      <4> HIDE DEF a
      <4>2. SumFunctionOnSet(rest, Operators) = SumFunctionOnSet(a, Operators) - a[v] + rest[v]
        BY <1>1, <4>1, CommissionAssumption, SumChange
      <4> QED
        BY <4>2 DEF a
    <3>2. SumFunctionOnSet(st.commission, Operators) \in Int
      BY <1>2, CommissionAssumption, SumInt
    <3> HIDE DEF c
    <3>3. /\ ((st.communityPool + c) - communityPool) * Unit
               = (st.communityPool - communityPool) * Unit + c * Unit
          /\ (st.communityPool - communityPool) * Unit \in Int /\ c * Unit \in Int
      <4>1. /\ st.communityPool \in Int /\ communityPool \in Int /\ c \in Int
            /\ Unit \in Int
        BY <1>2, <1>3, CommissionAssumption DEF CommissionTypeOK
      <4> QED
        BY <4>1, Distribute
    <3>4. (st.communityPool - communityPool) * Unit
             + SumFunctionOnSet(st.commission, Operators)
            = SumFunctionOnSet(acc, Operators)
      BY <1>5 DEF PaidOn
    <3>5. s.communityPool = st.communityPool + c
      BY <2>2
    <3> DEFINE x == (st.communityPool - communityPool) * Unit
               y == c * Unit
               z == SumFunctionOnSet(st.commission, Operators)
    <3>6. (s.communityPool - communityPool) * Unit = x + y
      <4>1. s.communityPool - communityPool = (st.communityPool + c) - communityPool
        BY <3>5, Zenon
      <4>2. (s.communityPool - communityPool) * Unit = ((st.communityPool + c) - communityPool) * Unit
        BY <4>1, Zenon
      <4> QED
        BY <3>3, <4>2, Zenon
    <3>7. SumFunctionOnSet(s.commission, Operators) = z - y
      <4>1. y \in Int /\ z \in Int /\ rest[v] \in Int /\ st.commission[v] = y + rest[v]
        BY <2>3, <2>4, <3>2, <3>3
      <4> HIDE DEF y, z
      <4> QED
        BY <2>2, <3>1, <4>1, SMTT(30) DEF z
    <3>8. x \in Int /\ y \in Int /\ z \in Int /\ x + z = SumFunctionOnSet(acc, Operators)
      BY <3>2, <3>3, <3>4, SMTT(30)
    <3> HIDE DEF x, y, z
    <3> QED
      BY <3>6, <3>7, <3>8
  <2>10. ASSUME NEW u \in members, withdrawTo[u] = u
         PROVE  s.balance[u] >= balance[u]
    <3>1. /\ u \in Accounts /\ st.balance[u] \in Nat /\ balance[u] \in Nat
          /\ paid[u] \in Nat /\ left[u] \in Nat
      BY <1>2, <1>3, <2>6, FiniteAccounts, Zenon DEF CommissionTypeOK
    <3>2. st.balance[u] >= balance[u]
      BY <1>5, <2>10, SMTT(30) DEF PaidOn
    <3>3. paid[u] >= st.balance[u]
      BY <1>3, <2>5, <3>1, SMTT(30)
    <3>4. left[u] >= st.balance[u]
      <4>1. CASE u = v
        <5>1. paid[u] = st.balance[u] + c /\ left[u] = paid[u] - c
          BY <2>5, <2>6, <2>10, <4>1
        <5> HIDE DEF c
        <5> QED
          BY <1>3, <3>1, <5>1, SMTT(30)
      <4>2. CASE u # v
        BY <2>6, <3>1, <3>3, <4>2
      <4> QED
        BY <4>1, <4>2
    <3> QED
      BY <2>2, <3>1, <3>2, <3>4, SMTT(30)
  <2> QED
    BY <2>7, <2>8, <2>9, <2>10
<1> QED
  BY <1>7, <1>8

\* The orders in which the map may be ranged over.
LEMMA OrderFacts ==
  ASSUME CommissionTypeOK, NEW order \in Orders, NEW n, n = Cardinality(members)
  PROVE  /\ n \in Nat /\ Len(order) = n /\ order \in [1..n -> members]
         /\ \A i, j \in 1..n : order[i] = order[j] => i = j
         /\ \A v \in members : \E j \in 1..n : order[j] = v
<1>1. n \in Nat
  BY FS_Subset, FS_CardinalityType, CommissionAssumption DEF CommissionTypeOK
<1>2. order \in [1..n -> members]
  BY DEF Orders, Bijection, Injection
<1>3. Len(order) = n
  BY <1>1, <1>2
<1>4. \A i, j \in 1..n : order[i] = order[j] => i = j
  BY <1>2 DEF Orders, Bijection, Injection, IsInjective
<1>5. \A v \in members : \E j \in 1..n : order[j] = v
  BY DEF Orders, Bijection, Surjection
<1> QED
  BY <1>1, <1>2, <1>3, <1>4, <1>5

\* f gives the states after each iteration, in a given order.
Runs(f, order, acc, n) ==
  /\ f[0] = Start(acc)
  /\ \A k \in 0..n : k # n => f[k + 1] = Process(f[k], order[k + 1])
  /\ VolunteerValidatorCommissionProcess(order, acc) = f[n]

LEMMA LoopRuns ==
  ASSUME CommissionTypeOK, NEW acc, NEW order \in Orders, NEW n, n = Cardinality(members)
  PROVE  \E f : Runs(f, order, acc, n)
<1>1. n \in Nat /\ Len(order) = n
  BY OrderFacts
<1>2. PICK f : /\ IsLoop(f, order, Start(acc), n)
               /\ VolunteerValidatorCommissionProcess(order, acc) = f[n]
  BY <1>1, LoopIs
<1>3. \A k \in 0..n : f[k] = IF k = 0 THEN Start(acc) ELSE Process(f[k - 1], order[k])
  BY <1>2, Zenon DEF IsLoop
<1>4. f[0] = Start(acc)
  BY <1>1, <1>3
<1>5. ASSUME NEW k \in 0..n, k # n
      PROVE  f[k + 1] = Process(f[k], order[k + 1])
  <2>1. k + 1 \in 0..n /\ k + 1 # 0 /\ (k + 1) - 1 = k
    BY <1>1, <1>5
  <2> QED
    BY <1>3, <2>1
<1> QED
  BY <1>2, <1>4, <1>5 DEF Runs

\* What the whole loop leaves, in every order.
LEMMA PaidLoop ==
  ASSUME CommissionTypeOK, NEW acc \in [Operators -> Nat], NEW order \in Orders
  PROVE  PaidOn(VolunteerValidatorCommissionProcess(order, acc), order, acc,
                Cardinality(members))
<1> DEFINE n == Cardinality(members)
<1>1. n \in Nat /\ order \in [1..n -> members]
  BY OrderFacts
<1>2. n = Cardinality(members)
  OBVIOUS
<1> HIDE DEF n
<1>3. PICK f : Runs(f, order, acc, n)
  BY <1>2, LoopRuns, Zenon
<1>4. /\ f[0] = Start(acc)
      /\ \A k \in 0..n : k # n => f[k + 1] = Process(f[k], order[k + 1])
      /\ VolunteerValidatorCommissionProcess(order, acc) = f[n]
  BY <1>3, Zenon DEF Runs
<1> DEFINE P == {k \in 0..n : PaidOn(f[k], order, acc, k)}
<1>5. 0 \in P
  BY <1>1, <1>4, PaidStart
<1>6. ASSUME NEW k \in 0..n, k # n, k \in P
      PROVE  k + 1 \in P
  <2> DEFINE st == f[k]
             v == order[k + 1]
  <2>1. PaidOn(st, order, acc, k) /\ f[k + 1] = Process(st, v) /\ v = order[k + 1]
    BY <1>4, <1>6
  <2> HIDE DEF st, v
  <2>2. PaidOn(Process(st, v), order, acc, k + 1)
    BY <1>1, <1>6, <2>1, PaidStep
  <2>3. k + 1 \in 0..n
    BY <1>1, <1>6
  <2> QED
    BY <2>1, <2>2, <2>3
<1> HIDE DEF P
<1>7. 0..n \subseteq P
  BY <1>1, <1>5, <1>6, IntervalInduction, Zenon
<1>8. n \in P
  BY <1>1, <1>7
<1> QED
  BY <1>4, <1>8 DEF P, n

\* The types are kept.
LEMMA CommissionTypeInvariance == BlockSpec => []CommissionTypeOK
<1>1. BlockInit => CommissionTypeOK
  <2> SUFFICES ASSUME CommissionInit PROVE CommissionTypeOK
    BY DEF BlockInit
  <2>1. \A v \in Operators : v \in Accounts
    BY FiniteAccounts
  <2>2. withdrawTo \in [Operators -> Accounts]
    BY <2>1 DEF CommissionInit
  <2>3. commission \in [Operators -> Nat] /\ balance \in [Accounts -> Nat]
    BY DEF CommissionInit
  <2>4. communityPool \in Nat /\ allocated \in Nat
    BY DEF CommissionInit
  <2>5. members \in SUBSET Operators /\ halted \in BOOLEAN
    BY Zenon DEF CommissionInit
  <2> QED
    BY <2>2, <2>3, <2>4, <2>5 DEF CommissionTypeOK
<1>2. ASSUME CommissionTypeOK, [BlockNext]_allVars
      PROVE  CommissionTypeOK'
  <2>1. ASSUME NEW to \in Allocated, NEW order \in Orders, BeginBlock(to, order)
        PROVE  CommissionTypeOK'
    <3> DEFINE acc == AllocateTokens(to)
               st == VolunteerValidatorCommissionProcess(order, acc)
    <3>1. /\ to \in [Operators -> Nat] /\ acc \in [Operators -> Nat]
          /\ SumFunctionOnSet(to, Operators) \in Nat
      <4>1. to \in [Operators -> Nat]
        BY CommissionAssumption, Zenon DEF Allocated
      <4>2. acc \in [Operators -> Nat]
        BY <1>2, <4>1 DEF AllocateTokens, CommissionTypeOK
      <4> QED
        BY <4>1, <4>2, CommissionAssumption, SumNat
    <3>2. CASE CommissionBeginBlock(to, order)
      <4>1. /\ commission' = st.commission /\ balance' = st.balance
            /\ communityPool' = st.communityPool
            /\ allocated' = allocated + SumFunctionOnSet(to, Operators)
            /\ UNCHANGED <<members, withdrawTo, halted>>
        BY <3>2 DEF CommissionBeginBlock
      <4> HIDE DEF st, acc
      <4>2. st \in LoopStates
        BY <1>2, <3>1, PaidLoop DEF st, PaidOn
      <4> QED
        BY <1>2, <3>1, <4>1, <4>2 DEF CommissionTypeOK, LoopStates
    <3>3. CASE CommissionFails(to, order)
      BY <1>2, <3>3 DEF CommissionFails, CommissionTypeOK
    <3> QED
      BY <2>1, <3>2, <3>3 DEF BeginBlock
  <2>2. ASSUME NEW v \in Operators, NEW a \in Accounts, SetWithdrawAddress(v, a)
        PROVE  CommissionTypeOK'
    BY <1>2, <2>2 DEF SetWithdrawAddress, CommissionTypeOK
  <2>3. ASSUME NEW a \in Accounts, NEW b \in Accounts, a # b, Send(a, b)
        PROVE  CommissionTypeOK'
    <3>1. balance' \in [Accounts -> Nat]
      BY <1>2, <2>3 DEF Send, CommissionTypeOK
    <3> QED
      BY <1>2, <2>3, <3>1 DEF Send, CommissionTypeOK
  <2>4. ASSUME NEW v \in Operators, Register(v) \/ Unregister(v)
        PROVE  CommissionTypeOK'
    BY <1>2, <2>4 DEF Register, Unregister, CommissionTypeOK
  <2>5. ASSUME UNCHANGED commissionVars
        PROVE  CommissionTypeOK'
    BY <1>2, <2>5 DEF commissionVars, CommissionTypeOK
  <2>6. CASE BlockNext
    BY <2>1, <2>2, <2>3, <2>4, <2>5, <2>6 DEF BlockNext, DeliverTx, Proposal
  <2> QED
    BY <1>2, <2>5, <2>6 DEF allVars
<1> QED
  BY <1>1, <1>2, PTL DEF BlockSpec

\* A volunteer earns no commission: when the BeginBlockers are through, what was
\* allocated is in the community pool but for less than a coin per volunteer, and
\* the accounts of the chain are as rich as before.
THEOREM CommissionsArePaidOn == BlockSpec => CommissionsPaidOn
<1> DEFINE Paid ==
      height' # height =>
        /\ \A v \in members : commission'[v] < Unit
        /\ Coins(balance', Accounts) = Coins(balance, Accounts)
        /\ (communityPool' - communityPool) * Unit
             = allocated' - allocated + Coins(commission, members)
                 - Coins(commission', members)
                 - (Coins(commission', Operators \ members)
                    - Coins(commission, Operators \ members))
        /\ \A v \in members : withdrawTo[v] = v => balance'[v] >= balance[v]
<1>1. ASSUME CommissionTypeOK, CommissionTypeOK',
             NEW to \in Allocated, NEW order \in Orders, CommissionBeginBlock(to, order)
      PROVE  Paid
  <2> DEFINE acc == AllocateTokens(to)
             st == VolunteerValidatorCommissionProcess(order, acc)
             n == Cardinality(members)
             Sum(f, S) == SumFunctionOnSet(f, S)
  <2>1. /\ ~st.failed
        /\ commission' = st.commission /\ balance' = st.balance
        /\ communityPool' = st.communityPool
        /\ allocated' = allocated + SumFunctionOnSet(to, Operators)
    BY <1>1 DEF CommissionBeginBlock
  <2>2. to \in [Operators -> Nat]
    BY CommissionAssumption, Zenon DEF Allocated
  <2>3. acc \in [Operators -> Nat] /\ \A v \in Operators : acc[v] = commission[v] + to[v]
    BY <1>1, <2>2, SMTT(30) DEF AllocateTokens, CommissionTypeOK
  <2> HIDE DEF st, acc
  <2>4. PaidOn(st, order, acc, n)
    BY <1>1, <2>3, PaidLoop DEF st
  <2>5. /\ \A j \in 1..n : st.commission[order[j]] < Unit
        /\ Sum(st.balance, Accounts) = Sum(balance, Accounts)
        /\ (st.communityPool - communityPool) * Unit + Sum(st.commission, Operators)
             = Sum(acc, Operators)
        /\ \A u \in members : withdrawTo[u] = u => st.balance[u] >= balance[u]
    BY <2>1, <2>4, Zenon DEF PaidOn
  <2>6. \A v \in members : \E j \in 1..n : order[j] = v
    BY <1>1, OrderFacts
  <2>7. \A v \in members : commission'[v] < Unit
    BY <2>1, <2>5, <2>6
  <2>8. \A x \in Operators : commission[x] \in Int /\ commission'[x] \in Int /\ to[x] \in Int
    BY <1>1, <2>2 DEF CommissionTypeOK
  <2>9. Sum(acc, Operators) = Sum(commission, Operators) + Sum(to, Operators)
    BY <2>3, <2>8, CommissionAssumption, SumPlus
  <2> DEFINE A == members
             B == Operators \ members
  <2>10. A \cup B = Operators /\ A \cap B = {} /\ IsFiniteSet(A) /\ IsFiniteSet(B)
    BY <1>1, FS_Subset, CommissionAssumption DEF CommissionTypeOK
  <2>11. /\ Sum(commission, A) \in Int /\ Sum(commission, B) \in Int
         /\ Sum(commission', A) \in Int /\ Sum(commission', B) \in Int
         /\ Sum(to, Operators) \in Int
    BY <2>8, <2>10, SumInt, CommissionAssumption
  <2>12. Sum(commission, Operators) = Sum(commission, A) + Sum(commission, B)
    <3> DEFINE f == commission
    <3> HIDE DEF A, B, f
    <3>1. \A y \in A \cup B : f[y] \in Int
      BY <2>8, <2>10 DEF f
    <3>2. SumFunctionOnSet(f, A \cup B) = SumFunctionOnSet(f, A) + SumFunctionOnSet(f, B)
      BY <2>10, <3>1, SumDisjoint
    <3> QED
      BY <2>10, <3>2 DEF f
  <2>13. Sum(commission', Operators) = Sum(commission', A) + Sum(commission', B)
    <3> DEFINE f == commission'
    <3> HIDE DEF A, B, f
    <3>1. \A y \in A \cup B : f[y] \in Int
      BY <2>8, <2>10 DEF f
    <3>2. SumFunctionOnSet(f, A \cup B) = SumFunctionOnSet(f, A) + SumFunctionOnSet(f, B)
      BY <2>10, <3>1, SumDisjoint
    <3> QED
      BY <2>10, <3>2 DEF f
  <2>14. (communityPool' - communityPool) * Unit \in Int /\ allocated \in Int
    <3>1. /\ communityPool' \in Int /\ communityPool \in Int /\ Unit \in Int
          /\ allocated \in Int /\ 0 \in Int
      BY <1>1, CommissionAssumption DEF CommissionTypeOK
    <3> QED
      BY <3>1, Distribute
  <2>15. (communityPool' - communityPool) * Unit + Sum(commission', Operators)
           = Sum(acc, Operators)
    BY <2>1, <2>5, Zenon
  <2>16. (communityPool' - communityPool) * Unit
           = allocated' - allocated + Sum(commission, A) - Sum(commission', A)
               - (Sum(commission', B) - Sum(commission, B))
    <3> DEFINE x == (communityPool' - communityPool) * Unit
               t == Sum(to, Operators)
               c1 == Sum(commission, A)
               c2 == Sum(commission, B)
               d1 == Sum(commission', A)
               d2 == Sum(commission', B)
    <3>1. /\ x \in Int /\ t \in Int /\ c1 \in Int /\ c2 \in Int /\ d1 \in Int /\ d2 \in Int
          /\ x + (d1 + d2) = (c1 + c2) + t
      BY <2>9, <2>11, <2>12, <2>13, <2>14, <2>15, Zenon
    <3>2. allocated' = allocated + t
      BY <2>1
    <3> HIDE DEF x, t, c1, c2, d1, d2
    <3>3. x = allocated' - allocated + c1 - d1 - (d2 - c2)
      BY <2>14, <3>1, <3>2
    <3> QED
      BY <3>3 DEF x, c1, c2, d1, d2
  <2> QED
    BY <2>1, <2>5, <2>7, <2>16 DEF Coins
<1>2. ASSUME CommissionTypeOK, CommissionTypeOK', [BlockNext]_allVars
      PROVE  [Paid]_allVars
  <2> HIDE DEF Paid
  <2> SUFFICES ASSUME height' # height PROVE Paid
    BY Zenon DEF Paid
  <2>1. \E to \in Allocated, order \in Orders : CommissionBeginBlock(to, order)
    BY <1>2 DEF BlockNext, BeginBlock, DeliverTx, Proposal, UpdateHistoricalEntries,
                EndTransactions, EndBlock, vars, allVars
  <2> QED
    BY <1>1, <1>2, <2>1
<1> QED
  BY <1>2, CommissionTypeInvariance, PTL DEF BlockSpec, CommissionsPaidOn

\* The whole coins by volunteer; the volunteers whose own account cannot stand
\* in for a withdraw address elsewhere; those that withdraw to a.
Due(acc) == [v \in Operators |-> acc[v] \div Unit]
Short(acc, v) == withdrawTo[v] # v /\ balance[v] < Due(acc)[v]
Payers(D, a) == {v \in D : withdrawTo[v] = a}

\* The balances once the volunteers in D have been processed.
Balances(acc, D) ==
  [a \in Accounts |-> (balance[a] + SumFunctionOnSet(Due(acc), Payers(D, a)))
                        - (IF a \in D THEN Due(acc)[a] ELSE 0)]

\* What is left once the volunteers in D have been processed, which does not
\* depend on the order they came in.
Agreed(st, acc, D) ==
  /\ st \in LoopStates
  /\ st.failed <=> \E v \in D : Short(acc, v)
  /\ ~st.failed =>
       /\ st.commission = [v \in Operators |-> IF v \in D THEN acc[v] % Unit ELSE acc[v]]
       /\ st.balance = Balances(acc, D)
       /\ st.communityPool = communityPool + SumFunctionOnSet(Due(acc), D)

\* No volunteer withdraws to the operator account of another one.
Apart == \A v \in members : withdrawTo[v] \notin members \ {v}

LEMMA DueNat ==
  ASSUME NEW acc \in [Operators -> Nat]
  PROVE  Due(acc) \in [Operators -> Nat]
BY WholeCoins DEF Due

\* One more volunteer.
LEMMA BalancesStep ==
  ASSUME CommissionTypeOK, NEW acc \in [Operators -> Nat], NEW D \in SUBSET members,
         NEW v \in members, v \notin D, NEW a \in Accounts, NEW E, E = D \cup {v}
  PROVE  /\ Balances(acc, D)[a] \in Int
         /\ Balances(acc, E)[a] = Balances(acc, D)[a]
              + (IF withdrawTo[v] = a THEN Due(acc)[v] ELSE 0)
              - (IF a = v THEN Due(acc)[v] ELSE 0)
<1> DEFINE due == Due(acc)
           p == Payers(D, a)
           q == Payers(E, a)
           own(S) == IF a \in S THEN due[a] ELSE 0
<1>1. due \in [Operators -> Nat] /\ v \in Operators
  BY DueNat DEF CommissionTypeOK
<1>2. IsFiniteSet(p) /\ p \subseteq Operators /\ v \notin p
  BY FS_Subset, CommissionAssumption DEF Payers, CommissionTypeOK
<1>3. /\ withdrawTo[v] = a => q = p \cup {v}
      /\ withdrawTo[v] # a => q = p
  BY DEF Payers
<1> HIDE DEF due, p, q
<1>4. SumFunctionOnSet(due, p) \in Int
  BY <1>1, <1>2, SumInt
<1>5. SumFunctionOnSet(due, q)
        = SumFunctionOnSet(due, p) + (IF withdrawTo[v] = a THEN due[v] ELSE 0)
  <2>1. SumFunctionOnSet(due, p \cup {v}) = due[v] + SumFunctionOnSet(due, p)
    BY <1>1, <1>2, SumInsert
  <2> QED
    BY <1>1, <1>3, <1>4, <2>1
<1>6. own(D) \in Int /\ own(E) = own(D) + (IF a = v THEN due[v] ELSE 0)
  <2>1. a \in D => a \in Operators /\ a # v
    BY DEF CommissionTypeOK
  <2> QED
    BY <1>1, <2>1
<1>7. balance[a] \in Int /\ due[v] \in Int
  BY <1>1 DEF CommissionTypeOK
<1>8. /\ Balances(acc, D)[a] = (balance[a] + SumFunctionOnSet(due, p)) - own(D)
      /\ Balances(acc, E)[a] = (balance[a] + SumFunctionOnSet(due, q)) - own(E)
  BY DEF Balances, due, p, q
<1> DEFINE x == IF withdrawTo[v] = a THEN due[v] ELSE 0
           y == IF a = v THEN due[v] ELSE 0
<1>9. x \in Int /\ y \in Int
  BY <1>7, SMTT(30)
<1> HIDE DEF x, y, own
<1>10. Balances(acc, E)[a] = Balances(acc, D)[a] + x - y /\ Balances(acc, D)[a] \in Int
  BY <1>4, <1>5, <1>6, <1>7, <1>8, <1>9 DEF x, y
<1> QED
  BY <1>10 DEF x, y, due

LEMMA AgreedStart ==
  ASSUME CommissionTypeOK, NEW acc \in [Operators -> Nat]
  PROVE  Agreed(Start(acc), acc, {})
<1> DEFINE st == Start(acc)
<1>1. st \in LoopStates
  BY DEF Start, LoopStates, CommissionTypeOK
<1>2. /\ st.commission = acc /\ st.balance = balance
      /\ st.communityPool = communityPool /\ ~st.failed
  BY DEF Start
<1>3. SumFunctionOnSet(Due(acc), {}) = 0
  BY SumEmpty
<1>4. balance = Balances(acc, {})
  <2>1. ASSUME NEW a \in Accounts PROVE Balances(acc, {})[a] = balance[a]
    <3>1. Payers({}, a) = {}
      BY DEF Payers
    <3>2. balance[a] \in Nat
      BY DEF CommissionTypeOK
    <3> QED
      BY <1>3, <3>1, <3>2 DEF Balances
  <2>2. balance = [a \in Accounts |-> balance[a]]
    BY DEF CommissionTypeOK
  <2>3. Balances(acc, {}) = [a \in Accounts |-> Balances(acc, {})[a]]
    BY DEF Balances
  <2> QED
    BY <2>1, <2>2, <2>3
<1>5. communityPool = communityPool + SumFunctionOnSet(Due(acc), {})
  BY <1>3 DEF CommissionTypeOK
<1>6. acc = [v \in Operators |-> IF v \in {} THEN acc[v] % Unit ELSE acc[v]]
  OBVIOUS
<1> HIDE DEF st
<1>7. Agreed(st, acc, {})
  BY <1>1, <1>2, <1>4, <1>5, <1>6, Zenon DEF Agreed
<1> QED
  BY <1>7 DEF st

LEMMA AgreedStep ==
  ASSUME CommissionTypeOK, Apart, NEW acc \in [Operators -> Nat],
         NEW D \in SUBSET members, NEW v \in members, v \notin D,
         NEW E, E = D \cup {v}, NEW st, Agreed(st, acc, D)
  PROVE  Agreed(Process(st, v), acc, E)
<1> DEFINE c == st.commission[v] \div Unit
           to == withdrawTo[v]
           paid == [st.balance EXCEPT ![to] = @ + c]
           rest == [st.commission EXCEPT ![v] = @ % Unit]
           left == [paid EXCEPT ![v] = @ - c]
           s == Process(st, v)
           due == Due(acc)
<1>1. v \in Operators /\ to \in Accounts /\ v \in Accounts
  BY FiniteAccounts DEF CommissionTypeOK
<1>2. /\ st \in LoopStates /\ st.commission \in [Operators -> Nat]
      /\ st.balance \in [Accounts -> Nat] /\ st.communityPool \in Nat
      /\ st.failed \in BOOLEAN
  BY DEF Agreed, LoopStates
<1>3. Effect(st, v, c, rest, paid, left, s)
  <2>1. Iteration(st, v, c, rest, paid, left, s)
    BY DEF Iteration
  <2> HIDE DEF c, paid, rest, left, s
  <2> QED
    BY <1>1, <1>2, <2>1, ProcessIs, Zenon
<1>4. s \in LoopStates /\ c \in Nat /\ paid \in [Accounts -> Nat]
  <2> HIDE DEF c, paid, rest, left, s
  <2> QED
    BY <1>3, Zenon DEF Effect
<1>5. CASE st.failed
  <2>1. s = st
    <3> HIDE DEF c, paid, rest, left, s
    <3> QED
      BY <1>3, <1>5, Zenon DEF Effect
  <2>2. \E u \in E : Short(acc, u)
    BY <1>5 DEF Agreed
  <2> QED
    BY <1>2, <1>5, <2>1, <2>2, Zenon DEF Agreed
<1>6. CASE ~st.failed
  <2>1. /\ st.commission = [u \in Operators |-> IF u \in D THEN acc[u] % Unit ELSE acc[u]]
        /\ st.balance = Balances(acc, D)
        /\ st.communityPool = communityPool + SumFunctionOnSet(due, D)
        /\ \A u \in D : ~Short(acc, u)
    BY <1>6, Zenon DEF Agreed
  <2>2. /\ st.commission[v] = acc[v] /\ c = due[v] /\ due \in [Operators -> Nat]
        /\ acc[v] \in Nat
    BY <1>1, <2>1, DueNat, SMTT(30) DEF Due
  <2>3. [u \in Operators |-> IF u \in E THEN acc[u] % Unit ELSE acc[u]] = rest
    BY <1>1, <2>1, SMTT(30)
  <2>4. \A a \in Accounts : Balances(acc, E)[a] = st.balance[a]
              + (IF to = a THEN c ELSE 0) - (IF a = v THEN c ELSE 0)
    <3> HIDE DEF c
    <3> QED
      BY <2>1, <2>2, BalancesStep, SMTT(30)
  <2>5. Balances(acc, E) = [a \in Accounts |-> Balances(acc, E)[a]]
    BY DEF Balances
  <2>6. SumFunctionOnSet(due, D) \in Int /\ SumFunctionOnSet(due, E) = c + SumFunctionOnSet(due, D)
    <3>1. IsFiniteSet(D) /\ D \subseteq Operators
      BY FS_Subset, CommissionAssumption DEF CommissionTypeOK
    <3> HIDE DEF due, c
    <3>2. SumFunctionOnSet(due, D \cup {v}) = due[v] + SumFunctionOnSet(due, D)
      BY <1>1, <2>2, <3>1, SumInsert, SMTT(30)
    <3> QED
      BY <2>2, <3>1, <3>2, SumInt
  <2>7. st.balance[v] = balance[v] /\ balance[v] \in Nat
    <3>1. Payers(D, v) = {}
      BY DEF Payers, Apart
    <3>2. SumFunctionOnSet(due, Payers(D, v)) = 0
      BY <3>1, SumEmpty
    <3>3. balance[v] \in Nat
      BY <1>1 DEF CommissionTypeOK
    <3> QED
      BY <1>1, <2>1, <3>2, <3>3, SMTT(30) DEF Balances
  <2> HIDE DEF due, s, Process
  <2>8. Short(acc, v) <=> to # v /\ balance[v] < c
    BY <2>2 DEF Short, due
  <2>9. (\E u \in E : Short(acc, u)) <=> Short(acc, v)
    BY <2>1
  <2>10. CASE st.commission[v] = 0
    <3>1. s = st
      <4> HIDE DEF c, paid, rest, left
      <4> QED
        BY <1>3, <2>10, Zenon DEF Effect
    <3>2. c = 0 /\ st.commission[v] % Unit = 0
      BY <2>10, CommissionAssumption
    <3>3. rest = st.commission
      BY <1>1, <1>2, <2>10, <3>2
    <3>4. Balances(acc, E) = st.balance
      <4>1. \A a \in Accounts : Balances(acc, E)[a] = st.balance[a]
        <5> SUFFICES ASSUME NEW a \in Accounts PROVE Balances(acc, E)[a] = st.balance[a]
          OBVIOUS
        <5> DEFINE b == st.balance[a]
                   x == IF to = a THEN c ELSE 0
                   y == IF a = v THEN c ELSE 0
        <5>1. b \in Int
          BY <1>2
        <5>2. x = 0 /\ y = 0
          <6> HIDE DEF c
          <6> QED
            BY <3>2, SMTT(30)
        <5>3. Balances(acc, E)[a] = b + x - y
          BY <2>4, Zenon
        <5> HIDE DEF b, x, y
        <5>4. Balances(acc, E)[a] = b
          BY <5>1, <5>2, <5>3
        <5> QED
          BY <5>4 DEF b
      <4> QED
        BY <1>2, <2>5, <4>1, SMTT(30)
    <3>5. communityPool + SumFunctionOnSet(due, E) = st.communityPool
      BY <2>1, <2>6, <3>2
    <3>6. ~Short(acc, v)
      BY <2>7, <2>8, <3>2
    <3> HIDE DEF c, rest
    <3>7. Agreed(st, acc, E)
      BY <1>2, <1>6, <2>3, <2>9, <3>3, <3>4, <3>5, <3>6, Zenon DEF Agreed, due
    <3> QED
      BY <3>1, <3>7 DEF s
  <2>11. CASE st.commission[v] # 0
    <3>1. /\ s.commission = rest
          /\ paid[v] < c => s.failed
          /\ paid[v] >= c =>
               /\ ~s.failed /\ s.balance = left
               /\ s.communityPool = st.communityPool + c
      <4> HIDE DEF c, paid, rest, left
      <4> QED
        BY <1>3, <1>6, <2>11, Zenon DEF Effect
    <3>2. \A a \in Accounts : paid[a] = st.balance[a] + (IF to = a THEN c ELSE 0)
      BY <1>1, <1>2, <1>4
    <3>3. \A a \in Accounts : left[a] = paid[a] - (IF a = v THEN c ELSE 0)
      <4> HIDE DEF paid, c
      <4> QED
        BY <1>1, <1>4
    <3>4. left = [a \in Accounts |-> left[a]]
      <4> HIDE DEF paid, c
      <4> QED
        BY <1>1, <1>4, Zenon
    <3> HIDE DEF paid, c, left
    <3>5. paid[v] < c <=> Short(acc, v)
      BY <1>1, <1>4, <2>7, <2>8, <3>2
    <3>6. left = Balances(acc, E)
      <4>1. \A a \in Accounts : left[a] = Balances(acc, E)[a]
        <5> SUFFICES ASSUME NEW a \in Accounts PROVE left[a] = Balances(acc, E)[a]
          OBVIOUS
        <5> DEFINE b == st.balance[a]
                   x == IF to = a THEN c ELSE 0
                   y == IF a = v THEN c ELSE 0
        <5>1. b \in Int /\ x \in Int /\ y \in Int
          BY <1>2, <1>4, SMTT(30)
        <5>2. paid[a] = b + x /\ left[a] = paid[a] - y /\ Balances(acc, E)[a] = b + x - y
          BY <2>4, <3>2, <3>3, Zenon
        <5> HIDE DEF b, x, y
        <5> QED
          BY <5>1, <5>2
      <4> QED
        BY <2>5, <3>4, <4>1
    <3>7. paid[v] < c \/ paid[v] >= c
      BY <1>1, <1>4
    <3>8. st.communityPool + c = communityPool + SumFunctionOnSet(due, E)
      BY <1>4, <2>1, <2>6 DEF CommissionTypeOK
    <3>9. Agreed(s, acc, E)
      BY <1>4, <2>3, <2>9, <3>1, <3>5, <3>6, <3>7, <3>8, ZenonT(30) DEF Agreed, due
    <3> QED
      BY <3>9 DEF s
  <2> QED
    BY <2>10, <2>11
<1> QED
  BY <1>2, <1>5, <1>6

\* What the whole loop leaves is the same in every order.
LEMMA AgreedLoop ==
  ASSUME CommissionTypeOK, Apart, NEW acc \in [Operators -> Nat], NEW order \in Orders
  PROVE  Agreed(VolunteerValidatorCommissionProcess(order, acc), acc, members)
<1> DEFINE n == Cardinality(members)
           Seen(k) == {order[j] : j \in 1..k}
<1>1. /\ n \in Nat /\ order \in [1..n -> members]
      /\ \A i, j \in 1..n : order[i] = order[j] => i = j
      /\ \A v \in members : \E j \in 1..n : order[j] = v
  BY OrderFacts
<1>2. n = Cardinality(members)
  OBVIOUS
<1> HIDE DEF n
<1>3. PICK f : Runs(f, order, acc, n)
  BY <1>2, LoopRuns, Zenon
<1>4. /\ f[0] = Start(acc)
      /\ \A k \in 0..n : k # n => f[k + 1] = Process(f[k], order[k + 1])
      /\ VolunteerValidatorCommissionProcess(order, acc) = f[n]
  BY <1>3, Zenon DEF Runs
<1>5. Seen(0) = {} /\ Seen(n) = members
  BY <1>1
<1> DEFINE P == {k \in 0..n : Agreed(f[k], acc, Seen(k))}
<1>6. 0 \in P
  <2>1. Agreed(f[0], acc, {})
    <3> HIDE DEF P
    <3> QED
      BY <1>4, AgreedStart, Zenon
  <2>2. 0 \in 0..n
    BY <1>1
  <2> QED
    BY <1>5, <2>1, <2>2, Zenon
<1>7. ASSUME NEW k \in 0..n, k # n, k \in P
      PROVE  k + 1 \in P
  <2> DEFINE st == f[k]
             v == order[k + 1]
             D == Seen(k)
             E == Seen(k + 1)
  <2>1. k + 1 \in 0..n /\ k + 1 \in 1..n /\ 1..k \subseteq 1..n /\ 1..(k + 1) = 1..k \cup {k + 1}
        /\ k + 1 \notin 1..k
    BY <1>1, <1>7
  <2>2. v \in members /\ D \in SUBSET members /\ v \notin D /\ E = D \cup {v}
    <3>1. v \in members
      BY <1>1, <2>1
    <3>2. \A j \in 1..k : order[j] \in members /\ order[j] # v
      BY <1>1, <2>1
    <3>3. E = D \cup {v}
      BY <2>1
    <3> QED
      BY <3>1, <3>2, <3>3
  <2>3. Agreed(st, acc, D) /\ f[k + 1] = Process(st, v)
    BY <1>4, <1>7
  <2> HIDE DEF st, v, D, E
  <2>4. Agreed(Process(st, v), acc, E)
    BY <2>2, <2>3, AgreedStep
  <2> QED
    BY <2>1, <2>3, <2>4 DEF E
<1> HIDE DEF P
<1>8. 0..n \subseteq P
  BY <1>1, <1>6, <1>7, IntervalInduction, Zenon
<1>9. n \in P
  BY <1>1, <1>8
<1> QED
  BY <1>4, <1>5, <1>9, SMTT(30) DEF P

\* Two states of the loop with the same fields are the same.
LEMMA SameFields ==
  ASSUME NEW s \in LoopStates, NEW t \in LoopStates,
         s.commission = t.commission, s.balance = t.balance,
         s.communityPool = t.communityPool, s.failed = t.failed
  PROVE  s = t
BY SMTT(30) DEF LoopStates

\* The map is ranged over in an order that each node picks for itself, and yet
\* the nodes agree: unless a volunteer withdraws to another one's operator
\* account, every order leaves the same state or every order fails.
THEOREM OrderDoesNotMatter == BlockSpec => []NodesAgree
<1>1. ASSUME CommissionTypeOK, NEW to \in Allocated
      PROVE  LET Left == {VolunteerValidatorCommissionProcess(order, AllocateTokens(to)) :
                            order \in Orders}
             IN
             /\ (\A v \in members : withdrawTo[v] \notin members \ {v}) =>
                  \/ Cardinality(Left) = 1
                  \/ \A st \in Left : st.failed
             /\ (\A v \in members : withdrawTo[v] = v) => \A st \in Left : ~st.failed
  <2> DEFINE acc == AllocateTokens(to)
             Left == {VolunteerValidatorCommissionProcess(order, acc) : order \in Orders}
  <2>1. acc \in [Operators -> Nat]
    <3>1. to \in [Operators -> Nat]
      BY CommissionAssumption, Zenon DEF Allocated
    <3> QED
      BY <1>1, <3>1 DEF AllocateTokens, CommissionTypeOK
  <2>2. Orders # {}
    BY <1>1, FS_Subset, FS_CardinalityType, CommissionAssumption, SMTT(30)
       DEF Orders, CommissionTypeOK, ExistsBijection
  <2>3. Apart => \A st \in Left : Agreed(st, acc, members)
    <3> HIDE DEF acc
    <3> QED
      BY <1>1, <2>1, AgreedLoop
  <2> HIDE DEF acc
  <2>4. Left # {}
    BY <2>2
  <2> HIDE DEF Left
  <2>5. ASSUME Apart, \A v \in members : ~Short(acc, v)
        PROVE  Cardinality(Left) = 1
    <3>1. PICK s : s \in Left
      BY <2>4
    <3>2. ASSUME NEW t \in Left PROVE s = t
      <4>1. Agreed(s, acc, members) /\ Agreed(t, acc, members)
        BY <2>3, <2>5, <3>1
      <4>2. ~s.failed /\ ~t.failed /\ s \in LoopStates /\ t \in LoopStates
        BY <2>5, <4>1, Zenon DEF Agreed
      <4>3. /\ s.commission = t.commission /\ s.balance = t.balance
            /\ s.communityPool = t.communityPool
        BY <4>1, <4>2 DEF Agreed
      <4>4. s.failed = t.failed
        BY <4>2 DEF LoopStates
      <4> QED
        BY <4>2, <4>3, <4>4, SameFields
    <3>3. Left = {s}
      BY <3>1, <3>2
    <3> QED
      BY <3>3, FS_Singleton, Zenon
  <2>6. ASSUME Apart, NEW v \in members, Short(acc, v), NEW st \in Left
        PROVE  st.failed
    BY <2>3, <2>6, Zenon DEF Agreed
  <2>7. ASSUME \A v \in members : withdrawTo[v] = v, NEW st \in Left
        PROVE  ~st.failed
    <3>1. Apart /\ \A v \in members : ~Short(acc, v)
      BY <2>7 DEF Apart, Short
    <3> QED
      BY <2>3, <2>7, <3>1, Zenon DEF Agreed
  <2>8. (\A v \in members : withdrawTo[v] \notin members \ {v}) <=> Apart
    BY DEF Apart
  <2>9. /\ Apart => Cardinality(Left) = 1 \/ \A st \in Left : st.failed
        /\ (\A v \in members : withdrawTo[v] = v) => \A st \in Left : ~st.failed
    BY <2>5, <2>6, <2>7, Zenon
  <2> QED
    BY <2>8, <2>9 DEF Left, acc
<1>2. CommissionTypeOK => NodesAgree
  BY <1>1, Zenon DEF NodesAgree
<1> QED
  BY <1>2, CommissionTypeInvariance, PTL

-----------------------------------------------------------------------------
(* The window of historical entries.                                       *)

USE HistoricalInfoAssumption

\* The blocks of the chain are steps of the historical entries alone: what holds
\* of these holds of the chain, also when a BeginBlocker after them fails.
THEOREM BlocksKeepHistory == BlockSpec => Spec
<1>1. BlockInit => Init
  BY DEF BlockInit
<1>2. [BlockNext]_allVars => [Next]_vars
  BY DEF BlockNext, BeginBlock, DeliverTx, Proposal, allVars, Next
<1> QED
  BY <1>1, <1>2, PTL DEF BlockSpec, Spec

\* Pruning assumes that the entries are contiguous, and keeps them so; the
\* window property follows from contiguity and a positive parameter.
WindowInv == TypeOK /\ Contiguous /\ OnlyWindow

\* Type correctness, whatever the parameter.
LEMMA TypeStep == TypeOK /\ [Next]_vars => TypeOK'
<1> SUFFICES ASSUME TypeOK, [Next]_vars PROVE TypeOK'
  OBVIOUS
<1>1. CASE TrackHistoricalInfo
  <2>1. /\ height' = height + 1 /\ height \in Nat
        /\ info' \subseteq info \cup {height + 1}
        /\ phase' = "deliver" /\ entryNum' = entryNum
    BY <1>1 DEF TrackHistoricalInfo, TypeOK
  <2>2. \A i \in info' : i \in 1..(height + 1)
    <3> SUFFICES ASSUME NEW i \in info' PROVE i \in 1..(height + 1)
      OBVIOUS
    <3>1. i \in 1..height \/ i = height + 1
      BY <2>1 DEF TypeOK
    <3> QED
      BY <2>1, <3>1
  <2> QED
    BY <2>1, <2>2 DEF TypeOK
<1>2. CASE EndTransactions \/ EndBlock
           \/ (\E n \in EntriesSet : UpdateHistoricalEntries(n)) \/ UNCHANGED vars
  BY <1>2, Zenon DEF EndTransactions, EndBlock, UpdateHistoricalEntries, vars, TypeOK
<1> QED
  BY <1>1, <1>2 DEF Next

\* Whatever the parameter, TrackHistoricalInfo deletes nothing the parameter
\* says to keep.
THEOREM NeverPrunesWindow == BlockSpec => KeepsWindow
<1>1. TypeOK /\ [Next]_vars => [\A i \in info \ info' : i <= height' - entryNum]_vars
  BY DEF TypeOK, Next, vars, TrackHistoricalInfo, EndTransactions, EndBlock,
         UpdateHistoricalEntries, Pruned
<1>2. Init => TypeOK
  BY DEF Init, TypeOK
<1> QED
  BY <1>1, <1>2, TypeStep, BlocksKeepHistory, PTL DEF Spec, KeepsWindow

\* As long as governance never sets HistoricalEntries to zero, the store holds
\* exactly a contiguous window no longer than the parameter after BeginBlock.
THEOREM WindowWithoutZero ==
  ASSUME 0 \notin EntriesSet
  PROVE  BlockSpec => []EntriesAreWindow
<1>1. Init => WindowInv
  BY DEF Init, WindowInv, TypeOK, Contiguous, OnlyWindow
<1>2. WindowInv /\ [Next]_vars => WindowInv'
  <2> SUFFICES ASSUME WindowInv, [Next]_vars PROVE WindowInv'
    OBVIOUS
  <2>1. CASE TrackHistoricalInfo
    <3>1. /\ height \in Nat /\ height' = height + 1
          /\ entryNum \in Nat /\ entryNum > 0 /\ entryNum' = entryNum
          /\ phase' = "deliver"
          /\ info' = (info \ Pruned(height + 1)) \cup {height + 1}
          /\ info \subseteq 1..height
      BY <2>1 DEF TrackHistoricalInfo, WindowInv, TypeOK
    <3>2. \A i \in info : i <= height + 1 - entryNum => i \in Pruned(height + 1)
      BY <3>1 DEF WindowInv, Contiguous, Pruned
    <3>3. TypeOK'
      BY TypeStep DEF WindowInv
    <3>4. OnlyWindow'
      BY <3>1, <3>2 DEF OnlyWindow
    <3>5. Contiguous'
      <4> SUFFICES ASSUME NEW i \in info', NEW j \in i..height'
                   PROVE  j \in info'
        BY DEF Contiguous
      <4>1. CASE j = height + 1
        BY <3>1, <4>1
      <4>2. CASE j # height + 1
        <5>1. i \in info /\ j \in i..height
          BY <3>1, <4>2
        <5>2. j \in info
          BY <5>1 DEF WindowInv, Contiguous
        <5>3. i > height + 1 - entryNum
          BY <3>1, <3>2, <5>1
        <5>4. j \notin Pruned(height + 1)
          BY <3>1, <5>1, <5>3 DEF Pruned
        <5> QED
          BY <3>1, <5>2, <5>4
      <4> QED
        BY <4>1, <4>2
    <3> QED
      BY <3>3, <3>4, <3>5 DEF WindowInv
  <2>2. CASE EndTransactions \/ EndBlock
             \/ (\E n \in EntriesSet : UpdateHistoricalEntries(n)) \/ UNCHANGED vars
    BY <2>2, Zenon DEF EndTransactions, EndBlock, UpdateHistoricalEntries, vars, WindowInv,
                TypeOK, Contiguous, OnlyWindow
  <2> QED
    BY <2>1, <2>2 DEF Next
<1>3. WindowInv => EntriesAreWindow
  BY DEF WindowInv, EntriesAreWindow
<1> QED
  BY <1>1, <1>2, <1>3, BlocksKeepHistory, PTL DEF Spec
=============================================================================

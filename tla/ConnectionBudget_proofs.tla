---------------------- MODULE ConnectionBudget_proofs ----------------------
(***************************************************************************)
(* Proofs, for every set of clients, every assignment of clients to pools  *)
(* and every budget size, that the slot accounting of core/budget.py is    *)
(* exact, that no capacity idles while somebody is in line, that no        *)
(* wake-up is lost, and that the budget implements FairSemaphore.          *)
(***************************************************************************)
EXTENDS ConnectionBudget, FiniteSetTheorems, SequenceTheorems, TLAPS

\* A waiter with a reserved slot is still inside acquire / acquire_async.
GrantedIsInside ==
  \A c \in granted : pc[c] \in {"waiting", "resuming", "aborting", "dead"}

\* The inductive invariant.
IInv == /\ TypeOK
        /\ ExactAccounting
        /\ NoIdleCapacity
        /\ QueueIsClean
        /\ GrantedIsInside

-----------------------------------------------------------------------------
(* Facts about finite sets and queues. *)

\* There are finitely many clients, so every set of clients has a size.
LEMMA ClientSets ==
  ASSUME NEW S \in SUBSET Clients
  PROVE  IsFiniteSet(S) /\ Cardinality(S) \in Nat
<1>1. IsFiniteSet(Clients)
  BY ClientsAssumption, FS_Union DEF Clients
<1> QED BY <1>1, FS_Subset, FS_CardinalityType

\* deque.remove on a queue without duplicates takes out exactly that client.
LEMMA RemoveFirstLemma ==
  ASSUME NEW S, NEW q \in Seq(S), IsInjective(q), NEW c
  PROVE  /\ RemoveFirst(q, c) \in Seq(S)
         /\ IsInjective(RemoveFirst(q, c))
         /\ ToSet(RemoveFirst(q, c)) = ToSet(q) \ {c}
         /\ \A d \in S \ {c}, e \in S \ {c} : Precedes(RemoveFirst(q, c), d, e) <=> Precedes(q, d, e)
<1>1. CASE ~ \E i \in 1..Len(q) : q[i] = c
  BY <1>1 DEF RemoveFirst, ToSet
<1>2. CASE \E i \in 1..Len(q) : q[i] = c
  <2>1. PICK k \in 1..Len(q) : q[k] = c
    BY <1>2
  <2>2. { i \in 1..Len(q) : q[i] = c } = {k}
    BY <2>1 DEF IsInjective
  <2>3. Min({k}) = k
    BY DEF Min
  <2>4. SelectInSeq(q, LAMBDA v : v = c) = k
    BY <2>2, <2>3 DEF SelectInSeq
  <2>5. RemoveFirst(q, c) = RemoveAt(q, k)
    BY <1>2, <2>4 DEF RemoveFirst
  <2> DEFINE r == RemoveAt(q, k)
             lo == SubSeq(q, 1, k - 1)
             hi == SubSeq(q, k + 1, Len(q))
  <2>6. /\ r \in Seq(S)
        /\ Len(r) = Len(q) - 1
        /\ \A i \in 1..Len(r) : r[i] = IF i < k THEN q[i] ELSE q[i + 1]
    <3>0. \A i \in 1..Len(q) : q[i] \in S
      BY ElementOfSeq
    <3>1. /\ lo \in Seq(S) /\ Len(lo) = k - 1
          /\ \A i \in 1..(k - 1) : lo[i] = q[i]
      BY <3>0, SubSeqProperties
    <3>2. /\ hi \in Seq(S) /\ Len(hi) = Len(q) - k
          /\ \A i \in 1..(Len(q) - k) : hi[i] = q[k + i]
      BY <3>0, SubSeqProperties
    <3>3. r = lo \o hi
      BY DEF RemoveAt
    <3>4. /\ r \in Seq(S)
          /\ Len(r) = Len(q) - 1
          /\ \A i \in 1..Len(r) : r[i] = IF i <= k - 1 THEN lo[i] ELSE hi[i - (k - 1)]
      <4> HIDE DEF lo, hi, r
      <4>1. lo \in Seq(S) /\ hi \in Seq(S)
        BY <3>1, <3>2
      <4>2. /\ lo \o hi \in Seq(S)
            /\ Len(lo \o hi) = Len(lo) + Len(hi)
            /\ \A i \in 1..(Len(lo) + Len(hi)) :
                 (lo \o hi)[i] = IF i <= Len(lo) THEN lo[i] ELSE hi[i - Len(lo)]
        BY <4>1, ConcatProperties
      <4>3. Len(lo) = k - 1 /\ Len(hi) = Len(q) - k /\ Len(q) \in Nat
        BY <3>1, <3>2
      <4>4. Len(lo) + Len(hi) = Len(q) - 1
        BY <4>3
      <4> QED BY <3>3, <4>2, <4>3, <4>4
    <3> HIDE DEF lo, hi, r
    <3> QED BY <3>1, <3>2, <3>4
  <2> HIDE DEF r
  <2>7. IsInjective(r)
    <3>1. DOMAIN r = 1..(Len(q) - 1)
      BY <2>6
    <3>2. DOMAIN q = 1..Len(q)
      OBVIOUS
    <3> QED BY <2>6, <3>1, <3>2 DEF IsInjective
  <2>8. ToSet(r) = ToSet(q) \ {c}
    <3>1. ASSUME NEW x \in ToSet(r) PROVE x \in ToSet(q) \ {c}
      BY <2>1, <2>6 DEF ToSet, IsInjective
    <3>2. ASSUME NEW x \in ToSet(q) \ {c} PROVE x \in ToSet(r)
      <4>1. PICK i \in 1..Len(q) : q[i] = x /\ i # k
        BY <2>1 DEF ToSet
      <4>2. CASE i < k
        BY <2>6, <4>1, <4>2 DEF ToSet
      <4>3. CASE i > k
        <5>1. i - 1 \in 1..Len(r) /\ r[i - 1] = q[i]
          BY <2>6, <4>1, <4>3
        <5> QED BY <2>6, <4>1, <5>1 DEF ToSet
      <4> QED BY <4>1, <4>2, <4>3
    <3> QED BY <3>1, <3>2
  <2>9. ASSUME NEW d \in S \ {c}, NEW e \in S \ {c} PROVE Precedes(r, d, e) <=> Precedes(q, d, e)
    <3>1. ASSUME Precedes(r, d, e) PROVE Precedes(q, d, e)
      <4>1. PICK i \in 1..Len(r), j \in 1..Len(r) : i < j /\ r[i] = d /\ r[j] = e
        BY <3>1 DEF Precedes
      <4> DEFINE a == IF i < k THEN i ELSE i + 1
                 b == IF j < k THEN j ELSE j + 1
      <4>2. a \in 1..Len(q) /\ b \in 1..Len(q) /\ a < b
        BY <2>6, <4>1
      <4>3. q[a] = d /\ q[b] = e
        BY <2>6, <4>1
      <4> QED BY <4>2, <4>3 DEF Precedes
    <3>2. ASSUME Precedes(q, d, e) PROVE Precedes(r, d, e)
      <4>1. PICK i \in 1..Len(q), j \in 1..Len(q) : i < j /\ q[i] = d /\ q[j] = e
        BY <3>2 DEF Precedes
      <4>2. i # k /\ j # k
        BY <2>1, <4>1
      <4> DEFINE a == IF i < k THEN i ELSE i - 1
                 b == IF j < k THEN j ELSE j - 1
      <4>3. a \in 1..Len(r) /\ b \in 1..Len(r) /\ a < b
        BY <2>6, <4>1, <4>2
      <4>4. r[a] = q[i] /\ r[b] = q[j]
        BY <2>6, <4>2, <4>3
      <4> QED BY <4>1, <4>3, <4>4 DEF Precedes
    <3> QED BY <3>1, <3>2
  <2> QED BY <2>5, <2>6, <2>7, <2>8, <2>9 DEF r
<1> QED BY <1>1, <1>2

\* popleft repeated n times: what is left is in line, once, behind the popped.
LEMMA DropLemma ==
  ASSUME NEW S, NEW q \in Seq(S), IsInjective(q), NEW n \in 0..Len(q)
  PROVE  LET r == SubSeq(q, n + 1, Len(q))
         IN /\ r \in Seq(S)
            /\ IsInjective(r)
            /\ ToSet(r) = ToSet(q) \ { q[i] : i \in 1..n }
            /\ n = Len(q) => r = <<>>
            /\ \A d \in ToSet(r), e \in ToSet(r) : Precedes(r, d, e) <=> Precedes(q, d, e)
<1> DEFINE r == SubSeq(q, n + 1, Len(q))
<1>0. \A i \in 1..Len(q) : q[i] \in S
  BY ElementOfSeq
<1>1. /\ r \in Seq(S)
      /\ Len(r) = Len(q) - n
      /\ \A i \in 1..(Len(q) - n) : r[i] = q[n + i]
  BY <1>0, SubSeqProperties
<1> HIDE DEF r
<1>2. DOMAIN r = 1..(Len(q) - n) /\ DOMAIN q = 1..Len(q)
  BY <1>1
<1>3. IsInjective(r)
  <2> SUFFICES ASSUME NEW a \in 1..(Len(q) - n), NEW b \in 1..(Len(q) - n),
                      r[a] = r[b]
               PROVE  a = b
    BY <1>2 DEF IsInjective
  <2>1. n + a \in DOMAIN q /\ n + b \in DOMAIN q
    BY <1>2
  <2>2. q[n + a] = q[n + b]
    BY <1>1
  <2>3. n + a = n + b
    BY <2>1, <2>2 DEF IsInjective
  <2> QED BY <2>3
<1>4. ToSet(r) \subseteq ToSet(q) \ { q[i] : i \in 1..n }
  <2> SUFFICES ASSUME NEW x \in ToSet(r)
               PROVE  x \in ToSet(q) /\ \A i \in 1..n : q[i] # x
    OBVIOUS
  <2>1. PICK j \in 1..(Len(q) - n) : x = q[n + j]
    BY <1>1, <1>2 DEF ToSet
  <2>2. n + j \in 1..Len(q)
    OBVIOUS
  <2>3. \A i \in 1..n : q[i] # q[n + j]
    BY <1>2, <2>2 DEF IsInjective
  <2> QED BY <1>2, <2>1, <2>2, <2>3 DEF ToSet
<1>5. ToSet(q) \ { q[i] : i \in 1..n } \subseteq ToSet(r)
  <2> SUFFICES ASSUME NEW j \in 1..Len(q), q[j] \notin { q[i] : i \in 1..n }
               PROVE  q[j] \in ToSet(r)
    BY <1>2 DEF ToSet
  <2>1. j - n \in 1..(Len(q) - n) /\ n + (j - n) = j
    OBVIOUS
  <2>2. r[j - n] = q[j]
    BY <1>1, <2>1
  <2> QED BY <1>2, <2>1, <2>2 DEF ToSet
<1>6. n = Len(q) => r = <<>>
  BY <1>1
<1>7. ASSUME NEW d \in ToSet(r), NEW e \in ToSet(r) PROVE Precedes(r, d, e) <=> Precedes(q, d, e)
  <2>1. ASSUME Precedes(r, d, e) PROVE Precedes(q, d, e)
    <3>1. PICK i \in 1..(Len(q) - n), j \in 1..(Len(q) - n) : i < j /\ r[i] = d /\ r[j] = e
      BY <1>1, <2>1 DEF Precedes
    <3>2. n + i \in 1..Len(q) /\ n + j \in 1..Len(q) /\ n + i < n + j
      BY <3>1
    <3>3. q[n + i] = d /\ q[n + j] = e
      BY <1>1, <3>1
    <3> QED BY <3>2, <3>3 DEF Precedes
  <2>2. ASSUME Precedes(q, d, e) PROVE Precedes(r, d, e)
    <3>1. PICK i \in 1..Len(q), j \in 1..Len(q) : i < j /\ q[i] = d /\ q[j] = e
      BY <2>2 DEF Precedes
    <3>2. i \notin 1..n /\ j \notin 1..n
      BY <1>4, <3>1
    <3>3. /\ i - n \in 1..Len(r) /\ j - n \in 1..Len(r) /\ i - n < j - n
          /\ n + (i - n) = i /\ n + (j - n) = j
      BY <1>1, <3>1, <3>2
    <3>4. r[i - n] = d /\ r[j - n] = e
      BY <1>1, <3>1, <3>3
    <3> QED BY <3>3, <3>4 DEF Precedes
  <2> QED BY <2>1, <2>2
<1> QED BY <1>1, <1>3, <1>4, <1>5, <1>6, <1>7 DEF r

\* A client not yet in line joins it at the end.
LEMMA AppendLemma ==
  ASSUME NEW S, NEW q \in Seq(S), IsInjective(q), NEW c \in S, c \notin ToSet(q)
  PROVE  /\ Append(q, c) \in Seq(S)
         /\ IsInjective(Append(q, c))
         /\ ToSet(Append(q, c)) = ToSet(q) \cup {c}
         /\ \A d \in S, e \in S : Precedes(Append(q, c), d, e)
                                 <=> Precedes(q, d, e) \/ (d \in ToSet(q) /\ e = c)
<1> DEFINE r == Append(q, c)
<1>1. /\ r \in Seq(S)
      /\ Len(r) = Len(q) + 1
      /\ \A i \in 1..Len(q) : r[i] = q[i]
      /\ r[Len(q) + 1] = c
  BY AppendProperties
<1> HIDE DEF r
<1>2. DOMAIN r = 1..(Len(q) + 1) /\ DOMAIN q = 1..Len(q)
  BY <1>1
<1>3. \A i \in 1..Len(q) : q[i] # c
  BY <1>2 DEF ToSet
<1>4. IsInjective(r)
  BY <1>1, <1>2, <1>3 DEF IsInjective
<1>5. ToSet(r) = ToSet(q) \cup {c}
  <2>1. \A x \in ToSet(r) : x \in ToSet(q) \cup {c}
    BY <1>1, <1>2 DEF ToSet
  <2>2. \A x \in ToSet(q) : x \in ToSet(r)
    BY <1>1, <1>2 DEF ToSet
  <2>3. c \in ToSet(r)
    <3>1. Len(q) + 1 \in DOMAIN r
      BY <1>2
    <3> QED BY <1>1, <3>1 DEF ToSet
  <2> QED BY <2>1, <2>2, <2>3
<1>6. ASSUME NEW d \in S, NEW e \in S
      PROVE  Precedes(r, d, e) <=> Precedes(q, d, e) \/ (d \in ToSet(q) /\ e = c)
  <2>1. ASSUME Precedes(r, d, e) PROVE Precedes(q, d, e) \/ (d \in ToSet(q) /\ e = c)
    <3>1. PICK i \in 1..(Len(q) + 1), j \in 1..(Len(q) + 1) : i < j /\ r[i] = d /\ r[j] = e
      BY <1>1, <2>1 DEF Precedes
    <3>2. i \in 1..Len(q) /\ q[i] = d
      BY <1>1, <3>1
    <3>3. CASE j = Len(q) + 1
      BY <1>1, <1>2, <3>1, <3>2, <3>3 DEF ToSet
    <3>4. CASE j \in 1..Len(q)
      BY <1>1, <3>1, <3>2, <3>4 DEF Precedes
    <3> QED BY <3>3, <3>4
  <2>2. ASSUME Precedes(q, d, e) PROVE Precedes(r, d, e)
    BY <1>1, <2>2 DEF Precedes
  <2>3. ASSUME d \in ToSet(q), e = c PROVE Precedes(r, d, e)
    <3>1. PICK i \in 1..Len(q) : q[i] = d
      BY <1>2, <2>3 DEF ToSet
    <3>2. i \in 1..Len(r) /\ Len(q) + 1 \in 1..Len(r) /\ i < Len(q) + 1 /\ r[i] = d
      BY <1>1, <3>1
    <3> QED BY <1>1, <2>3, <3>2 DEF Precedes
  <2> QED BY <2>1, <2>2, <2>3
<1> QED BY <1>1, <1>4, <1>5, <1>6 DEF r

-----------------------------------------------------------------------------
\* What a locked block has established when it calls the dispatcher.
DispatchPre(u, q, gr, H, fut, sl) ==
  /\ u \in 0..MaxConnections
  /\ q \in Seq(Clients) /\ IsInjective(q)
  /\ gr \in SUBSET Clients /\ H \in SUBSET Clients
  /\ u = Cardinality(gr \cup H)
  /\ ToSet(q) \cap (gr \cup H) = {}
  /\ fut \in [Async -> FutureStates]
  /\ sl \in SUBSET Sync

\* What holds when the dispatcher is done.
DispatchPost(q, gr, H) ==
  /\ inUse' \in 0..MaxConnections
  /\ inUse' = Cardinality(granted' \cup H)
  /\ waiters' \in Seq(Clients)
  /\ IsInjective(waiters')
  /\ ToSet(waiters') \subseteq ToSet(q) \ granted'
  /\ waiters' # <<>> => inUse' = MaxConnections
  /\ granted' \subseteq gr \cup ToSet(q)
  /\ granted' \in SUBSET Clients
  /\ future' \in [Async -> FutureStates]
  /\ asleep' \in SUBSET Sync

(***************************************************************************)
(* The heart of the argument: whatever the locked block did before, if the *)
(* count u it hands to the dispatcher is exact (gr plus the holders H) and *)
(* the line q is clean, then so is what the dispatcher leaves, the bound   *)
(* is kept, and either the line is empty or the budget is used up.         *)
(***************************************************************************)
LEMMA DispatchLemma ==
  ASSUME NEW u, NEW q, NEW gr, NEW H, NEW fut, NEW sl,
         DispatchPre(u, q, gr, H, fut, sl),
         Dispatch(u, q, gr, fut, sl)
  PROVE  DispatchPost(q, gr, H)
<1> USE DEF DispatchPre
<1> DEFINE Popped(n) == { q[i] : i \in 1..n }
           Given(n)  == GrantableIn(q, n, fut)
<1>1. PICK n \in 0..Len(q) :
        /\ LoopExits(u, q, n, fut)
        /\ \A m \in 0..(n - 1) : ~LoopExits(u, q, m, fut)
        /\ inUse' = u + Cardinality(Given(n))
        /\ waiters' = SubSeq(q, n + 1, Len(q))
        /\ granted' = gr \cup Given(n)
        /\ future' = [c \in Async |-> IF c \in Popped(n) /\ Schedulable(c, fut)
                                      THEN "scheduled" ELSE fut[c]]
        /\ asleep' = IF Popped(n) \cap Sync # {} THEN {} ELSE sl
  BY DEF Dispatch, NotifyAll
<1>2. DOMAIN q = 1..Len(q) /\ Len(q) \in Nat /\ \A i \in 1..Len(q) : q[i] \in Clients
  BY ElementOfSeq
<1>3. \A m \in 0..Len(q) : /\ Popped(m) \subseteq ToSet(q)
                           /\ Given(m) \subseteq Popped(m)
                           /\ Given(m) \in SUBSET Clients
  BY <1>2 DEF ToSet, GrantableIn
<1>4. \A m \in 0..Len(q) : IsFiniteSet(Given(m)) /\ Cardinality(Given(m)) \in Nat
  BY <1>3, ClientSets
<1>5. u + Cardinality(Given(n)) <= MaxConnections
  <2>1. CASE n = 0
    <3>1. Given(0) = {}
      BY DEF GrantableIn
    <3>2. Cardinality(Given(n)) = 0
      BY <2>1, <3>1, FS_EmptySet
    <3> QED BY <3>2, MaxAssumption
  <2>2. CASE n # 0
    <3>1. n - 1 \in 0..(n - 1) /\ n - 1 \in 0..Len(q) /\ n \in 1..Len(q)
      BY <1>2, <2>2
    <3>2. ~(u + Cardinality(Given(n - 1)) >= MaxConnections)
      BY <1>1, <3>1 DEF LoopExits
    <3>3. Given(n) \subseteq Given(n - 1) \cup {q[n]}
      <4>1. 1..n = (1..(n - 1)) \cup {n}
        BY <3>1
      <4> QED BY <4>1 DEF GrantableIn
    <3>4. /\ IsFiniteSet(Given(n - 1) \cup {q[n]})
          /\ Cardinality(Given(n - 1) \cup {q[n]}) <= Cardinality(Given(n - 1)) + 1
      <4>1. IsFiniteSet(Given(n - 1)) /\ Cardinality(Given(n - 1)) \in Nat
        BY <1>4, <3>1
      <4> DEFINE G == Given(n - 1)
      <4> HIDE DEF G
      <4>2. IsFiniteSet(G) /\ Cardinality(G) \in Nat
        BY <4>1 DEF G
      <4>3. /\ IsFiniteSet(G \cup {q[n]})
            /\ Cardinality(G \cup {q[n]}) =
                 IF q[n] \in G THEN Cardinality(G) ELSE Cardinality(G) + 1
        BY <4>2, FS_AddElement
      <4>4. Cardinality(G \cup {q[n]}) <= Cardinality(G) + 1
        BY <4>2, <4>3
      <4> QED BY <4>3, <4>4 DEF G
    <3>5. Cardinality(Given(n)) <= Cardinality(Given(n - 1) \cup {q[n]})
      BY <3>3, <3>4, FS_Subset
    <3>6. /\ Cardinality(Given(n)) \in Nat
          /\ Cardinality(Given(n - 1)) \in Nat
          /\ Cardinality(Given(n - 1) \cup {q[n]}) \in Nat
      BY <1>4, <3>1, <3>4, FS_CardinalityType
    <3> HIDE DEF Given
    <3> QED BY <3>2, <3>4, <3>5, <3>6, MaxAssumption
  <2> QED BY <2>1, <2>2
<1>6. inUse' \in 0..MaxConnections
  <2> HIDE DEF Given
  <2> QED BY <1>1, <1>4, <1>5, MaxAssumption
<1>7. inUse' = Cardinality(granted' \cup H)
  <2>1. IsFiniteSet(gr \cup H) /\ IsFiniteSet(Given(n))
    BY <1>4, ClientSets
  <2>2. (gr \cup H) \cap Given(n) = {}
    BY <1>3
  <2>3. Cardinality((gr \cup H) \cup Given(n)) =
          Cardinality(gr \cup H) + Cardinality(Given(n)) - Cardinality({})
    BY <2>1, <2>2, FS_Union
  <2>4. granted' \cup H = (gr \cup H) \cup Given(n)
    BY <1>1
  <2>5. Cardinality(gr \cup H) \in Nat /\ Cardinality(Given(n)) \in Nat
    BY <1>4, ClientSets
  <2>6. Cardinality((gr \cup H) \cup Given(n)) = u + Cardinality(Given(n))
    <3> HIDE DEF Given
    <3>1. Cardinality({}) = 0
      BY FS_EmptySet
    <3> QED BY <2>3, <2>5, <3>1
  <2> QED BY <1>1, <2>4, <2>6
<1>8. /\ waiters' \in Seq(Clients)
      /\ IsInjective(waiters')
      /\ ToSet(waiters') = ToSet(q) \ Popped(n)
      /\ n = Len(q) => waiters' = <<>>
  BY <1>1, DropLemma
<1>9. ToSet(waiters') \subseteq ToSet(q) \ granted'
  BY <1>1, <1>3, <1>8
<1>10. waiters' # <<>> => inUse' = MaxConnections
  <2> HAVE waiters' # <<>>
  <2>1. u + Cardinality(Given(n)) >= MaxConnections
    BY <1>1, <1>8 DEF LoopExits
  <2>2. Cardinality(Given(n)) \in Nat
    BY <1>4
  <2>3. inUse' = u + Cardinality(Given(n))
    BY <1>1
  <2> HIDE DEF Given
  <2> QED BY <1>5, <2>1, <2>2, <2>3, MaxAssumption
<1>11. /\ granted' \subseteq gr \cup ToSet(q)
       /\ granted' \in SUBSET Clients
  BY <1>1, <1>3
<1>12. future' \in [Async -> FutureStates] /\ asleep' \in SUBSET Sync
  BY <1>1 DEF FutureStates
<1> QED BY <1>6, <1>7, <1>8, <1>9, <1>10, <1>11, <1>12 DEF DispatchPost

-----------------------------------------------------------------------------
(* The inductive invariant. *)

\* Nobody owns or waits for anything when the budget is created.
LEMMA InitIInv == Init => IInv
<1> SUFFICES ASSUME Init PROVE IInv
  OBVIOUS
<1>1. TypeOK
  BY MaxAssumption DEF Init, TypeOK, PcStates, FutureStates
<1>2. granted = {} /\ Holding = {} /\ Owners = {}
  BY DEF Init, Holding, Owners
<1>3. ExactAccounting
  BY <1>2, FS_EmptySet, MaxAssumption DEF Init, ExactAccounting
<1>4. NoIdleCapacity /\ GrantedIsInside
  BY DEF Init, NoIdleCapacity, GrantedIsInside
<1>5. QueueIsClean
  BY DEF Init, QueueIsClean, IsInjective, ToSet
<1> QED BY <1>1, <1>3, <1>4, <1>5 DEF IInv

\* Every raising exit keeps the books: the waiter's own slot, if it had one
\* reserved, is given back before the dispatcher runs.
LEMMA WithdrawIInv ==
  ASSUME IInv, NEW c \in Clients,
         pc[c] \in {"waiting", "resuming", "aborting"},
         Withdraw(c)
  PROVE  IInv'
<1> USE DEF IInv
<1> DEFINE u == CancelledCount(c)
           q == CancelledQueue(c)
           gr == granted \ {c}
           fut == SetFuture(c, "none")
<1>1. Dispatch(u, q, gr, fut, asleep \ {c})
  BY DEF Withdraw
<1>2. c \notin Holding /\ Holding \in SUBSET Clients
  BY DEF Holding
<1>3. Holding' = Holding
  BY <1>2 DEF Withdraw, Holding, TypeOK, PcStates
<1>4. gr \cup Holding = Owners \ {c}
  BY <1>2 DEF Owners
<1>5. Owners \in SUBSET Clients /\ IsFiniteSet(Owners) /\ Cardinality(Owners) \in Nat
  BY <1>2, ClientSets DEF Owners, TypeOK
<1>6. c \in granted <=> c \in Owners
  BY <1>2 DEF Owners
<1>7. u = Cardinality(gr \cup Holding)
  BY <1>4, <1>5, <1>6, FS_RemoveElement DEF CancelledCount, ExactAccounting, TypeOK
<1>8. u \in 0..MaxConnections
  <2>1. Cardinality(gr \cup Holding) \in Nat
    BY <1>2, ClientSets DEF TypeOK
  <2> QED BY <1>7, <2>1, MaxAssumption DEF CancelledCount, TypeOK
<1>9. q \in Seq(Clients) /\ IsInjective(q) /\ ToSet(q) = ToSet(waiters) \ {c}
  BY RemoveFirstLemma DEF CancelledQueue, TypeOK, QueueIsClean
<1>10. ToSet(q) \cap (gr \cup Holding) = {}
  BY <1>9 DEF QueueIsClean, Holding
<1>11. fut \in [Async -> FutureStates] /\ asleep \ {c} \in SUBSET Sync
         /\ gr \in SUBSET Clients
  BY DEF SetFuture, TypeOK, FutureStates
<1>12. DispatchPre(u, q, gr, Holding, fut, asleep \ {c})
  BY <1>2, <1>7, <1>8, <1>9, <1>10, <1>11 DEF DispatchPre
<1> HIDE DEF u, q, gr, fut
<1>13. DispatchPost(q, gr, Holding)
  BY <1>1, <1>12, DispatchLemma
<1>14. TypeOK'
  BY <1>13 DEF Withdraw, TypeOK, PcStates, DispatchPost
<1>15. GrantedIsInside' /\ QueueIsClean'
  <2>1. \A x \in gr \cup ToSet(q) :
           x # c /\ x \in Clients /\ pc[x] \in {"waiting", "resuming", "aborting", "dead"}
    <3>1. \A x \in ToSet(q) : x \in ToSet(waiters) /\ x # c
      BY <1>9
    <3>2. \A x \in ToSet(waiters) : x \in Clients
      BY ElementOfSeq DEF TypeOK, ToSet
    <3> QED BY <3>1, <3>2 DEF gr, QueueIsClean, GrantedIsInside, TypeOK
  <2>2. pc' = [pc EXCEPT ![c] = "idle"] /\ pc \in [Clients -> PcStates]
    BY DEF Withdraw, TypeOK
  <2>3. GrantedIsInside'
    BY <1>13, <2>1, <2>2 DEF GrantedIsInside, DispatchPost
  <2>4. \A x \in ToSet(q) : pc'[x] \in {"waiting", "aborting", "dead"}
    BY <1>9, <2>1, <2>2 DEF QueueIsClean
  <2> QED BY <1>13, <2>3, <2>4 DEF QueueIsClean, DispatchPost
<1>16. ExactAccounting'
  <2>1. granted' \cap Holding' = {}
    BY <1>10, <1>13, <1>3, <1>9 DEF ExactAccounting, gr, DispatchPost
  <2>2. Owners' = granted' \cup Holding
    BY <1>3 DEF Owners
  <2> QED BY <1>13, <2>1, <2>2, MaxAssumption DEF ExactAccounting, DispatchPost
<1> QED BY <1>13, <1>14, <1>15, <1>16 DEF NoIdleCapacity, DispatchPost

\* Facts about the sets of clients that every proof below needs.
LEMMA OwnerFacts ==
  ASSUME IInv
  PROVE  /\ Holding \in SUBSET Clients
         /\ Owners \in SUBSET Clients
         /\ IsFiniteSet(Owners)
         /\ inUse = Cardinality(Owners)
         /\ ToSet(waiters) \in SUBSET Clients
         /\ ToSet(waiters) \cap Owners = {}
<1> USE DEF IInv
<1>1. Holding \in SUBSET Clients /\ Owners \in SUBSET Clients
  BY DEF Holding, Owners, TypeOK
<1>2. ToSet(waiters) \in SUBSET Clients
  BY ElementOfSeq DEF TypeOK, ToSet
<1>3. ToSet(waiters) \cap Owners = {}
  BY DEF QueueIsClean, Owners, Holding
<1> QED BY <1>1, <1>2, <1>3, ClientSets DEF ExactAccounting

\* The slow path: a new waiter at the end of the line.
LEMMA AcquireSlowIInv ==
  ASSUME IInv, NEW c \in Clients, AcquireSlow(c)
  PROVE  IInv'
<1> USE DEF IInv
<1> DEFINE q == Append(waiters, c)
           fut == SetFuture(c, "pending")
           sl == asleep \cup ({c} \cap Sync)
<1>1. Dispatch(inUse, q, granted, fut, sl)
  BY DEF AcquireSlow
<1>2. c \notin ToSet(waiters) /\ c \notin granted /\ c \notin Holding
  BY DEF AcquireSlow, QueueIsClean, GrantedIsInside, Holding
<1>3. q \in Seq(Clients) /\ IsInjective(q) /\ ToSet(q) = ToSet(waiters) \cup {c}
  BY <1>2, AppendLemma DEF TypeOK, QueueIsClean
<1>4. fut \in [Async -> FutureStates] /\ sl \in SUBSET Sync
  BY DEF SetFuture, TypeOK, FutureStates
<1>5. DispatchPre(inUse, q, granted, Holding, fut, sl)
  BY <1>2, <1>3, <1>4, OwnerFacts DEF DispatchPre, Owners, TypeOK
<1> HIDE DEF q, fut, sl
<1>6. DispatchPost(q, granted, Holding)
  BY <1>1, <1>5, DispatchLemma
<1>7. /\ pc \in [Clients -> PcStates]
      /\ pc' = [pc EXCEPT ![c] = IF c \in Async /\ c \in granted'
                                 THEN "resuming" ELSE "waiting"]
      /\ closed' = closed /\ notified' = notified
  BY DEF AcquireSlow, TypeOK
<1>8. Holding' = Holding
  BY <1>2, <1>7 DEF Holding
<1>9. TypeOK'
  BY <1>6, <1>7 DEF TypeOK, PcStates, DispatchPost
<1>10. GrantedIsInside'
  BY <1>3, <1>6, <1>7, OwnerFacts DEF GrantedIsInside, QueueIsClean, DispatchPost, TypeOK
<1>11. QueueIsClean'
  BY <1>3, <1>6, <1>7, OwnerFacts DEF QueueIsClean, DispatchPost
<1>12. ExactAccounting'
  <2>1. granted' \cap Holding' = {}
    BY <1>2, <1>3, <1>6, <1>8, OwnerFacts DEF ExactAccounting, DispatchPost, Owners
  <2>2. Owners' = granted' \cup Holding
    BY <1>8 DEF Owners
  <2> QED BY <1>6, <2>1, <2>2, MaxAssumption DEF ExactAccounting, DispatchPost
<1> QED BY <1>6, <1>9, <1>10, <1>11, <1>12 DEF NoIdleCapacity, DispatchPost

\* release(): one holder fewer, then the dispatcher.
LEMMA ReleaseIInv ==
  ASSUME IInv, NEW c \in Clients, Release(c)
  PROVE  IInv'
<1> USE DEF IInv
<1> DEFINE H == Holding \ {c}
<1>1. Dispatch(inUse - 1, waiters, granted, future, asleep)
  BY DEF Release
<1>2. c \in Holding /\ c \notin granted
  BY DEF Release, Holding, GrantedIsInside
<1>3. granted \cup H = Owners \ {c}
  BY <1>2 DEF Owners
<1>4. inUse - 1 = Cardinality(granted \cup H)
  BY <1>2, <1>3, OwnerFacts, FS_RemoveElement DEF Owners
<1>5. inUse - 1 \in 0..MaxConnections
  BY MaxAssumption DEF Release, TypeOK
<1>6. DispatchPre(inUse - 1, waiters, granted, H, future, asleep)
  BY <1>4, <1>5, OwnerFacts DEF DispatchPre, TypeOK, QueueIsClean, Owners
<1> HIDE DEF H
<1>7. DispatchPost(waiters, granted, H)
  BY <1>1, <1>6, DispatchLemma
<1>8. /\ pc \in [Clients -> PcStates]
      /\ pc' = [pc EXCEPT ![c] = "idle"]
      /\ closed' = closed /\ notified' = notified
  BY DEF Release, TypeOK
<1>9. Holding' = H
  BY <1>8 DEF Holding, H
<1>10. TypeOK'
  BY <1>7, <1>8 DEF TypeOK, PcStates, DispatchPost
<1>11. GrantedIsInside'
  BY <1>2, <1>7, <1>8, OwnerFacts DEF GrantedIsInside, QueueIsClean, DispatchPost, Owners, TypeOK
<1>12. QueueIsClean'
  BY <1>2, <1>7, <1>8, OwnerFacts DEF QueueIsClean, DispatchPost, Owners
<1>13. ExactAccounting'
  <2>1. granted' \cap Holding' = {}
    BY <1>7, <1>9, OwnerFacts DEF ExactAccounting, DispatchPost, Owners, H
  <2>2. Owners' = granted' \cup H
    BY <1>9 DEF Owners
  <2> QED BY <1>7, <2>1, <2>2, MaxAssumption DEF ExactAccounting, DispatchPost
<1> QED BY <1>7, <1>10, <1>11, <1>12, <1>13 DEF NoIdleCapacity, DispatchPost

\* The fast path: one owner more, nobody in line.
LEMMA AcquireFastIInv ==
  ASSUME IInv, NEW c \in Clients, AcquireFast(c)
  PROVE  IInv'
<1> USE DEF IInv
<1>1. c \notin Owners
  BY DEF AcquireFast, Owners, Holding, GrantedIsInside
<1>2. /\ pc \in [Clients -> PcStates]
      /\ pc' = [pc EXCEPT ![c] = "holding"]
      /\ inUse' = inUse + 1 /\ inUse < MaxConnections
      /\ granted' = granted /\ waiters' = waiters /\ waiters = <<>>
  BY DEF AcquireFast, TypeOK
<1>3. Holding' = Holding \cup {c} /\ Owners' = Owners \cup {c}
  BY <1>2 DEF Holding, Owners
<1>4. inUse' = Cardinality(Owners')
  BY <1>1, <1>2, <1>3, OwnerFacts, FS_AddElement
<1>5. TypeOK'
  BY <1>2, MaxAssumption DEF AcquireFast, TypeOK, PcStates
<1>6. ExactAccounting'
  <2>1. granted' \cap Holding' = {}
    BY <1>1, <1>2, <1>3 DEF ExactAccounting, Owners
  <2> QED BY <1>4, <1>5, <2>1 DEF ExactAccounting, TypeOK
<1>7. NoIdleCapacity' /\ QueueIsClean'
  BY <1>2 DEF NoIdleCapacity, QueueIsClean, ToSet, IsInjective
<1>8. GrantedIsInside'
  BY <1>1, <1>2 DEF GrantedIsInside, Owners, TypeOK
<1> QED BY <1>5, <1>6, <1>7, <1>8

\* A successful return: the reservation becomes the caller's.
LEMMA ReturnIInv ==
  ASSUME IInv, NEW c \in granted,
         pc' = [pc EXCEPT ![c] = "holding"],
         granted' = granted \ {c},
         UNCHANGED <<inUse, waiters, closed, notified>>,
         future' \in [Async -> FutureStates],
         asleep' \in SUBSET Sync
  PROVE  IInv'
<1> USE DEF IInv
<1>1. c \in Clients /\ pc \in [Clients -> PcStates]
  BY DEF TypeOK
<1>2. Holding' = Holding \cup {c}
  BY <1>1 DEF Holding
<1>3. Owners' = Owners
  BY <1>2 DEF Owners
<1>4. TypeOK'
  BY DEF TypeOK, PcStates
<1>5. ExactAccounting'
  BY <1>2, <1>3 DEF ExactAccounting
<1>6. QueueIsClean'
  BY <1>1, OwnerFacts DEF QueueIsClean, Owners
<1>7. NoIdleCapacity' /\ GrantedIsInside'
  BY <1>1 DEF NoIdleCapacity, GrantedIsInside, TypeOK
<1> QED BY <1>4, <1>5, <1>6, <1>7

\* Steps outside the lock move one client between two inside states (or none)
\* and touch neither the count nor the line.
LEMMA QuietIInv ==
  ASSUME IInv, TypeOK',
         UNCHANGED <<inUse, waiters, granted>>,
         \A c \in Clients : \/ pc'[c] = pc[c]
                            \/ /\ pc[c] \in {"waiting", "aborting"}
                               /\ pc'[c] \in {"aborting", "dead"}
  PROVE  IInv'
<1> USE DEF IInv
<1>1. Holding' = Holding /\ Owners' = Owners
  BY DEF Holding, Owners
<1>2. ExactAccounting' /\ NoIdleCapacity'
  BY <1>1 DEF ExactAccounting, NoIdleCapacity
<1>3. QueueIsClean'
  BY OwnerFacts DEF QueueIsClean
<1>4. GrantedIsInside'
  BY DEF GrantedIsInside, TypeOK
<1> QED BY <1>2, <1>3, <1>4

\* Every action preserves the inductive invariant.
LEMMA NextIInv == IInv /\ [Next]_vars => IInv'
<1> SUFFICES ASSUME IInv, [Next]_vars PROVE IInv'
  OBVIOUS
<1>0. TypeOK
  BY DEF IInv
<1>1. ASSUME NEW c \in Clients, AcquireFast(c) \/ AcquireSlow(c) \/ Release(c)
      PROVE  IInv'
  BY <1>1, AcquireFastIInv, AcquireSlowIInv, ReleaseIInv
<1>2. ASSUME NEW t \in Sync, SyncStep(t) PROVE IInv'
  <2>0. t \in Clients
    BY DEF Clients
  <2>1. CASE SyncReturn(t)
    BY <1>0, <2>1, ReturnIInv DEF SyncReturn, TypeOK
  <2>2. CASE SyncClosed(t) \/ SyncTimeout(t) \/ SyncInterrupt(t)
    BY <2>0, <2>2, WithdrawIInv DEF SyncClosed, SyncTimeout, SyncInterrupt
  <2>3. CASE SyncWaitAgain(t)
    <3>1. TypeOK'
      BY <1>0, <2>3 DEF SyncWaitAgain, TypeOK
    <3> QED BY <2>3, <3>1, QuietIInv DEF SyncWaitAgain
  <2> QED BY <1>2, <2>1, <2>2, <2>3 DEF SyncStep
<1>3. ASSUME NEW c \in Async, AsyncStep(c) PROVE IInv'
  <2>0. c \in Clients
    BY DEF Clients
  <2>1. CASE ResolveWaiter(c)
    <3>1. TypeOK'
      BY <1>0, <2>1 DEF ResolveWaiter, TypeOK, SetFuture, FutureStates
    <3> QED BY <2>1, <3>1, QuietIInv DEF ResolveWaiter
  <2>2. CASE AsyncReturn(c)
    <3>1. future' \in [Async -> FutureStates] /\ asleep' \in SUBSET Sync
      BY <1>0, <2>2 DEF AsyncReturn, TypeOK, SetFuture, FutureStates
    <3> QED BY <2>2, <3>1, ReturnIInv DEF AsyncReturn
  <2>3. CASE AsyncRaise(c)
    BY <2>0, <2>3, WithdrawIInv DEF AsyncRaise, PastAwait
  <2>4. CASE AsyncAbort(c)
    <3>1. TypeOK'
      BY <1>0, <2>4 DEF AsyncAbort, TypeOK, SetFuture, FutureStates, PcStates
    <3> QED BY <1>0, <2>0, <2>4, <3>1, QuietIInv DEF AsyncAbort, TypeOK
  <2>5. CASE AsyncAbortHandler(c)
    BY <2>0, <2>5, WithdrawIInv DEF AsyncAbortHandler
  <2>6. CASE LoopClose(c)
    <3>1. TypeOK'
      BY <1>0, <2>6 DEF LoopClose, TypeOK, PcStates
    <3> QED BY <1>0, <2>0, <2>6, <3>1, QuietIInv DEF LoopClose, TypeOK
  <2> QED BY <1>3, <2>1, <2>2, <2>3, <2>4, <2>5, <2>6 DEF AsyncStep
<1>4. ASSUME NEW p \in Pools, ClosePool(p) \/ NotifyWaiters(p) PROVE IInv'
  <2>1. TypeOK'
    BY <1>0, <1>4 DEF ClosePool, NotifyWaiters, TypeOK, FutureStates
  <2> QED BY <1>4, <2>1, QuietIInv DEF ClosePool, NotifyWaiters
<1>5. CASE UNCHANGED vars
  <2>1. TypeOK'
    BY <1>0, <1>5 DEF vars, TypeOK
  <2> QED BY <1>5, <2>1, QuietIInv DEF vars
<1> QED BY <1>1, <1>2, <1>3, <1>4, <1>5 DEF Next

\* The inductive invariant holds in every reachable state.
THEOREM BudgetInvariant == Spec => []IInv
<1> QED BY InitIInv, NextIInv, PTL DEF Spec

\* Type correctness of the budget.
THEOREM TypeCorrect == Spec => []TypeOK
<1>1. IInv => TypeOK
  BY DEF IInv
<1> QED BY <1>1, BudgetInvariant, PTL

\* _in_use equals the number of slots held or reserved and never exceeds the
\* configured maximum, for any number of threads, tasks and pools.
THEOREM AccountingCorrect == Spec => []ExactAccounting
<1>1. IInv => ExactAccounting
  BY DEF IInv
<1> QED BY <1>1, BudgetInvariant, PTL

\* A slot is never free while a client stands in the deque.
THEOREM WorkConserving == Spec => []NoIdleCapacity
<1>1. IInv => NoIdleCapacity
  BY DEF IInv
<1> QED BY <1>1, BudgetInvariant, PTL

\* The deque never holds a stale or duplicate record.
THEOREM QueueCorrect == Spec => []QueueIsClean
<1>1. IInv => QueueIsClean
  BY DEF IInv
<1> QED BY <1>1, BudgetInvariant, PTL

-----------------------------------------------------------------------------
(* Wake-ups *)

\* What keeps a client inside acquire on its way out: it is in line, or it has
\* a slot or a closed pool; a task is told only in the latter cases, and told
\* it is once it need not wait any longer.
WakeupOf(c) ==
  /\ pc[c] = "waiting" =>
       /\ c \in ToSet(waiters) \/ c \in granted \/ Cancelled(c)
       /\ c \in Async => future[c] # "none"
       /\ c \in Async /\ future[c] \in {"scheduled", "done"} => c \in granted \/ Cancelled(c)
       /\ c \in granted \/ PoolOf[c] \in notified \/ c \notin ToSet(waiters) =>
            IF c \in Sync THEN c \notin asleep ELSE future[c] \in {"scheduled", "done"}
  /\ pc[c] = "resuming" => c \in granted

WakeInv == \A c \in Clients : WakeupOf(c)

\* One run of the dispatcher, as the waiters see it: P is what it pops.
DispatchPops(P, q, gr, fut, sl) ==
  /\ ToSet(waiters') = ToSet(q) \ P
  /\ granted' = gr \cup { c \in P : Grantable(c, fut) }
  /\ future' = [c \in Async |-> IF c \in P /\ Schedulable(c, fut) THEN "scheduled" ELSE fut[c]]
  /\ asleep' = IF P \cap Sync # {} THEN {} ELSE sl

\* Every run of the dispatcher has that form.
LEMMA DispatchWakes ==
  ASSUME NEW u, NEW q \in Seq(Clients), IsInjective(q), NEW gr, NEW fut, NEW sl,
         Dispatch(u, q, gr, fut, sl)
  PROVE  \E P \in SUBSET ToSet(q) : DispatchPops(P, q, gr, fut, sl)
<1>1. PICK n \in 0..Len(q) :
        /\ waiters' = SubSeq(q, n + 1, Len(q))
        /\ granted' = gr \cup GrantableIn(q, n, fut)
        /\ future' = [c \in Async |-> IF c \in { q[i] : i \in 1..n } /\ Schedulable(c, fut)
                                      THEN "scheduled" ELSE fut[c]]
        /\ asleep' = NotifyAll({ q[i] : i \in 1..n }, sl)
  BY DEF Dispatch
<1> DEFINE P == { q[i] : i \in 1..n }
<1>2. P \in SUBSET ToSet(q)
  BY DEF ToSet
<1>3. ToSet(waiters') = ToSet(q) \ P
  BY <1>1, DropLemma
<1> QED BY <1>1, <1>2, <1>3 DEF GrantableIn, NotifyAll, DispatchPops

\* The dispatcher keeps what it is handed: a client that is waiting and whose
\* state is in order, with the line q, the grants gr, the futures fut and the
\* sleepers sl of the calling block, is in order when the block ends.
LEMMA DispatchKeeps ==
  ASSUME IInv, NEW u, NEW q \in Seq(Clients), IsInjective(q), NEW gr,
         NEW fut \in [Async -> FutureStates], NEW sl,
         Dispatch(u, q, gr, fut, sl), UNCHANGED <<closed, notified>>,
         NEW c \in Clients, pc[c] # "dead",
         c \in ToSet(q) \/ c \in gr \/ Cancelled(c),
         c \in Async => fut[c] # "none",
         c \in Async /\ fut[c] \in {"scheduled", "done"} => c \in gr \/ Cancelled(c),
         c \in gr \/ PoolOf[c] \in notified \/ c \notin ToSet(q) =>
           IF c \in Sync THEN c \notin sl ELSE fut[c] \in {"scheduled", "done"}
  PROVE  /\ c \in ToSet(waiters') \/ c \in granted' \/ Cancelled(c)'
         /\ c \in Async => future'[c] # "none"
         /\ c \in Async /\ future'[c] \in {"scheduled", "done"} => c \in granted' \/ Cancelled(c)'
         /\ c \in granted' \/ PoolOf[c] \in notified' \/ c \notin ToSet(waiters') =>
              IF c \in Sync THEN c \notin asleep' ELSE future'[c] \in {"scheduled", "done"}
<1>0. PICK P \in SUBSET ToSet(q) : DispatchPops(P, q, gr, fut, sl)
  BY DispatchWakes
<1>1. /\ ToSet(waiters') = ToSet(q) \ P
      /\ granted' = gr \cup { x \in P : Grantable(x, fut) }
      /\ future' = [x \in Async |-> IF x \in P /\ Schedulable(x, fut)
                                    THEN "scheduled" ELSE fut[x]]
      /\ asleep' = IF P \cap Sync # {} THEN {} ELSE sl
  BY <1>0 DEF DispatchPops
<1>2. Cancelled(c)' <=> Cancelled(c)
  BY DEF Cancelled
<1>3. CASE c \in Sync
  <2>1. c \notin Async
    BY <1>3, ClientsAssumption
  <2>2. Grantable(c, fut) <=> ~Cancelled(c)
    BY <2>1 DEF Grantable
  <2> QED BY <1>1, <1>2, <1>3, <2>1, <2>2
<1>4. CASE c \in Async
  <2>1. c \notin Sync
    BY <1>4, ClientsAssumption
  <2>2. Schedulable(c, fut) <=> fut[c] \in {"pending", "scheduled"}
    BY DEF Schedulable
  <2>3. Grantable(c, fut) <=> ~Cancelled(c) /\ fut[c] \in {"pending", "scheduled"}
    BY <1>4, <2>2 DEF Grantable
  <2>4. fut[c] \in {"pending", "scheduled", "done"}
    BY <1>4 DEF FutureStates
  <2>5. future'[c] = IF c \in P /\ fut[c] \in {"pending", "scheduled"} THEN "scheduled" ELSE fut[c]
    BY <1>1, <1>4, <2>2
  <2> QED BY <1>1, <1>2, <1>4, <2>1, <2>3, <2>4, <2>5
<1> QED BY <1>3, <1>4 DEF Clients


\* A raising exit leaves the wake-ups of the others in order.
LEMMA WithdrawWakes ==
  ASSUME IInv, WakeInv, NEW c \in Clients, Withdraw(c)
  PROVE  WakeInv'
<1> DEFINE q == CancelledQueue(c)
           fut == SetFuture(c, "none")
<1>1. /\ Dispatch(CancelledCount(c), q, granted \ {c}, fut, asleep \ {c})
      /\ pc' = [pc EXCEPT ![c] = "idle"] /\ pc \in [Clients -> PcStates]
      /\ UNCHANGED <<closed, notified>>
  BY DEF Withdraw, IInv, TypeOK
<1>2. q \in Seq(Clients) /\ IsInjective(q) /\ ToSet(q) = ToSet(waiters) \ {c}
  BY RemoveFirstLemma DEF CancelledQueue, IInv, TypeOK, QueueIsClean
<1>3. /\ fut \in [Async -> FutureStates]
      /\ \A x \in Async : x # c => fut[x] = future[x]
  BY DEF SetFuture, IInv, TypeOK, FutureStates
<1> HIDE DEF q, fut
<1>4. ASSUME NEW x \in Clients PROVE WakeupOf(x)'
  <2>0. WakeupOf(x)
    BY DEF WakeInv
  <2>1. CASE x = c
    BY <1>1, <2>1 DEF WakeupOf
  <2>2. CASE x # c /\ pc[x] = "waiting"
    <3>1. x \in Async => fut[x] = future[x]
      BY <1>3, <2>2
    <3>2. /\ x \in ToSet(q) \/ x \in granted \ {c} \/ Cancelled(x)
          /\ x \in Async => fut[x] # "none"
          /\ x \in Async /\ fut[x] \in {"scheduled", "done"} => x \in granted \ {c} \/ Cancelled(x)
          /\ x \in granted \ {c} \/ PoolOf[x] \in notified \/ x \notin ToSet(q) =>
               IF x \in Sync THEN x \notin asleep \ {c} ELSE fut[x] \in {"scheduled", "done"}
      BY <1>2, <2>0, <2>2, <3>1 DEF WakeupOf, Clients
    <3>3. pc'[x] = "waiting"
      BY <1>1, <2>2
    <3> QED BY <1>1, <1>2, <1>3, <2>2, <3>2, <3>3, DispatchKeeps DEF WakeupOf
  <2>3. CASE x # c /\ pc[x] # "waiting"
    <3>1. pc'[x] = pc[x]
      BY <1>1, <2>3
    <3>2. granted \ {c} \subseteq granted'
      BY <1>1 DEF Dispatch
    <3> QED BY <2>0, <2>3, <3>1, <3>2 DEF WakeupOf
  <2> QED BY <2>1, <2>2, <2>3
<1> QED BY <1>4 DEF WakeInv

\* A release wakes whom it serves.
LEMMA ReleaseWakes ==
  ASSUME IInv, WakeInv, NEW c \in Clients, Release(c)
  PROVE  WakeInv'
<1>1. /\ Dispatch(inUse - 1, waiters, granted, future, asleep)
      /\ pc' = [pc EXCEPT ![c] = "idle"] /\ pc \in [Clients -> PcStates]
      /\ UNCHANGED <<closed, notified>>
      /\ waiters \in Seq(Clients) /\ IsInjective(waiters)
      /\ future \in [Async -> FutureStates]
  BY DEF Release, IInv, TypeOK, QueueIsClean
<1>2. ASSUME NEW x \in Clients PROVE WakeupOf(x)'
  <2>0. WakeupOf(x)
    BY DEF WakeInv
  <2>1. CASE x = c
    BY <1>1, <2>1 DEF WakeupOf
  <2>2. CASE x # c /\ pc[x] = "waiting"
    <3>1. pc'[x] = "waiting"
      BY <1>1, <2>2
    <3> QED BY <1>1, <2>0, <2>2, <3>1, DispatchKeeps DEF WakeupOf
  <2>3. CASE x # c /\ pc[x] # "waiting"
    <3>1. pc'[x] = pc[x] /\ granted \subseteq granted'
      BY <1>1, <2>3 DEF Dispatch
    <3> QED BY <2>0, <2>3, <3>1 DEF WakeupOf
  <2> QED BY <2>1, <2>2, <2>3
<1> QED BY <1>2 DEF WakeInv

\* A newcomer at the end of the line is in order too: a task that is served at
\* once does not wait, a thread that is served at once does not sleep.
LEMMA AcquireSlowWakes ==
  ASSUME IInv, WakeInv, NEW c \in Clients, AcquireSlow(c)
  PROVE  WakeInv'
<1> DEFINE q == Append(waiters, c)
           fut == SetFuture(c, "pending")
           sl == asleep \cup ({c} \cap Sync)
<1>1. /\ Dispatch(inUse, q, granted, fut, sl)
      /\ pc' = [pc EXCEPT ![c] = IF c \in Async /\ c \in granted' THEN "resuming" ELSE "waiting"]
      /\ pc \in [Clients -> PcStates] /\ pc[c] = "idle"
      /\ ~Cancelled(c)
      /\ UNCHANGED <<closed, notified>>
  BY DEF AcquireSlow, IInv, TypeOK
<1>2. c \notin ToSet(waiters) /\ c \notin granted
  BY DEF AcquireSlow, IInv, QueueIsClean, GrantedIsInside
<1>3. q \in Seq(Clients) /\ IsInjective(q) /\ ToSet(q) = ToSet(waiters) \cup {c}
  BY <1>2, AppendLemma DEF IInv, TypeOK, QueueIsClean
<1>4. /\ fut \in [Async -> FutureStates]
      /\ \A x \in Async : fut[x] = IF x = c THEN "pending" ELSE future[x]
  BY DEF SetFuture, IInv, TypeOK, FutureStates
<1>5. PoolOf[c] \notin notified
  BY <1>1 DEF Cancelled, IInv, TypeOK
<1>6. \A x : x # c => (x \in sl <=> x \in asleep)
  OBVIOUS
<1> HIDE DEF q, fut, sl
<1>7. ASSUME NEW x \in Clients PROVE WakeupOf(x)'
  <2>0. WakeupOf(x)
    BY DEF WakeInv
  <2>1. CASE x = c
    <3>1. c \in Async => fut[c] = "pending"
      BY <1>4
    <3>2. pc[c] # "dead"
      BY <1>1
    <3>3. /\ c \in ToSet(waiters') \/ c \in granted' \/ Cancelled(c)'
          /\ c \in Async => future'[c] # "none"
          /\ c \in Async /\ future'[c] \in {"scheduled", "done"} => c \in granted' \/ Cancelled(c)'
          /\ c \in granted' \/ PoolOf[c] \in notified' \/ c \notin ToSet(waiters') =>
               IF c \in Sync THEN c \notin asleep' ELSE future'[c] \in {"scheduled", "done"}
      BY <1>1, <1>2, <1>3, <1>4, <1>5, <3>1, <3>2, DispatchKeeps
    <3>4. pc'[c] = IF c \in Async /\ c \in granted' THEN "resuming" ELSE "waiting"
      BY <1>1
    <3> QED BY <2>1, <3>3, <3>4 DEF WakeupOf
  <2>2. CASE x # c /\ pc[x] = "waiting"
    <3>1. x \in Async => fut[x] = future[x]
      BY <1>4, <2>2
    <3>2. /\ x \in ToSet(q) \/ x \in granted \/ Cancelled(x)
          /\ x \in Async => fut[x] # "none"
          /\ x \in Async /\ fut[x] \in {"scheduled", "done"} => x \in granted \/ Cancelled(x)
          /\ x \in granted \/ PoolOf[x] \in notified \/ x \notin ToSet(q) =>
               IF x \in Sync THEN x \notin sl ELSE fut[x] \in {"scheduled", "done"}
      BY <1>3, <1>6, <2>0, <2>2, <3>1 DEF WakeupOf, Clients
    <3>3. pc'[x] = "waiting"
      BY <1>1, <2>2
    <3> QED BY <1>1, <1>3, <1>4, <2>2, <3>2, <3>3, DispatchKeeps DEF WakeupOf
  <2>3. CASE x # c /\ pc[x] # "waiting"
    <3>1. pc'[x] = pc[x] /\ granted \subseteq granted'
      BY <1>1, <2>3 DEF Dispatch
    <3> QED BY <2>0, <2>3, <3>1 DEF WakeupOf
  <2> QED BY <2>1, <2>2, <2>3
<1> QED BY <1>7 DEF WakeInv

\* Every action keeps the wake-ups in order.
LEMMA NextWakes == IInv /\ WakeInv /\ [Next]_vars => WakeInv'
<1> SUFFICES ASSUME IInv, WakeInv, [Next]_vars PROVE WakeInv'
  OBVIOUS
<1>0. TypeOK /\ QueueIsClean /\ Sync \cap Async = {}
  BY ClientsAssumption DEF IInv
<1>1. ASSUME NEW c \in Clients, AcquireFast(c) PROVE WakeInv'
  BY <1>0, <1>1 DEF AcquireFast, WakeInv, WakeupOf, Cancelled, TypeOK
<1>2. ASSUME NEW c \in Clients, AcquireSlow(c) \/ Release(c) PROVE WakeInv'
  BY <1>2, AcquireSlowWakes, ReleaseWakes
<1>3. ASSUME NEW t \in Sync, SyncStep(t) PROVE WakeInv'
  <2>0. t \in Clients /\ t \notin Async
    BY <1>0 DEF Clients
  <2>1. CASE SyncReturn(t)
    BY <1>0, <2>0, <2>1 DEF SyncReturn, WakeInv, WakeupOf, Cancelled, TypeOK
  <2>2. CASE SyncClosed(t) \/ SyncTimeout(t) \/ SyncInterrupt(t)
    BY <2>0, <2>2, WithdrawWakes DEF SyncClosed, SyncTimeout, SyncInterrupt
  <2>3. CASE SyncWaitAgain(t)
    <3>1. t \in ToSet(waiters) /\ t \notin granted /\ PoolOf[t] \notin notified
      BY <1>0, <2>0, <2>3 DEF SyncWaitAgain, WakeInv, WakeupOf, Cancelled, TypeOK
    <3> QED BY <2>3, <3>1 DEF SyncWaitAgain, WakeInv, WakeupOf, Cancelled
  <2> QED BY <1>3, <2>1, <2>2, <2>3 DEF SyncStep
<1>4. ASSUME NEW c \in Async, AsyncStep(c) PROVE WakeInv'
  <2>0. c \in Clients /\ c \notin Sync
    BY <1>0 DEF Clients
  <2>1. CASE ResolveWaiter(c)
    BY <1>0, <2>0, <2>1 DEF ResolveWaiter, WakeInv, WakeupOf, Cancelled, TypeOK, SetFuture, Clients
  <2>2. CASE AsyncReturn(c)
    BY <1>0, <2>0, <2>2 DEF AsyncReturn, WakeInv, WakeupOf, Cancelled, TypeOK, SetFuture, Clients
  <2>3. CASE AsyncRaise(c) \/ AsyncAbortHandler(c)
    BY <2>0, <2>3, WithdrawWakes DEF AsyncRaise, AsyncAbortHandler
  <2>4. CASE AsyncAbort(c)
    BY <1>0, <2>0, <2>4 DEF AsyncAbort, WakeInv, WakeupOf, Cancelled, TypeOK, SetFuture, Clients
  <2>5. CASE LoopClose(c)
    BY <1>0, <2>0, <2>5 DEF LoopClose, WakeInv, WakeupOf, Cancelled, TypeOK
  <2> QED BY <1>4, <2>1, <2>2, <2>3, <2>4, <2>5 DEF AsyncStep
<1>5. ASSUME NEW p \in Pools, ClosePool(p) PROVE WakeInv'
  BY <1>0, <1>5 DEF ClosePool, WakeInv, WakeupOf, Cancelled, TypeOK
<1>6. ASSUME NEW p \in Pools, NotifyWaiters(p) PROVE WakeInv'
  <2>1. \A c \in Async :
          future'[c] = IF c \in ClosedTasks /\ Schedulable(c, future) THEN "scheduled" ELSE future[c]
    BY <1>6 DEF NotifyWaiters
  <2>2. UNCHANGED <<pc, waiters, granted, closed>> /\ asleep' = {}
        /\ notified' = notified \cup {p} /\ p \in closed
    BY <1>6 DEF NotifyWaiters
  <2>3. ASSUME NEW c \in Clients PROVE WakeupOf(c)'
    <3>0. WakeupOf(c)
      BY DEF WakeInv
    <3>1. CASE c \in Sync
      BY <1>0, <2>2, <3>0, <3>1 DEF WakeupOf, Cancelled
    <3>2. CASE c \in Async
      <4>1. c \notin Sync /\ future[c] \in FutureStates
        BY <1>0, <3>2 DEF TypeOK
      <4>2. CASE pc[c] = "waiting"
        <5>1. Schedulable(c, future) <=> future[c] \in {"pending", "scheduled"}
          BY <4>2 DEF Schedulable
        <5>2. c \in ClosedTasks <=> c \in ToSet(waiters) /\ Cancelled(c)
          BY <3>2 DEF ClosedTasks
        <5>3. PoolOf[c] \in notified' => Cancelled(c)
          BY <1>0, <2>2 DEF Cancelled, TypeOK
        <5> QED BY <2>1, <2>2, <3>0, <3>2, <4>1, <4>2, <5>1, <5>2, <5>3
                DEF WakeupOf, Cancelled, FutureStates
      <4>3. CASE pc[c] # "waiting"
        BY <2>2, <3>0, <4>3 DEF WakeupOf
      <4> QED BY <4>2, <4>3
    <3> QED BY <3>1, <3>2 DEF Clients
  <2> QED BY <2>3 DEF WakeInv
<1>7. CASE UNCHANGED vars
  BY <1>7 DEF vars, WakeInv, WakeupOf, Cancelled
<1> QED BY <1>1, <1>2, <1>3, <1>4, <1>5, <1>6, <1>7 DEF Next

\* A waiter with a slot, with a closed pool or out of the line is awake or has
\* its future on the way, and no task gets past its await without a slot or a
\* closed pool: the RuntimeError of acquire_async is unreachable.
THEOREM NoWakeupLost == Spec => []NoLostWakeup
<1>1. Init => WakeInv
  BY DEF Init, WakeInv, WakeupOf
<1>2. IInv /\ WakeInv => NoLostWakeup
  <2> SUFFICES ASSUME IInv, WakeInv PROVE NoLostWakeup
    OBVIOUS
  <2>1. ASSUME NEW c \in Async, PastAwait(c) PROVE c \in granted \/ Cancelled(c)
    BY <2>1 DEF PastAwait, WakeInv, WakeupOf, Clients
  <2> QED BY <2>1 DEF NoLostWakeup, WakeInv, WakeupOf
<1> QED BY <1>1, <1>2, InitIInv, NextIInv, NextWakes, PTL DEF Spec

-----------------------------------------------------------------------------
(* The budget implements FairSemaphore. *)

\* The line a block hands to the dispatcher, as FairSemaphore sees it.
LiveIn(q, fut) == { c \in ToSet(q) : Grantable(c, fut) }
AheadIn(q, fut, c) == { d \in LiveIn(q, fut) : Precedes(q, d, c) }
ServedIn(u, q, fut) ==
  { c \in LiveIn(q, fut) : u + Cardinality(AheadIn(q, fut, c)) < MaxConnections }

\* The dispatcher serves exactly those that have fewer before them than there
\* are slots, and leaves the others in their order.
LEMMA DispatchServes ==
  ASSUME NEW u \in Nat, NEW q \in Seq(Clients), IsInjective(q), NEW gr, NEW fut, NEW sl,
         Dispatch(u, q, gr, fut, sl)
  PROVE  /\ granted' = gr \cup ServedIn(u, q, fut)
         /\ LiveIn(waiters', fut) = LiveIn(q, fut) \ ServedIn(u, q, fut)
         /\ ToSet(waiters') \subseteq ToSet(q)
         /\ \A d, c \in ToSet(waiters') : Precedes(waiters', d, c) <=> Precedes(q, d, c)
         /\ \A c \in ToSet(waiters') \cap Async : future'[c] = fut[c]
<1>1. PICK n \in 0..Len(q) :
        /\ LoopExits(u, q, n, fut)
        /\ \A m \in 0..(n - 1) : ~LoopExits(u, q, m, fut)
        /\ waiters' = SubSeq(q, n + 1, Len(q))
        /\ granted' = gr \cup GrantableIn(q, n, fut)
        /\ future' = [c \in Async |-> IF c \in { q[i] : i \in 1..n } /\ Schedulable(c, fut)
                                      THEN "scheduled" ELSE fut[c]]
  BY DEF Dispatch
<1>2. /\ ToSet(waiters') = ToSet(q) \ { q[i] : i \in 1..n }
      /\ \A d, c \in ToSet(waiters') : Precedes(waiters', d, c) <=> Precedes(q, d, c)
  BY <1>1, DropLemma
<1>3. /\ DOMAIN q = 1..Len(q) /\ Len(q) \in Nat
      /\ \A i \in 1..Len(q) : q[i] \in Clients
      /\ \A i, j \in 1..Len(q) : q[i] = q[j] => i = j
  BY ElementOfSeq DEF IsInjective
<1>4. ASSUME NEW i \in 1..Len(q) PROVE AheadIn(q, fut, q[i]) = GrantableIn(q, i - 1, fut)
  <2>1. ASSUME NEW d \in AheadIn(q, fut, q[i]) PROVE d \in GrantableIn(q, i - 1, fut)
    <3>1. PICK a \in 1..Len(q), b \in 1..Len(q) : a < b /\ q[a] = d /\ q[b] = q[i]
      BY <2>1 DEF AheadIn, Precedes
    <3>2. a \in 1..(i - 1)
      BY <1>3, <3>1
    <3> QED BY <2>1, <3>1, <3>2 DEF AheadIn, LiveIn, GrantableIn
  <2>2. ASSUME NEW d \in GrantableIn(q, i - 1, fut) PROVE d \in AheadIn(q, fut, q[i])
    <3>1. PICK a \in 1..(i - 1) : q[a] = d
      BY <2>2 DEF GrantableIn
    <3>2. a \in 1..Len(q) /\ a < i
      BY <1>3
    <3>3. Precedes(q, d, q[i]) /\ d \in ToSet(q)
      BY <1>3, <3>1, <3>2 DEF Precedes, ToSet
    <3> QED BY <2>2, <3>3 DEF AheadIn, LiveIn, GrantableIn
  <2> QED BY <2>1, <2>2
<1>5. ASSUME NEW m \in 0..Len(q)
      PROVE  /\ GrantableIn(q, m, fut) \in SUBSET Clients
             /\ IsFiniteSet(GrantableIn(q, m, fut)) /\ Cardinality(GrantableIn(q, m, fut)) \in Nat
  <2>1. GrantableIn(q, m, fut) \in SUBSET Clients
    BY <1>3 DEF GrantableIn
  <2> QED BY <2>1, ClientSets
<1>6. ASSUME NEW i \in 1..Len(q)
      PROVE  i <= n <=> u + Cardinality(AheadIn(q, fut, q[i])) < MaxConnections
  <2>1. CASE i <= n
    <3>1. i - 1 \in 0..(n - 1) /\ i - 1 \in 0..Len(q)
      BY <1>3, <2>1
    <3>2. ~LoopExits(u, q, i - 1, fut)
      BY <1>1, <3>1
    <3>3. Cardinality(GrantableIn(q, i - 1, fut)) \in Nat
      BY <1>5, <3>1
    <3> QED BY <1>4, <2>1, <3>2, <3>3, MaxAssumption DEF LoopExits
  <2>2. CASE i > n
    <3>0. Len(q) \in Nat
      OBVIOUS
    <3>1. n # Len(q) /\ i - 1 \in 0..Len(q)
      BY <2>2, <3>0
    <3>2. u + Cardinality(GrantableIn(q, n, fut)) >= MaxConnections
      BY <1>1, <3>1 DEF LoopExits
    <3>3. GrantableIn(q, n, fut) \subseteq GrantableIn(q, i - 1, fut)
      BY <2>2 DEF GrantableIn
    <3>4. Cardinality(GrantableIn(q, n, fut)) <= Cardinality(GrantableIn(q, i - 1, fut))
      BY <1>5, <3>1, <3>3, FS_Subset
    <3>5. Cardinality(GrantableIn(q, n, fut)) \in Nat /\ Cardinality(GrantableIn(q, i - 1, fut)) \in Nat
      BY <1>5, <3>1
    <3> QED BY <1>4, <2>2, <3>2, <3>4, <3>5, MaxAssumption
  <2> QED BY <2>1, <2>2
<1>7. GrantableIn(q, n, fut) = ServedIn(u, q, fut)
  <2>1. ASSUME NEW c \in GrantableIn(q, n, fut) PROVE c \in ServedIn(u, q, fut)
    <3>1. PICK i \in 1..n : q[i] = c
      BY <2>1 DEF GrantableIn
    <3>2. i \in 1..Len(q) /\ i <= n
      BY <1>3
    <3>3. c \in LiveIn(q, fut)
      BY <1>3, <2>1, <3>1, <3>2 DEF GrantableIn, LiveIn, ToSet
    <3> QED BY <1>6, <3>1, <3>2, <3>3 DEF ServedIn
  <2>2. ASSUME NEW c \in ServedIn(u, q, fut) PROVE c \in GrantableIn(q, n, fut)
    <3>1. c \in LiveIn(q, fut) /\ u + Cardinality(AheadIn(q, fut, c)) < MaxConnections
      BY <2>2 DEF ServedIn
    <3>2. PICK i \in 1..Len(q) : q[i] = c
      BY <1>3, <3>1 DEF LiveIn, ToSet
    <3>3. i \in 1..n
      BY <1>3, <1>6, <3>1, <3>2
    <3> QED BY <3>1, <3>2, <3>3 DEF GrantableIn, LiveIn
  <2> QED BY <2>1, <2>2
<1>8. LiveIn(waiters', fut) = LiveIn(q, fut) \ ServedIn(u, q, fut)
  <2>1. LiveIn(q, fut) \ GrantableIn(q, n, fut) = { c \in ToSet(q) \ { q[i] : i \in 1..n } : Grantable(c, fut) }
    BY DEF LiveIn, GrantableIn
  <2> QED BY <1>2, <1>7, <2>1 DEF LiveIn
<1>9. \A c \in ToSet(waiters') \cap Async : future'[c] = fut[c]
  BY <1>1, <1>2
<1> QED BY <1>1, <1>2, <1>7, <1>8, <1>9

\* The size of a set is the same to both modules.
LEMMA SameSize == ASSUME NEW S PROVE Semaphore!Cardinality(S) = Cardinality(S)
BY DEF Semaphore!Cardinality, Cardinality

\* The semaphore's step for a block that dispatches: `leaving' and `arriving'
\* are who has gone from and come to the line it hands over.
LEMMA ServeStep ==
  ASSUME NEW leaving \in SUBSET (Owners \cup LiveWaiters),
         NEW arriving \in { {} } \cup { {c} : c \in Clients \ (Owners \cup LiveWaiters) },
         NEW u \in Nat, NEW q \in Seq(Clients), IsInjective(q), NEW gr, NEW fut, NEW sl,
         Dispatch(u, q, gr, fut, sl), closed' = closed,
         u = Cardinality(Owners \ leaving), gr \cup Holding' = Owners \ leaving,
         LiveIn(q, fut) = (LiveWaiters \ leaving) \cup arriving,
         \A c \in LiveIn(q, fut), d \in LiveIn(q, fut) :
           Precedes(q, d, c) <=> d \notin arriving /\ (c \in arriving \/ Precedes(waiters, d, c)),
         \A c \in ToSet(waiters') : pc'[c] = "dead" <=> pc[c] = "dead"
  PROVE  Semaphore!SemNext
<1> DEFINE kept == Owners \ leaving
           stayed == LiveWaiters \ leaving
           line == [c \in stayed \cup arriving |->
                      IF c \in arriving THEN stayed ELSE Ahead[c] \ leaving]
           served == ServedIn(u, q, fut)
<1>1. /\ granted' = gr \cup served
      /\ LiveIn(waiters', fut) = LiveIn(q, fut) \ served
      /\ ToSet(waiters') \subseteq ToSet(q)
      /\ \A d, c \in ToSet(waiters') : Precedes(waiters', d, c) <=> Precedes(q, d, c)
      /\ \A c \in ToSet(waiters') \cap Async : future'[c] = fut[c]
  <2>1. /\ u \in Nat /\ q \in Seq(Clients) /\ IsInjective(q)
        /\ Dispatch(u, q, gr, fut, sl)
    OBVIOUS
  <2> QED BY ONLY <2>1, DispatchServes DEF served
<1> HIDE DEF served
<1>2. arriving \cap LiveWaiters = {}
  OBVIOUS
<1>3. \A c \in LiveIn(q, fut) : AheadIn(q, fut, c) = line[c]
  <2> SUFFICES ASSUME NEW c \in LiveIn(q, fut) PROVE AheadIn(q, fut, c) = line[c]
    OBVIOUS
  <2>1. CASE c \in arriving
    BY <1>2, <2>1 DEF AheadIn
  <2>2. CASE c \notin arriving
    <3>1. c \in LiveWaiters /\ Ahead[c] = { d \in LiveWaiters : Precedes(waiters, d, c) }
      BY <2>2 DEF Ahead
    <3> QED BY <1>2, <2>2, <3>1 DEF AheadIn
  <2> QED BY <2>1, <2>2
<1>4. served = { c \in DOMAIN line : Cardinality(kept) + Cardinality(line[c]) < MaxConnections }
  BY <1>3 DEF served, ServedIn
<1>5. Owners' = kept \cup served
  BY <1>1 DEF Owners
<1>6. LiveWaiters' = LiveIn(waiters', fut)
  <2>1. ASSUME NEW c \in ToSet(waiters') PROVE Grantable(c, future)' <=> Grantable(c, fut)
    BY <1>1, <2>1 DEF Grantable, Cancelled, Schedulable
  <2> QED BY <2>1 DEF LiveWaiters, LiveIn
<1>7. LiveWaiters' = DOMAIN line \ served
  BY <1>1, <1>6
<1>8. Ahead' = [c \in DOMAIN line \ served |-> line[c] \ served]
  <2>1. Ahead' = [c \in LiveWaiters' |-> { d \in LiveWaiters' : Precedes(waiters', d, c) }]
    BY DEF Ahead
  <2>2. ASSUME NEW c \in LiveWaiters'
        PROVE  { d \in LiveWaiters' : Precedes(waiters', d, c) } = line[c] \ served
    <3>1. c \in ToSet(waiters') /\ c \in LiveIn(q, fut)
      BY <1>1, <1>6, <2>2 DEF LiveIn
    <3>2. \A d \in LiveWaiters' : d \in ToSet(waiters') /\ (Precedes(waiters', d, c) <=> Precedes(q, d, c))
      BY <1>1, <1>6, <3>1 DEF LiveIn
    <3>3. line[c] = { d \in LiveIn(q, fut) : Precedes(q, d, c) }
      BY <1>3, <3>1 DEF AheadIn
    <3> HIDE DEF line
    <3> QED BY <1>1, <1>6, <3>2, <3>3
  <2> HIDE DEF line
  <2> QED BY <1>7, <2>1, <2>2
<1>9. DOMAIN Ahead = LiveWaiters
  BY DEF Ahead
<1>10. served = { c \in DOMAIN line :
                     Semaphore!Cardinality(kept) + Semaphore!Cardinality(line[c]) < MaxConnections }
  <2>1. \A S : Semaphore!Cardinality(S) = Cardinality(S)
    BY SameSize
  <2> HIDE DEF line, kept
  <2> QED BY <1>4, <2>1, Zenon
<1>11. Semaphore!Serve(leaving, arriving)
  BY <1>5, <1>8, <1>9, <1>10 DEF Semaphore!Serve, Semaphore!Waiting
<1> HIDE DEF kept, stayed, line, served
<1> QED BY <1>9, <1>11 DEF Semaphore!SemNext, Semaphore!Waiting, Semaphore!Newcomers

\* A raising exit: the waiter gives up its slot or its place.
LEMMA WithdrawServes ==
  ASSUME IInv, NEW c \in Clients, pc[c] \in {"waiting", "resuming", "aborting"}, Withdraw(c)
  PROVE  Semaphore!SemNext
<1> DEFINE u == CancelledCount(c)
           q == CancelledQueue(c)
           gr == granted \ {c}
           fut == SetFuture(c, "none")
           leaving == {c} \cap (Owners \cup LiveWaiters)
<1>1. /\ Dispatch(u, q, gr, fut, asleep \ {c}) /\ closed' = closed
      /\ pc' = [pc EXCEPT ![c] = "idle"] /\ pc \in [Clients -> PcStates]
  BY DEF Withdraw, IInv, TypeOK
<1>2. /\ q \in Seq(Clients) /\ IsInjective(q) /\ ToSet(q) = ToSet(waiters) \ {c}
      /\ \A d \in Clients \ {c}, e \in Clients \ {c} : Precedes(q, d, e) <=> Precedes(waiters, d, e)
  BY RemoveFirstLemma DEF CancelledQueue, IInv, TypeOK, QueueIsClean
<1>3. c \notin Holding /\ Holding' = Holding
  BY <1>1 DEF Holding
<1>4. Owners \ leaving = Owners \ {c} /\ LiveWaiters \ leaving = LiveWaiters \ {c}
  OBVIOUS
<1>5. gr \cup Holding' = Owners \ leaving
  BY <1>3, <1>4 DEF Owners
<1>6. u \in Nat /\ u = Cardinality(Owners \ leaving)
  <2>1. c \in granted <=> c \in Owners
    BY <1>3 DEF Owners
  <2>2. Cardinality(Owners \ {c}) = IF c \in Owners THEN Cardinality(Owners) - 1 ELSE Cardinality(Owners)
    BY OwnerFacts, FS_RemoveElement
  <2>3. Cardinality(Owners \ {c}) \in Nat
    BY OwnerFacts, ClientSets
  <2> QED BY <1>4, <2>1, <2>2, <2>3, OwnerFacts DEF CancelledCount
<1>7. LiveIn(q, fut) = LiveWaiters \ {c}
  <2>1. ASSUME NEW d \in ToSet(waiters) \ {c} PROVE Grantable(d, fut) <=> Grantable(d, future)
    BY DEF Grantable, Schedulable, SetFuture
  <2> HIDE DEF q, fut
  <2> QED BY <1>2, <2>1 DEF LiveIn, LiveWaiters
<1>8. \A d \in LiveIn(q, fut) : d \in Clients \ {c}
  BY <1>7, OwnerFacts DEF LiveWaiters
<1>9. \A d \in ToSet(waiters') : pc'[d] = "dead" <=> pc[d] = "dead"
  <2>1. PICK P \in SUBSET ToSet(q) : DispatchPops(P, q, gr, fut, asleep \ {c})
    BY <1>1, <1>2, DispatchWakes
  <2>2. \A d \in ToSet(waiters') : d # c /\ d \in Clients
    BY <1>2, <2>1, OwnerFacts DEF DispatchPops
  <2> QED BY <1>1, <2>2
<1> HIDE DEF u, q, gr, fut
<1>10. leaving \in SUBSET (Owners \cup LiveWaiters)
  OBVIOUS
<1>11. LiveIn(q, fut) = (LiveWaiters \ leaving) \cup {}
  BY <1>4, <1>7
<1>12. \A e \in LiveIn(q, fut), d \in LiveIn(q, fut) :
         Precedes(q, d, e) <=> d \notin {} /\ (e \in {} \/ Precedes(waiters, d, e))
  BY <1>2, <1>8
<1>13. {} \in { {} } \cup { {d} : d \in Clients \ (Owners \cup LiveWaiters) }
  OBVIOUS
<1> HIDE DEF leaving
<1>14. Dispatch(u, q, gr, fut, asleep \ {c}) /\ closed' = closed
  BY <1>1
<1>15. q \in Seq(Clients) /\ IsInjective(q)
  BY <1>2
<1> QED BY ONLY <1>5, <1>6, <1>9, <1>10, <1>11, <1>12, <1>13, <1>14, <1>15, ServeStep, Zenon

\* A release: the holder gives its slot back.
LEMMA ReleaseServes ==
  ASSUME IInv, NEW c \in Clients, Release(c)
  PROVE  Semaphore!SemNext
<1>1. /\ Dispatch(inUse - 1, waiters, granted, future, asleep) /\ closed' = closed
      /\ pc' = [pc EXCEPT ![c] = "idle"] /\ pc \in [Clients -> PcStates] /\ pc[c] = "holding"
      /\ waiters \in Seq(Clients) /\ IsInjective(waiters)
  BY DEF Release, IInv, TypeOK, QueueIsClean
<1>2. c \in Holding /\ c \notin granted /\ Holding' = Holding \ {c} /\ c \in Owners
  BY <1>1 DEF Holding, IInv, GrantedIsInside, Owners
<1>3. granted \cup Holding' = Owners \ {c}
  BY <1>2 DEF Owners
<1>4. inUse - 1 \in Nat /\ inUse - 1 = Cardinality(Owners \ {c})
  <2>1. Cardinality(Owners \ {c}) = Cardinality(Owners) - 1
    BY <1>2, OwnerFacts, FS_RemoveElement
  <2>2. Cardinality(Owners \ {c}) \in Nat
    BY OwnerFacts, ClientSets
  <2> QED BY <2>1, <2>2, OwnerFacts
<1>5. LiveIn(waiters, future) = (LiveWaiters \ {c}) \cup {}
  <2>1. c \notin ToSet(waiters)
    BY <1>2, OwnerFacts
  <2> QED BY <2>1 DEF LiveIn, LiveWaiters
<1>6. \A d \in ToSet(waiters') : pc'[d] = "dead" <=> pc[d] = "dead"
  <2>1. PICK P \in SUBSET ToSet(waiters) : DispatchPops(P, waiters, granted, future, asleep)
    BY <1>1, DispatchWakes
  <2>2. \A d \in ToSet(waiters') : d # c /\ d \in Clients
    BY <1>2, <2>1, OwnerFacts DEF DispatchPops
  <2> QED BY <1>1, <2>2
<1>7. {c} \in SUBSET (Owners \cup LiveWaiters)
  BY <1>2
<1>8. \A e \in LiveIn(waiters, future), d \in LiveIn(waiters, future) :
         Precedes(waiters, d, e) <=> d \notin {} /\ (e \in {} \/ Precedes(waiters, d, e))
  OBVIOUS
<1>9. {} \in { {} } \cup { {d} : d \in Clients \ (Owners \cup LiveWaiters) }
  OBVIOUS
<1> QED BY <1>1, <1>3, <1>4, <1>5, <1>6, <1>7, <1>8, <1>9, ServeStep, Zenon

\* The slow path: a newcomer behind all the others.
LEMMA AcquireSlowServes ==
  ASSUME IInv, NEW c \in Clients, AcquireSlow(c)
  PROVE  Semaphore!SemNext
<1> DEFINE q == Append(waiters, c)
           fut == SetFuture(c, "pending")
           sl == asleep \cup ({c} \cap Sync)
<1>1. /\ Dispatch(inUse, q, granted, fut, sl) /\ closed' = closed /\ ~Cancelled(c)
      /\ pc' = [pc EXCEPT ![c] = IF c \in Async /\ c \in granted' THEN "resuming" ELSE "waiting"]
      /\ pc \in [Clients -> PcStates] /\ pc[c] = "idle" /\ inUse \in Nat
  BY MaxAssumption DEF AcquireSlow, IInv, TypeOK
<1>2. c \notin ToSet(waiters) /\ c \notin Owners /\ Holding' = Holding
  BY <1>1 DEF IInv, QueueIsClean, GrantedIsInside, Owners, Holding
<1>3. /\ q \in Seq(Clients) /\ IsInjective(q) /\ ToSet(q) = ToSet(waiters) \cup {c}
      /\ \A d \in Clients, e \in Clients :
           Precedes(q, d, e) <=> Precedes(waiters, d, e) \/ (d \in ToSet(waiters) /\ e = c)
  BY <1>2, AppendLemma DEF IInv, TypeOK, QueueIsClean
<1>4. LiveIn(q, fut) = LiveWaiters \cup {c}
  <2>1. ASSUME NEW d \in ToSet(waiters) PROVE Grantable(d, fut) <=> Grantable(d, future)
    BY <1>2 DEF Grantable, Schedulable, SetFuture
  <2>2. Grantable(c, fut)
    BY <1>1 DEF Grantable, Schedulable, SetFuture
  <2> HIDE DEF q, fut
  <2> QED BY <1>3, <2>1, <2>2 DEF LiveIn, LiveWaiters
<1>5. ASSUME NEW e \in LiveIn(q, fut), NEW d \in LiveIn(q, fut)
      PROVE  Precedes(q, d, e) <=> d \notin {c} /\ (e \in {c} \/ Precedes(waiters, d, e))
  <2>1. d \in Clients /\ e \in Clients /\ (d # c => d \in ToSet(waiters))
    BY <1>4, OwnerFacts DEF LiveWaiters
  <2>2. ~Precedes(waiters, c, e)
    BY <1>2 DEF Precedes, ToSet, IInv, TypeOK
  <2> HIDE DEF q
  <2> QED BY <1>2, <1>3, <2>1, <2>2
<1>6. \A d \in ToSet(waiters') : pc'[d] = "dead" <=> pc[d] = "dead"
  <2>1. PICK P \in SUBSET ToSet(q) : DispatchPops(P, q, granted, fut, sl)
    BY <1>1, <1>3, DispatchWakes
  <2>2. \A d \in ToSet(waiters') : d \in Clients
    BY <1>3, <2>1, OwnerFacts DEF DispatchPops
  <2> QED BY <1>1, <2>2
<1> HIDE DEF q, fut, sl
<1>7. {c} \in { {} } \cup { {d} : d \in Clients \ (Owners \cup LiveWaiters) }
  BY <1>2 DEF LiveWaiters
<1>8. granted \cup Holding' = Owners \ {} /\ inUse = Cardinality(Owners \ {})
  BY <1>2, OwnerFacts DEF Owners
<1>9. LiveIn(q, fut) = (LiveWaiters \ {}) \cup {c}
  BY <1>4
<1> QED BY <1>1, <1>3, <1>5, <1>6, <1>7, <1>8, <1>9, ServeStep

\* The fast path: a newcomer is served at once, since nobody is in line.
LEMMA AcquireFastServes ==
  ASSUME IInv, NEW c \in Clients, AcquireFast(c)
  PROVE  Semaphore!SemNext
<1>1. /\ pc' = [pc EXCEPT ![c] = "holding"] /\ pc \in [Clients -> PcStates] /\ pc[c] = "idle"
      /\ inUse < MaxConnections /\ waiters = <<>> /\ waiters' = <<>> /\ granted' = granted
  BY DEF AcquireFast, IInv, TypeOK
<1>2. LiveWaiters = {} /\ LiveWaiters' = {}
  BY <1>1 DEF LiveWaiters, ToSet
<1>3. c \notin Owners /\ Owners' = Owners \cup {c}
  BY <1>1 DEF Owners, Holding, IInv, GrantedIsInside
<1>4. DOMAIN Ahead = {} /\ Ahead' = [d \in {} |-> {}]
  BY <1>2 DEF Ahead
<1>5. Semaphore!Cardinality(Owners) = inUse /\ Semaphore!Cardinality({}) = 0
  BY SameSize, OwnerFacts, FS_EmptySet
<1> DEFINE line == [d \in {c} |-> {}]
           served == { d \in DOMAIN line :
                         Semaphore!Cardinality(Owners \ {}) + Semaphore!Cardinality(line[d]) < MaxConnections }
<1>6. served = {c}
  <2>1. Owners \ {} = Owners /\ inUse + 0 < MaxConnections
    BY <1>1, MaxAssumption DEF IInv, TypeOK
  <2> QED BY <1>5, <2>1
<1>7. Semaphore!Serve({}, {c})
  <2>1. line = [d \in (DOMAIN Ahead \ {}) \cup {c} |->
                  IF d \in {c} THEN DOMAIN Ahead \ {} ELSE Ahead[d] \ {}]
    BY <1>4
  <2>2. Owners' = (Owners \ {}) \cup served
    BY <1>3, <1>6
  <2>3. Ahead' = [d \in DOMAIN line \ served |-> line[d] \ served]
    <3> HIDE DEF served
    <3> QED BY <1>4, <1>6
  <2> HIDE DEF line
  <2> QED BY <2>1, <2>2, <2>3 DEF Semaphore!Serve, Semaphore!Waiting
<1> QED BY <1>3, <1>4, <1>7 DEF Semaphore!SemNext, Semaphore!Waiting, Semaphore!Newcomers

\* Steps outside the dispatcher: nobody gains or loses a slot, and a waiter may
\* only stop being one the dispatcher would serve.  Nobody is served by that,
\* since there is a line only when all slots are out.
LEMMA QuietServes ==
  ASSUME IInv, Owners' = Owners, waiters' = waiters, LiveWaiters' \subseteq LiveWaiters
  PROVE  [Semaphore!SemNext]_Semaphore!semVars
<1>1. CASE waiters = <<>>
  <2>1. LiveWaiters = {} /\ LiveWaiters' = {}
    BY <1>1 DEF LiveWaiters, ToSet
  <2>2. Ahead' = Ahead
    BY <2>1 DEF Ahead
  <2> QED BY <2>2 DEF Semaphore!semVars
<1>2. CASE waiters # <<>>
  <2> DEFINE leaving == LiveWaiters \ LiveWaiters'
             line == [c \in LiveWaiters' |-> Ahead[c] \ leaving]
             served == { c \in DOMAIN line :
                           Semaphore!Cardinality(Owners) + Semaphore!Cardinality(line[c]) < MaxConnections }
  <2>1. DOMAIN Ahead = LiveWaiters /\ Owners \ leaving = Owners /\ LiveWaiters \ leaving = LiveWaiters'
    BY OwnerFacts DEF Ahead, LiveWaiters
  <2>2. \A c \in LiveWaiters' : line[c] = { d \in LiveWaiters' : Precedes(waiters', d, c) }
    BY DEF Ahead
  <2>3. Ahead' = [c \in LiveWaiters' |-> { d \in LiveWaiters' : Precedes(waiters', d, c) }]
    BY DEF Ahead
  <2>4. served = {}
    <3>1. Semaphore!Cardinality(Owners) = MaxConnections
      BY <1>2, SameSize, OwnerFacts DEF IInv, NoIdleCapacity
    <3>2. ASSUME NEW c \in LiveWaiters' PROVE Semaphore!Cardinality(line[c]) \in Nat
      <4>1. line[c] \in SUBSET Clients
        BY <2>2, OwnerFacts DEF LiveWaiters
      <4> HIDE DEF line
      <4> QED BY <4>1, ClientSets, SameSize
    <3>3. DOMAIN line = LiveWaiters'
      OBVIOUS
    <3> HIDE DEF line
    <3> QED BY <3>1, <3>2, <3>3, MaxAssumption
  <2>5. Semaphore!Serve(leaving, {})
    <3>1. line = [c \in (DOMAIN Ahead \ leaving) \cup {} |->
                    IF c \in {} THEN DOMAIN Ahead \ leaving ELSE Ahead[c] \ leaving]
      BY <2>1
    <3>2. Owners' = (Owners \ leaving) \cup served
      BY <2>1, <2>4
    <3>3. Ahead' = [c \in DOMAIN line \ served |-> line[c] \ served]
      <4>1. DOMAIN line = LiveWaiters'
        OBVIOUS
      <4> HIDE DEF line, served
      <4> QED BY <2>2, <2>3, <2>4, <4>1
    <3> HIDE DEF line, leaving
    <3> QED BY <2>1, <3>1, <3>2, <3>3 DEF Semaphore!Serve, Semaphore!Waiting
  <2> HIDE DEF line, served
  <2>6. leaving \in SUBSET (Owners \cup LiveWaiters)
    OBVIOUS
  <2> QED BY <2>1, <2>5, <2>6 DEF Semaphore!SemNext, Semaphore!Waiting
<1> QED BY <1>1, <1>2

\* Every step of the budget is a step of the semaphore or leaves it alone.
LEMMA NextServes == IInv /\ [Next]_vars => [Semaphore!SemNext]_Semaphore!semVars
<1> SUFFICES ASSUME IInv, [Next]_vars PROVE [Semaphore!SemNext]_Semaphore!semVars
  OBVIOUS
<1>0. pc \in [Clients -> PcStates] /\ future \in [Async -> FutureStates] /\ granted \subseteq Clients
  BY DEF IInv, TypeOK
<1>1. ASSUME NEW c \in Clients, AcquireFast(c) \/ AcquireSlow(c) \/ Release(c)
      PROVE  Semaphore!SemNext
  BY <1>1, AcquireFastServes, AcquireSlowServes, ReleaseServes
<1>2. ASSUME NEW t \in Sync, SyncStep(t) PROVE [Semaphore!SemNext]_Semaphore!semVars
  <2>0. t \in Clients
    BY DEF Clients
  <2>1. CASE SyncReturn(t)
    <3>1. Owners' = Owners
      BY <1>0, <2>0, <2>1 DEF SyncReturn, Owners, Holding
    <3>2. LiveWaiters' \subseteq LiveWaiters
      BY <1>0, <2>0, <2>1 DEF SyncReturn, LiveWaiters, Grantable, Schedulable, Cancelled
    <3> QED BY <2>1, <3>1, <3>2, QuietServes DEF SyncReturn
  <2>2. CASE SyncClosed(t) \/ SyncTimeout(t) \/ SyncInterrupt(t)
    BY <2>0, <2>2, WithdrawServes DEF SyncClosed, SyncTimeout, SyncInterrupt
  <2>3. CASE SyncWaitAgain(t)
    <3>1. Owners' = Owners /\ LiveWaiters' = LiveWaiters
      BY <2>3 DEF SyncWaitAgain, Owners, Holding, LiveWaiters, Grantable, Schedulable, Cancelled
    <3> QED BY <2>3, <3>1, QuietServes DEF SyncWaitAgain
  <2> QED BY <1>2, <2>1, <2>2, <2>3 DEF SyncStep
<1>3. ASSUME NEW c \in Async, AsyncStep(c) PROVE [Semaphore!SemNext]_Semaphore!semVars
  <2>0. c \in Clients
    BY DEF Clients
  <2>1. CASE ResolveWaiter(c)
    <3>1. Owners' = Owners
      BY <2>1 DEF ResolveWaiter, Owners, Holding
    <3>2. LiveWaiters' \subseteq LiveWaiters
      BY <2>1 DEF ResolveWaiter, LiveWaiters, Grantable, Schedulable, Cancelled, SetFuture
    <3> QED BY <2>1, <3>1, <3>2, QuietServes DEF ResolveWaiter
  <2>2. CASE AsyncReturn(c)
    <3>1. Owners' = Owners
      BY <1>0, <2>0, <2>2 DEF AsyncReturn, Owners, Holding
    <3>2. c \notin ToSet(waiters)
      BY <2>2 DEF AsyncReturn, IInv, QueueIsClean
    <3>3. LiveWaiters' \subseteq LiveWaiters
      BY <1>0, <2>0, <2>2, <3>2, OwnerFacts
         DEF AsyncReturn, LiveWaiters, Grantable, Schedulable, Cancelled, SetFuture
    <3> QED BY <2>2, <3>1, <3>3, QuietServes DEF AsyncReturn
  <2>3. CASE AsyncRaise(c) \/ AsyncAbortHandler(c)
    BY <2>0, <2>3, WithdrawServes DEF AsyncRaise, AsyncAbortHandler, PastAwait
  <2>4. CASE AsyncAbort(c)
    <3>1. Owners' = Owners
      BY <1>0, <2>0, <2>4 DEF AsyncAbort, Owners, Holding
    <3>2. LiveWaiters' \subseteq LiveWaiters
      BY <1>0, <2>0, <2>4, OwnerFacts
         DEF AsyncAbort, LiveWaiters, Grantable, Schedulable, Cancelled, SetFuture
    <3> QED BY <2>4, <3>1, <3>2, QuietServes DEF AsyncAbort
  <2>5. CASE LoopClose(c)
    <3>1. Owners' = Owners
      BY <1>0, <2>0, <2>5 DEF LoopClose, Owners, Holding
    <3>2. LiveWaiters' \subseteq LiveWaiters
      BY <1>0, <2>0, <2>5, OwnerFacts DEF LoopClose, LiveWaiters, Grantable, Schedulable, Cancelled
    <3> QED BY <2>5, <3>1, <3>2, QuietServes DEF LoopClose
  <2> QED BY <1>3, <2>1, <2>2, <2>3, <2>4, <2>5 DEF AsyncStep
<1>4. ASSUME NEW p \in Pools, ClosePool(p) \/ NotifyWaiters(p)
      PROVE  [Semaphore!SemNext]_Semaphore!semVars
  <2>1. CASE ClosePool(p)
    <3>1. Owners' = Owners
      BY <2>1 DEF ClosePool, Owners, Holding
    <3>2. LiveWaiters' \subseteq LiveWaiters
      BY <2>1 DEF ClosePool, LiveWaiters, Grantable, Schedulable, Cancelled
    <3> QED BY <2>1, <3>1, <3>2, QuietServes DEF ClosePool
  <2>2. CASE NotifyWaiters(p)
    <3>1. Owners' = Owners
      BY <2>2 DEF NotifyWaiters, Owners, Holding
    <3>2. LiveWaiters' \subseteq LiveWaiters
      BY <2>2 DEF NotifyWaiters, LiveWaiters, Grantable, Schedulable, Cancelled, ClosedTasks
    <3> QED BY <2>2, <3>1, <3>2, QuietServes DEF NotifyWaiters
  <2> QED BY <1>4, <2>1, <2>2
<1>5. CASE UNCHANGED vars
  <2>1. Owners' = Owners /\ LiveWaiters' = LiveWaiters /\ waiters' = waiters
    BY <1>5 DEF vars, Owners, Holding, LiveWaiters, Grantable, Schedulable, Cancelled
  <2> QED BY <2>1, QuietServes
<1> QED BY <1>1, <1>2, <1>3, <1>4, <1>5 DEF Next

\* The budget of core/budget.py, seen through the waiters its dispatcher would
\* serve, is a fair semaphore: slots go out in arrival order, nobody overtakes,
\* and what is given back is handed on in the same locked block.
THEOREM ImplementsFairSemaphore == Spec => IsFairSemaphore
<1>1. Init => Semaphore!SemInit
  <2> SUFFICES ASSUME Init PROVE Semaphore!SemInit
    OBVIOUS
  <2>1. Owners = {} /\ LiveWaiters = {}
    BY DEF Init, Owners, Holding, LiveWaiters, ToSet
  <2> QED BY <2>1 DEF Semaphore!SemInit, Ahead
<1> QED BY <1>1, InitIInv, NextIInv, NextServes, PTL DEF Spec, IsFairSemaphore, Semaphore!SemSpec
=============================================================================

--------------------------- MODULE SpyTimer_proof ---------------------------
(* The timers as their functions set and delete them (ApiSpec): the heap     *)
(* holds the timers that are set, each at the place it knows, it stays in    *)
(* order where the last timer fits the hole, and all of it acts as a set of  *)
(* timers. A sift goes along a path of places; what is at the next place     *)
(* moves to the one before, and the timer that is placed ends the path.      *)
EXTENDS SpyTimer, FiniteInduction

USE TimersAssumption

(* A path from a to f without branches or returns: every place on it but a   *)
(* comes next after exactly one other.                                       *)
IsPath(path, a, f, next) ==
    /\ a \in path /\ f \in path /\ next[f] = f
    /\ \A p \in path : next[p] \in path
    /\ \A p \in path \ {f} : next[p] # p /\ next[p] # a
    /\ \A p \in path \ {a} : \E q \in path \ {f} : next[q] = p
    /\ \A p, q \in path \ {f} : next[p] = next[q] => p = q

-----------------------------------------------------------------------------
(* A loop that gets closer to an end with every turn, and has no more than   *)
(* max_timers turns to go, takes a path.                                     *)
LEMMA PathOK ==
    ASSUME NEW S, NEW a \in S, NEW next, \A p \in S : next[p] \in S,
           NEW d \in [S -> Nat], d[a] <= max_timers,
           \A p \in S : next[p] # p => d[next[p]] < d[p]
    PROVE  \E f \in S : /\ IsPath(Path(a, next), a, f, next)
                        /\ Path(a, next) \subseteq S
                        /\ \A p \in Path(a, next) : d[f] <= d[p]
<1> DEFINE m == max_timers
           Body(f) == [n \in 0 .. m |-> IF n = 0 THEN a ELSE next[f[n - 1]]]
           at == CHOOSE f : f = Body(f)
           G == [x \in (1 .. m) \X S |-> next[x[2]]]
<1>0. m \in Nat
  BY DEF max_timers
<1>1. Path(a, next) = {at[n] : n \in 0 .. m}
  BY DEF Path
<1>2. PICK g : IsIteration(g, G, a, m, S)
  <2>1. StepsIn(G, m, S)
    BY DEF StepsIn
  <2> HIDE DEF G, m
  <2> QED BY <1>0, <2>1, IterationExists
<1>3. g = Body(g)
  <2>1. g \in [0 .. m -> S] /\ g[0] = a /\ \A i \in 1 .. m : g[i] = G[<<i, g[i - 1]>>]
    BY <1>2 DEF IsIteration
  <2>2. ASSUME NEW i \in 0 .. m PROVE g[i] = IF i = 0 THEN a ELSE next[g[i - 1]]
    <3>1. CASE i = 0
      BY <2>1, <3>1
    <3>2. CASE i # 0
      <4>1. i \in 1 .. m /\ i - 1 \in 0 .. m
        BY <1>0, <3>2
      <4>2. G[<<i, g[i - 1]>>] = next[g[i - 1]]
        BY <2>1, <4>1
      <4> QED BY <2>1, <3>2, <4>1, <4>2
    <3> QED BY <3>1, <3>2
  <2> HIDE DEF m, G
  <2> QED BY <2>1, <2>2
<1>4. at = Body(at)
  <2> HIDE DEF Body
  <2> QED BY <1>3
<1> HIDE DEF at, m, G
<1>5. at[0] = a /\ \A i \in 0 .. m : i # m => at[i + 1] = next[at[i]]
  <2>1. ASSUME NEW i \in 0 .. m, i # m PROVE at[i + 1] = next[at[i]]
    <3>1. i + 1 \in 0 .. m /\ i + 1 # 0 /\ (i + 1) - 1 = i
      BY <1>0, <2>1
    <3> QED BY <1>4, <3>1
  <2>2. 0 \in 0 .. m
    BY <1>0
  <2> QED BY <1>4, <2>1, <2>2
<1>6. \A i \in 0 .. m : at[i] \in S
  <2> DEFINE T == {i \in 0 .. m : at[i] \in S}
  <2>1. 0 \in T /\ \A i \in T : i < m => i + 1 \in T
    BY <1>0, <1>5
  <2>2. T = 0 .. m
    <3> HIDE DEF T
    <3>1. T \in SUBSET (0 .. m)
      BY DEF T
    <3> QED BY <1>0, <2>1, <3>1, BoundedInduction
  <2> QED BY <2>2
<1>7. \A i \in 0 .. m : d[at[i]] <= m - i \/ next[at[i]] = at[i]
  <2> DEFINE T == {i \in 0 .. m : d[at[i]] <= m - i \/ next[at[i]] = at[i]}
  <2>1. 0 \in T
    BY <1>0, <1>5 DEF m
  <2>2. ASSUME NEW i \in T, i < m PROVE i + 1 \in T
    <3>1. i \in 0 .. m /\ i + 1 \in 0 .. m /\ at[i + 1] = next[at[i]] /\ at[i] \in S
      BY <1>0, <1>5, <1>6, <2>2
    <3>2. CASE next[at[i]] = at[i]
      BY <3>1, <3>2
    <3>3. CASE next[at[i]] # at[i]
      <4>1. d[at[i]] <= m - i /\ d[at[i + 1]] < d[at[i]]
        BY <3>1, <3>3
      <4>2. d[at[i]] \in Nat /\ d[at[i + 1]] \in Nat
        BY <3>1
      <4>3. d[at[i + 1]] <= m - (i + 1)
        BY <1>0, <3>1, <4>1, <4>2
      <4> QED BY <3>1, <4>3
    <3> QED BY <3>2, <3>3
  <2>3. T = 0 .. m
    <3> HIDE DEF T
    <3>1. T \in SUBSET (0 .. m)
      BY DEF T
    <3> QED BY <1>0, <2>1, <2>2, <3>1, BoundedInduction
  <2> QED BY <2>3
<1> DEFINE f == at[m]
<1>8. m \in 0 .. m /\ f \in S /\ next[f] = f
  <2>1. m \in 0 .. m /\ f \in S
    BY <1>0, <1>6
  <2>2. next[f] # f => d[f] <= 0 /\ d[next[f]] < d[f] /\ d[f] \in Nat /\ d[next[f]] \in Nat
    BY <1>0, <1>7, <2>1
  <2> QED BY <2>1, <2>2
<1>9. ASSUME NEW i \in 0 .. m, NEW j \in 0 .. m, i <= j
      PROVE  d[at[j]] <= d[at[i]] /\ (next[at[i]] = at[i] => at[j] = at[i])
  <2> DEFINE Q(k) == d[at[k]] <= d[at[i]] /\ (next[at[i]] = at[i] => at[k] = at[i])
             T == {k \in 0 .. m : i <= k => Q(k)}
  <2>0. d[at[i]] \in Nat /\ at[i] \in S
    BY <1>6
  <2>1. 0 \in T
    BY <1>0, <2>0
  <2>2. ASSUME NEW k \in T, k < m PROVE k + 1 \in T
    <3>1. k \in 0 .. m /\ k + 1 \in 0 .. m /\ at[k + 1] = next[at[k]] /\ at[k] \in S /\ at[k + 1] \in S
      BY <1>0, <1>5, <1>6, <2>2
    <3>2. CASE i = k + 1
      BY <2>0, <3>1, <3>2
    <3>3. CASE i # k + 1 /\ i <= k + 1
      <4>1. i <= k
        BY <3>1, <3>3
      <4>2. Q(k)
        BY <4>1
      <4>3. d[at[k]] \in Nat /\ d[at[k + 1]] \in Nat /\ d[at[k + 1]] <= d[at[k]]
        <5>1. next[at[k]] # at[k] => d[at[k + 1]] < d[at[k]]
          BY <3>1
        <5> QED BY <3>1, <5>1
      <4> QED BY <2>0, <3>1, <4>2, <4>3
    <3> QED BY <3>1, <3>2, <3>3
  <2>3. T = 0 .. m
    <3> HIDE DEF T
    <3>1. T \in SUBSET (0 .. m)
      BY DEF T
    <3> QED BY <1>0, <2>1, <2>2, <3>1, BoundedInduction
  <2> QED BY <1>9, <2>3
<1> DEFINE P == {at[n] : n \in 0 .. m}
<1> HIDE DEF f
<1>10. P \subseteq S /\ a \in P /\ f \in P
  BY <1>0, <1>5, <1>6, <1>8 DEF f
<1>11. ASSUME NEW p \in P PROVE next[p] \in P /\ d[f] <= d[p] /\ d[p] <= d[a] /\ (next[p] = p => p = f)
  <2>1. PICK i \in 0 .. m : p = at[i]
    OBVIOUS
  <2>2. next[p] \in P
    <3>1. CASE i = m
      BY <1>8, <1>10, <2>1, <3>1 DEF f
    <3>2. CASE i # m
      BY <1>0, <1>5, <2>1, <3>2
    <3> QED BY <3>1, <3>2
  <2>3. i <= m /\ 0 <= i /\ 0 \in 0 .. m
    BY <1>0
  <2> QED BY <1>5, <1>8, <1>9, <2>1, <2>2, <2>3 DEF f
<1>12. ASSUME NEW p \in P \ {f} PROVE next[p] # p /\ next[p] # a
  <2>1. d[next[p]] < d[p] /\ d[p] <= d[a] /\ d[p] \in Nat /\ d[a] \in Nat
    BY <1>10, <1>11, <1>12
  <2>2. next[p] # p
    BY <1>11, <1>12
  <2>3. next[p] # a
    BY <2>1
  <2> QED BY <2>2, <2>3
<1>13. ASSUME NEW p \in P \ {a} PROVE \E q \in P \ {f} : next[q] = p
  <2> DEFINE T == {n \in 0 .. m : at[n] = p}
             n == Min(T)
  <2>1. n \in T /\ \A k \in T : n <= k
    <3>1. T \in SUBSET Nat /\ T # {}
      BY <1>0
    <3> HIDE DEF T
    <3> QED BY <3>1, NatMin
  <2> HIDE DEF n
  <2>2. n \in 0 .. m /\ at[n] = p /\ n # 0
    BY <1>5, <1>13, <2>1
  <2>3. n - 1 \in 0 .. m /\ n - 1 # m /\ (n - 1) + 1 = n
    BY <1>0, <2>2
  <2>4. next[at[n - 1]] = p /\ at[n - 1] \in P
    BY <1>5, <2>2, <2>3
  <2>5. at[n - 1] # p
    BY <2>1, <2>2, <2>3
  <2>6. at[n - 1] # f
    BY <1>8, <2>4, <2>5
  <2> QED BY <2>4, <2>6
<1>14. ASSUME NEW p \in P \ {f}, NEW q \in P \ {f}, next[p] = next[q] PROVE p = q
  <2>1. PICK i \in 0 .. m : p = at[i]
    OBVIOUS
  <2>2. PICK j \in 0 .. m : q = at[j]
    OBVIOUS
  <2>3. i # m /\ j # m
    BY <1>14, <2>1, <2>2 DEF f
  <2>4. at[i + 1] = next[p] /\ at[j + 1] = next[q] /\ i + 1 \in 0 .. m /\ j + 1 \in 0 .. m
    BY <1>0, <1>5, <2>1, <2>2, <2>3
  <2>5. next[p] # p /\ next[q] # q /\ p \in S /\ q \in S
    BY <1>10, <1>12, <1>14
  <2>6. d[next[p]] < d[p] /\ d[next[q]] < d[q] /\ d[p] \in Nat /\ d[q] \in Nat /\ d[next[p]] \in Nat
    BY <2>5
  <2>7. ~ i < j
    <3> SUFFICES ASSUME i < j PROVE FALSE
      OBVIOUS
    <3>1. i + 1 <= j
      OBVIOUS
    <3>2. d[at[j]] <= d[at[i + 1]]
      BY <1>9, <2>4, <3>1
    <3> QED BY <1>14, <2>2, <2>4, <2>6, <3>2
  <2>8. ~ j < i
    <3> SUFFICES ASSUME j < i PROVE FALSE
      OBVIOUS
    <3>1. j + 1 <= i
      OBVIOUS
    <3>2. d[at[i]] <= d[at[j + 1]]
      BY <1>9, <2>4, <3>1
    <3> QED BY <1>14, <2>1, <2>4, <2>6, <3>2
  <2> QED BY <2>1, <2>2, <2>7, <2>8
<1> HIDE DEF P
<1>15. IsPath(P, a, f, next)
  BY <1>8, <1>10, <1>11, <1>12, <1>13, <1>14 DEF IsPath
<1>16. Path(a, next) = P
  BY <1>1 DEF P
<1> QED BY <1>8, <1>10, <1>11, <1>15, <1>16


-----------------------------------------------------------------------------
\* The timers at some places, each of which knows where it is.
Placed(h, D) == \A p \in D : h.node[p] \in Timers /\ h.index[h.node[p]] = p

At(h, D) == {h.node[p] : p \in D}

\* t is to be placed on a path within D, of which a is free.
CanSift(h, D, a, f, next, t) ==
    /\ h \in HeapType /\ D \subseteq Places /\ a \in D /\ f \in D /\ t \in Timers
    /\ IsPath(Path(a, next), a, f, next) /\ Path(a, next) \subseteq D
    /\ Placed(h, D \ {a})
    /\ \A p \in D \ {a} : h.node[p] # t

\* What a sift changes, and what it leaves at the places D.
Sifted(g, h, path, f, next, t, D) ==
    /\ g \in HeapType
    /\ g.last = h.last /\ g.max_num = h.max_num /\ g.key = h.key
    /\ Placed(g, D)
    /\ \A p \in D : g.node[p] = IF p \notin path THEN h.node[p]
                                ELSE IF p = f THEN t ELSE h.node[next[p]]

(* The place a is free and t is nowhere else: after a sift t has a place, no *)
(* other timer is lost, and every timer knows its place.                     *)
LEMMA SiftOK ==
    ASSUME NEW h, NEW D, NEW a, NEW f, NEW next, NEW t, CanSift(h, D, a, f, next, t)
    PROVE  /\ Sifted(Sift(h, a, next, t), h, Path(a, next), f, next, t, D)
           /\ At(Sift(h, a, next, t), D) = At(h, D \ {a}) \cup {t}
<1> DEFINE P == Path(a, next)
           Put(p)  == IF next[p] = p THEN t ELSE h.node[next[p]]
           Home(x) == {p \in P : Put(p) = x}
           node  == [p \in Places |-> IF p \in P THEN Put(p) ELSE h.node[p]]
           index == [x \in Timers |-> IF Home(x) = {} THEN h.index[x]
                                      ELSE CHOOSE p \in Home(x) : TRUE]
           g == Sift(h, a, next, t)
<1>1. g = [h EXCEPT !.node = node, !.index = index]
  BY DEF Sift
<1>2. P \subseteq D /\ IsPath(P, a, f, next)
  BY DEF CanSift
<1>0. /\ h \in HeapType /\ D \subseteq Places /\ a \in D /\ f \in D /\ t \in Timers
      /\ Placed(h, D \ {a}) /\ \A p \in D \ {a} : h.node[p] # t
  BY DEF CanSift
<1> USE <1>0
<1> HIDE DEF P
<1>3. ASSUME NEW p \in P
      PROVE  /\ next[p] \in P /\ (next[p] = p <=> p = f)
             /\ p = f => Put(p) = t
             /\ p # f => /\ next[p] \in D \ {a} /\ Put(p) = h.node[next[p]]
                         /\ Put(p) \in Timers \ {t} /\ h.index[Put(p)] = next[p]
  <2>1. next[p] \in P /\ next[f] = f /\ (p # f => next[p] # p /\ next[p] # a)
    BY <1>2 DEF IsPath
  <2>2. p # f => next[p] \in D \ {a} /\ Put(p) = h.node[next[p]]
    BY <1>2, <2>1
  <2>3. p # f => Put(p) \in Timers \ {t} /\ h.index[Put(p)] = next[p]
    <3> HIDE DEF Put
    <3> QED BY <2>2 DEF Placed
  <2> QED BY <2>1, <2>2, <2>3
<1>4. ASSUME NEW p \in P, NEW q \in P, Put(p) = Put(q) PROVE p = q
  <2>1. CASE p = f \/ q = f
    <3> HIDE DEF Put
    <3> QED BY <1>3, <1>4, <2>1
  <2>2. CASE p # f /\ q # f
    <3>1. next[p] = next[q]
      <4> HIDE DEF Put
      <4> QED BY <1>3, <1>4, <2>2
    <3> QED BY <1>2, <2>2, <3>1 DEF IsPath
  <2> QED BY <2>1, <2>2
<1> HIDE DEF Put
<1>5. ASSUME NEW p \in P PROVE Home(Put(p)) = {p} /\ Put(p) \in Timers
  BY <1>3, <1>4
<1>6. ASSUME NEW p \in P PROVE index[Put(p)] = p
  <2> HIDE DEF Home
  <2>1. index[Put(p)] = CHOOSE q \in {p} : TRUE
    BY <1>5
  <2> QED BY <2>1
<1>7. ASSUME NEW p \in D \ P PROVE h.node[p] \in Timers /\ index[h.node[p]] = p
  <2>1. p \in D \ {a}
    BY <1>2 DEF IsPath
  <2>2. h.node[p] \in Timers /\ h.index[h.node[p]] = p
    BY <2>1 DEF Placed
  <2>3. Home(h.node[p]) = {}
    <3> SUFFICES ASSUME NEW q \in P, Put(q) = h.node[p] PROVE FALSE
      OBVIOUS
    <3>1. q # f
      BY <1>3, <2>1
    <3>2. next[q] = p
      BY <1>3, <2>2, <3>1
    <3> QED BY <1>3, <3>2
  <2> HIDE DEF Home
  <2> QED BY <2>2, <2>3
<1>8. node \in [Places -> Timers \cup {Null}] /\ index \in [Timers -> Nat]
  <2>1. h.node \in [Places -> Timers \cup {Null}] /\ h.index \in [Timers -> Nat]
    BY DEF HeapType
  <2>2. \A p \in Places : node[p] \in Timers \cup {Null}
    BY <1>5, <2>1
  <2>3. \A x \in Timers : (CHOOSE p \in Home(x) : TRUE) \in Home(x) \/ Home(x) = {}
    <3> HIDE DEF Home
    <3> QED OBVIOUS
  <2>4. \A x \in Timers : Home(x) \subseteq Nat
    <3>1. \A x \in Timers : Home(x) \subseteq P
      OBVIOUS
    <3>2. P \subseteq Nat
      BY <1>2 DEF Places
    <3> HIDE DEF Home
    <3> QED BY <3>1, <3>2
  <2>5. \A x \in Timers : index[x] \in Nat
    <3> HIDE DEF Home
    <3> QED BY <2>1, <2>3, <2>4
  <2> HIDE DEF Home
  <2>6. DOMAIN node = Places /\ DOMAIN index = Timers
    OBVIOUS
  <2> QED BY <2>2, <2>5, <2>6
<1>9. \A p \in D : node[p] = IF p \in P THEN Put(p) ELSE h.node[p]
  OBVIOUS
<1> HIDE DEF node, index, Home
<1>10. /\ g \in HeapType /\ g.last = h.last /\ g.max_num = h.max_num /\ g.key = h.key
       /\ g.node = node /\ g.index = index
  BY <1>1, <1>8 DEF HeapType
<1> HIDE DEF g
<1>11. Placed(g, D)
  <2> SUFFICES ASSUME NEW p \in D PROVE node[p] \in Timers /\ index[node[p]] = p
    BY <1>10 DEF Placed
  <2>1. CASE p \in P
    BY <1>5, <1>6, <1>9, <2>1
  <2>2. CASE p \notin P
    BY <1>7, <1>9, <2>2
  <2> QED BY <2>1, <2>2
<1>12. \A p \in D : g.node[p] = IF p \notin P THEN h.node[p]
                                ELSE IF p = f THEN t ELSE h.node[next[p]]
  BY <1>3, <1>9, <1>10
<1>13. At(g, D) \subseteq At(h, D \ {a}) \cup {t}
  <2> SUFFICES ASSUME NEW p \in D PROVE g.node[p] \in At(h, D \ {a}) \cup {t}
    BY DEF At
  <2>1. CASE p \notin P
    BY <1>2, <1>12, <2>1 DEF At, IsPath
  <2>2. CASE p \in P
    BY <1>3, <1>12, <2>2 DEF At
  <2> QED BY <2>1, <2>2
<1>14. t \in At(g, D)
  BY <1>2, <1>12 DEF At, IsPath
<1>15. At(h, D \ {a}) \subseteq At(g, D)
  <2> SUFFICES ASSUME NEW p \in D \ {a} PROVE h.node[p] \in At(g, D)
    BY DEF At
  <2>1. CASE p \notin P
    BY <1>12, <2>1 DEF At
  <2>2. CASE p \in P
    <3>1. PICK q \in P \ {f} : next[q] = p
      BY <1>2, <2>2 DEF IsPath
    <3> QED BY <1>2, <1>12, <3>1 DEF At
  <2> QED BY <2>1, <2>2
<1> QED BY <1>10, <1>11, <1>12, <1>13, <1>14, <1>15 DEF g, P, Sifted


-----------------------------------------------------------------------------
HeapOK(h) == h \in HeapType /\ Placed(h, 0 .. h.last - 1)

LEMMA ParentOK ==
    ASSUME NEW p \in Nat \ {0}
    PROVE  /\ Parent(p) \in Nat /\ Parent(p) < p
           /\ p = 2 * Parent(p) + 1 \/ p = 2 * Parent(p) + 2
BY DEF Parent

LEMMA ChildrenOK ==
    ASSUME NEW p \in Nat
    PROVE  Parent(2 * p + 1) = p /\ Parent(2 * p + 2) = p
BY DEF Parent

LEMMA HeapKeys ==
    ASSUME NEW h, HeapOK(h)
    PROVE  /\ h.last \in Nat /\ h.last <= max_timers /\ max_timers \in Nat /\ Places = 0 .. max_timers - 1
           /\ \A t \in Timers : h.key[t] \in Nat
           /\ \A p \in 0 .. h.last - 1 : /\ h.node[p] \in Timers /\ h.key[h.node[p]] \in Nat
                                         /\ h.index[h.node[p]] = p
BY DEF HeapOK, HeapType, Placed, Places, max_timers

LEMMA InHeapAt ==
    ASSUME NEW h
    PROVE  InHeap(h) = At(h, 0 .. h.last - 1)
BY DEF InHeap, At

(* What an insertion does to the heap: only timers due later than t move, so *)
(* that a heap in order stays in order.                                      *)
LEMMA MinheapInsertOK ==
    ASSUME NEW h, HeapOK(h), h.max_num = max_timers, h.last < max_timers,
           NEW t \in Timers, t \notin InHeap(h), NEW g, g = MinheapInsert(h, t)
    PROVE  /\ HeapOK(g) /\ g.last = h.last + 1 /\ g.max_num = h.max_num /\ g.key = h.key
           /\ InHeap(g) = InHeap(h) \cup {t}
           /\ Ordered(h) => Ordered(g)
<1> DEFINE L == h.last
           D == 0 .. L
           hk == [h EXCEPT !.last = h.last + 1]
           up == [p \in 0 .. h.last |->
                    IF p = 0 \/ h.key[t] >= h.key[h.node[Parent(p)]] THEN p ELSE Parent(p)]
           P == Path(L, up)
           d == [p \in D |-> p]
<1>0. /\ L \in Nat /\ max_timers \in Nat /\ L < max_timers /\ Places = 0 .. max_timers - 1
      /\ \A x \in Timers : h.key[x] \in Nat
      /\ \A p \in 0 .. L - 1 : h.node[p] \in Timers /\ h.key[h.node[p]] \in Nat
  BY HeapKeys
<1>1. g = Sift(hk, L, up, t)
  BY <1>0 DEF MinheapInsert
<1>2. hk \in HeapType /\ hk.last = L + 1 /\ hk.max_num = h.max_num /\ hk.key = h.key
      /\ hk.node = h.node /\ hk.index = h.index
  <2>1. h \in HeapType /\ h.last + 1 \in 0 .. max_timers
    BY <1>0 DEF HeapOK
  <2> QED BY <2>1 DEF HeapType
<1>3. ASSUME NEW p \in D
      PROVE  /\ up[p] \in D
             /\ up[p] = p \/ (p # 0 /\ up[p] = Parent(p) /\ up[p] < p
                              /\ h.key[t] < h.key[h.node[Parent(p)]])
             /\ up[p] = p => p = 0 \/ h.key[t] >= h.key[h.node[Parent(p)]]
  <2>1. CASE p = 0
    BY <1>0, <2>1
  <2>2. CASE p # 0
    <3>1. Parent(p) \in 0 .. L - 1 /\ Parent(p) < p
      BY <1>0, <2>2, ParentOK
    <3>2. h.key[h.node[Parent(p)]] \in Nat /\ h.key[t] \in Nat
      BY <1>0, <3>1
    <3> QED BY <1>0, <2>2, <3>1, <3>2
  <2> QED BY <2>1, <2>2
<1> HIDE DEF up, hk
<1>4. PICK f \in D : IsPath(P, L, f, up) /\ P \subseteq D /\ \A p \in P : d[f] <= d[p]
  <2>1. d \in [D -> Nat] /\ L \in D /\ d[L] <= max_timers
    BY <1>0
  <2>2. \A p \in D : up[p] \in D /\ (up[p] # p => d[up[p]] < d[p])
    BY <1>3
  <2> HIDE DEF d, D
  <2> QED BY <2>1, <2>2, PathOK
<1>5. \A p \in P : f <= p
  BY <1>4
<1> HIDE DEF P, d
<1>6. D \in SUBSET Places /\ L \in D /\ D \ {L} = 0 .. L - 1
  BY <1>0
<1>7. /\ Sifted(g, hk, P, f, up, t, D)
      /\ At(g, D) = At(hk, D \ {L}) \cup {t}
  <2>1. Placed(hk, D \ {L})
    BY <1>2, <1>6 DEF HeapOK, Placed
  <2>2. \A p \in D \ {L} : hk.node[p] # t
    BY <1>2, <1>6 DEF InHeap
  <2>3. IsPath(Path(L, up), L, f, up) /\ Path(L, up) \subseteq D
    BY <1>4 DEF P
  <2> HIDE DEF D, L
  <2>4. /\ Sifted(Sift(hk, L, up, t), hk, Path(L, up), f, up, t, D)
        /\ At(Sift(hk, L, up, t), D) = At(hk, D \ {L}) \cup {t}
    <3>1. CanSift(hk, D, L, f, up, t)
      BY <1>2, <1>4, <1>6, <2>1, <2>2, <2>3 DEF CanSift
    <3> QED BY <3>1, SiftOK
  <2> QED BY <1>1, <2>4 DEF P
<1>8. HeapOK(g) /\ g.last = h.last + 1 /\ g.max_num = h.max_num /\ g.key = h.key
  <2>1. g.last - 1 = L
    BY <1>0, <1>2, <1>7 DEF Sifted
  <2> QED BY <1>2, <1>7, <2>1 DEF Sifted, HeapOK
<1>9. InHeap(g) = InHeap(h) \cup {t}
  <2>1. InHeap(g) = At(g, D) /\ InHeap(h) = At(hk, D \ {L})
    <3>1. g.last - 1 = L
      BY <1>0, <1>8
    <3> QED BY <1>2, <1>6, <3>1 DEF InHeap, At
  <2> QED BY <1>7, <2>1
<1>10. ASSUME Ordered(h) PROVE Ordered(g)
  <2> SUFFICES ASSUME NEW p \in 1 .. L
               PROVE  g.key[g.node[Parent(p)]] <= g.key[g.node[p]]
    <3>1. g.last - 1 = L
      BY <1>0, <1>8
    <3> QED BY <3>1 DEF Ordered
  <2> DEFINE q == Parent(p)
             K(x) == h.key[x]
  <2>1. /\ p \in D /\ q \in 0 .. L - 1 /\ q \in D /\ q < p /\ p # 0
    BY <1>0, ParentOK
  <2>2. \A r \in D : g.node[r] = IF r \notin P THEN h.node[r]
                                 ELSE IF r = f THEN t ELSE h.node[up[r]]
    BY <1>2, <1>7 DEF Sifted
  <2>3. \A r \in 1 .. L - 1 : /\ K(h.node[Parent(r)]) <= K(h.node[r])
                              /\ Parent(r) \in 0 .. L - 1
    <3> SUFFICES ASSUME NEW r \in 1 .. L - 1
                 PROVE  K(h.node[Parent(r)]) <= K(h.node[r]) /\ Parent(r) \in 0 .. L - 1
      OBVIOUS
    <3>1. Parent(r) \in Nat /\ Parent(r) < r
      BY <1>0, ParentOK
    <3> QED BY <1>0, <1>10, <3>1 DEF Ordered
  <2>4. \A r \in P : r \in D /\ up[r] \in P /\ f <= r /\ (r # f => up[r] # r)
    BY <1>4, <1>5 DEF IsPath
  <2>5. f \in P /\ L \in P /\ up[f] = f
    BY <1>4 DEF IsPath
  <2>6. K(t) \in Nat
    BY <1>0
  <2>12. p \notin P => p \in 1 .. L - 1
    BY <1>0, <2>5
  <2>13. \A r \in P : r # f => r \in 1 .. L /\ up[r] = Parent(r)
    BY <1>0, <1>3, <2>4
  <2> HIDE DEF q
  <2>7. CASE p \notin P /\ q \notin P
    <3>1. g.node[p] = h.node[p] /\ g.node[q] = h.node[q] /\ p \in 1 .. L - 1
      BY <2>1, <2>2, <2>7, <2>12
    <3> QED BY <1>8, <2>3, <3>1 DEF q
  <2>8. CASE p \notin P /\ q \in P /\ q # f
    <3>1. p \in 1 .. L - 1 /\ q \in 1 .. L - 1 /\ up[q] = Parent(q)
      BY <1>0, <2>1, <2>8, <2>12, <2>13
    <3>2. g.node[p] = h.node[p] /\ g.node[q] = h.node[Parent(q)]
      BY <2>1, <2>2, <2>8, <3>1
    <3>3. K(h.node[Parent(q)]) <= K(h.node[q]) /\ K(h.node[q]) <= K(h.node[p])
      BY <2>3, <3>1 DEF q
    <3>4. K(h.node[Parent(q)]) \in Nat /\ K(h.node[q]) \in Nat /\ K(h.node[p]) \in Nat
      BY <1>0, <2>3, <3>1
    <3>5. K(h.node[Parent(q)]) <= K(h.node[p])
      BY <3>3, <3>4
    <3> QED BY <1>8, <3>2, <3>5 DEF q
  <2>9. CASE p \notin P /\ q = f
    <3>1. p \in 1 .. L - 1 /\ f # L /\ f \in 0 .. L - 1
      BY <1>0, <2>1, <2>9, <2>12
    <3>2. PICK r \in P \ {f} : up[r] = f
      BY <1>4, <2>5, <3>1 DEF IsPath
    <3>3. K(t) < K(h.node[f])
      BY <1>3, <2>4, <3>2
    <3>4. K(h.node[f]) <= K(h.node[p]) /\ K(h.node[f]) \in Nat /\ K(h.node[p]) \in Nat
      BY <1>0, <2>3, <2>9, <3>1 DEF q
    <3>5. K(t) <= K(h.node[p])
      BY <2>6, <3>3, <3>4
    <3>6. g.node[p] = h.node[p] /\ g.node[q] = t
      BY <2>1, <2>2, <2>5, <2>9
    <3> QED BY <1>8, <3>5, <3>6 DEF q
  <2>10. CASE p \in P /\ p # f
    <3>1. up[p] = q /\ q \in P /\ K(t) < K(h.node[q]) /\ g.node[p] = h.node[q]
      BY <1>3, <2>1, <2>2, <2>4, <2>10 DEF q
    <3>2. K(h.node[q]) \in Nat
      BY <1>0, <2>1
    <3>3. CASE q = f
      <4>1. g.node[q] = t
        BY <2>1, <2>2, <3>1, <3>3
      <4>2. K(t) <= K(h.node[q])
        BY <2>6, <3>1, <3>2
      <4> QED BY <1>8, <3>1, <4>1, <4>2 DEF q
    <3>4. CASE q # f
      <4>1. q \in 1 .. L - 1 /\ up[q] = Parent(q)
        BY <1>3, <2>1, <2>4, <3>1, <3>4
      <4>2. g.node[q] = h.node[Parent(q)]
        BY <2>1, <2>2, <3>1, <3>4, <4>1
      <4>3. K(h.node[Parent(q)]) <= K(h.node[q])
        BY <2>3, <4>1
      <4> QED BY <1>8, <3>1, <4>2, <4>3 DEF q
    <3> QED BY <3>3, <3>4
  <2>11. CASE p = f
    <3>1. q \notin P
      BY <2>1, <2>4, <2>11
    <3>2. g.node[q] = h.node[q] /\ g.node[p] = t
      BY <2>1, <2>2, <2>5, <2>11, <3>1
    <3>3. K(t) >= K(h.node[q])
      BY <1>3, <2>1, <2>5, <2>11 DEF q
    <3>4. K(h.node[q]) \in Nat
      BY <1>0, <2>1
    <3>5. K(h.node[q]) <= K(t)
      BY <2>6, <3>3, <3>4
    <3> QED BY <1>8, <3>2, <3>5 DEF q
  <2> QED BY <2>7, <2>8, <2>9, <2>10, <2>11
<1> QED BY <1>8, <1>9, <1>10


-----------------------------------------------------------------------------
(* What a deletion does: only timers due earlier than the last one move up,  *)
(* so that a heap in order stays in order when that one is not due before    *)
(* the timer above the hole.                                                 *)
LEMMA MinheapDeleteOK ==
    ASSUME NEW h, HeapOK(h), NEW index \in 0 .. h.last - 1, NEW g, g = MinheapDelete(h, index)
    PROVE  /\ HeapOK(g) /\ g.last = h.last - 1 /\ g.max_num = h.max_num /\ g.key = h.key
           /\ InHeap(g) = InHeap(h) \ {h.node[index]}
           /\ Fits(h, index) /\ Ordered(h) => Ordered(g)
<1> DEFINE last == h.last - 1
           D == 0 .. last - 1
           t == h.node[last]
           hk == [h EXCEPT !.last = last]
           Key(p) == h.key[h.node[p]]
           Child(p) == IF 2 * p + 1 < last - 1 /\ Key(2 * p + 1) > Key(2 * p + 2)
                       THEN 2 * p + 2 ELSE 2 * p + 1
           down == [p \in Places |->
                      IF 2 * p + 1 >= last \/ Key(last) <= Key(Child(p)) THEN p ELSE Child(p)]
           P == Path(index, down)
<1>0. /\ last \in Nat /\ max_timers \in Nat /\ last < max_timers /\ Places = 0 .. max_timers - 1
      /\ h.last = last + 1 /\ index \in 0 .. last /\ index \in Nat /\ h.last # 0
      /\ \A p \in 0 .. last : h.node[p] \in Timers /\ Key(p) \in Nat /\ h.index[h.node[p]] = p
  BY HeapKeys
<1>1. g = Sift(hk, index, down, t)
  BY <1>0 DEF MinheapDelete
<1>2. hk \in HeapType /\ hk.last = last /\ hk.max_num = h.max_num /\ hk.key = h.key
      /\ hk.node = h.node /\ hk.index = h.index
  <2>1. h \in HeapType /\ last \in 0 .. max_timers
    BY <1>0 DEF HeapOK
  <2> HIDE DEF last
  <2> QED BY <2>1 DEF HeapType
<1> HIDE DEF last
<1>3. ASSUME NEW p \in D, 2 * p + 1 < last
      PROVE  /\ Child(p) \in D /\ p < Child(p) /\ Parent(Child(p)) = p
             /\ \A q \in D : q # 0 /\ Parent(q) = p => Key(Child(p)) <= Key(q)
  <2>1. 2 * p + 1 \in D /\ (2 * p + 1 < last - 1 => 2 * p + 2 \in D) /\ p \in Nat
    BY <1>0, <1>3
  <2>2. Key(2 * p + 1) \in Nat /\ (2 * p + 1 < last - 1 => Key(2 * p + 2) \in Nat)
    <3> HIDE DEF Key
    <3> QED BY <1>0, <2>1
  <2>3. Parent(2 * p + 1) = p /\ Parent(2 * p + 2) = p
    BY <2>1, ChildrenOK
  <2>4. Child(p) \in {2 * p + 1, 2 * p + 2} /\ Child(p) \in D
    <3> HIDE DEF Key
    <3> QED BY <2>1
  <2>5. ASSUME NEW q \in D, q # 0, Parent(q) = p PROVE Key(Child(p)) <= Key(q)
    <3>1. q = 2 * p + 1 \/ q = 2 * p + 2
      <4>1. q \in Nat \ {0}
        BY <1>0, <2>5
      <4> QED BY <4>1, <2>5, ParentOK
    <3>2. q = 2 * p + 2 => 2 * p + 1 < last - 1
      BY <1>0, <2>1, <2>5
    <3>3. CASE 2 * p + 1 < last - 1 /\ Key(2 * p + 1) > Key(2 * p + 2)
      <4>1. Child(p) = 2 * p + 2
        BY <3>3, Zenon
      <4>2. CASE q = 2 * p + 1
        <5>1. Key(2 * p + 2) <= Key(2 * p + 1)
          <6> HIDE DEF Key, Child
          <6> QED BY <2>2, <3>3
        <5> HIDE DEF Key, Child
        <5> QED BY <4>1, <4>2, <5>1, Zenon
      <4>3. CASE q = 2 * p + 2
        <5>1. Key(2 * p + 2) <= Key(2 * p + 2)
          <6> HIDE DEF Key, Child
          <6> QED BY <2>2, <3>3
        <5> HIDE DEF Key, Child
        <5> QED BY <4>1, <4>3, <5>1, Zenon
      <4> QED BY <3>1, <4>2, <4>3
    <3>4. CASE ~ (2 * p + 1 < last - 1 /\ Key(2 * p + 1) > Key(2 * p + 2))
      <4>1. Child(p) = 2 * p + 1
        BY <3>4, Zenon
      <4>2. CASE q = 2 * p + 1
        <5>1. Key(2 * p + 1) <= Key(2 * p + 1)
          <6> HIDE DEF Key, Child
          <6> QED BY <2>2
        <5> HIDE DEF Key, Child
        <5> QED BY <4>1, <4>2, <5>1, Zenon
      <4>3. CASE q = 2 * p + 2
        <5>1. Key(2 * p + 1) <= Key(2 * p + 2)
          <6> HIDE DEF Key, Child
          <6> QED BY <2>2, <3>2, <3>4, <4>3
        <5> HIDE DEF Key, Child
        <5> QED BY <4>1, <4>3, <5>1, Zenon
      <4> QED BY <3>1, <4>2, <4>3
    <3> QED BY <3>3, <3>4
  <2> HIDE DEF Child, Key
  <2> QED BY <1>0, <2>1, <2>3, <2>4, <2>5
<1>4. ASSUME NEW p \in D
      PROVE  /\ down[p] \in D
             /\ down[p] = p => \A q \in D : q # 0 /\ Parent(q) = p => Key(last) <= Key(q)
             /\ down[p] # p => /\ down[p] = Child(p) /\ p < down[p] /\ Parent(down[p]) = p
                               /\ Key(down[p]) < Key(last)
                               /\ \A q \in D : q # 0 /\ Parent(q) = p => Key(down[p]) <= Key(q)
  <2>1. p \in Places /\ p \in Nat
    BY <1>0
  <2>2. down[p] = IF 2 * p + 1 >= last \/ Key(last) <= Key(Child(p)) THEN p ELSE Child(p)
    <3> HIDE DEF Key, Child
    <3> QED BY <2>1
  <2> HIDE DEF down, Child
  <2>3. CASE 2 * p + 1 >= last
    <3>1. \A q \in D : q # 0 => Parent(q) # p
      <4> SUFFICES ASSUME NEW q \in D, q # 0, Parent(q) = p PROVE FALSE
        OBVIOUS
      <4>0. q \in Nat \ {0} /\ Parent(q) = p
        BY <1>0
      <4>1. q = 2 * p + 1 \/ q = 2 * p + 2
        BY <4>0, ParentOK
      <4> QED BY <1>0, <2>1, <2>3, <4>1
    <3> QED BY <2>2, <2>3, <3>1
  <2>4. CASE 2 * p + 1 < last
    <3>1. Child(p) \in D /\ Key(Child(p)) \in Nat /\ Key(last) \in Nat
      <4> HIDE DEF Key
      <4>1. Child(p) \in D
        BY <1>3, <2>4
      <4> QED BY <1>0, <4>1
    <3>2. \A q \in D : Key(q) \in Nat
      <4> HIDE DEF Key
      <4> QED BY <1>0
    <3>3. \A q \in D : q # 0 /\ Parent(q) = p => Key(Child(p)) <= Key(q)
      BY <1>3, <2>4
    <3>4. p < Child(p) /\ Parent(Child(p)) = p
      BY <1>3, <2>4
    <3> HIDE DEF Key
    <3>5. CASE Key(last) <= Key(Child(p))
      <4>1. down[p] = p
        BY <2>2, <3>5
      <4>2. \A q \in D : q # 0 /\ Parent(q) = p => Key(last) <= Key(q)
        BY <3>1, <3>2, <3>3, <3>5
      <4> QED BY <4>1, <4>2
    <3>6. CASE ~ Key(last) <= Key(Child(p))
      <4>1. down[p] = Child(p)
        BY <1>0, <2>1, <2>2, <2>4, <3>6
      <4>2. Key(Child(p)) < Key(last) /\ Child(p) # p
        BY <1>0, <2>1, <3>1, <3>4, <3>6
      <4> QED BY <3>1, <3>3, <3>4, <4>1, <4>2
    <3> QED BY <3>5, <3>6
  <2> QED BY <1>0, <2>1, <2>3, <2>4
<1>5. down[last] = last
  <2> HIDE DEF Key, Child
  <2> QED BY <1>0
<1>6. \A p, q \in 0 .. last : h.node[p] = h.node[q] => p = q
  BY <1>0
<1>7. Placed(hk, 0 .. last)
  BY <1>0, <1>2 DEF Placed
<1> HIDE DEF hk, down
<1>8. CASE index = last
  <2> DEFINE d == [p \in {last} |-> 0]
  <2>1. PICK f \in {last} : IsPath(P, index, f, down) /\ P \subseteq {last}
    <3>1. d \in [{last} -> Nat] /\ d[last] <= max_timers
      BY <1>0
    <3>2. last \in {last} /\ \A p \in {last} : down[p] \in {last} /\ down[p] = p
      BY <1>5
    <3> HIDE DEF d
    <3> QED BY <1>8, <3>1, <3>2, PathOK
  <2> DEFINE E == 0 .. last
  <2> HIDE DEF P
  <2>2. CanSift(hk, E, index, f, down, t)
    <3>1. E \subseteq Places /\ index \in E /\ f \in E /\ P \subseteq E /\ t \in Timers
      BY <1>0, <2>1
    <3>2. Placed(hk, E \ {index}) /\ \A p \in E \ {index} : hk.node[p] # t
      BY <1>0, <1>2, <1>6, <1>7, <1>8 DEF Placed
    <3> HIDE DEF E
    <3> QED BY <1>2, <2>1, <3>1, <3>2 DEF CanSift, P
  <2>3. Sifted(g, hk, P, f, down, t, E)
    <3> HIDE DEF E, t, d
    <3>1. Sifted(Sift(hk, index, down, t), hk, Path(index, down), f, down, t, E)
      BY <2>2, SiftOK
    <3> QED BY <1>1, <3>1 DEF P
  <2>4. g.last = last /\ g.max_num = h.max_num /\ g.key = h.key /\ HeapOK(g)
    BY <1>0, <1>2, <2>3 DEF Sifted, HeapOK, Placed
  <2>5. \A p \in 0 .. last - 1 : g.node[p] = h.node[p]
    BY <1>0, <1>2, <2>1, <2>3 DEF Sifted
  <2>6. InHeap(g) = InHeap(h) \ {h.node[index]}
    <3>1. InHeap(g) = {h.node[p] : p \in 0 .. last - 1}
      BY <2>4, <2>5 DEF InHeap
    <3>2. InHeap(h) = {h.node[p] : p \in 0 .. last}
      BY <1>0 DEF InHeap
    <3>3. \A p \in 0 .. last : p \in 0 .. last - 1 <=> p # last
      BY <1>0
    <3>4. last \in 0 .. last /\ \A p \in 0 .. last - 1 : p \in 0 .. last
      BY <1>0
    <3> QED BY <1>6, <1>8, <3>1, <3>2, <3>3, <3>4
  <2>7. Ordered(h) => Ordered(g)
    <3> SUFFICES ASSUME Ordered(h), NEW p \in 1 .. last - 1
                 PROVE  h.key[g.node[Parent(p)]] <= h.key[g.node[p]]
      BY <2>4 DEF Ordered
    <3>1. Parent(p) \in Nat /\ Parent(p) < p
      BY <1>0, ParentOK
    <3>2. p \in 0 .. last - 1 /\ Parent(p) \in 0 .. last - 1 /\ p \in 1 .. h.last - 1
      BY <1>0, <3>1
    <3>3. h.key[h.node[Parent(p)]] <= h.key[h.node[p]]
      BY <3>2 DEF Ordered
    <3> QED BY <2>5, <3>2, <3>3
  <2> QED BY <1>0, <2>4, <2>6, <2>7 DEF last
<1>9. CASE index # last
  <2> DEFINE d == [p \in D |-> max_timers - p]
  <2>0. index \in D /\ D \subseteq Places /\ last \notin D /\ last \in 0 .. last
        /\ D \subseteq 0 .. last /\ (0 .. last) \ {last} = D
    BY <1>0, <1>9
  <2>1. PICK f \in D : IsPath(P, index, f, down) /\ P \subseteq D
    <3>1. d \in [D -> Nat] /\ d[index] <= max_timers
      BY <1>0, <2>0
    <3>2. \A p \in D : down[p] \in D /\ (down[p] # p => d[down[p]] < d[p])
      <4> SUFFICES ASSUME NEW p \in D PROVE down[p] \in D /\ (down[p] # p => d[down[p]] < d[p])
        OBVIOUS
      <4>1. down[p] \in D /\ (down[p] # p => p < down[p])
        BY <1>4
      <4> QED BY <1>0, <4>1
    <3> HIDE DEF d, D
    <3> QED BY <2>0, <3>1, <3>2, PathOK
  <2> HIDE DEF P
  <2>2. CanSift(hk, D, index, f, down, t)
    <3>1. t \in Timers
      BY <1>0
    <3>2. Placed(hk, D \ {index}) /\ \A p \in D \ {index} : hk.node[p] # t
      BY <1>2, <1>6, <1>7, <2>0 DEF Placed
    <3> HIDE DEF D
    <3> QED BY <1>2, <2>0, <2>1, <3>1, <3>2 DEF CanSift, P
  <2>3. Sifted(g, hk, P, f, down, t, D) /\ At(g, D) = At(hk, D \ {index}) \cup {t}
    <3> HIDE DEF D
    <3> QED BY <1>1, <2>2, SiftOK DEF P
  <2>4. g.last = last /\ g.max_num = h.max_num /\ g.key = h.key /\ HeapOK(g)
    BY <1>0, <1>2, <2>3 DEF Sifted, HeapOK
  <2>5. InHeap(g) = InHeap(h) \ {h.node[index]}
    <3>1. InHeap(g) = At(h, D \ {index}) \cup {t}
      <4>1. InHeap(g) = At(g, D)
        BY <2>4 DEF InHeap, At
      <4>2. At(hk, D \ {index}) = At(h, D \ {index})
        <5> HIDE DEF D
        <5> QED BY <1>2 DEF At
      <4> HIDE DEF D
      <4> QED BY <2>3, <4>1, <4>2
    <3>2. InHeap(h) = {h.node[p] : p \in 0 .. last}
      BY <1>0 DEF InHeap
    <3> HIDE DEF D
    <3> QED BY <1>6, <2>0, <3>1, <3>2 DEF At
  <2>6. ASSUME Fits(h, index), Ordered(h) PROVE Ordered(g)
    <3> SUFFICES ASSUME NEW p \in 1 .. last - 1
                 PROVE  h.key[g.node[Parent(p)]] <= h.key[g.node[p]]
      BY <2>4 DEF Ordered
    <3> DEFINE q == Parent(p)
    <3>1. /\ p \in D /\ p # 0 /\ q \in D /\ q < p
      <4>1. q \in Nat /\ q < p
        BY <1>0, ParentOK
      <4> QED BY <1>0, <4>1
    <3>2. \A r \in D : g.node[r] = IF r \notin P THEN h.node[r]
                                   ELSE IF r = f THEN t ELSE h.node[down[r]]
      BY <1>2, <2>3 DEF Sifted
    <3>3. \A r \in D : r # 0 => Key(Parent(r)) <= Key(r)
      BY <1>0, <2>6 DEF Ordered
    <3>4. \A r \in P : r \in D /\ down[r] \in P /\ (r = f <=> down[r] = r)
      BY <2>1 DEF IsPath
    <3>5. \A r \in D : Key(r) \in Nat
      BY <1>0, <2>0
    <3>6. Key(last) \in Nat
      BY <1>0
    <3>7. down[q] \in D /\ down[p] \in D
      BY <1>4, <3>1
    <3>12. \A r \in P : index <= r
      <4>1. P \in SUBSET Nat /\ P # {}
        BY <1>0, <2>0, <2>1 DEF IsPath
      <4>2. Min(P) \in P /\ \A r \in P : Min(P) <= r
        BY <4>1, NatMin
      <4>3. ASSUME Min(P) # index PROVE FALSE
        <5>1. PICK r \in P \ {f} : down[r] = Min(P)
          BY <2>1, <4>2, <4>3 DEF IsPath
        <5>2. r \in D /\ down[r] # r
          BY <3>4, <5>1
        <5>3. r < Min(P)
          BY <1>4, <5>1, <5>2
        <5>4. r \in P /\ r \in Nat /\ Min(P) \in Nat
          BY <4>1, <4>2, <5>1
        <5>5. Min(P) <= r
          BY <4>2, <5>4
        <5> QED BY <5>3, <5>4, <5>5
      <4> QED BY <4>2, <4>3
    <3> HIDE DEF q, D
    <3>8. CASE p \notin P /\ q \notin P
      BY <3>1, <3>2, <3>3, <3>8 DEF q
    <3>9. CASE p \notin P /\ q \in P /\ q = f
      <4>1. Key(last) <= Key(p)
        BY <1>4, <3>1, <3>4, <3>9 DEF q
      <4> QED BY <3>1, <3>2, <3>9, <4>1 DEF q
    <3>10. CASE p \notin P /\ q \in P /\ q # f
      <4>1. Key(down[q]) <= Key(p)
        BY <1>4, <3>1, <3>4, <3>10 DEF q
      <4> QED BY <3>1, <3>2, <3>10, <4>1 DEF q
    <3>11. CASE p \in P /\ p # index
      <4>1. PICK r \in P \ {f} : down[r] = p
        BY <2>1, <3>11 DEF IsPath
      <4>2. r = q /\ Key(p) < Key(last)
        BY <1>4, <3>4, <4>1 DEF q
      <4>3. g.node[q] = h.node[p]
        BY <3>1, <3>2, <4>1, <4>2
      <4>4. CASE p = f
        <5>1. Key(p) <= Key(last)
          BY <3>1, <3>5, <3>6, <4>2
        <5> QED BY <3>1, <3>2, <3>11, <4>3, <4>4, <5>1 DEF q
      <4>5. CASE p # f
        <5>1. Parent(down[p]) = p /\ down[p] # 0
          <6>1. Parent(down[p]) = p /\ p < down[p]
            BY <1>4, <3>1, <3>4, <3>11, <4>5
          <6> QED BY <1>0, <3>1, <3>7, <6>1 DEF D
        <5>2. Key(p) <= Key(down[p])
          BY <3>3, <3>7, <5>1
        <5> QED BY <3>1, <3>2, <3>11, <4>3, <4>5, <5>2 DEF q
      <4> QED BY <4>4, <4>5
    <3>13. CASE p = index
      <4>1. p \in P /\ q \notin P
        BY <1>0, <2>1, <3>1, <3>12, <3>13 DEF IsPath, D
      <4>2. g.node[q] = h.node[q] /\ Key(q) <= Key(p)
        BY <3>1, <3>2, <3>3, <4>1 DEF q
      <4>3. CASE p = f
        <5>1. Key(q) <= Key(last)
          BY <1>0, <2>6, <3>1, <3>13 DEF Fits, q, last
        <5> QED BY <3>1, <3>2, <4>1, <4>2, <4>3, <5>1 DEF q
      <4>4. CASE p # f
        <5>1. Parent(down[p]) = p /\ down[p] # 0
          <6>1. Parent(down[p]) = p /\ p < down[p]
            BY <1>4, <3>1, <3>4, <4>1, <4>4
          <6> QED BY <1>0, <3>1, <3>7, <6>1 DEF D
        <5>2. Key(p) <= Key(down[p])
          BY <3>3, <3>7, <5>1
        <5>3. Key(q) <= Key(down[p])
          <6>1. Key(q) \in Nat /\ Key(p) \in Nat /\ Key(down[p]) \in Nat
            BY <3>1, <3>5, <3>7
          <6> HIDE DEF Key
          <6> QED BY <4>2, <5>2, <6>1
        <5> QED BY <3>1, <3>2, <4>1, <4>2, <4>4, <5>3 DEF q
      <4> QED BY <4>3, <4>4
    <3> QED BY <3>8, <3>9, <3>10, <3>11, <3>13
  <2> QED BY <2>4, <2>5, <2>6 DEF last
<1> QED BY <1>8, <1>9


-----------------------------------------------------------------------------
(* The heap holds the timers of the connections that are set, and has room   *)
(* for all of them.                                                          *)
HoldsSet(s) ==
    /\ HeapOK(s.heap) /\ s.heap.max_num = max_timers
    /\ s.timer_set \in [Timers -> BOOLEAN]
    /\ InHeap(s.heap) = {t \in Timers \ {Cleaner} : s.timer_set[t]}

\* A timer that is not set finds room: the others cannot fill the heap.
LEMMA RoomForOne ==
    ASSUME NEW s, HoldsSet(s), NEW t \in Timers \ {Cleaner}, ~ s.timer_set[t]
    PROVE  s.heap.last < max_timers
<1> DEFINE h == s.heap
           S == 0 .. h.last - 1
           T == (Timers \ {Cleaner}) \ {t}
           f == [p \in S |-> h.node[p]]
<1>1. /\ h.last \in Nat /\ max_timers \in Nat
      /\ \A p \in S : h.node[p] \in Timers /\ h.index[h.node[p]] = p
  BY HeapKeys DEF HoldsSet
<1>2. IsFiniteSet(T) /\ Cardinality(T) = max_timers - 1
  <2>1. IsFiniteSet(Timers \ {Cleaner})
    BY FS_RemoveElement
  <2>2. IsFiniteSet(T) /\ Cardinality(T) = Cardinality(Timers \ {Cleaner}) - 1
    BY <2>1, FS_RemoveElement
  <2> QED BY <2>2 DEF max_timers
<1>3. IsFiniteSet(S) /\ Cardinality(S) = h.last
  <2>1. h.last - 1 \in Int /\ 0 \in Int
    BY <1>1
  <2>2. IsFiniteSet(S) /\ Cardinality(S) = IF 0 > h.last - 1 THEN 0 ELSE h.last - 1 - 0 + 1
    BY <2>1, FS_Interval
  <2> QED BY <1>1, <2>2
<1>4. f \in [S -> T]
  <2>1. \A p \in S : h.node[p] \in T
    BY DEF HoldsSet, InHeap
  <2> QED BY <2>1
<1>5. \A p, q \in S : f[p] = f[q] => p = q
  BY <1>1
<1> HIDE DEF S, T, f
<1>6. ~ Cardinality(T) < Cardinality(S)
  BY <1>2, <1>3, <1>4, <1>5, FS_PigeonHole
<1> QED BY <1>1, <1>2, <1>3, <1>6

\* What spy_event_del_timer does to a timer that is set.
LEMMA DelTimerOK ==
    ASSUME NEW s, HoldsSet(s), NEW t \in Timers \ {Cleaner}, s.timer_set[t],
           NEW r, r = DelTimer(s, t)
    PROVE  /\ HoldsSet(r) /\ r.timer_set = [s.timer_set EXCEPT ![t] = FALSE]
           /\ r.heap.key = s.heap.key /\ r.heap.last = s.heap.last - 1
           /\ InHeap(r.heap) = InHeap(s.heap) \ {t}
           /\ Ordered(s.heap) /\ Fits(s.heap, s.heap.index[t]) => Ordered(r.heap)
<1> DEFINE h == s.heap
<1>1. t \in InHeap(h) /\ HeapOK(h)
  BY DEF HoldsSet
<1>2. PICK p \in 0 .. h.last - 1 : h.node[p] = t
  BY <1>1 DEF InHeap
<1>3. h.index[t] = p
  BY <1>1, <1>2, HeapKeys
<1>4. r.heap = MinheapDelete(h, p) /\ r.timer_set = [s.timer_set EXCEPT ![t] = FALSE]
  BY <1>3 DEF DelTimer
<1>5. /\ HeapOK(r.heap) /\ r.heap.last = h.last - 1 /\ r.heap.max_num = h.max_num /\ r.heap.key = h.key
      /\ InHeap(r.heap) = InHeap(h) \ {t}
      /\ Fits(h, p) /\ Ordered(h) => Ordered(r.heap)
  BY <1>1, <1>2, <1>4, MinheapDeleteOK
<1>6. HoldsSet(r)
  BY <1>4, <1>5 DEF HoldsSet
<1> QED BY <1>3, <1>4, <1>5, <1>6

Rekeyed(h, t, k) == [h EXCEPT !.key[t] = k]

\* A timer that is not in the heap may take another time.
LEMMA NewKeyOK ==
    ASSUME NEW h, HeapOK(h), NEW t \in Timers, t \notin InHeap(h), NEW k \in Nat,
           NEW g, g = Rekeyed(h, t, k)
    PROVE  /\ HeapOK(g) /\ g.last = h.last /\ g.max_num = h.max_num /\ g.node = h.node
           /\ g.key = [h.key EXCEPT ![t] = k] /\ InHeap(g) = InHeap(h)
           /\ Ordered(h) => Ordered(g)
<1>1. h \in HeapType
  BY DEF HeapOK
<1>2. /\ g \in HeapType /\ g.last = h.last /\ g.max_num = h.max_num /\ g.node = h.node
      /\ g.index = h.index /\ g.key = [h.key EXCEPT ![t] = k]
  BY <1>1 DEF HeapType, Rekeyed
<1>3. HeapOK(g) /\ InHeap(g) = InHeap(h)
  BY <1>2 DEF HeapOK, Placed, InHeap
<1>4. ASSUME Ordered(h) PROVE Ordered(g)
  <2>1. \A p \in 0 .. h.last - 1 : g.key[g.node[p]] = h.key[h.node[p]]
    BY <1>1, <1>2 DEF InHeap, HeapType
  <2>2. h.last \in Nat /\ \A p \in 1 .. h.last - 1 : Parent(p) \in 0 .. h.last - 1 /\ p \in 0 .. h.last - 1
    <3>1. h.last \in Nat
      BY HeapKeys
    <3>2. \A p \in 1 .. h.last - 1 : Parent(p) \in Nat /\ Parent(p) < p
      BY <3>1, ParentOK
    <3> QED BY <3>1, <3>2
  <2> QED BY <1>2, <1>4, <2>1, <2>2 DEF Ordered
<1> QED BY <1>2, <1>3, <1>4

(* r is s with the timer t set.                                              *)
Added(r, s, t) ==
    /\ HoldsSet(r)
    /\ r.timer_set = [s.timer_set EXCEPT ![t] = TRUE]
    /\ r.heap.key = [s.heap.key EXCEPT ![t] = r.heap.key[t]]
    /\ InHeap(r.heap) = InHeap(s.heap) \cup {t}
    /\ /\ Ordered(s.heap)
       /\ t \in InHeap(s.heap) /\ r.heap.key[t] # s.heap.key[t] => Fits(s.heap, s.heap.index[t])
       => Ordered(r.heap)

(* What spy_event_add_timer does for a timer of a connection: it is in the   *)
(* heap afterwards, and no other timer is touched.                           *)
LEMMA AddTimerOK ==
    ASSUME NEW s, HoldsSet(s), NEW t \in Timers \ {Cleaner}, now \in Nat, NEW delay \in Nat,
           NEW r, r = AddTimer(s, t, delay)
    PROVE  Added(r, s, t)
<1> DEFINE key  == now + delay
           lazy == key - s.heap.key[t] \in 1 - TimerLazyDelay .. TimerLazyDelay - 1
           d    == IF s.timer_set[t] THEN DelTimer(s, t) ELSE s
           k    == [d.heap EXCEPT !.key[t] = key]
<1>1. r = IF s.timer_set[t] /\ lazy
          THEN s
          ELSE [heap |-> MinheapInsert(k, t), timer_set |-> [d.timer_set EXCEPT ![t] = TRUE]]
  BY DEF AddTimer
<1>2. key \in Nat
  OBVIOUS
<1>7. key = s.heap.key[t] => lazy
  BY <1>2
<1> HIDE DEF lazy, key
<1>3. t \in InHeap(s.heap) <=> s.timer_set[t]
  BY DEF HoldsSet
<1>4. s.heap \in HeapType /\ s.heap.key \in [Timers -> Nat] /\ s.timer_set \in [Timers -> BOOLEAN]
  BY DEF HoldsSet, HeapOK, HeapType
<1>5. CASE s.timer_set[t] /\ lazy
  <2>1. r = s
    BY <1>1, <1>5
  <2>2. s.timer_set = [s.timer_set EXCEPT ![t] = TRUE]
    BY <1>4, <1>5
  <2>3. s.heap.key = [s.heap.key EXCEPT ![t] = s.heap.key[t]]
    BY <1>4
  <2> QED BY <1>3, <1>5, <2>1, <2>2, <2>3 DEF Added
<1>6. CASE ~ (s.timer_set[t] /\ lazy)
  <2>1. /\ HoldsSet(d) /\ ~ d.timer_set[t] /\ t \notin InHeap(d.heap)
        /\ [d.timer_set EXCEPT ![t] = TRUE] = [s.timer_set EXCEPT ![t] = TRUE]
        /\ InHeap(d.heap) \cup {t} = InHeap(s.heap) \cup {t} /\ d.heap.key = s.heap.key
        /\ Ordered(s.heap) /\ (s.timer_set[t] => Fits(s.heap, s.heap.index[t])) => Ordered(d.heap)
    <3>1. CASE s.timer_set[t]
      <4>1. d = DelTimer(s, t)
        BY <3>1
      <4>2. /\ HoldsSet(d) /\ d.timer_set = [s.timer_set EXCEPT ![t] = FALSE]
            /\ d.heap.key = s.heap.key
            /\ InHeap(d.heap) = InHeap(s.heap) \ {t}
            /\ Ordered(s.heap) /\ Fits(s.heap, s.heap.index[t]) => Ordered(d.heap)
        <5> HIDE DEF d
        <5> QED BY <3>1, <4>1, DelTimerOK
      <4> HIDE DEF d
      <4> QED BY <1>4, <3>1, <4>2
    <3>2. CASE ~ s.timer_set[t]
      BY <1>3, <3>2
    <3> QED BY <3>1, <3>2
  <2> HIDE DEF d
  <2>3. d.heap.last < max_timers /\ HeapOK(d.heap) /\ d.heap.max_num = max_timers
    BY <2>1, RoomForOne DEF HoldsSet
  <2>4. /\ HeapOK(k) /\ k.last = d.heap.last /\ k.max_num = max_timers
        /\ k.key = [s.heap.key EXCEPT ![t] = key] /\ InHeap(k) = InHeap(d.heap)
        /\ Ordered(d.heap) => Ordered(k)
    <3>1. k = Rekeyed(d.heap, t, key)
      BY DEF Rekeyed
    <3> HIDE DEF k
    <3> QED BY <1>2, <2>1, <2>3, <3>1, NewKeyOK
  <2> HIDE DEF k
  <2>5. r.heap = MinheapInsert(k, t) /\ r.timer_set = [s.timer_set EXCEPT ![t] = TRUE]
    BY <1>1, <1>6, <2>1
  <2>6. /\ HeapOK(r.heap) /\ r.heap.last = k.last + 1 /\ r.heap.max_num = max_timers
        /\ r.heap.key = k.key /\ InHeap(r.heap) = InHeap(k) \cup {t}
        /\ Ordered(k) => Ordered(r.heap)
    BY <2>1, <2>3, <2>4, <2>5, MinheapInsertOK
  <2>7. InHeap(r.heap) = InHeap(s.heap) \cup {t}
    BY <2>1, <2>4, <2>6
  <2>8. HoldsSet(r)
    BY <1>4, <2>5, <2>6, <2>7 DEF HoldsSet
  <2>9. r.heap.key = [s.heap.key EXCEPT ![t] = r.heap.key[t]]
    BY <1>4, <2>4, <2>6
  <2>10. ASSUME Ordered(s.heap),
                t \in InHeap(s.heap) /\ r.heap.key[t] # s.heap.key[t] => Fits(s.heap, s.heap.index[t])
         PROVE  Ordered(r.heap)
    <3>1. r.heap.key[t] = key
      BY <1>4, <2>4, <2>6
    <3>2. s.timer_set[t] => Fits(s.heap, s.heap.index[t])
      BY <1>3, <1>6, <1>7, <2>10, <3>1
    <3> QED BY <2>1, <2>4, <2>6, <2>10, <3>2
  <2> QED BY <2>5, <2>7, <2>8, <2>9, <2>10 DEF Added
<1> QED BY <1>5, <1>6


-----------------------------------------------------------------------------
(* The inductive invariant. Before the heap exists only the cleaner's timer  *)
(* can be set, and it is in no heap; from then on the heap has room for the  *)
(* timers of all connections, and the cleaner's is set, so that it is never  *)
(* inserted.                                                                 *)
TimerIInv ==
    /\ TimerTypeOK /\ HeapTimersOK
    /\ pc \in {"start", "loop"}
    /\ \A p \in 0 .. heap.last - 1 : heap.node[p] \in Timers
    /\ pc = "start" => /\ heap.last = 0 /\ heap.max_num = 0
                       /\ \A t \in Timers : timer_set[t] => t = Cleaner
    /\ pc = "loop"  => heap.max_num = max_timers /\ timer_set[Cleaner]

\* What a step does to the order of the heap.
OrderStep ==
    Ordered(heap) /\ (\A t \in Timers : Leaves(t) => Fits(heap, heap.index[t])) => Ordered(heap')

LEMMA InLoop ==
    TimerIInv /\ pc = "loop" => HoldsSet(State)
BY DEF TimerIInv, TimerTypeOK, HeapTimersOK, HoldsSet, HeapOK, Placed, State

LEMMA StillInLoop ==
    ASSUME TimerIInv, pc = "loop", NEW r, HoldsSet(r), Become(r), UNCHANGED <<now, pc>>,
           r.timer_set[Cleaner]
    PROVE  TimerIInv'
<1>1. heap' = r.heap /\ timer_set' = r.timer_set /\ now' = now /\ pc' = "loop"
  BY DEF Become
<1>2. now \in 0 .. MaxNow
  BY DEF TimerIInv, TimerTypeOK
<1>3. /\ r.heap \in HeapType /\ r.timer_set \in [Timers -> BOOLEAN] /\ r.heap.max_num = max_timers
      /\ \A p \in 0 .. r.heap.last - 1 : r.heap.node[p] \in Timers /\ r.heap.index[r.heap.node[p]] = p
      /\ InHeap(r.heap) = {t \in Timers \ {Cleaner} : r.timer_set[t]}
  BY DEF HoldsSet, HeapOK, Placed
<1>4. TimerTypeOK'
  BY <1>1, <1>2, <1>3 DEF TimerTypeOK, Handling
<1>5. HeapTimersOK'
  BY <1>1, <1>3 DEF HeapTimersOK, InHeap
<1> QED BY <1>1, <1>3, <1>4, <1>5 DEF TimerIInv

LEMMA AddStep ==
    ASSUME TimerIInv, NEW t \in Timers, NEW d \in Delays, Add(t, d)
    PROVE  /\ TimerIInv' /\ OrderStep
           /\ InHeap(heap') = InHeap(heap) \cup {t}
           /\ heap'.key = [heap.key EXCEPT ![t] = heap'.key[t]]
<1> DEFINE r == AddTimer(State, t, d)
<1>1. pc = "loop" /\ t \in Timers \ {Cleaner} /\ Become(r) /\ UNCHANGED <<now, pc>>
  BY DEF Add, Handling, TimerIInv
<1>2. HoldsSet(State) /\ now \in Nat /\ d \in Nat /\ State.timer_set[Cleaner]
      /\ State.heap = heap /\ State.timer_set = timer_set
  BY <1>1, InLoop DEF TimerIInv, TimerTypeOK, State
<1> DEFINE s == State
<1>3. s = State
  OBVIOUS
<1>4. r = AddTimer(s, t, d)
  OBVIOUS
<1> HIDE DEF r, s
<1>5. Added(r, s, t)
  <2>1. HoldsSet(s) /\ t \in Timers \ {Cleaner} /\ now \in Nat /\ d \in Nat
    BY <1>1, <1>2, <1>3
  <2> QED BY <1>4, <2>1, AddTimerOK
<1>6. r.timer_set[Cleaner]
  BY <1>1, <1>2, <1>3, <1>5 DEF Added, HoldsSet
<1>7. TimerIInv'
  BY <1>1, <1>5, <1>6, StillInLoop DEF Added
<1>8. OrderStep
  BY <1>1, <1>2, <1>3, <1>5 DEF Added, Become, OrderStep, Leaves
<1> QED BY <1>1, <1>2, <1>3, <1>5, <1>7, <1>8 DEF Added, Become

LEMMA DelStep ==
    ASSUME TimerIInv, NEW t \in Timers, Del(t)
    PROVE  /\ TimerIInv' /\ OrderStep
           /\ t \in InHeap(heap) /\ InHeap(heap') = InHeap(heap) \ {t}
           /\ heap'.key = heap.key
<1> DEFINE r == DelTimer(State, t)
           s == State
<1>1. pc = "loop" /\ t \in Timers \ {Cleaner} /\ Become(r) /\ UNCHANGED <<now, pc>> /\ timer_set[t]
  BY DEF Del, Handling, TimerIInv
<1>2. HoldsSet(s) /\ s.timer_set[Cleaner] /\ s.heap = heap /\ s.timer_set = timer_set
  BY <1>1, InLoop DEF TimerIInv, State
<1>3. r = DelTimer(s, t)
  OBVIOUS
<1> HIDE DEF r, s
<1>4. /\ HoldsSet(r) /\ r.timer_set = [s.timer_set EXCEPT ![t] = FALSE]
      /\ r.heap.key = s.heap.key /\ r.heap.last = s.heap.last - 1
      /\ InHeap(r.heap) = InHeap(s.heap) \ {t}
      /\ Ordered(s.heap) /\ Fits(s.heap, s.heap.index[t]) => Ordered(r.heap)
  BY <1>1, <1>2, <1>3, DelTimerOK
<1>5. r.timer_set[Cleaner]
  BY <1>1, <1>2, <1>4 DEF HoldsSet
<1>6. TimerIInv'
  BY <1>1, <1>4, <1>5, StillInLoop
<1>7. t \in InHeap(s.heap)
  BY <1>1, <1>2 DEF HoldsSet
<1>8. OrderStep
  BY <1>1, <1>2, <1>4, <1>7 DEF Become, OrderStep, Leaves
<1> QED BY <1>1, <1>2, <1>4, <1>6, <1>7, <1>8 DEF Become

\* Before the loop: nothing is in the heap, and nothing gets there.
LEMMA StartStep ==
    ASSUME TimerIInv, SetCleaner \/ TimerInit
    PROVE  /\ TimerIInv' /\ OrderStep
           /\ InHeap(heap) = {} /\ InHeap(heap') = {}
<1>1. /\ pc = "start" /\ heap.last = 0 /\ heap.max_num = 0 /\ heap \in HeapType
      /\ \A t \in Timers : timer_set[t] => t = Cleaner
      /\ timer_set \in [Timers -> BOOLEAN] /\ now \in 0 .. MaxNow
  BY DEF TimerIInv, TimerTypeOK, SetCleaner, TimerInit
<1>2. CASE SetCleaner
  <2>1. PICK d \in Delays : Become(AddTimer(State, Cleaner, d))
    BY <1>2 DEF SetCleaner
  <2>2. ~ timer_set[Cleaner] /\ UNCHANGED <<now, pc>> /\ now + d \in Nat
    BY <1>1, <1>2 DEF SetCleaner
  <2> DEFINE k == Rekeyed(heap, Cleaner, now + d)
  <2>3. k \in HeapType /\ k.last = 0 /\ k.max_num = 0
    BY <1>1, <2>2 DEF Rekeyed, HeapType
  <2>4. AddTimer(State, Cleaner, d) = [heap |-> MinheapInsert(k, Cleaner),
                                       timer_set |-> [timer_set EXCEPT ![Cleaner] = TRUE]]
    BY <2>2 DEF AddTimer, State, Rekeyed
  <2>5. MinheapInsert(k, Cleaner) = k
    <3> HIDE DEF k
    <3> QED BY <2>3 DEF MinheapInsert
  <2>6. heap' = k /\ timer_set' = [timer_set EXCEPT ![Cleaner] = TRUE]
    BY <2>1, <2>4, <2>5 DEF Become
  <2> HIDE DEF k
  <2>7. heap'.last = 0 /\ pc' = "start" /\ now' = now
    BY <1>1, <2>2, <2>3, <2>6
  <2>8. InHeap(heap) = {} /\ InHeap(heap') = {}
    BY <1>1, <2>7 DEF InHeap
  <2>9. TimerIInv'
    BY <1>1, <2>3, <2>6, <2>7 DEF TimerIInv, TimerTypeOK, HeapTimersOK
  <2> QED BY <2>7, <2>8, <2>9 DEF OrderStep, Ordered
<1>3. CASE TimerInit
  <2>1. /\ heap' = [heap EXCEPT !.last = 0, !.max_num = max_timers] /\ pc' = "loop"
        /\ timer_set[Cleaner] /\ timer_set' = timer_set /\ now' = now
    BY <1>3 DEF TimerInit, MinheapInit
  <2>2. heap' \in HeapType /\ heap'.last = 0 /\ heap'.max_num = max_timers
    <3>1. 0 \in 0 .. max_timers /\ max_timers \in 0 .. max_timers
      BY DEF max_timers
    <3> QED BY <1>1, <2>1, <3>1 DEF HeapType
  <2>3. InHeap(heap) = {} /\ InHeap(heap') = {}
    BY <1>1, <2>2 DEF InHeap
  <2>4. TimerIInv'
    BY <1>1, <2>1, <2>2, <2>3 DEF TimerIInv, TimerTypeOK, HeapTimersOK, Handling
  <2> QED BY <2>2, <2>3, <2>4 DEF OrderStep, Ordered
<1> QED BY <1>2, <1>3

LEMMA StillStep ==
    TimerIInv /\ UNCHANGED vars => TimerIInv' /\ OrderStep /\ UNCHANGED DueTimes
BY DEF TimerIInv, TimerTypeOK, HeapTimersOK, InHeap, OrderStep, Ordered, vars, DueTimes

LEMMA TimerStep ==
    TimerIInv /\ [ApiNext]_vars => TimerIInv' /\ OrderStep
BY AddStep, DelStep, StartStep, StillStep DEF ApiNext

LEMMA TimerStart == Init => TimerIInv
<1> SUFFICES ASSUME Init PROVE TimerIInv
  OBVIOUS
<1>1. /\ NoHeap \in HeapType /\ NoHeap.last = 0 /\ NoHeap.max_num = 0
  <2>1. 0 \in 0 .. max_timers
    BY DEF max_timers
  <2> QED BY <2>1 DEF NoHeap, HeapType
<1> QED BY <1>1 DEF Init, TimerIInv, TimerTypeOK, HeapTimersOK

-----------------------------------------------------------------------------
(* While timers are set and deleted, the invariant holds after every call.   *)
THEOREM TimerInvariant == ApiSpec => []TimerIInv
<1>1. TimerIInv /\ [ApiNext]_vars => TimerIInv'
  BY TimerStep
<1> QED BY <1>1, TimerStart, PTL DEF ApiSpec

(* No place is beyond the array of spy_minheap_init and no counter leaves    *)
(* its range, for any number of connections the array is large enough for.   *)
THEOREM TimerTypes == ApiSpec => []TimerTypeOK
<1>1. TimerIInv => TimerTypeOK
  BY DEF TimerIInv
<1> QED BY <1>1, TimerInvariant, PTL

(* The heap holds the timers that are set, each once and at the place it     *)
(* knows: spy_event_del_timer, which deletes by that place, deletes the      *)
(* timer it is called for.                                                   *)
THEOREM HeapHoldsTimersSet == ApiSpec => []HeapTimersOK
<1>1. TimerIInv => HeapTimersOK
  BY DEF TimerIInv
<1> QED BY <1>1, TimerInvariant, PTL

(* Timers that are set, moved or deleted keep a heap in order, at whatever   *)
(* place they are, as long as the timer that takes their place may be below  *)
(* the one above it: the sifts of spy_minheap_insert and spy_minheap_delete  *)
(* are right in the directions they go.                                      *)
THEOREM SiftsKeepOrder == ApiSpec => OrderKept
<1>1. TimerIInv /\ [ApiNext]_vars => [OrderStep]_vars
  BY TimerStep
<1> QED BY <1>1, TimerInvariant, PTL DEF ApiSpec, OrderKept, OrderStep

(* The timers act as a set of timers: each call of spy_event_add_timer and   *)
(* spy_event_del_timer acts on its own timer and on no other.                *)
THEOREM TimersImplementTimerSet == ApiSpec => ImplementsTimerSet
<1>1. Init => AbstractTimers!Init
  BY TimerStart DEF Init, NoHeap, InHeap, DueTimes, AbstractTimers!Init
<1>2. TimerIInv => /\ heap.key \in [Timers -> Nat] /\ InHeap(heap) \subseteq Timers
                   /\ DueTimes \in [Timers -> Nat \cup {-1}]
  BY DEF TimerIInv, TimerTypeOK, HeapType, InHeap, DueTimes
<1>3. ASSUME TimerIInv, [ApiNext]_vars, TimerIInv'
      PROVE  [AbstractTimers!Next]_DueTimes
  <2>1. CASE UNCHANGED vars
    BY <1>3, <2>1, StillStep
  <2>2. CASE SetCleaner \/ TimerInit
    BY <1>3, <2>2, StartStep DEF DueTimes
  <2>3. ASSUME NEW t \in Timers, NEW d \in Delays, Add(t, d)
        PROVE  AbstractTimers!SetTimer(t)
    <3>1. /\ InHeap(heap') = InHeap(heap) \cup {t}
          /\ heap'.key = [heap.key EXCEPT ![t] = heap'.key[t]] /\ heap'.key[t] \in Nat
      <4>1. heap' \in HeapType
        BY <1>3 DEF TimerIInv, TimerTypeOK
      <4> QED BY <1>3, <2>3, <4>1, AddStep DEF HeapType
    <3>2. DueTimes' = [DueTimes EXCEPT ![t] = DueTimes'[t]]
      BY <1>2, <1>3, <3>1 DEF DueTimes
    <3>3. DueTimes'[t] \in Nat
      BY <3>1 DEF DueTimes
    <3> QED BY <3>2, <3>3 DEF AbstractTimers!SetTimer
  <2>4. ASSUME NEW t \in Timers, Del(t)
        PROVE  AbstractTimers!Cancel(t)
    <3>1. t \in InHeap(heap) /\ InHeap(heap') = InHeap(heap) \ {t} /\ heap'.key = heap.key
      BY <1>3, <2>4, DelStep
    <3>2. DueTimes' = [DueTimes EXCEPT ![t] = -1]
      BY <3>1 DEF DueTimes
    <3>3. DueTimes[t] # -1
      BY <1>2, <1>3, <3>1 DEF DueTimes
    <3> QED BY <3>2, <3>3 DEF AbstractTimers!Cancel
  <2> QED BY <1>3, <2>1, <2>2, <2>3, <2>4 DEF ApiNext, AbstractTimers!Next
<1>4. TimerIInv /\ [ApiNext]_vars => TimerIInv'
  BY TimerStep
<1> QED BY <1>1, <1>3, <1>4, TimerInvariant, PTL DEF ApiSpec, ImplementsTimerSet, AbstractTimers!Spec
=============================================================================
